-------------------------- MODULE ProcessorProofs ---------------------------
(***************************************************************************)
(* What the processor is told to do.  The probes of Mmu are exact for every*)
(* size and number of sections; what is executed is what was written, for  *)
(* every size of memory and of cache lines and every kind of cache; and the*)
(* exception entry keeps every register of what it interrupts.             *)
(***************************************************************************)
EXTENDS Mmu, Caches, ContextSwitch, SequenceTheorems, TLAPS

-----------------------------------------------------------------------------
(***************************************************************************)
(* Multiples of the section size, and the section of an address.           *)
(***************************************************************************)
LEMMA SizesAreNumbers ==
  /\ SectionSize \in Nat /\ SectionSize >= 1 /\ Sections \in Nat /\ Sections >= 2
  /\ Memory \in Nat /\ Memory >= 2 * SectionSize /\ Addr = 0 .. Memory - 1
<1>1. SectionSize \in Nat /\ SectionSize >= 1 /\ Sections \in Nat /\ Sections >= 2
  BY MmuAssumption, SMT
<1>2. SectionSize * Sections >= 2 * SectionSize
  BY <1>1, SMT
<1> QED
  BY <1>1, <1>2, SMT DEF Memory, Addr

LEMMA Multiples ==
  ASSUME NEW x \in Int, NEW y \in Int
  PROVE  /\ SectionSize * x \in Int
         /\ SectionSize * (x + 1) = SectionSize * x + SectionSize
         /\ SectionSize * (x + y) = SectionSize * x + SectionSize * y
         /\ x <= y => SectionSize * x <= SectionSize * y
         /\ x < y  => SectionSize * x + SectionSize <= SectionSize * y
BY SizesAreNumbers, SMT

LEMMA SectionOfAddress ==
  ASSUME NEW a \in Nat
  PROVE  /\ a \div SectionSize \in Nat
         /\ SectionSize * (a \div SectionSize) <= a
         /\ a < SectionSize * (a \div SectionSize) + SectionSize
         /\ a % SectionSize = a - SectionSize * (a \div SectionSize)
BY SizesAreNumbers, SMT

LEMMA SectionIsUnique ==
  ASSUME NEW a \in Nat, NEW k \in Int, SectionSize * k <= a, a < SectionSize * k + SectionSize
  PROVE  a \div SectionSize = k
<1> DEFINE q == a \div SectionSize
<1>1. q \in Nat /\ SectionSize * q <= a /\ a < SectionSize * q + SectionSize
  BY SectionOfAddress
<1> HIDE DEF q
<1>2. ~(q < k)
  BY <1>1, Multiples, SizesAreNumbers, SMT
<1>3. ~(k < q)
  BY <1>1, Multiples, SizesAreNumbers, SMT
<1>4. q = k
  BY <1>1, <1>2, <1>3, SMT
<1> QED
  BY <1>4 DEF q

LEMMA SectionInTable ==
  ASSUME NEW a \in Nat
  PROVE  a < Memory <=> a \div SectionSize < Sections
<1> DEFINE q == a \div SectionSize
<1>1. q \in Nat /\ SectionSize * q <= a /\ a < SectionSize * q + SectionSize
  BY SectionOfAddress
<1> HIDE DEF q
<1>2. q < Sections => SectionSize * q + SectionSize <= SectionSize * Sections
  BY <1>1, Multiples, SizesAreNumbers
<1>3. Sections <= q => SectionSize * Sections <= SectionSize * q
  BY <1>1, Multiples, SizesAreNumbers
<1>4. a < Memory <=> q < Sections
  BY <1>1, <1>2, <1>3, SizesAreNumbers, Multiples, SMT DEF Memory
<1> QED
  BY <1>4 DEF q

-----------------------------------------------------------------------------
(***************************************************************************)
(* What is left of the first section, and how many there are.              *)
(***************************************************************************)
LEMMA ModuloMemory ==
  /\ \A x \in 0 .. Memory - 1 : x % Memory = x
  /\ Memory % Memory = 0
  /\ \A x \in 1 .. Memory : (0 - x) % Memory = Memory - x
BY SizesAreNumbers, SMT

LEMMA RestOfFirstSection ==
  ASSUME NEW a \in Addr
  PROVE  FirstPart(a) = SectionSize - (a % SectionSize)
<1> DEFINE q == a \div SectionSize
<1>0. a \in Nat /\ a < Memory
  BY SizesAreNumbers, SMT
<1>1. /\ q \in Nat /\ SectionSize * q <= a /\ a < SectionSize * q + SectionSize
      /\ a % SectionSize = a - SectionSize * q /\ q < Sections
  BY <1>0, SectionOfAddress, SectionInTable
<1>2. (a + SectionSize) \div SectionSize = q + 1
  <2>1. SectionSize * (q + 1) = SectionSize * q + SectionSize /\ SectionSize * q \in Int
    BY <1>1, Multiples, SMT
  <2>2. SectionSize * (q + 1) <= a + SectionSize /\ a + SectionSize < SectionSize * (q + 1) + SectionSize
    BY <1>0, <1>1, <2>1, SizesAreNumbers, SMT
  <2>3. a + SectionSize \in Nat /\ q + 1 \in Int
    BY <1>0, <1>1, SizesAreNumbers, SMT
  <2> HIDE DEF q
  <2> QED
    BY <2>2, <2>3, SectionIsUnique
<1> HIDE DEF q
<1>3. (q + 1) * SectionSize = SectionSize * q + SectionSize
  BY <1>1, SizesAreNumbers, SMT
<1>4. SectionSize * q \in Nat
  BY <1>1, SizesAreNumbers, SMT
<1> DEFINE low == SectionSize * q
<1>5. section_end(a) = (low + SectionSize) % Memory
  BY <1>2, <1>3 DEF section_end
<1>6. low + SectionSize <= Memory
  BY <1>1, Multiples, SizesAreNumbers DEF Memory
<1> HIDE DEF low
<1>7. low \in Nat /\ low <= a /\ a < low + SectionSize /\ a % SectionSize = a - low
  BY <1>1, <1>4 DEF low
<1>8. CASE low + SectionSize < Memory
  <2>0. low + SectionSize \in 0 .. Memory - 1
    BY <1>7, <1>8, SizesAreNumbers, SMT
  <2>1. section_end(a) = low + SectionSize
    BY <1>5, <2>0, ModuloMemory
  <2>2. (low + SectionSize) - a \in 0 .. Memory - 1
    BY <1>0, <1>7, <1>8, SizesAreNumbers, SMT
  <2>3. FirstPart(a) = (low + SectionSize) - a
    BY <2>1, <2>2, ModuloMemory DEF FirstPart
  <2> QED
    BY <1>0, <1>7, <2>3, SizesAreNumbers, SMT
<1>9. CASE low + SectionSize = Memory
  <2>1. section_end(a) = 0
    BY <1>5, <1>9, ModuloMemory
  <2>2. a \in 1 .. Memory
    BY <1>0, <1>7, <1>9, SizesAreNumbers, SMT
  <2>3. FirstPart(a) = Memory - a
    BY <2>1, <2>2, ModuloMemory DEF FirstPart
  <2> QED
    BY <1>0, <1>7, <1>9, <2>3, SizesAreNumbers, SMT
<1> QED
  BY <1>6, <1>7, <1>8, <1>9, SizesAreNumbers, SMT

LEMMA SectionsFromRoundsUp ==
  ASSUME NEW length \in Nat
  PROVE  /\ SectionsFrom(length) \in Nat
         /\ length <= SectionSize * SectionsFrom(length)
         /\ SectionSize * SectionsFrom(length) < length + SectionSize
         /\ length > 0 => SectionsFrom(length) > 0
         /\ length = 0 => SectionsFrom(length) = 0
<1> DEFINE q == length \div SectionSize
<1>1. /\ q \in Nat /\ SectionSize * q <= length /\ length < SectionSize * q + SectionSize
      /\ length % SectionSize = length - SectionSize * q
  BY SectionOfAddress
<1>2. SectionsFrom(length) = IF length % SectionSize # 0 THEN q + 1 ELSE q
  BY <1>1, SMT DEF SectionsFrom
<1> HIDE DEF q
<1>3. SectionSize * (q + 1) = SectionSize * q + SectionSize /\ SectionSize * q \in Int
  BY <1>1, Multiples, SMT
<1>4. q = 0 => SectionSize * q = 0
  BY SizesAreNumbers, SMT
<1>5. q > 0 => SectionSize <= SectionSize * q
  BY <1>1, SizesAreNumbers, SMT
<1>6. CASE length % SectionSize # 0
  BY <1>1, <1>2, <1>3, <1>4, <1>5, <1>6, SizesAreNumbers, SMT
<1>7. CASE length % SectionSize = 0
  BY <1>1, <1>2, <1>3, <1>4, <1>5, <1>7, SizesAreNumbers, SMT
<1> QED
  BY <1>6, <1>7

(* With r the offset in the first section: the sections but the last do    *)
(* not reach the end of the range, and all of them do.                     *)
LEMMA NumberOfSections ==
  ASSUME NEW a \in Addr, NEW length \in Addr
  PROVE  LET n == sections_nr(a, length)
         IN /\ n \in Nat
            /\ length = 0 => n = 0
            /\ length > 0 => /\ n > 0
                             /\ (a % SectionSize) + length <= SectionSize * n
                             /\ SectionSize * n < (a % SectionSize) + length + SectionSize
<1> DEFINE r    == a % SectionSize
           more == SectionsFrom(length - (SectionSize - r))
           one  == SectionsFrom(length)
<1>1. a \in Nat /\ length \in Nat
  BY SizesAreNumbers, SMT
<1>2. r \in 0 .. SectionSize - 1
  BY <1>1, SizesAreNumbers, SMT
<1>3. sections_nr(a, length) = IF length > SectionSize - r THEN 1 + more ELSE one
  BY RestOfFirstSection DEF sections_nr
<1>4. CASE length > SectionSize - r
  <2>1. length - (SectionSize - r) \in Nat /\ length - (SectionSize - r) > 0
    BY <1>1, <1>2, <1>4, SizesAreNumbers, SMT
  <2>2. /\ more \in Nat /\ more > 0 /\ length - (SectionSize - r) <= SectionSize * more
        /\ SectionSize * more < length - (SectionSize - r) + SectionSize
    BY <2>1, SectionsFromRoundsUp
  <2> HIDE DEF more, r
  <2>3. SectionSize * (1 + more) = SectionSize * more + SectionSize /\ SectionSize * more \in Int
    BY <2>2, SizesAreNumbers, SMT
  <2>4. /\ 1 + more \in Nat /\ length # 0 /\ r + length <= SectionSize * (1 + more)
        /\ 1 + more > 0 /\ SectionSize * (1 + more) < r + length + SectionSize
    BY <1>1, <1>2, <1>4, <2>2, <2>3, SizesAreNumbers, SMT
  <2> QED
    BY <1>3, <1>4, <2>4 DEF r
<1>5. CASE ~(length > SectionSize - r)
  <2>1. /\ one \in Nat /\ length <= SectionSize * one
        /\ SectionSize * one < length + SectionSize
        /\ length > 0 => one > 0
        /\ length = 0 => one = 0
    BY <1>1, SectionsFromRoundsUp
  <2> HIDE DEF one, r
  <2>2. one > 1 => SectionSize * one >= 2 * SectionSize
    BY <2>1, SizesAreNumbers, SMT
  <2>3. one = 1 => SectionSize * one = SectionSize
    BY SizesAreNumbers, SMT
  <2>5. length > 0 => one = 1
    BY <1>1, <1>2, <1>5, <2>1, <2>2, SizesAreNumbers, SMT
  <2>6. length > 0 => r + length <= SectionSize * one /\ SectionSize * one < r + length + SectionSize
    BY <1>1, <1>2, <1>5, <2>3, <2>5, SizesAreNumbers, SMT
  <2> QED
    BY <1>1, <1>3, <1>5, <2>1, <2>5, <2>6 DEF r
<1> QED
  BY <1>4, <1>5

-----------------------------------------------------------------------------
(***************************************************************************)
(* The sections that are looked at are those of the bytes of the range.    *)
(***************************************************************************)
Touched(a, length) == {b \in Nat : a <= b /\ b < a + length /\ b < Memory}

LEMMA EveryByteIsLookedAt ==
  ASSUME NEW a \in Addr, NEW length \in Addr, NEW b \in Touched(a, length)
  PROVE  \E i \in 0 .. sections_nr(a, length) - 1 :
           \A junk : Section(a, i, junk) = SectionOf(b)
<1> DEFINE n == sections_nr(a, length)
           q == a \div SectionSize
           p == b \div SectionSize
<1>0. /\ a \in Nat /\ length \in Nat /\ b \in Nat /\ length > 0
      /\ a <= b /\ b < a + length /\ b < Memory
  BY SizesAreNumbers, SMT DEF Touched
<1>1. /\ n \in Nat /\ n > 0 /\ (a % SectionSize) + length <= SectionSize * n
  BY <1>0, NumberOfSections
<1>2. /\ q \in Nat /\ SectionSize * q <= a /\ a < SectionSize * q + SectionSize
      /\ a % SectionSize = a - SectionSize * q
  BY <1>0, SectionOfAddress
<1>3. /\ p \in Nat /\ SectionSize * p <= b /\ b < SectionSize * p + SectionSize
      /\ p < Sections
  BY <1>0, SectionOfAddress, SectionInTable
<1>4. SectionOf(b) = translation_table[p]
  BY DEF SectionOf
<1>5. \A i, junk : Section(a, i, junk) = Entry(q + i, junk)
  BY DEF Section
<1> HIDE DEF n, q, p
<1>6. SectionSize * (q + n) = SectionSize * q + SectionSize * n
      /\ SectionSize * q \in Int /\ SectionSize * n \in Int /\ SectionSize * p \in Int
  BY <1>1, <1>2, <1>3, SizesAreNumbers, SMT
<1>7. ~(p < q)
  <2>1. p < q => SectionSize * p + SectionSize <= SectionSize * q
    BY <1>2, <1>3, Multiples
  <2> QED
    BY <1>0, <1>2, <1>3, <1>6, <2>1, SizesAreNumbers, SMT
<1>8. ~(q + n <= p)
  <2>1. q + n <= p => SectionSize * (q + n) <= SectionSize * p
    <3>1. q + n \in Int /\ p \in Int
      BY <1>1, <1>2, <1>3, SMT
    <3> QED
      BY <3>1, Multiples
  <2> QED
    BY <1>0, <1>1, <1>2, <1>3, <1>6, <2>1, SizesAreNumbers, SMT
<1>9. p - q \in 0 .. n - 1 /\ q + (p - q) = p
  BY <1>1, <1>2, <1>3, <1>7, <1>8, SMT
<1>10. \A junk : Section(a, p - q, junk) = SectionOf(b)
  BY <1>3, <1>4, <1>5, <1>9 DEF Entry
<1> QED
  BY <1>9, <1>10 DEF n

LEMMA OnlyBytesAreLookedAt ==
  ASSUME NEW a \in Addr, NEW length \in Addr, a + length <= Memory,
         NEW i \in 0 .. sections_nr(a, length) - 1
  PROVE  \E b \in Touched(a, length) : \A junk : Section(a, i, junk) = SectionOf(b)
<1> DEFINE n == sections_nr(a, length)
           q == a \div SectionSize
           b == IF i = 0 THEN a ELSE SectionSize * (q + i)
<1>0. a \in Nat /\ length \in Nat /\ a < Memory
  BY SizesAreNumbers, SMT
<1>1. n \in Nat /\ (length = 0 => n = 0)
      /\ (length > 0 => SectionSize * n < (a % SectionSize) + length + SectionSize)
  BY NumberOfSections
<1>2. /\ q \in Nat /\ SectionSize * q <= a /\ a < SectionSize * q + SectionSize
      /\ a % SectionSize = a - SectionSize * q
  BY <1>0, SectionOfAddress
<1>3. \A junk : Section(a, i, junk) = Entry(q + i, junk)
  BY DEF Section
<1>4. \A c : SectionOf(c) = translation_table[c \div SectionSize]
  BY DEF SectionOf
<1>5. i \in 0 .. n - 1
  OBVIOUS
<1> HIDE DEF n, q
<1>6. /\ SectionSize * (q + i) = SectionSize * q + SectionSize * i
      /\ SectionSize * q \in Int /\ SectionSize * n \in Int /\ SectionSize * i \in Int
  BY <1>1, <1>2, <1>5, SizesAreNumbers, SMT
<1>7. SectionSize * i + SectionSize <= SectionSize * n
  BY <1>1, <1>5, Multiples, SMT
<1>8. i > 0 => SectionSize <= SectionSize * i
  BY <1>5, SizesAreNumbers, SMT
<1>9. b \in Touched(a, length) /\ SectionSize * (q + i) <= b /\ b < SectionSize * (q + i) + SectionSize
  <2>1. length > 0
    BY <1>0, <1>1, <1>5, SMT
  <2>2. CASE i = 0
    <3>1. SectionSize * (q + i) = SectionSize * q
      BY <1>2, <2>2, SMT
    <3> QED
      BY <1>0, <1>2, <2>1, <2>2, <3>1, SMT DEF Touched
  <2>3. CASE i # 0
    <3>1. b = SectionSize * q + SectionSize * i
      BY <1>6, <2>3
    <3> HIDE DEF b
    <3>2. b \in Nat /\ a <= b /\ b < a + length
      BY <1>0, <1>1, <1>2, <1>5, <1>6, <1>7, <1>8, <2>1, <2>3, <3>1, SizesAreNumbers, SMT
    <3>3. b < Memory
      BY <1>0, <3>2, SizesAreNumbers, SMT
    <3> QED
      BY <1>6, <3>1, <3>2, <3>3, SizesAreNumbers, SMT DEF Touched
  <2> QED
    BY <2>2, <2>3
<1> HIDE DEF b
<1>10. b \in Nat /\ b < Memory
  BY <1>9 DEF Touched
<1>11. q + i \in Int
  BY <1>1, <1>2, <1>5, SMT
<1>12. b \div SectionSize = q + i /\ q + i < Sections
  BY <1>9, <1>10, <1>11, SectionIsUnique, SectionInTable
<1>13. \A junk : Section(a, i, junk) = SectionOf(b)
  BY <1>3, <1>4, <1>12 DEF Entry
<1> QED
  BY <1>9, <1>13

-----------------------------------------------------------------------------
(***************************************************************************)
(* What the two probes find out, and the invariant.                        *)
(***************************************************************************)
LEMMA ReadProbeLooksAtRange ==
  ASSUME NEW a \in Addr, NEW length \in Addr, NEW junk
  PROVE  /\ mmu_probe_read(a, length, junk) =>
              \A b \in Touched(a, length) : Readable(SectionOf(b))
         /\ /\ a + length <= Memory
            /\ \A b \in Touched(a, length) : Readable(SectionOf(b))
            => mmu_probe_read(a, length, junk)
<1>1. ASSUME mmu_probe_read(a, length, junk), NEW b \in Touched(a, length)
      PROVE  Readable(SectionOf(b))
  BY <1>1, EveryByteIsLookedAt DEF mmu_probe_read
<1>2. ASSUME a + length <= Memory, \A b \in Touched(a, length) : Readable(SectionOf(b))
      PROVE  mmu_probe_read(a, length, junk)
  BY <1>2, OnlyBytesAreLookedAt DEF mmu_probe_read
<1> QED
  BY <1>1, <1>2

LEMMA WriteProbeLooksAtRange ==
  ASSUME NEW a \in Addr, NEW length \in Addr, NEW junk
  PROVE  /\ mmu_probe_write(a, length, junk) =>
              \A b \in Touched(a, length) : Writable(SectionOf(b))
         /\ /\ a + length <= Memory
            /\ \A b \in Touched(a, length) : Writable(SectionOf(b))
            => mmu_probe_write(a, length, junk)
<1>1. ASSUME mmu_probe_write(a, length, junk), NEW b \in Touched(a, length)
      PROVE  Writable(SectionOf(b))
  BY <1>1, EveryByteIsLookedAt DEF mmu_probe_write
<1>2. ASSUME a + length <= Memory, \A b \in Touched(a, length) : Writable(SectionOf(b))
      PROVE  mmu_probe_write(a, length, junk)
  BY <1>2, OnlyBytesAreLookedAt DEF mmu_probe_write
<1> QED
  BY <1>1, <1>2

(* The properties together are inductive: they speak of the last probe,    *)
(* and there is one.                                                       *)
MmuInv == MmuTypeOK /\ ProbeReadExact /\ ProbeWriteExact /\ WriteAbortsOnlyIfProtected

LEMMA MmuInvInit == MmuInit => MmuInv
<1> SUFFICES ASSUME MmuInit PROVE MmuInv
  OBVIOUS
<1>1. 0 \in Addr
  BY SizesAreNumbers, SMT
<1>2. NoProbe \in [op : {"none", "read", "probe write", "write"}, addr : Addr, length : Addr,
                   outcome : Outcome]
  BY <1>1 DEF NoProbe, Outcome
<1>3. probe.op = "none"
  BY DEF MmuInit, NoProbe
<1> QED
  BY <1>2, <1>3
     DEF MmuInit, MmuInv, MmuTypeOK, ProbeReadExact, ProbeWriteExact, WriteAbortsOnlyIfProtected

LEMMA TouchedIsRange ==
  ASSUME NEW a \in Addr, NEW length \in Addr
  PROVE  {b \in a .. a + length - 1 : b < Memory} = Touched(a, length)
<1>1. a \in Nat /\ length \in Nat
  BY SizesAreNumbers, SMT
<1> QED
  BY <1>1, SMT DEF Touched

LEMMA AfterProbe ==
  ASSUME MmuTypeOK, NEW op \in {"read", "probe write", "write"},
         NEW a \in Addr, NEW length \in Addr, NEW outcome \in {"done", "refused", "abort"},
         Asked(op, a, length, outcome)
  PROVE  /\ MmuTypeOK'
         /\ probe'.op = op /\ probe'.outcome = outcome
         /\ Below' = Touched(a, length)
         /\ probe'.addr = a /\ probe'.length = length
         /\ translation_table' = translation_table /\ protect' = protect
<1>1. [op |-> op, addr |-> a, length |-> length, outcome |-> outcome]
        \in [op : {"none", "read", "probe write", "write"}, addr : Addr, length : Addr,
             outcome : Outcome]
  BY DEF Outcome
<1>2. /\ probe' = [op |-> op, addr |-> a, length |-> length, outcome |-> outcome]
      /\ translation_table' = translation_table /\ protect' = protect
  BY DEF Asked
<1>3. Below' = {b \in a .. a + length - 1 : b < Memory}
  BY <1>2 DEF Below
<1>4. Below' = Touched(a, length)
  BY <1>3, TouchedIsRange
<1> QED
  BY <1>1, <1>2, <1>4 DEF MmuTypeOK

LEMMA MmuInvNext == MmuInv /\ [MmuNext]_mmuVars => MmuInv'
<1> SUFFICES ASSUME MmuInv, [MmuNext]_mmuVars PROVE MmuInv'
  OBVIOUS
<1>1. ASSUME NEW a \in Addr, NEW length \in Addr, NEW junk, ProbeRead(a, length, junk)
      PROVE  MmuInv'
  <2> DEFINE outcome == IF mmu_probe_read(a, length, junk) THEN "done" ELSE "refused"
  <2>1. outcome \in {"done", "refused", "abort"} /\ Asked("read", a, length, outcome)
    BY <1>1 DEF ProbeRead
  <2>2. (outcome = "done") <=> mmu_probe_read(a, length, junk)
    OBVIOUS
  <2> HIDE DEF outcome
  <2>3. /\ MmuTypeOK' /\ probe'.op = "read" /\ probe'.outcome = outcome
        /\ Below' = Touched(a, length)
        /\ probe'.addr = a /\ probe'.length = length
        /\ translation_table' = translation_table /\ protect' = protect
    BY <2>1, AfterProbe DEF MmuInv
  <2>4. ProbeReadExact'
    BY <2>2, <2>3, ReadProbeLooksAtRange DEF ProbeReadExact, Inside, Readable, SectionOf
  <2> QED
    BY <2>3, <2>4 DEF MmuInv, ProbeWriteExact, WriteAbortsOnlyIfProtected
<1>2. ASSUME NEW a \in Addr, NEW length \in Addr, NEW junk, ProbeWrite(a, length, junk)
      PROVE  MmuInv'
  <2> DEFINE outcome == IF mmu_probe_write(a, length, junk) THEN "done" ELSE "refused"
  <2>1. outcome \in {"done", "refused", "abort"} /\ Asked("probe write", a, length, outcome)
    BY <1>2 DEF ProbeWrite
  <2>2. (outcome = "done") <=> mmu_probe_write(a, length, junk)
    OBVIOUS
  <2> HIDE DEF outcome
  <2>3. /\ MmuTypeOK' /\ probe'.op = "probe write" /\ probe'.outcome = outcome
        /\ Below' = Touched(a, length)
        /\ probe'.addr = a /\ probe'.length = length
        /\ translation_table' = translation_table /\ protect' = protect
    BY <2>1, AfterProbe DEF MmuInv
  <2>4. ProbeWriteExact'
    BY <2>2, <2>3, WriteProbeLooksAtRange DEF ProbeWriteExact, Inside, Writable, SectionOf
  <2> QED
    BY <2>3, <2>4 DEF MmuInv, ProbeReadExact, WriteAbortsOnlyIfProtected
<1>3. ASSUME NEW a \in Addr, NEW length \in Addr, NEW junk, write_probed(a, length, junk)
      PROVE  MmuInv'
  <2> DEFINE outcome ==
        IF ~mmu_probe_read(a, length, junk) THEN "refused"
        ELSE IF \A b \in Bytes(a, length) : Writable(SectionOf(b)) THEN "done"
        ELSE "abort"
  <2>1. outcome \in {"done", "refused", "abort"} /\ Asked("write", a, length, outcome)
    BY <1>3 DEF write_probed
  <2>2. outcome = "abort" => /\ mmu_probe_read(a, length, junk)
                             /\ \E b \in Bytes(a, length) : ~Writable(SectionOf(b))
    OBVIOUS
  <2> HIDE DEF outcome
  <2>3. /\ MmuTypeOK' /\ probe'.op = "write" /\ probe'.outcome = outcome
        /\ probe'.addr = a /\ probe'.length = length /\ protect' = protect
    BY <2>1, AfterProbe DEF MmuInv
  <2>4. a + length <= Memory => Bytes(a, length) = Touched(a, length)
    <3>1. a \in Nat /\ length \in Nat /\ Memory \in Nat
      BY SizesAreNumbers, SMT
    <3>2. ASSUME a + length <= Memory, NEW k \in 0 .. length - 1
          PROVE  (a + k) % Memory = a + k /\ a + k \in Touched(a, length)
      <4>1. a + k \in 0 .. Memory - 1 /\ a + k \in Touched(a, length)
        BY <3>1, <3>2, SMT DEF Touched
      <4> QED
        BY <4>1, ModuloMemory
    <3>3. ASSUME NEW b \in Touched(a, length) PROVE b - a \in 0 .. length - 1 /\ a + (b - a) = b
      BY <3>1, <3>3, SMT DEF Touched
    <3> QED
      BY <3>2, <3>3 DEF Bytes
  <2>5. ASSUME outcome = "abort", a + length <= Memory PROVE protect
    <3>1. PICK b \in Touched(a, length) : ~Writable(SectionOf(b))
      BY <2>2, <2>4, <2>5
    <3>2. Readable(SectionOf(b))
      BY <2>2, <2>5, <3>1, ReadProbeLooksAtRange
    <3> QED
      BY <3>1, <3>2 DEF Readable, Writable
  <2>6. WriteAbortsOnlyIfProtected'
    BY <2>3, <2>5 DEF WriteAbortsOnlyIfProtected, Inside
  <2> QED
    BY <2>3, <2>6 DEF MmuInv, ProbeReadExact, ProbeWriteExact
<1>4. CASE UNCHANGED mmuVars
  BY <1>4 DEF mmuVars, MmuInv, MmuTypeOK, ProbeReadExact, ProbeWriteExact,
              WriteAbortsOnlyIfProtected, Below, Inside, Readable, Writable, SectionOf
<1> QED
  BY <1>1, <1>2, <1>3, <1>4 DEF MmuNext

(* The invariant of the page table and its probes.                         *)
THEOREM MmuInvariant == MmuSpec => []MmuInv
BY MmuInvInit, MmuInvNext, PTL DEF MmuSpec

(* cmd_read, cmd_write and insert_breakpoint may trust mmu_probe_read      *)
(* (mmu.c:221-252): it looks at the sections of the range, at all of them  *)
(* and, but for a range that runs around the end of memory, at no other.   *)
THEOREM ReadProbeIsExact == MmuSpec => []ProbeReadExact
BY MmuInvariant, PTL DEF MmuInv

(* The same of mmu_probe_write (mmu.c:259-297).                            *)
THEOREM WriteProbeIsExact == MmuSpec => []ProbeWriteExact
BY MmuInvariant, PTL DEF MmuInv

(* A write that has passed the wrong probe (dbg.c:321) still only faults   *)
(* when S or R protects sections or the range runs around.                 *)
THEOREM WritesAbortOnlyIfProtected == MmuSpec => []WriteAbortsOnlyIfProtected
BY MmuInvariant, PTL DEF MmuInv

-----------------------------------------------------------------------------
(***************************************************************************)
(* Lines of words.                                                         *)
(***************************************************************************)
LEMMA LineOfWord ==
  ASSUME NEW line \in Nat \ {0}, NEW a \in Nat, NEW l \in Int
  PROVE  /\ a \div line \in Nat
         /\ a \in l * line .. (l + 1) * line - 1 <=> a \div line = l
<1> DEFINE q == a \div line
<1>1. q \in Nat /\ line * q <= a /\ a < line * q + line
  BY SMT
<1> HIDE DEF q
<1>2. q < l => line * q + line <= line * l
  BY <1>1, SMT
<1>3. l < q => line * l + line <= line * q
  BY <1>1, SMT
<1>4. l * line = line * l /\ (l + 1) * line = line * l + line /\ line * l \in Int /\ line * q \in Int
  BY <1>1, SMT
<1>5. a \in l * line .. (l + 1) * line - 1 <=> line * l <= a /\ a < line * l + line
  BY <1>4, SMT
<1>6. q = l => line * q = line * l
  BY SMT
<1>7. a \in l * line .. (l + 1) * line - 1 <=> q = l
  BY <1>1, <1>2, <1>3, <1>4, <1>5, <1>6, SMT
<1> QED
  BY <1>1, <1>7 DEF q

(* A loop over the lines of a range comes to the line of a, or, when its   *)
(* range ends inside the last line, goes on for ever.                      *)
Covers(w, a, line) ==
  \/ w.end > Words - line /\ w.at < Words \div line
  \/ w.at <= a \div line /\ a < w.end

LEMMA LoopGoesOn ==
  ASSUME NEW line \in Nat \ {0}, Words \in Nat, Words % line = 0,
         NEW a \in Nat, a < Words, NEW k \in Nat, NEW end \in Nat,
         \/ end > Words - line /\ k < Words \div line
         \/ k <= a \div line /\ a < end
  PROVE  LET next == (k + 1) % (Words \div line)
         IN /\ k * line < end
            /\ \/ a \div line = k
               \/ end > Words - line /\ next < Words \div line
               \/ next <= a \div line /\ a < end
<1> DEFINE q == a \div line
           n == Words \div line
<1>1. q \in Nat /\ line * q <= a /\ a < line * q + line
  BY SMT
<1>2. n \in Int /\ Words = line * n
  BY SMT
<1> HIDE DEF q, n
<1>3. k * line = line * k /\ line * k \in Nat /\ line * q \in Nat /\ line * n \in Int
  BY <1>1, <1>2, SMT
<1>4. k < n => line * k + line <= line * n
  BY <1>2, SMT
<1>5. k <= q => line * k <= line * q
  BY <1>1, SMT
<1>6. n > 0
  <2>1. n <= 0 => line * n <= 0
    BY <1>2, SMT
  <2> QED
    BY <1>2, <1>3, <2>1, SMT
<1>7. n <= k + 1 => line * n <= line * k + line
  BY <1>2, SMT
<1>8. (k + 1) % n < n /\ (k + 1 < n => (k + 1) % n = k + 1)
  BY <1>2, <1>6, SMT
<1>9. CASE end > Words - line /\ k < n
  <2>1. k * line < end
    BY <1>2, <1>3, <1>4, <1>9, SMT
  <2> QED
    BY <1>8, <1>9, <2>1 DEF n, q
<1>10. CASE k <= q /\ a < end /\ ~(end > Words - line)
  <2>1. k * line < end
    BY <1>1, <1>3, <1>5, <1>10, SMT
  <2>2. k + 1 < n
    BY <1>2, <1>3, <1>7, <1>10, <2>1, SMT
  <2>3. k # q => (k + 1) % n <= q
    BY <1>1, <1>8, <1>10, <2>2, SMT
  <2> QED
    BY <1>10, <2>1, <2>3 DEF n, q
<1>11. CASE k <= q /\ a < end /\ end > Words - line
  <2>1. k < n
    <3>1. n <= k => line * n <= line * k
      BY <1>2, SMT
    <3> QED
      BY <1>1, <1>2, <1>3, <1>5, <1>11, <3>1, SMT
  <2> QED
    BY <1>9, <1>11, <2>1
<1> QED
  BY <1>9, <1>10, <1>11 DEF n, q

-----------------------------------------------------------------------------
(***************************************************************************)
(* The work a routine has still to do: stores, and the maintenance that    *)
(* looks after the words they wrote.                                       *)
(***************************************************************************)
Ops  == {"store", "mmu_invalidate_icache_line", "mmu_invalidate_dcache_line",
         "mmu_invalidate_icache_range", "mmu_invalidate_dcache_range",
         "flush_instruction_cache"}
Work == [op : Ops, at : Nat, value : Code, end : Nat]

StoresTo(a)  == {w \in Work : w.op = "store" /\ w.at = a}
CleansOf(a)  ==
  {w \in Work : \/ w.op = "mmu_invalidate_dcache_line" /\ w.at = a \div dcache_line
                \/ w.op = "mmu_invalidate_dcache_range" /\ Covers(w, a, dcache_line)}
DropsOf(a)   ==
  {w \in Work : \/ w.op = "flush_instruction_cache"
                \/ w.op = "mmu_invalidate_icache_line" /\ w.at = a \div icache_line
                \/ w.op = "mmu_invalidate_icache_range" /\ Covers(w, a, icache_line)}

Some(s, W)    == \E j \in 1 .. Len(s) : s[j] \in W
NoStore(s, a) == \A j \in 1 .. Len(s) : s[j] \notin StoresTo(a)
(* One of W is to come after the last store to a.                          *)
Last(s, a, W) == \E j \in 1 .. Len(s) : s[j] \in W /\ \A k \in j .. Len(s) : s[k] \notin StoresTo(a)

Tended(s, a) ==
  \/ NoStore(s, a)
  \/ Last(s, a, DropsOf(a)) /\ (writeBack => Last(s, a, CleansOf(a)))

CacheTypes ==
  /\ data \in [WordAt -> Code] /\ ram \in [WordAt -> Code] /\ fetched \in [WordAt -> Code]
  /\ writeBack \in BOOLEAN /\ speculative \in BOOLEAN
  /\ todo \in Seq(Work)

LinesWhole   == \A a \in WordAt : a \div dcache_line \notin dcached => ram[a] = data[a]
WriteThrough == ~writeBack => \A a \in WordAt : ram[a] = data[a]
AllTended    == \A a \in WordAt \ unkept : Tended(todo, a)
StaleCleaned == \A a \in WordAt \ unkept : ram[a] # data[a] => Some(todo, CleansOf(a))
StaleDropped ==
  ~(writeBack /\ speculative) =>
    \A a \in WordAt \ unkept :
      a \div icache_line \in icached /\ fetched[a] # data[a] => Some(todo, DropsOf(a))

CacheInv ==
  CacheTypes /\ LinesWhole /\ WriteThrough /\ AllTended /\ StaleCleaned /\ StaleDropped

-----------------------------------------------------------------------------
(***************************************************************************)
(* What is still to come after one step of a routine.                      *)
(***************************************************************************)
LEMMA FirstAndRest ==
  ASSUME NEW s \in Seq(Work), s # <<>>
  PROVE  /\ Len(s) \in Nat /\ Len(s) >= 1 /\ Head(s) = s[1] /\ Head(s) \in Work
         /\ Tail(s) \in Seq(Work) /\ Len(Tail(s)) = Len(s) - 1
         /\ \A j \in 1 .. Len(s) - 1 : Tail(s)[j] = s[j + 1]
<1>1. Len(s) \in Nat /\ Len(s) # 0
  BY EmptySeq
<1>2. Head(s) \in Work /\ Tail(s) \in Seq(Work)
  BY HeadTailProperties
<1> QED
  BY <1>1, <1>2, SMT

LEMMA SomeOfRest ==
  ASSUME NEW s \in Seq(Work), s # <<>>, NEW W, Some(s, W), Head(s) \notin W
  PROVE  Some(Tail(s), W)
<1>1. PICK j \in 1 .. Len(s) : s[j] \in W
  BY DEF Some
<1>2. j # 1 /\ Len(s) \in Nat
  BY <1>1, FirstAndRest
<1>3. j - 1 \in 1 .. Len(s) - 1 /\ (j - 1) + 1 = j
  BY <1>2, SMT
<1>4. Tail(s)[j - 1] = s[j]
  BY <1>3, FirstAndRest
<1> QED
  BY <1>1, <1>3, <1>4, FirstAndRest DEF Some

LEMMA NoStoreInRest ==
  ASSUME NEW s \in Seq(Work), s # <<>>, NEW a
  PROVE  NoStore(s, a) => NoStore(Tail(s), a)
<1>1. \A j \in 1 .. Len(s) - 1 : Tail(s)[j] = s[j + 1] /\ j + 1 \in 1 .. Len(s)
  BY FirstAndRest, SMT
<1> QED
  BY <1>1, FirstAndRest DEF NoStore

LEMMA LastOfRest ==
  ASSUME NEW s \in Seq(Work), s # <<>>, NEW a, NEW W, Last(s, a, W)
  PROVE  /\ Some(s, W)
         /\ NoStore(Tail(s), a) \/ Last(Tail(s), a, W)
         /\ Head(s) \in StoresTo(a) => Last(Tail(s), a, W)
<1>1. PICK j \in 1 .. Len(s) : s[j] \in W /\ \A k \in j .. Len(s) : s[k] \notin StoresTo(a)
  BY DEF Last
<1>2. Some(s, W)
  BY <1>1 DEF Some
<1>3. Len(s) \in Nat /\ j \in Nat
  BY FirstAndRest
<1>4. CASE j = 1
  <2>1. NoStore(s, a)
    BY <1>1, <1>4 DEF NoStore
  <2>2. Head(s) \notin StoresTo(a)
    BY <1>1, <1>3, <1>4, FirstAndRest
  <2> QED
    BY <1>2, <2>1, <2>2, NoStoreInRest
<1>5. CASE j # 1
  <2>1. j - 1 \in 1 .. Len(s) - 1 /\ (j - 1) + 1 = j
    BY <1>3, <1>5, SMT
  <2>2. Tail(s)[j - 1] \in W
    BY <1>1, <2>1, FirstAndRest
  <2>3. ASSUME NEW k \in j - 1 .. Len(s) - 1
        PROVE  Tail(s)[k] \notin StoresTo(a)
    <3>1. k + 1 \in j .. Len(s) /\ k \in 1 .. Len(s) - 1
      BY <1>3, <2>1, <2>3, SMT
    <3> QED
      BY <1>1, <3>1, FirstAndRest
  <2>4. Last(Tail(s), a, W)
    BY <2>1, <2>2, <2>3, FirstAndRest DEF Last
  <2> QED
    BY <1>2, <2>4
<1> QED
  BY <1>4, <1>5

LEMMA TendedRest ==
  ASSUME NEW s \in Seq(Work), s # <<>>, NEW a, writeBack \in BOOLEAN, Tended(s, a)
  PROVE  Tended(Tail(s), a)
<1>1. NoStore(s, a) => Tended(Tail(s), a)
  BY NoStoreInRest DEF Tended
<1>2. ASSUME Last(s, a, DropsOf(a)), writeBack => Last(s, a, CleansOf(a))
      PROVE  Tended(Tail(s), a)
  BY <1>2, LastOfRest DEF Tended
<1> QED
  BY <1>1, <1>2 DEF Tended

LEMMA TendedStore ==
  ASSUME NEW s \in Seq(Work), s # <<>>, NEW a, Tended(s, a), Head(s) \in StoresTo(a)
  PROVE  /\ Some(Tail(s), DropsOf(a))
         /\ writeBack => Some(Tail(s), CleansOf(a))
<1>1. ~NoStore(s, a)
  BY FirstAndRest DEF NoStore
<1>2. Last(s, a, DropsOf(a)) /\ (writeBack => Last(s, a, CleansOf(a)))
  BY <1>1 DEF Tended
<1>3. Last(Tail(s), a, DropsOf(a)) /\ (writeBack => Last(Tail(s), a, CleansOf(a)))
  BY <1>2, LastOfRest
<1> QED
  BY <1>3 DEF Last, Some

(* The first step stays, a line further on.                                *)
LEMMA FirstAgain ==
  ASSUME NEW s \in Seq(Work), s # <<>>, NEW w \in Work
  PROVE  LET t == [s EXCEPT ![1] = w]
         IN /\ t \in Seq(Work) /\ Len(t) = Len(s) /\ t[1] = w
            /\ \A j \in 1 .. Len(s) : j # 1 => t[j] = s[j]
<1>1. 1 \in 1 .. Len(s)
  BY FirstAndRest, SMT
<1> QED
  BY <1>1, ExceptSeq

LEMMA SomeAgain ==
  ASSUME NEW s \in Seq(Work), s # <<>>, NEW w \in Work, NEW W,
         Some(s, W), Head(s) \in W => w \in W
  PROVE  Some([s EXCEPT ![1] = w], W)
<1>1. PICK j \in 1 .. Len(s) : s[j] \in W
  BY DEF Some
<1>2. s[1] \in W => w \in W
  BY FirstAndRest
<1> QED
  BY <1>1, <1>2, FirstAgain DEF Some

LEMMA TendedAgain ==
  ASSUME NEW s \in Seq(Work), s # <<>>, NEW w \in Work, NEW a,
         w.op # "store", Tended(s, a)
  PROVE  Tended([s EXCEPT ![1] = w], a)
<1> DEFINE t == [s EXCEPT ![1] = w]
<1>1. w \notin StoresTo(a)
  BY DEF StoresTo
<1>2. /\ Len(t) = Len(s) /\ t[1] = w
      /\ \A j \in 1 .. Len(s) : j # 1 => t[j] = s[j]
  BY FirstAgain
<1> HIDE DEF t
<1>3. ASSUME NoStore(s, a)
      PROVE  NoStore(t, a)
  BY <1>1, <1>2, <1>3 DEF NoStore
<1>4. ASSUME NEW W, Last(s, a, W)
      PROVE  NoStore(t, a) \/ Last(t, a, W)
  <2>1. PICK j \in 1 .. Len(s) : s[j] \in W /\ \A k \in j .. Len(s) : s[k] \notin StoresTo(a)
    BY <1>4 DEF Last
  <2>2. CASE j = 1
    BY <1>3, <2>1, <2>2 DEF NoStore
  <2>3. CASE j # 1
    <3>1. \A k \in j .. Len(s) : k \in 1 .. Len(s) /\ k # 1
      BY <2>3, FirstAndRest, SMT
    <3> QED
      BY <1>2, <2>1, <2>3, <3>1 DEF Last
  <2> QED
    BY <2>2, <2>3
<1>5. Tended(t, a)
  BY <1>3, <1>4 DEF Tended
<1> QED
  BY <1>5 DEF t

-----------------------------------------------------------------------------
(***************************************************************************)
(* The work of a routine, put together of parts.                           *)
(***************************************************************************)
LEMMA PartsOfWork ==
  ASSUME NEW p \in Seq(Work), NEW q \in Seq(Work)
  PROVE  /\ p \o q \in Seq(Work) /\ Len(p) \in Nat /\ Len(q) \in Nat
         /\ Len(p \o q) = Len(p) + Len(q)
         /\ \A k \in 1 .. Len(p) : (p \o q)[k] = p[k] /\ k \in 1 .. Len(p \o q)
         /\ \A k \in 1 .. Len(q) :
              (p \o q)[Len(p) + k] = q[k] /\ Len(p) + k \in 1 .. Len(p \o q)
<1>1. p \o q \in Seq(Work) /\ Len(p) \in Nat /\ Len(q) \in Nat /\ Len(p \o q) = Len(p) + Len(q)
  BY ConcatProperties, LenProperties
<1>2. \A i \in 1 .. Len(p) + Len(q) : (p \o q)[i] = IF i <= Len(p) THEN p[i] ELSE q[i - Len(p)]
  BY ConcatProperties
<1>3. \A k \in 1 .. Len(p) : k \in 1 .. Len(p) + Len(q) /\ k <= Len(p)
  BY <1>1, SMT
<1>4. \A k \in 1 .. Len(q) :
        Len(p) + k \in 1 .. Len(p) + Len(q) /\ ~(Len(p) + k <= Len(p)) /\ (Len(p) + k) - Len(p) = k
  BY <1>1, SMT
<1> QED
  BY <1>1, <1>2, <1>3, <1>4

LEMMA WhichPart ==
  ASSUME NEW p \in Seq(Work), NEW q \in Seq(Work), NEW k \in 1 .. Len(p \o q)
  PROVE  \/ k \in 1 .. Len(p) /\ (p \o q)[k] = p[k]
         \/ /\ k - Len(p) \in 1 .. Len(q) /\ (p \o q)[k] = q[k - Len(p)]
<1>1. Len(p) \in Nat /\ Len(q) \in Nat /\ k \in 1 .. Len(p) + Len(q)
  BY PartsOfWork
<1>2. CASE k <= Len(p)
  <2>1. k \in 1 .. Len(p)
    BY <1>1, <1>2, SMT
  <2> QED
    BY <2>1, PartsOfWork
<1>3. CASE ~(k <= Len(p))
  <2>1. k - Len(p) \in 1 .. Len(q) /\ Len(p) + (k - Len(p)) = k
    BY <1>1, <1>3, SMT
  <2> QED
    BY <2>1, PartsOfWork
<1> QED
  BY <1>2, <1>3

LEMMA NoStoreInParts ==
  ASSUME NEW p \in Seq(Work), NEW q \in Seq(Work), NEW a, NoStore(p, a), NoStore(q, a)
  PROVE  NoStore(p \o q, a)
BY WhichPart DEF NoStore

LEMMA LastInSecond ==
  ASSUME NEW p \in Seq(Work), NEW q \in Seq(Work), NEW a, NEW W, Last(q, a, W)
  PROVE  Last(p \o q, a, W)
<1>1. PICK j \in 1 .. Len(q) : q[j] \in W /\ \A k \in j .. Len(q) : q[k] \notin StoresTo(a)
  BY DEF Last
<1>2. (p \o q)[Len(p) + j] \in W /\ Len(p) + j \in 1 .. Len(p \o q)
  BY <1>1, PartsOfWork
<1>3. ASSUME NEW k \in Len(p) + j .. Len(p \o q)
      PROVE  (p \o q)[k] \notin StoresTo(a)
  <2>1. Len(p) \in Nat /\ Len(q) \in Nat /\ Len(p \o q) = Len(p) + Len(q)
    BY PartsOfWork
  <2>2. k - Len(p) \in j .. Len(q) /\ k - Len(p) \in 1 .. Len(q) /\ Len(p) + (k - Len(p)) = k
    BY <2>1, <1>3, SMT
  <2> QED
    BY <1>1, <2>2, PartsOfWork
<1> QED
  BY <1>2, <1>3 DEF Last

LEMMA LastInFirst ==
  ASSUME NEW p \in Seq(Work), NEW q \in Seq(Work), NEW a, NEW W, Last(p, a, W), NoStore(q, a)
  PROVE  Last(p \o q, a, W)
<1>1. PICK j \in 1 .. Len(p) : p[j] \in W /\ \A k \in j .. Len(p) : p[k] \notin StoresTo(a)
  BY DEF Last
<1>2. (p \o q)[j] \in W /\ j \in 1 .. Len(p \o q)
  BY <1>1, PartsOfWork
<1>3. ASSUME NEW k \in j .. Len(p \o q)
      PROVE  (p \o q)[k] \notin StoresTo(a)
  <2>1. Len(p) \in Nat /\ Len(q) \in Nat /\ k \in 1 .. Len(p \o q)
    BY PartsOfWork, SMT
  <2>2. k \in 1 .. Len(p) => k \in j .. Len(p)
    BY <1>3, <2>1, SMT
  <2> QED
    BY <1>1, <2>1, <2>2, WhichPart DEF NoStore
<1> QED
  BY <1>2, <1>3 DEF Last

LEMMA NoStoreAfter ==
  ASSUME NEW s, NEW a, NEW W, NoStore(s, a), Some(s, W), Len(s) \in Nat
  PROVE  Last(s, a, W)
<1>1. PICK j \in 1 .. Len(s) : s[j] \in W
  BY DEF Some
<1>2. \A k \in j .. Len(s) : k \in 1 .. Len(s)
  BY SMT
<1> QED
  BY <1>1, <1>2 DEF NoStore, Last

LEMMA WordsAreNumbers ==
  /\ Words \in Nat /\ Words >= 1 /\ WordAt = 0 .. Words - 1 /\ WordAt \subseteq Nat
  /\ dcache_line \in Nat \ {0} /\ icache_line \in Nat \ {0} /\ 0 \in Code
  /\ \A slot \in Slots : slot \in WordAt /\ slot + 1 \in WordAt
BY CachesAssumption, SMT DEF WordAt

LEMMA LineNumbers ==
  ASSUME NEW a \in WordAt
  PROVE  a \div icache_line \in Nat /\ a \div dcache_line \in Nat
BY WordsAreNumbers, LineOfWord

LEMMA StoreIsWork ==
  ASSUME NEW a \in WordAt, NEW v \in Code
  PROVE  /\ Store(a, v) \in Work
         /\ \A b : Store(a, v) \in StoresTo(b) => b = a
BY WordsAreNumbers DEF Store, Work, Ops, StoresTo

LEMMA LineIsWork ==
  ASSUME NEW op \in Ops \ {"store"}, NEW l \in Nat
  PROVE  /\ Line(op, l) \in Work
         /\ \A b : Line(op, l) \notin StoresTo(b)
BY WordsAreNumbers DEF Line, Work, Ops, StoresTo

LEMMA OneStore ==
  ASSUME NEW a \in WordAt, NEW v \in Code
  PROVE  /\ <<Store(a, v)>> \in Seq(Work)
         /\ \A b : b # a => NoStore(<<Store(a, v)>>, b)
BY StoreIsWork DEF NoStore

LEMMA TwoStores ==
  ASSUME NEW slot \in Slots, NEW v \in Code
  PROVE  /\ <<Store(slot, v), Store(slot + 1, v)>> \in Seq(Work)
         /\ \A b : b \notin {slot, slot + 1} => NoStore(<<Store(slot, v), Store(slot + 1, v)>>, b)
<1>1. /\ Store(slot, v) \in Work /\ Store(slot + 1, v) \in Work
      /\ \A b : b \notin {slot, slot + 1} =>
           Store(slot, v) \notin StoresTo(b) /\ Store(slot + 1, v) \notin StoresTo(b)
  BY WordsAreNumbers, StoreIsWork
<1> QED
  BY <1>1 DEF NoStore

LEMMA CacheLineMaintained ==
  ASSUME NEW a \in WordAt
  PROVE  LET s == mmu_invalidate_cache_line(a)
         IN /\ s \in Seq(Work) /\ \A b : NoStore(s, b)
            /\ Last(s, a, DropsOf(a)) /\ Last(s, a, CleansOf(a))
<1> DEFINE i == Line("mmu_invalidate_icache_line", a \div icache_line)
           d == Line("mmu_invalidate_dcache_line", a \div dcache_line)
           s == <<i, d>>
<1>1. mmu_invalidate_cache_line(a) = s
  BY DEF mmu_invalidate_cache_line
<1>2. /\ i \in Work /\ d \in Work
      /\ \A b : i \notin StoresTo(b) /\ d \notin StoresTo(b)
  BY LineIsWork, LineNumbers DEF Ops
<1>3. i \in DropsOf(a) /\ d \in CleansOf(a)
  BY <1>2 DEF Line, DropsOf, CleansOf
<1> HIDE DEF i, d
<1>4. s \in Seq(Work) /\ Len(s) = 2 /\ s[1] = i /\ s[2] = d
  BY <1>2
<1> HIDE DEF s
<1>5. 1 .. 2 = {1, 2}
  BY SMT
<1>6. \A b : NoStore(s, b)
  BY <1>2, <1>4, <1>5 DEF NoStore
<1>7. Some(s, DropsOf(a)) /\ Some(s, CleansOf(a))
  BY <1>3, <1>4, <1>5 DEF Some
<1>8. Last(s, a, DropsOf(a)) /\ Last(s, a, CleansOf(a))
  BY <1>4, <1>6, <1>7, NoStoreAfter
<1> QED
  BY <1>1, <1>4, <1>6, <1>8

LEMMA RangeMaintained ==
  ASSUME NEW op \in Ops \ {"store"}, NEW line \in Nat \ {0},
         NEW addr \in WordAt, NEW size \in 1 .. Words - addr
  PROVE  LET s == mmu_invalidate_range(op, addr, size, line)
         IN /\ s \in Seq(Work) /\ Len(s) = 1 /\ s[1].op = op /\ \A b : NoStore(s, b)
            /\ addr + size # Words => \A a \in Region(addr, size) : Covers(s[1], a, line)
<1> DEFINE first == addr \div line
           end == (addr + size) % Words
           w == Loop(op, first, end)
<1>1. mmu_invalidate_range(op, addr, size, line) = <<w>>
  BY DEF mmu_invalidate_range
<1>2. addr \in Nat /\ size \in Nat /\ addr + size \in Nat /\ addr + size <= Words /\ end \in Nat
  BY WordsAreNumbers, SMT
<1>3. first \in Nat
  BY <1>2, LineOfWord
<1>4. ASSUME addr + size # Words, NEW a \in Region(addr, size)
      PROVE  first <= a \div line /\ a < end
  <2>1. end = addr + size
    <3>1. addr + size < Words
      BY <1>2, <1>4, WordsAreNumbers, SMT
    <3> QED
      BY <1>2, <3>1, WordsAreNumbers, SMT
  <2> HIDE DEF end, first
  <2>2. a \in Nat /\ addr <= a /\ a < end
    BY <1>2, <2>1, <1>4, SMT DEF Region
  <2> DEFINE q == a \div line
  <2>3. q \in Nat /\ a < line * q + line /\ line * q \in Nat
    BY <2>2, SMT
  <2>4. line * first <= addr /\ line * first \in Nat
    BY <1>2, SMT DEF first
  <2> HIDE DEF q
  <2>5. q < first => line * q + line <= line * first
    BY <1>3, <2>3, SMT
  <2>6. first <= q
    BY <1>2, <1>3, <2>2, <2>3, <2>4, <2>5, SMT
  <2> QED
    BY <2>2, <2>6 DEF q
<1>5. w \in Work /\ w.op = op /\ \A b : w \notin StoresTo(b)
  BY <1>2, <1>3, WordsAreNumbers DEF Loop, Work, StoresTo
<1>6. w.at = first /\ w.end = end
  BY DEF Loop
<1> HIDE DEF w, first, end
<1>7. addr + size # Words => \A a \in Region(addr, size) : Covers(w, a, line)
  BY <1>4, <1>6 DEF Covers
<1>8. <<w>> \in Seq(Work) /\ Len(<<w>>) = 1 /\ <<w>>[1] = w
  BY <1>5
<1>9. \A b : NoStore(<<w>>, b)
  BY <1>5, <1>8, SMT DEF NoStore
<1> QED
  BY <1>1, <1>5, <1>7, <1>8, <1>9

LEMMA StoresAreWork ==
  ASSUME NEW addr \in WordAt, NEW size \in 1 .. Words - addr, NEW v \in Code
  PROVE  /\ Stores(addr, size, v) \in Seq(Work)
         /\ \A b : b \notin Region(addr, size) => NoStore(Stores(addr, size, v), b)
         /\ Region(addr, size) \subseteq WordAt
<1>1. /\ addr \in Nat /\ size \in Nat
      /\ \A k \in 1 .. size : addr + k - 1 \in WordAt /\ addr + k - 1 \in Region(addr, size)
      /\ Region(addr, size) \subseteq WordAt
  BY WordsAreNumbers, SMT DEF Region
<1>2. \A k \in 1 .. size : Store(addr + k - 1, v) \in Work
  BY <1>1, StoreIsWork
<1>3. Stores(addr, size, v) \in Seq(Work) /\ Len(Stores(addr, size, v)) = size
  BY <1>1, <1>2 DEF Stores
<1>4. \A k \in 1 .. size : Stores(addr, size, v)[k] = Store(addr + k - 1, v)
  BY DEF Stores
<1>5. ASSUME NEW b, b \notin Region(addr, size)
      PROVE  NoStore(Stores(addr, size, v), b)
  BY <1>1, <1>3, <1>4, <1>5, StoreIsWork DEF NoStore
<1> QED
  BY <1>1, <1>3, <1>5

(***************************************************************************)
(* Each routine looks after the words it keeps.                            *)
(***************************************************************************)
Routine(steps, kept, notKept) ==
  /\ steps \in Seq(Work)
  /\ \A a \in kept : Last(steps, a, DropsOf(a)) /\ (writeBack => Last(steps, a, CleansOf(a)))
  /\ \A a \in WordAt : a \notin kept /\ a \notin notKept => NoStore(steps, a)

LEMMA InsertRoutine ==
  ASSUME NEW slot \in Slots, NEW v \in Code, NEW addr \in WordAt \ {slot, slot + 1}
  PROVE  Routine(<<Store(slot, v), Store(slot + 1, v)>>
                   \o mmu_invalidate_cache_line(slot) \o mmu_invalidate_cache_line(slot + 1)
                   \o <<Store(addr, v)>> \o mmu_invalidate_cache_line(addr),
                 {addr, slot, slot + 1}, {})
<1> DEFINE A == <<Store(slot, v), Store(slot + 1, v)>>
           B == mmu_invalidate_cache_line(slot)
           C == mmu_invalidate_cache_line(slot + 1)
           D == <<Store(addr, v)>>
           E == mmu_invalidate_cache_line(addr)
<1>1. addr \in WordAt /\ slot \in WordAt /\ slot + 1 \in WordAt /\ addr # slot /\ addr # slot + 1
  BY WordsAreNumbers
<1>2. A \in Seq(Work) /\ \A b : b \notin {slot, slot + 1} => NoStore(A, b)
  BY TwoStores
<1>3. /\ B \in Seq(Work) /\ \A b : NoStore(B, b)
      /\ Last(B, slot, DropsOf(slot)) /\ Last(B, slot, CleansOf(slot))
  BY <1>1, CacheLineMaintained
<1>4. /\ C \in Seq(Work) /\ \A b : NoStore(C, b)
      /\ Last(C, slot + 1, DropsOf(slot + 1)) /\ Last(C, slot + 1, CleansOf(slot + 1))
  BY <1>1, CacheLineMaintained
<1>5. D \in Seq(Work) /\ \A b : b # addr => NoStore(D, b)
  BY <1>1, OneStore
<1>6. /\ E \in Seq(Work) /\ \A b : NoStore(E, b)
      /\ Last(E, addr, DropsOf(addr)) /\ Last(E, addr, CleansOf(addr))
  BY <1>1, CacheLineMaintained
<1> HIDE DEF A, B, C, D, E
<1>7. A \o B \in Seq(Work) /\ A \o B \o C \in Seq(Work) /\ A \o B \o C \o D \in Seq(Work)
      /\ A \o B \o C \o D \o E \in Seq(Work)
  BY <1>2, <1>3, <1>4, <1>5, <1>6, PartsOfWork
<1>8. \A W : Last(B, slot, W) => Last(A \o B \o C \o D \o E, slot, W)
  <2> SUFFICES ASSUME NEW W, Last(B, slot, W)
               PROVE  Last(A \o B \o C \o D \o E, slot, W)
    OBVIOUS
  <2>1. Last(A \o B, slot, W)
    BY <1>2, <1>3, LastInSecond
  <2>2. Last(A \o B \o C, slot, W)
    BY <1>4, <1>7, <2>1, LastInFirst
  <2>3. Last(A \o B \o C \o D, slot, W)
    BY <1>1, <1>5, <1>7, <2>2, LastInFirst
  <2> QED
    BY <1>6, <1>7, <2>3, LastInFirst
<1>9. \A W : Last(C, slot + 1, W) => Last(A \o B \o C \o D \o E, slot + 1, W)
  <2> SUFFICES ASSUME NEW W, Last(C, slot + 1, W)
               PROVE  Last(A \o B \o C \o D \o E, slot + 1, W)
    OBVIOUS
  <2>1. Last(A \o B \o C, slot + 1, W)
    BY <1>4, <1>7, LastInSecond
  <2>2. Last(A \o B \o C \o D, slot + 1, W)
    BY <1>1, <1>5, <1>7, <2>1, LastInFirst
  <2> QED
    BY <1>6, <1>7, <2>2, LastInFirst
<1>10. \A W : Last(E, addr, W) => Last(A \o B \o C \o D \o E, addr, W)
  BY <1>6, <1>7, LastInSecond
<1>11. ASSUME NEW a \in WordAt, a \notin {addr, slot, slot + 1}
       PROVE  NoStore(A \o B \o C \o D \o E, a)
  <2>1. NoStore(A \o B, a)
    BY <1>2, <1>3, <1>11, NoStoreInParts
  <2>2. NoStore(A \o B \o C, a)
    BY <1>4, <1>7, <2>1, NoStoreInParts
  <2>3. NoStore(A \o B \o C \o D, a)
    BY <1>5, <1>7, <1>11, <2>2, NoStoreInParts
  <2> QED
    BY <1>6, <1>7, <2>3, NoStoreInParts
<1>12. Routine(A \o B \o C \o D \o E, {addr, slot, slot + 1}, {})
  BY <1>3, <1>4, <1>6, <1>7, <1>8, <1>9, <1>10, <1>11 DEF Routine
<1> QED
  BY <1>12 DEF A, B, C, D, E

LEMMA RemoveRoutine ==
  ASSUME NEW slot \in Slots, NEW v \in Code, NEW addr \in WordAt \ {slot, slot + 1}
  PROVE  Routine(<<Store(addr, v)>> \o mmu_invalidate_cache_line(addr)
                   \o <<Store(slot, v), Store(slot + 1, v)>>, {addr}, {slot, slot + 1})
<1> DEFINE A == <<Store(addr, v)>>
           B == mmu_invalidate_cache_line(addr)
           C == <<Store(slot, v), Store(slot + 1, v)>>
<1>1. A \in Seq(Work) /\ \A b : b # addr => NoStore(A, b)
  BY OneStore
<1>2. /\ B \in Seq(Work) /\ \A b : NoStore(B, b)
      /\ Last(B, addr, DropsOf(addr)) /\ Last(B, addr, CleansOf(addr))
  BY CacheLineMaintained
<1>3. C \in Seq(Work) /\ \A b : b \notin {slot, slot + 1} => NoStore(C, b)
  BY TwoStores
<1> HIDE DEF A, B, C
<1>4. A \o B \in Seq(Work) /\ A \o B \o C \in Seq(Work)
  BY <1>1, <1>2, <1>3, PartsOfWork
<1>5. \A W : Last(B, addr, W) => Last(A \o B \o C, addr, W)
  <2> SUFFICES ASSUME NEW W, Last(B, addr, W)
               PROVE  Last(A \o B \o C, addr, W)
    OBVIOUS
  <2>1. Last(A \o B, addr, W)
    BY <1>1, <1>2, LastInSecond
  <2> QED
    BY <1>3, <1>4, <2>1, LastInFirst
<1>6. ASSUME NEW a \in WordAt, a # addr, a \notin {slot, slot + 1}
      PROVE  NoStore(A \o B \o C, a)
  <2>1. NoStore(A \o B, a)
    BY <1>1, <1>2, <1>6, NoStoreInParts
  <2> QED
    BY <1>3, <1>4, <1>6, <2>1, NoStoreInParts
<1>7. Routine(A \o B \o C, {addr}, {slot, slot + 1})
  BY <1>2, <1>4, <1>5, <1>6 DEF Routine
<1> QED
  BY <1>7 DEF A, B, C

LEMMA HandlerRoutine ==
  ASSUME NEW vector \in WordAt, NEW v \in Code
  PROVE  Routine(<<Store(vector, v)>> \o mmu_invalidate_cache_line(vector), {vector}, {})
<1> DEFINE A == <<Store(vector, v)>>
           B == mmu_invalidate_cache_line(vector)
<1>1. A \in Seq(Work) /\ \A b : b # vector => NoStore(A, b)
  BY OneStore
<1>2. /\ B \in Seq(Work) /\ \A b : NoStore(B, b)
      /\ Last(B, vector, DropsOf(vector)) /\ Last(B, vector, CleansOf(vector))
  BY CacheLineMaintained
<1> HIDE DEF A, B
<1>3. A \o B \in Seq(Work)
  BY <1>1, <1>2, PartsOfWork
<1>4. \A W : Last(B, vector, W) => Last(A \o B, vector, W)
  BY <1>1, <1>2, LastInSecond
<1>5. \A a \in WordAt : a # vector => NoStore(A \o B, a)
  BY <1>1, <1>2, NoStoreInParts
<1>6. Routine(A \o B, {vector}, {})
  BY <1>2, <1>3, <1>4, <1>5 DEF Routine
<1> QED
  BY <1>6 DEF A, B

LEMMA WriteCodeRoutine ==
  ASSUME NEW addr \in WordAt, NEW size \in 1 .. Words - addr, NEW v \in Code
  PROVE  LET atEnd == addr + size = Words
         IN Routine(Stores(addr, size, v) \o mmu_invalidate_cache_range(addr, size),
                    IF atEnd THEN {} ELSE Region(addr, size),
                    IF atEnd THEN Region(addr, size) ELSE {})
<1> DEFINE A == Stores(addr, size, v)
           I == mmu_invalidate_range("mmu_invalidate_icache_range", addr, size, icache_line)
           D == mmu_invalidate_range("mmu_invalidate_dcache_range", addr, size, dcache_line)
           R == Region(addr, size)
<1>1. A \in Seq(Work) /\ (\A b : b \notin R => NoStore(A, b)) /\ R \subseteq WordAt
  BY StoresAreWork
<1>2. /\ I \in Seq(Work) /\ (\A b : NoStore(I, b))
      /\ Len(I) = 1 /\ I[1].op = "mmu_invalidate_icache_range"
      /\ addr + size # Words => \A a \in R : Covers(I[1], a, icache_line)
  BY RangeMaintained, WordsAreNumbers DEF Ops
<1>3. /\ D \in Seq(Work) /\ (\A b : NoStore(D, b))
      /\ Len(D) = 1 /\ D[1].op = "mmu_invalidate_dcache_range"
      /\ addr + size # Words => \A a \in R : Covers(D[1], a, dcache_line)
  BY RangeMaintained, WordsAreNumbers DEF Ops
<1>4. mmu_invalidate_cache_range(addr, size) = I \o D
  BY DEF mmu_invalidate_cache_range
<1> HIDE DEF I, D
<1>5. I[1] \in Work /\ D[1] \in Work
  <2>1. \A s \in Seq(Work) : Len(s) = 1 => s[1] \in Work
    BY ElementOfSeq, SMT
  <2> QED
    BY <1>2, <1>3, <2>1
<1>6. addr + size # Words => \A a \in R : Some(I, DropsOf(a)) /\ Some(D, CleansOf(a))
  <2>1. addr + size # Words => \A a \in R : I[1] \in DropsOf(a) /\ D[1] \in CleansOf(a)
    BY <1>2, <1>3, <1>5 DEF DropsOf, CleansOf
  <2>2. 1 \in 1 .. 1
    BY SMT
  <2> QED
    BY <1>2, <1>3, <2>1, <2>2 DEF Some
<1> HIDE DEF A, I, D, R
<1>7. addr + size # Words => \A a \in R : Last(I, a, DropsOf(a)) /\ Last(D, a, CleansOf(a))
  BY <1>2, <1>3, <1>6, NoStoreAfter, LenProperties
<1>8. I \o D \in Seq(Work) /\ A \o (I \o D) \in Seq(Work)
  BY <1>1, <1>2, <1>3, PartsOfWork
<1>9. ASSUME addr + size # Words, NEW a \in R
      PROVE  Last(A \o (I \o D), a, DropsOf(a)) /\ Last(A \o (I \o D), a, CleansOf(a))
  <2>1. Last(I, a, DropsOf(a)) /\ Last(D, a, CleansOf(a))
    BY <1>7, <1>9
  <2>2. Last(I \o D, a, DropsOf(a)) /\ Last(I \o D, a, CleansOf(a))
    BY <1>2, <1>3, <2>1, LastInFirst, LastInSecond
  <2> QED
    BY <1>1, <1>8, <2>2, LastInSecond
<1>10. ASSUME NEW a \in WordAt, a \notin R
       PROVE  NoStore(A \o (I \o D), a)
  <2>1. NoStore(I \o D, a)
    BY <1>2, <1>3, NoStoreInParts
  <2> QED
    BY <1>1, <1>8, <1>10, <2>1, NoStoreInParts
<1>11. CASE addr + size = Words
  <2>1. Routine(A \o (I \o D), {}, R)
    BY <1>8, <1>10 DEF Routine
  <2> QED
    BY <1>4, <1>11, <2>1 DEF A, R
<1>12. CASE addr + size # Words
  <2>1. Routine(A \o (I \o D), R, {})
    BY <1>8, <1>9, <1>10, <1>12 DEF Routine
  <2> QED
    BY <1>4, <1>12, <2>1 DEF A, R
<1> QED
  BY <1>11, <1>12

LEMMA WriteMemoryRoutine ==
  ASSUME NEW dest \in WordAt, NEW size \in 1 .. Words - dest, NEW v \in Code
  PROVE  Routine(Stores(dest, size, v) \o <<Line("flush_instruction_cache", 0)>>,
                 IF writeBack THEN {} ELSE Region(dest, size),
                 IF writeBack THEN Region(dest, size) ELSE {})
<1> DEFINE A == Stores(dest, size, v)
           f == Line("flush_instruction_cache", 0)
           F == <<f>>
           R == Region(dest, size)
<1>1. A \in Seq(Work) /\ (\A b : b \notin R => NoStore(A, b)) /\ R \subseteq WordAt
  BY StoresAreWork
<1>2. f \in Work /\ (\A b : f \notin StoresTo(b)) /\ f.op = "flush_instruction_cache"
  BY LineIsWork DEF Ops, Line
<1> HIDE DEF A, R, f
<1>3. F \in Seq(Work) /\ Len(F) = 1 /\ F[1] = f
  BY <1>2
<1>4. f \in DropsOf(0) /\ \A a : f \in DropsOf(a)
  BY <1>2 DEF DropsOf
<1> HIDE DEF F
<1>5. \A b : NoStore(F, b)
  BY <1>2, <1>3, SMT DEF NoStore
<1>6. \A a : Some(F, DropsOf(a))
  BY <1>3, <1>4 DEF Some
<1>7. \A a : Last(F, a, DropsOf(a))
  BY <1>3, <1>5, <1>6, NoStoreAfter
<1>8. A \o F \in Seq(Work)
  BY <1>1, <1>3, PartsOfWork
<1>9. \A a \in R : Last(A \o F, a, DropsOf(a))
  BY <1>1, <1>3, <1>7, LastInSecond
<1>10. \A a \in WordAt : a \notin R => NoStore(A \o F, a)
  BY <1>1, <1>3, <1>5, NoStoreInParts
<1>11. CASE writeBack
  <2>1. Routine(A \o F, {}, R)
    BY <1>8, <1>10 DEF Routine
  <2> QED
    BY <1>11, <2>1 DEF A, R, F, f
<1>12. CASE ~writeBack
  <2>1. Routine(A \o F, R, {})
    BY <1>8, <1>9, <1>10, <1>12 DEF Routine
  <2> QED
    BY <1>12, <2>1 DEF A, R, F, f
<1> QED
  BY <1>11, <1>12

-----------------------------------------------------------------------------
(***************************************************************************)
(* The invariant, one action at a time.                                    *)
(***************************************************************************)
LEMMA WordInLine ==
  ASSUME NEW a \in WordAt, NEW l \in Int
  PROVE  /\ a \in DWords(l) <=> a \div dcache_line = l
         /\ a \in IWords(l) <=> a \div icache_line = l
BY WordsAreNumbers, LineOfWord DEF DWords, IWords

LEMMA WrittenWords ==
  ASSUME CacheTypes, NEW l \in Int
  PROVE  /\ Written(l) \in [WordAt -> Code]
         /\ \A a \in WordAt : Written(l)[a] = IF a \div dcache_line = l THEN data[a] ELSE ram[a]
<1>1. Written(l) \in [WordAt -> Code]
  BY DEF CacheTypes, Written
<1>2. \A a \in WordAt : Written(l)[a] = IF a \div dcache_line = l THEN data[a] ELSE ram[a]
  BY WordInLine DEF Written
<1> QED
  BY <1>1, <1>2

LEMMA CacheInvInit == CacheInit => CacheInv
<1> SUFFICES ASSUME CacheInit
             PROVE  CacheInv
  OBVIOUS
<1>1. CacheTypes /\ todo = <<>> /\ ram = data /\ fetched = data
  BY WordsAreNumbers DEF CacheInit, CacheTypes
<1>2. \A a : NoStore(todo, a)
  BY <1>1 DEF NoStore
<1> QED
  BY <1>1, <1>2 DEF CacheInv, LinesWhole, WriteThrough, AllTended, Tended, StaleCleaned, StaleDropped

LEMMA LoadLineKeeps ==
  ASSUME CacheInv, NEW l \in DLine, LoadLine(l)
  PROVE  CacheInv'
BY DEF LoadLine, CacheInv, CacheTypes, LinesWhole, WriteThrough, AllTended, Tended, Last, NoStore,
       Some, StoresTo, CleansOf, DropsOf, StaleCleaned, StaleDropped

(* What is still to come depends on nothing but todo and writeBack.        *)
LEMMA SameWork ==
  ASSUME todo' = todo, writeBack' = writeBack, unkept' = unkept
  PROVE  AllTended => AllTended'
BY DEF AllTended, Tended

LEMMA EvictLineKeeps ==
  ASSUME CacheInv, NEW l \in DLine, EvictLine(l)
  PROVE  CacheInv'
<1>1. CacheTypes /\ l \in Int
  BY SMT DEF CacheInv, DLine
<1>2. /\ ram' \in [WordAt -> Code]
      /\ \A a \in WordAt : ram'[a] = IF a \div dcache_line = l THEN data[a] ELSE ram[a]
  BY <1>1, WrittenWords DEF EvictLine
<1>3. UNCHANGED <<data, fetched, icached, writeBack, speculative, todo, routines, unkept>>
  BY DEF EvictLine
<1>4. CacheTypes'
  BY <1>1, <1>2, <1>3 DEF CacheTypes
<1>5. LinesWhole'
  BY <1>2, <1>3 DEF CacheInv, LinesWhole, EvictLine
<1>6. WriteThrough' /\ StaleCleaned'
  BY <1>2, <1>3 DEF CacheInv, WriteThrough, StaleCleaned
<1>7. AllTended'
  BY <1>3, SameWork DEF CacheInv
<1>8. StaleDropped'
  BY <1>3 DEF CacheInv, StaleDropped
<1> QED
  BY <1>4, <1>5, <1>6, <1>7, <1>8 DEF CacheInv

LEMMA FetchLineKeeps ==
  ASSUME CacheInv, NEW l \in ILine, FetchLine(l)
  PROVE  CacheInv'
<1>1. CacheTypes /\ l \in Int
  BY SMT DEF CacheInv, ILine
<1>2. UNCHANGED <<data, ram, dcached, writeBack, speculative, todo, routines, unkept>>
  BY DEF FetchLine
<1>3. \A a \in WordAt : fetched'[a] = IF a \div icache_line = l THEN ram[a] ELSE fetched[a]
  BY <1>1, WordInLine DEF FetchLine
<1>4. fetched' \in [WordAt -> Code]
  BY <1>1 DEF FetchLine, CacheTypes
<1>5. CacheTypes' /\ LinesWhole' /\ WriteThrough' /\ StaleCleaned'
  BY <1>1, <1>2, <1>4 DEF CacheInv, CacheTypes, LinesWhole, WriteThrough, StaleCleaned
<1>6. AllTended'
  BY <1>2, SameWork DEF CacheInv
<1>7. StaleDropped'
  <2> SUFFICES ASSUME ~(writeBack /\ speculative), NEW a \in WordAt \ unkept,
                      a \div icache_line \in icached', fetched'[a] # data[a]
               PROVE  Some(todo, DropsOf(a))
    BY <1>2 DEF StaleDropped
  <2>1. CASE a \div icache_line = l
    <3>1. ram[a] # data[a]
      BY <1>3, <2>1
    <3>2. writeBack
      BY <3>1 DEF CacheInv, WriteThrough
    <3>3. todo = <<>>
      BY <3>2 DEF FetchLine
    <3>4. Some(todo, CleansOf(a))
      BY <3>1 DEF CacheInv, StaleCleaned
    <3> QED
      BY <3>3, <3>4, SMT DEF Some
  <2>2. CASE a \div icache_line # l
    <3>1. a \div icache_line \in icached /\ fetched[a] # data[a]
      BY <1>3, <2>2 DEF FetchLine
    <3> QED
      BY <3>1 DEF CacheInv, StaleDropped
  <2> QED
    BY <2>1, <2>2
<1> QED
  BY <1>5, <1>6, <1>7 DEF CacheInv

(* After a step of a routine the words it had to look after are looked     *)
(* after by the rest of it.                                                *)
LEMMA RestTends ==
  ASSUME CacheInv, todo # <<>>, todo' = Tail(todo), writeBack' = writeBack, unkept' = unkept
  PROVE  AllTended' /\ todo' \in Seq(Work) /\ Now \in Work
<1>1. todo \in Seq(Work) /\ writeBack \in BOOLEAN
  BY DEF CacheInv, CacheTypes
<1>2. todo' \in Seq(Work) /\ Now \in Work
  BY <1>1, FirstAndRest DEF Now
<1>3. \A a \in WordAt \ unkept : Tended(Tail(todo), a)
  BY <1>1, TendedRest DEF CacheInv, AllTended
<1>4. AllTended'
  BY <1>3 DEF AllTended, Tended
<1> QED
  BY <1>2, <1>4

LEMMA StoreWordKeeps ==
  ASSUME CacheInv, StoreWord
  PROVE  CacheInv'
<1>1. CacheTypes /\ todo # <<>> /\ todo' = Tail(todo) /\ Now.op = "store" /\ todo \in Seq(Work)
  BY DEF StoreWord, Then, CacheInv, CacheTypes
<1>2. UNCHANGED <<fetched, dcached, icached, writeBack, speculative, routines, unkept>>
  BY DEF StoreWord
<1>3. AllTended' /\ todo' \in Seq(Work) /\ Now \in Work
  BY <1>1, <1>2, RestTends
<1>4. /\ data' \in [WordAt -> Code]
      /\ \A a \in WordAt : data'[a] = IF a = Now.at THEN Now.value ELSE data[a]
  BY <1>1, <1>3 DEF StoreWord, CacheTypes, Work
<1>5. ram' = ram \/ ram' = [ram EXCEPT ![Now.at] = Now.value]
  BY DEF StoreWord
<1>6. /\ ram' \in [WordAt -> Code]
      /\ \A a \in WordAt : a # Now.at => ram'[a] = ram[a]
  BY <1>1, <1>3, <1>5 DEF CacheTypes, Work
<1>7. \A a \in WordAt : a = Now.at /\ ~(writeBack /\ a \div dcache_line \in dcached) => ram'[a] = Now.value
  BY <1>1 DEF StoreWord, CacheTypes
<1>8. CacheTypes'
  BY <1>1, <1>2, <1>3, <1>4, <1>6 DEF CacheTypes
<1>9. LinesWhole'
  BY <1>2, <1>4, <1>6, <1>7 DEF CacheInv, LinesWhole
<1>10. WriteThrough'
  BY <1>2, <1>4, <1>6, <1>7 DEF CacheInv, WriteThrough
<1>11. ASSUME NEW a \in WordAt \ unkept, a = Now.at
       PROVE  /\ Some(Tail(todo), DropsOf(a))
              /\ writeBack => Some(Tail(todo), CleansOf(a))
  <2>1. Tended(todo, a)
    BY DEF CacheInv, AllTended
  <2>2. Head(todo) \in StoresTo(a)
    BY <1>1, <1>3, <1>11 DEF Now, StoresTo
  <2> QED
    BY <1>1, <2>1, <2>2, TendedStore
<1>12. \A a : Now \notin CleansOf(a) /\ Now \notin DropsOf(a)
  BY <1>1 DEF CleansOf, DropsOf
<1>13. StaleCleaned'
  <2> SUFFICES ASSUME NEW a \in WordAt \ unkept, ram'[a] # data'[a]
               PROVE  Some(Tail(todo), CleansOf(a))
    BY <1>1, <1>2 DEF StaleCleaned, CleansOf
  <2>1. CASE a = Now.at
    <3>1. writeBack
      BY <1>4, <1>7, <2>1
    <3> QED
      BY <1>11, <2>1, <3>1
  <2>2. CASE a # Now.at
    <3>1. Some(todo, CleansOf(a))
      BY <1>4, <1>6, <2>2 DEF CacheInv, StaleCleaned
    <3> QED
      BY <1>1, <1>12, <3>1, SomeOfRest DEF Now
  <2> QED
    BY <2>1, <2>2
<1>14. StaleDropped'
  <2> SUFFICES ASSUME ~(writeBack /\ speculative), NEW a \in WordAt \ unkept,
                      a \div icache_line \in icached, fetched[a] # data'[a]
               PROVE  Some(Tail(todo), DropsOf(a))
    BY <1>1, <1>2 DEF StaleDropped, DropsOf
  <2>1. CASE a = Now.at
    BY <1>11, <2>1
  <2>2. CASE a # Now.at
    <3>1. Some(todo, DropsOf(a))
      BY <1>4, <2>2 DEF CacheInv, StaleDropped
    <3> QED
      BY <1>1, <1>12, <3>1, SomeOfRest DEF Now
  <2> QED
    BY <2>1, <2>2
<1> QED
  BY <1>3, <1>8, <1>9, <1>10, <1>13, <1>14 DEF CacheInv

(* A step that drops instruction lines, "gone", keeps the invariant.       *)
LEMMA DropKeeps ==
  ASSUME CacheInv, todo # <<>>, todo' = Tail(todo),
         UNCHANGED <<data, ram, fetched, dcached, writeBack, speculative, routines, unkept>>,
         icached' \subseteq icached,
         \A a \in WordAt : Now \notin CleansOf(a),
         \A a \in WordAt : Now \in DropsOf(a) => a \div icache_line \notin icached'
  PROVE  CacheInv'
<1>1. CacheTypes /\ todo \in Seq(Work)
  BY DEF CacheInv, CacheTypes
<1>2. AllTended' /\ todo' \in Seq(Work)
  BY RestTends
<1>3. CacheTypes' /\ LinesWhole' /\ WriteThrough'
  BY <1>1, <1>2 DEF CacheInv, CacheTypes, LinesWhole, WriteThrough
<1>4. StaleCleaned'
  <2> SUFFICES ASSUME NEW a \in WordAt \ unkept, ram[a] # data[a]
               PROVE  Some(Tail(todo), CleansOf(a))
    BY DEF StaleCleaned, CleansOf
  <2>1. Some(todo, CleansOf(a))
    BY DEF CacheInv, StaleCleaned
  <2> QED
    BY <1>1, <2>1, SomeOfRest DEF Now
<1>5. StaleDropped'
  <2> SUFFICES ASSUME ~(writeBack /\ speculative), NEW a \in WordAt \ unkept,
                      a \div icache_line \in icached', fetched[a] # data[a]
               PROVE  Some(Tail(todo), DropsOf(a))
    BY DEF StaleDropped, DropsOf
  <2>1. Some(todo, DropsOf(a)) /\ Now \notin DropsOf(a)
    BY DEF CacheInv, StaleDropped
  <2> QED
    BY <1>1, <2>1, SomeOfRest DEF Now
<1> QED
  BY <1>2, <1>3, <1>4, <1>5 DEF CacheInv

LEMMA InvalidateLineKeeps ==
  ASSUME CacheInv, mmu_invalidate_icache_line
  PROVE  CacheInv'
<1>1. \A a : Now \notin CleansOf(a)
  BY DEF mmu_invalidate_icache_line, CleansOf
<1>2. \A a : Now \in DropsOf(a) => a \div icache_line \notin icached'
  BY DEF mmu_invalidate_icache_line, DropsOf
<1> QED
  BY <1>1, <1>2, DropKeeps DEF mmu_invalidate_icache_line, Then

LEMMA FlushKeeps ==
  ASSUME CacheInv, flush_instruction_cache
  PROVE  CacheInv'
<1>1. \A a : Now \notin CleansOf(a)
  BY DEF flush_instruction_cache, CleansOf
<1>2. icached' = {}
  BY DEF flush_instruction_cache
<1> QED
  BY <1>1, <1>2, DropKeeps DEF flush_instruction_cache, Then

LEMMA CleanLineKeeps ==
  ASSUME CacheInv, mmu_invalidate_dcache_line
  PROVE  CacheInv'
<1>1. /\ CacheTypes /\ todo # <<>> /\ todo' = Tail(todo) /\ todo \in Seq(Work)
      /\ Now.op = "mmu_invalidate_dcache_line"
  BY DEF mmu_invalidate_dcache_line, Then, CacheInv, CacheTypes
<1>2. UNCHANGED <<data, fetched, dcached, icached, writeBack, speculative, routines, unkept>>
  BY DEF mmu_invalidate_dcache_line
<1>3. AllTended' /\ todo' \in Seq(Work) /\ Now \in Work
  BY <1>1, <1>2, RestTends
<1>4. Now.at \in Int
  BY <1>3 DEF Work
<1>5. /\ ram' \in [WordAt -> Code]
      /\ \A a \in WordAt : ram'[a] = IF a \div dcache_line = Now.at THEN data[a] ELSE ram[a]
  BY <1>1, <1>4, WrittenWords DEF mmu_invalidate_dcache_line
<1>6. CacheTypes'
  BY <1>1, <1>2, <1>3, <1>5 DEF CacheTypes
<1>7. LinesWhole' /\ WriteThrough'
  BY <1>2, <1>5 DEF CacheInv, LinesWhole, WriteThrough
<1>8. StaleCleaned'
  <2> SUFFICES ASSUME NEW a \in WordAt \ unkept, ram'[a] # data[a]
               PROVE  Some(Tail(todo), CleansOf(a))
    BY <1>1, <1>2 DEF StaleCleaned, CleansOf
  <2>1. a \div dcache_line # Now.at /\ ram[a] # data[a]
    BY <1>5
  <2>2. Some(todo, CleansOf(a)) /\ Now \notin CleansOf(a)
    BY <1>1, <2>1 DEF CacheInv, StaleCleaned, CleansOf
  <2> QED
    BY <1>1, <2>2, SomeOfRest DEF Now
<1>9. StaleDropped'
  <2> SUFFICES ASSUME ~(writeBack /\ speculative), NEW a \in WordAt \ unkept,
                      a \div icache_line \in icached, fetched[a] # data[a]
               PROVE  Some(Tail(todo), DropsOf(a))
    BY <1>1, <1>2 DEF StaleDropped, DropsOf
  <2>1. Some(todo, DropsOf(a)) /\ Now \notin DropsOf(a)
    BY <1>1 DEF CacheInv, StaleDropped, DropsOf
  <2> QED
    BY <1>1, <2>1, SomeOfRest DEF Now
<1> QED
  BY <1>3, <1>6, <1>7, <1>8, <1>9 DEF CacheInv

(* A loop takes one line: what it had to look after is looked after by    *)
(* this step or by what is left of it.                                     *)
LEMMA LoopOverWords ==
  ASSUME CacheInv, NEW line \in Nat \ {0}, Words % line = 0,
         Now \in Work, NEW a \in WordAt, Covers(Now, a, line)
  PROVE  /\ GoesOn(Now, line)
         /\ a \div line = Now.at \/ Covers(NextLine(Now, line), a, line)
<1> DEFINE w == Now
<1>1. w \in Work /\ w.at \in Nat /\ w.end \in Nat
  BY DEF Work
<1>2. NextLine(w, line).at = (w.at + 1) % (Words \div line) /\ NextLine(w, line).end = w.end
  BY <1>1 DEF NextLine, Work
<1> HIDE DEF w
<1>3. a \in Nat /\ a < Words /\ Words \in Nat
  BY WordsAreNumbers, SMT DEF WordAt
<1>4. \/ w.end > Words - line /\ w.at < Words \div line
      \/ w.at <= a \div line /\ a < w.end
  BY DEF w, Covers
<1>5. /\ w.at * line < w.end
      /\ \/ a \div line = w.at
         \/ w.end > Words - line /\ (w.at + 1) % (Words \div line) < Words \div line
         \/ (w.at + 1) % (Words \div line) <= a \div line /\ a < w.end
  BY <1>1, <1>3, <1>4, LoopGoesOn
<1>6. GoesOn(w, line) /\ (a \div line = w.at \/ Covers(NextLine(w, line), a, line))
  BY <1>2, <1>5 DEF GoesOn, Covers
<1> QED
  BY <1>6 DEF w

LEMMA NextLineIsWork ==
  ASSUME NEW line \in Nat \ {0}, Words % line = 0, Now \in Work
  PROVE  NextLine(Now, line) \in Work /\ NextLine(Now, line).op = Now.op
<1>1. (Now.at + 1) % (Words \div line) \in Nat
  <2> DEFINE n == Words \div line
             m == Now.at + 1
  <2>1. n \in Int /\ Words = line * n /\ m \in Nat
    BY WordsAreNumbers, SMT DEF Work
  <2> HIDE DEF n, m
  <2>2. n <= 0 => line * n <= 0
    BY <2>1, SMT
  <2>3. n > 0
    BY <2>1, <2>2, WordsAreNumbers, SMT
  <2>4. m % n \in Nat
    BY <2>1, <2>3, SMT
  <2> QED
    BY <2>4 DEF m, n
<1> QED
  BY <1>1 DEF NextLine, Work

LEMMA AgainTends ==
  ASSUME CacheInv, todo # <<>>, NEW line \in Nat \ {0}, Words % line = 0, Again(line),
         Now.op # "store", writeBack' = writeBack, unkept' = unkept
  PROVE  /\ AllTended' /\ todo' \in Seq(Work) /\ Now \in Work /\ NextLine(Now, line) \in Work
         /\ NextLine(Now, line).op = Now.op
         /\ todo \in Seq(Work) /\ todo' = [todo EXCEPT ![1] = NextLine(Now, line)]
<1>1. todo \in Seq(Work) /\ writeBack \in BOOLEAN
  BY DEF CacheInv, CacheTypes
<1>2. Now \in Work
  BY <1>1, FirstAndRest DEF Now
<1>3. NextLine(Now, line) \in Work /\ NextLine(Now, line).op = Now.op
  BY <1>2, NextLineIsWork
<1>4. todo' = [todo EXCEPT ![1] = NextLine(Now, line)]
  BY DEF Again
<1>5. todo' \in Seq(Work)
  BY <1>1, <1>3, <1>4, FirstAgain
<1>6. \A a \in WordAt \ unkept : Tended(todo', a)
  BY <1>1, <1>3, <1>4, TendedAgain DEF CacheInv, AllTended
<1>7. AllTended'
  BY <1>6 DEF AllTended, Tended
<1> QED
  BY <1>1, <1>2, <1>3, <1>4, <1>5, <1>7

LEMMA LinesDivideWords == Words % dcache_line = 0 /\ Words % icache_line = 0
BY CachesAssumption

LEMMA InvalidateRangeKeeps ==
  ASSUME CacheInv, mmu_invalidate_icache_range
  PROVE  CacheInv'
<1>1. /\ todo # <<>> /\ Now.op = "mmu_invalidate_icache_range" /\ CacheTypes
      /\ UNCHANGED <<data, ram, fetched, dcached, writeBack, speculative, routines, unkept>>
  BY DEF mmu_invalidate_icache_range, CacheInv
<1>2. \A a : Now \notin CleansOf(a)
  BY <1>1 DEF CleansOf
<1>3. Now \in Work
  BY <1>1, FirstAndRest DEF CacheTypes, Now
<1>4. \A a : Now \in DropsOf(a) => Covers(Now, a, icache_line)
  BY <1>1 DEF DropsOf
<1>5. CASE ~GoesOn(Now, icache_line) /\ Then /\ UNCHANGED icached
  <2>1. \A a \in WordAt : Now \notin DropsOf(a)
    BY <1>3, <1>4, <1>5, LoopOverWords, LinesDivideWords, WordsAreNumbers
  <2> QED
    BY <1>1, <1>2, <1>5, <2>1, DropKeeps DEF Then
<1>6. CASE GoesOn(Now, icache_line) /\ icached' = icached \ {Now.at} /\ Again(icache_line)
  <2> DEFINE w == NextLine(Now, icache_line)
  <2>1. /\ AllTended' /\ todo' \in Seq(Work) /\ w \in Work /\ w.op = Now.op
        /\ todo \in Seq(Work) /\ todo' = [todo EXCEPT ![1] = w]
    BY <1>1, <1>6, AgainTends, LinesDivideWords, WordsAreNumbers
  <2>2. \A a \in WordAt : Now \in DropsOf(a) => a \div icache_line = Now.at \/ w \in DropsOf(a)
    <3>1. \A a \in WordAt : Now \in DropsOf(a) => a \div icache_line = Now.at \/ Covers(w, a, icache_line)
      BY <1>3, <1>4, LoopOverWords, LinesDivideWords, WordsAreNumbers
    <3> QED
      BY <1>1, <2>1, <3>1 DEF DropsOf
  <2> HIDE DEF w
  <2>3. CacheTypes' /\ LinesWhole' /\ WriteThrough'
    BY <1>1, <2>1 DEF CacheInv, CacheTypes, LinesWhole, WriteThrough
  <2>4. StaleCleaned'
    <3> SUFFICES ASSUME NEW a \in WordAt \ unkept, ram[a] # data[a]
                 PROVE  Some(todo', CleansOf(a))
      BY <1>1 DEF StaleCleaned
    <3>1. Some(todo, CleansOf(a)) /\ Head(todo) \notin CleansOf(a)
      BY <1>2 DEF CacheInv, StaleCleaned, Now
    <3> QED
      BY <1>1, <2>1, <3>1, SomeAgain
  <2>5. StaleDropped'
    <3> SUFFICES ASSUME ~(writeBack /\ speculative), NEW a \in WordAt \ unkept,
                        a \div icache_line \in icached', fetched[a] # data[a]
                 PROVE  Some(todo', DropsOf(a))
      BY <1>1 DEF StaleDropped
    <3>1. a \div icache_line # Now.at /\ a \div icache_line \in icached
      BY <1>6
    <3>2. Some(todo, DropsOf(a)) /\ (Head(todo) \in DropsOf(a) => w \in DropsOf(a))
      BY <2>2, <3>1 DEF CacheInv, StaleDropped, Now
    <3> QED
      BY <1>1, <2>1, <3>2, SomeAgain
  <2> QED
    BY <2>1, <2>3, <2>4, <2>5 DEF CacheInv
<1> QED
  BY <1>5, <1>6 DEF mmu_invalidate_icache_range

(* A loop over data lines that has come to its end had nothing left to     *)
(* clean; until then it cleans a line and goes on to the next.             *)
LEMMA CleanRangeKeeps ==
  ASSUME CacheInv, mmu_invalidate_dcache_range
  PROVE  CacheInv'
<1>1. /\ todo # <<>> /\ Now.op = "mmu_invalidate_dcache_range" /\ CacheTypes
      /\ UNCHANGED <<data, fetched, dcached, icached, writeBack, speculative, routines, unkept>>
  BY DEF mmu_invalidate_dcache_range, CacheInv
<1>2. \A a : Now \notin DropsOf(a)
  BY <1>1 DEF DropsOf
<1>3. Now \in Work
  BY <1>1, FirstAndRest DEF CacheTypes, Now
<1>4. \A a : Now \in CleansOf(a) => Covers(Now, a, dcache_line)
  BY <1>1 DEF CleansOf
<1>5. CASE ~GoesOn(Now, dcache_line) /\ Then /\ UNCHANGED ram
  <2>1. \A a \in WordAt : Now \notin CleansOf(a)
    BY <1>3, <1>4, <1>5, LoopOverWords, LinesDivideWords, WordsAreNumbers
  <2> QED
    BY <1>1, <1>2, <1>5, <2>1, DropKeeps DEF Then
<1>6. CASE GoesOn(Now, dcache_line) /\ ram' = Written(Now.at) /\ Again(dcache_line)
  <2> DEFINE w == NextLine(Now, dcache_line)
  <2>1. /\ AllTended' /\ todo' \in Seq(Work) /\ w \in Work /\ w.op = Now.op
        /\ todo \in Seq(Work) /\ todo' = [todo EXCEPT ![1] = w]
    BY <1>1, <1>6, AgainTends, LinesDivideWords, WordsAreNumbers
  <2>2. \A a \in WordAt : Now \in CleansOf(a) => a \div dcache_line = Now.at \/ w \in CleansOf(a)
    <3>1. \A a \in WordAt : Now \in CleansOf(a) => a \div dcache_line = Now.at \/ Covers(w, a, dcache_line)
      BY <1>3, <1>4, LoopOverWords, LinesDivideWords, WordsAreNumbers
    <3> QED
      BY <1>1, <2>1, <3>1 DEF CleansOf
  <2>3. Now.at \in Int
    BY <1>3 DEF Work
  <2>4. /\ ram' \in [WordAt -> Code]
        /\ \A a \in WordAt : ram'[a] = IF a \div dcache_line = Now.at THEN data[a] ELSE ram[a]
    BY <1>1, <1>6, <2>3, WrittenWords
  <2> HIDE DEF w
  <2>5. CacheTypes'
    BY <1>1, <2>1, <2>4 DEF CacheTypes
  <2>6. LinesWhole' /\ WriteThrough'
    BY <1>1, <2>4 DEF CacheInv, LinesWhole, WriteThrough
  <2>7. StaleCleaned'
    <3> SUFFICES ASSUME NEW a \in WordAt \ unkept, ram'[a] # data[a]
                 PROVE  Some(todo', CleansOf(a))
      BY <1>1 DEF StaleCleaned
    <3>1. a \div dcache_line # Now.at /\ ram[a] # data[a]
      BY <2>4
    <3>2. Some(todo, CleansOf(a)) /\ (Head(todo) \in CleansOf(a) => w \in CleansOf(a))
      BY <2>2, <3>1 DEF CacheInv, StaleCleaned, Now
    <3> QED
      BY <1>1, <2>1, <3>2, SomeAgain
  <2>8. StaleDropped'
    <3> SUFFICES ASSUME ~(writeBack /\ speculative), NEW a \in WordAt \ unkept,
                        a \div icache_line \in icached, fetched[a] # data[a]
                 PROVE  Some(todo', DropsOf(a))
      BY <1>1 DEF StaleDropped
    <3>1. Some(todo, DropsOf(a)) /\ Head(todo) \notin DropsOf(a)
      BY <1>2 DEF CacheInv, StaleDropped, Now
    <3> QED
      BY <1>1, <2>1, <3>1, SomeAgain
  <2> QED
    BY <2>1, <2>5, <2>6, <2>7, <2>8 DEF CacheInv
<1> QED
  BY <1>5, <1>6 DEF mmu_invalidate_dcache_range

LEMMA BeginKeeps ==
  ASSUME CacheInv, NEW steps, NEW kept, NEW notKept,
         Routine(steps, kept, notKept), Begin(steps, kept, notKept)
  PROVE  CacheInv'
<1>1. /\ todo = <<>> /\ todo' = steps /\ unkept' = (unkept \ kept) \cup notKept
      /\ UNCHANGED <<data, ram, fetched, dcached, icached, writeBack, speculative>>
  BY DEF Begin
<1>2. CacheTypes' /\ LinesWhole' /\ WriteThrough'
  BY <1>1 DEF Routine, CacheInv, CacheTypes, LinesWhole, WriteThrough
<1>3. /\ \A a \in WordAt \ unkept : ram[a] = data[a]
      /\ ~(writeBack /\ speculative) =>
           \A a \in WordAt \ unkept : a \div icache_line \in icached => fetched[a] = data[a]
  <2>1. \A W : ~Some(todo, W)
    BY <1>1, SMT DEF Some
  <2> QED
    BY <2>1 DEF CacheInv, StaleCleaned, StaleDropped
<1>4. \A a \in WordAt \ unkept' : a \in kept \/ (a \notin unkept /\ a \notin kept /\ a \notin notKept)
  BY <1>1
<1>5. AllTended'
  <2>1. \A a \in WordAt \ unkept' : Tended(steps, a)
    BY <1>4 DEF Routine, Tended
  <2> QED
    BY <1>1, <2>1 DEF AllTended, Tended
<1>6. \A a \in kept : Some(steps, DropsOf(a)) /\ (writeBack => Some(steps, CleansOf(a)))
  BY DEF Routine, Last, Some
<1>7. StaleCleaned'
  <2> SUFFICES ASSUME NEW a \in WordAt \ unkept', ram[a] # data[a]
               PROVE  Some(steps, CleansOf(a))
    BY <1>1 DEF StaleCleaned, CleansOf
  <2>1. a \in kept /\ writeBack
    BY <1>3, <1>4 DEF CacheInv, WriteThrough
  <2> QED
    BY <1>6, <2>1
<1>8. StaleDropped'
  <2> SUFFICES ASSUME ~(writeBack /\ speculative), NEW a \in WordAt \ unkept',
                      a \div icache_line \in icached, fetched[a] # data[a]
               PROVE  Some(steps, DropsOf(a))
    BY <1>1 DEF StaleDropped, DropsOf
  <2>1. a \in kept
    BY <1>3, <1>4
  <2> QED
    BY <1>6, <2>1
<1> QED
  BY <1>2, <1>5, <1>7, <1>8 DEF CacheInv

LEMMA CacheInvNext == CacheInv /\ [CacheNext]_cacheVars => CacheInv'
<1> SUFFICES ASSUME CacheInv, [CacheNext]_cacheVars
             PROVE  CacheInv'
  OBVIOUS
<1>1. ASSUME NEW l \in DLine, LoadLine(l) \/ EvictLine(l)
      PROVE  CacheInv'
  BY <1>1, LoadLineKeeps, EvictLineKeeps
<1>2. ASSUME NEW l \in ILine, FetchLine(l)
      PROVE  CacheInv'
  BY <1>2, FetchLineKeeps
<1>3. CASE RoutineStep
  BY <1>3, StoreWordKeeps, InvalidateLineKeeps, CleanLineKeeps, InvalidateRangeKeeps,
     CleanRangeKeeps, FlushKeeps DEF RoutineStep
<1>4. ASSUME NEW slot \in Slots, NEW v \in Code, NEW addr \in WordAt \ {slot, slot + 1},
             insert_breakpoint(addr, slot, v)
      PROVE  CacheInv'
  BY <1>4, InsertRoutine, BeginKeeps DEF insert_breakpoint
<1>5. ASSUME NEW slot \in Slots, NEW v \in Code, NEW addr \in WordAt \ {slot, slot + 1},
             remove_breakpoint(addr, slot, v)
      PROVE  CacheInv'
  BY <1>5, RemoveRoutine, BeginKeeps DEF remove_breakpoint
<1>6. ASSUME NEW vector \in WordAt, NEW v \in Code, INSTALL_EXCEPTION_HANDLER(vector, v)
      PROVE  CacheInv'
  BY <1>6, HandlerRoutine, BeginKeeps DEF INSTALL_EXCEPTION_HANDLER
<1>7. ASSUME NEW addr \in WordAt, NEW v \in Code, NEW size \in 1 .. Words - addr,
             cmd_write_code(addr, size, v)
      PROVE  CacheInv'
  BY <1>7, WriteCodeRoutine, BeginKeeps DEF cmd_write_code
<1>8. ASSUME NEW addr \in WordAt, NEW v \in Code, NEW size \in 1 .. Words - addr,
             cmd_write_memory(addr, size, v)
      PROVE  CacheInv'
  BY <1>8, WriteMemoryRoutine, BeginKeeps DEF cmd_write_memory
<1>9. CASE UNCHANGED cacheVars
  BY <1>9 DEF cacheVars, CacheInv, CacheTypes, LinesWhole, WriteThrough, AllTended, Tended, Last,
       NoStore, Some, StoresTo, CleansOf, DropsOf, StaleCleaned, StaleDropped
<1> QED
  BY <1>1, <1>2, <1>3, <1>4, <1>5, <1>6, <1>7, <1>8, <1>9 DEF CacheNext

(* The invariant the two properties of the caches rest on.                 *)
THEOREM CacheInvariant == CacheSpec => []CacheInv
<1> QED
  BY CacheInvInit, CacheInvNext, PTL DEF CacheSpec

(* A loop that goes on, and whose range does not end inside the last line, *)
(* has a line behind it to go on to.                                       *)
LEMMA NextLineIsFurther ==
  ASSUME NEW line \in Nat \ {0}, Words % line = 0, Now \in Work,
         GoesOn(Now, line), ~(Now.end > Words - line)
  PROVE  NextLine(Now, line).at = Now.at + 1
<1> DEFINE k   == Now.at
           end == Now.end
           n   == Words \div line
<1>1. k \in Nat /\ end \in Nat /\ k * line < end /\ end <= Words - line
  BY WordsAreNumbers, SMT DEF Work, GoesOn
<1>2. NextLine(Now, line).at = (k + 1) % n
  BY DEF NextLine, Work
<1>3. n \in Int /\ Words = line * n /\ Words \in Nat
  BY WordsAreNumbers, SMT
<1> HIDE DEF k, end, n
<1>4. k * line = line * k /\ line * k \in Nat /\ line * n \in Int
  BY <1>1, <1>3, SMT
<1>5. n <= k + 1 => line * n <= line * k + line
  BY <1>1, <1>3, SMT
<1>6. k + 1 < n
  BY <1>1, <1>3, <1>4, <1>5, SMT
<1>7. (k + 1) % n = k + 1
  BY <1>1, <1>3, <1>6, SMT
<1> QED
  BY <1>2, <1>7 DEF k

(* The loops over lines go forward, for every size of memory and of both   *)
(* kinds of line and for every range but those that end inside the last    *)
(* line: no other loop comes around the end of memory (mmu.c:88-90).       *)
THEOREM LoopsComeToTheirEnd == CacheSpec => LoopsGoForward
<1> DEFINE Loops == {"mmu_invalidate_icache_range", "mmu_invalidate_dcache_range"}
<1>1. ASSUME CacheInv, [CacheNext]_cacheVars, todo # <<>>, ~EndsInLastLine(Now),
             Now.op \in Loops, Len(todo') = Len(todo)
      PROVE  todo'[1].at >= Now.at
  <2>1. /\ todo \in Seq(Work) /\ Now \in Work /\ Now = todo[1] /\ Now.at \in Nat
        /\ todo' # Tail(todo)
    <3>1. todo \in Seq(Work)
      BY <1>1 DEF CacheInv, CacheTypes
    <3>2. /\ Len(todo) \in Nat /\ Now = todo[1] /\ Now \in Work
          /\ Len(Tail(todo)) = Len(todo) - 1
      BY <1>1, <3>1, FirstAndRest DEF Now
    <3>3. Len(Tail(todo)) # Len(todo)
      BY <3>2, SMT
    <3> QED
      BY <1>1, <3>1, <3>2, <3>3 DEF Work
  <2>2. ASSUME NEW line \in Nat \ {0}, Words % line = 0, GoesOn(Now, line), Again(line),
               ~(Now.end > Words - line)
        PROVE  todo'[1].at >= Now.at
    <3>1. NextLine(Now, line).at = Now.at + 1 /\ NextLine(Now, line) \in Work
      BY <2>1, <2>2, NextLineIsFurther, NextLineIsWork
    <3>2. todo'[1] = NextLine(Now, line)
      BY <1>1, <2>1, <2>2, <3>1, FirstAgain DEF Again
    <3> QED
      BY <2>1, <3>1, <3>2, SMT
  <2>3. CASE mmu_invalidate_icache_range
    <3>1. GoesOn(Now, icache_line) /\ Again(icache_line) /\ ~(Now.end > Words - icache_line)
      BY <1>1, <2>1, <2>3 DEF mmu_invalidate_icache_range, Then, EndsInLastLine
    <3> QED
      BY <2>2, <3>1, LinesDivideWords, WordsAreNumbers
  <2>4. CASE mmu_invalidate_dcache_range
    <3>1. GoesOn(Now, dcache_line) /\ Again(dcache_line) /\ ~(Now.end > Words - dcache_line)
      BY <1>1, <2>1, <2>4 DEF mmu_invalidate_dcache_range, Then, EndsInLastLine
    <3> QED
      BY <2>2, <3>1, LinesDivideWords, WordsAreNumbers
  <2>5. CASE \/ StoreWord \/ flush_instruction_cache
             \/ mmu_invalidate_icache_line \/ mmu_invalidate_dcache_line
    BY <2>1, <2>5 DEF StoreWord, flush_instruction_cache, mmu_invalidate_icache_line,
       mmu_invalidate_dcache_line, Then
  <2>6. CASE todo' = todo
    BY <2>1, <2>6, SMT
  <2>7. ASSUME NEW steps, NEW kept, NEW notKept
        PROVE  ~Begin(steps, kept, notKept)
    BY <1>1 DEF Begin
  <2>8. CASE \/ \E l \in DLine : LoadLine(l) \/ EvictLine(l)
             \/ \E l \in ILine : FetchLine(l)
             \/ UNCHANGED cacheVars
    BY <2>6, <2>8 DEF LoadLine, EvictLine, FetchLine, cacheVars
  <2> QED
    BY <1>1, <2>3, <2>4, <2>5, <2>7, <2>8
       DEF CacheNext, RoutineStep, insert_breakpoint, remove_breakpoint,
           INSTALL_EXCEPTION_HANDLER, cmd_write_code, cmd_write_memory
<1>2. CacheInv /\ [CacheNext]_cacheVars =>
        [/\ todo # <<>> /\ ~EndsInLastLine(Now)
         /\ Now.op \in {"mmu_invalidate_icache_range", "mmu_invalidate_dcache_range"}
         /\ Len(todo') = Len(todo)
         => todo'[1].at >= Now.at]_cacheVars
  BY <1>1
<1> QED
  BY <1>2, CacheInvariant, PTL DEF CacheSpec, LoopsGoForward

(* When no routine is under way, memory holds every word that was looked   *)
(* after: for every size of memory and of both kinds of line, however a    *)
(* range is aligned, and whatever the caches keep or write back meanwhile. *)
(* Of a range that ends inside the last line it says nothing: the routine  *)
(* that loops over it stays under way (mmu.c:88-90).                       *)
THEOREM MemoryIsCurrent == CacheSpec => []MemoryCurrent
<1>1. CacheInv => MemoryCurrent
  <2> SUFFICES ASSUME CacheInv, todo = <<>>, NEW a \in WordAt \ unkept
               PROVE  ram[a] = data[a]
    BY DEF MemoryCurrent
  <2>1. ~Some(todo, CleansOf(a))
    BY SMT DEF Some
  <2> QED
    BY <2>1 DEF CacheInv, StaleCleaned
<1> QED
  BY <1>1, CacheInvariant, PTL

(* And the processor executes those words, unless it speculates over a     *)
(* write-back cache.                                                       *)
THEOREM CodeIsCurrent == CacheSpec => []CodeCurrent
<1>1. CacheInv => CodeCurrent
  <2> SUFFICES ASSUME CacheInv, todo = <<>>, ~(writeBack /\ speculative),
                      NEW a \in WordAt \ unkept, a \div icache_line \in icached
               PROVE  fetched[a] = data[a]
    BY DEF CodeCurrent
  <2>1. ~Some(todo, DropsOf(a))
    BY SMT DEF Some
  <2> QED
    BY <2>1 DEF CacheInv, StaleDropped
<1> QED
  BY <1>1, CacheInvariant, PTL

-----------------------------------------------------------------------------
(***************************************************************************)
(* The program: which instruction is where.                                *)
(***************************************************************************)
LEMMA HandlerInParts ==
  ASSUME NEW T, NEW s \in Seq(T), NEW x \in T, NEW r \in Seq(T)
  PROVE  /\ Len(s \o <<x>> \o r) = Len(s) + 1 + Len(r)
         /\ \A k \in 1 .. Len(s) : (s \o <<x>> \o r)[k] = s[k]
         /\ (s \o <<x>> \o r)[Len(s) + 1] = x
         /\ \A k \in 1 .. Len(r) : (s \o <<x>> \o r)[Len(s) + 1 + k] = r[k]
<1>1. <<x>> \in Seq(T) /\ Len(<<x>>) = 1 /\ <<x>>[1] = x /\ Len(s) \in Nat /\ Len(r) \in Nat
  BY LenProperties
<1> DEFINE u == s \o <<x>>
<1>2. u \in Seq(T) /\ Len(u) = Len(s) + 1
  BY <1>1, ConcatProperties
<1>3. \A i \in 1 .. Len(s) + 1 : u[i] = IF i <= Len(s) THEN s[i] ELSE <<x>>[i - Len(s)]
  BY <1>1, ConcatProperties
<1>4. (\A k \in 1 .. Len(s) : u[k] = s[k]) /\ u[Len(s) + 1] = x
  <2>1. \A k \in 1 .. Len(s) : k \in 1 .. Len(s) + 1 /\ k <= Len(s)
    BY <1>1, SMT
  <2>2. Len(s) + 1 \in 1 .. Len(s) + 1 /\ ~(Len(s) + 1 <= Len(s)) /\ (Len(s) + 1) - Len(s) = 1
    BY <1>1, SMT
  <2> QED
    BY <1>1, <1>3, <2>1, <2>2
<1> HIDE DEF u
<1>5. /\ Len(u \o r) = Len(u) + Len(r)
      /\ \A i \in 1 .. Len(u) + Len(r) : (u \o r)[i] = IF i <= Len(u) THEN u[i] ELSE r[i - Len(u)]
  BY <1>2, ConcatProperties
<1>6. \A k \in 1 .. Len(s) + 1 : k \in 1 .. Len(u) + Len(r) /\ k <= Len(u)
  BY <1>1, <1>2, SMT
<1>7. \A k \in 1 .. Len(r) : /\ Len(s) + 1 + k \in 1 .. Len(u) + Len(r)
                             /\ ~(Len(s) + 1 + k <= Len(u)) /\ (Len(s) + 1 + k) - Len(u) = k
  BY <1>1, <1>2, SMT
<1>8. \A k \in 1 .. Len(s) : k \in 1 .. Len(s) + 1
  BY <1>1, SMT
<1>9. Len(s) + 1 \in 1 .. Len(s) + 1
  BY <1>1, SMT
<1> QED
  BY <1>2, <1>4, <1>5, <1>6, <1>7, <1>8, <1>9 DEF u

LEMMA SaveContextIs ==
  /\ \E T : save_context \in Seq(T) /\ Do("blx", "", "") \in T /\ restore_context \in Seq(T)
  /\ Len(save_context) = 19 /\ Len(restore_context) = 5
<1> DEFINE T == {Push(<<"return address">>), Push(<<"r0", "r1">>), Do("sub 4", "r0", "lr"),
                 Do("mrs spsr", "lr", ""), Do("msr", "cpsr_c", "lr"), Do("mov", "r1", "sp"),
                 Push(<<"r0">>), Push(<<"lr">>), Push(<<"r1">>), Push(<<"r2", "r12">>),
                 Do("msr", "cpsr_c", "abort_mode"), Pop(<<"r0", "r1">>), Do("mrs spsr", "r2", ""),
                 Push(<<"r2">>), Pop(<<"lr">>), Do("subs pc", "", "lr"), Do("blx", "", ""),
                 Pop(<<"r12">>), Do("msr", "cpsr", "r12"), Pop(<<"r0", "r1", "r2", "r12">>),
                 Pop(<<"lr", "pc">>)}
<1>1. save_context \in Seq(T) /\ Len(save_context) = 19
  BY DEF save_context
<1>2. restore_context \in Seq(T) /\ Len(restore_context) = 5
  BY DEF restore_context
<1>3. Do("blx", "", "") \in T
  OBVIOUS
<1> QED
  BY <1>1, <1>2, <1>3

LEMMA ProgramText ==
  /\ StopAt = 20 /\ Len(prefetch_abort_handler) = 25
  /\ \A k \in 1 .. 19 : prefetch_abort_handler[k] = save_context[k]
  /\ \A k \in 1 .. 5 : prefetch_abort_handler[20 + k] = restore_context[k]
<1>1. PICK T : save_context \in Seq(T) /\ Do("blx", "", "") \in T /\ restore_context \in Seq(T)
  BY SaveContextIs
<1>2. Len(save_context) = 19 /\ Len(restore_context) = 5
  BY SaveContextIs
<1> DEFINE b == Do("blx", "", "")
<1> HIDE DEF b
<1>3. b \in T
  BY <1>1 DEF b
<1> DEFINE s == save_context
           r == restore_context
<1> HIDE DEF s, r
<1>3a. s \in Seq(T) /\ r \in Seq(T)
  BY <1>1 DEF s, r
<1>4. /\ Len(s \o <<b>> \o r) = Len(s) + 1 + Len(r)
      /\ \A k \in 1 .. Len(s) : (s \o <<b>> \o r)[k] = s[k]
      /\ \A k \in 1 .. Len(r) : (s \o <<b>> \o r)[Len(s) + 1 + k] = r[k]
  BY <1>3, <1>3a, HandlerInParts
<1>5. prefetch_abort_handler = s \o <<b>> \o r
  BY DEF prefetch_abort_handler, b, s, r
<1>6. StopAt = 20 /\ Len(save_context) + 1 = 20 /\ Len(save_context) + 1 + Len(restore_context) = 25
  BY <1>2 DEF StopAt
<1> QED
  BY <1>2, <1>4, <1>5, <1>6 DEF s, r

LEMMA InstructionAt ==
  /\ prefetch_abort_handler[1]  = Push(<<"return address">>)
  /\ prefetch_abort_handler[2]  = Push(<<"r0", "r1">>)
  /\ prefetch_abort_handler[3]  = Do("sub 4", "r0", "lr")
  /\ prefetch_abort_handler[4]  = Do("mrs spsr", "lr", "")
  /\ prefetch_abort_handler[5]  = Do("msr", "cpsr_c", "lr")
  /\ prefetch_abort_handler[6]  = Do("mov", "r1", "sp")
  /\ prefetch_abort_handler[7]  = Push(<<"r0">>)
  /\ prefetch_abort_handler[8]  = Push(<<"lr">>)
  /\ prefetch_abort_handler[9]  = Push(<<"r1">>)
  /\ prefetch_abort_handler[10] = Push(<<"r2", "r12">>)
  /\ prefetch_abort_handler[11] = Do("msr", "cpsr_c", "abort_mode")
  /\ prefetch_abort_handler[12] = Pop(<<"r0", "r1">>)
  /\ prefetch_abort_handler[13] = Do("mrs spsr", "r2", "")
  /\ prefetch_abort_handler[14] = Do("msr", "cpsr_c", "lr")
  /\ prefetch_abort_handler[15] = Push(<<"r0", "r1">>)
  /\ prefetch_abort_handler[16] = Push(<<"r2">>)
  /\ prefetch_abort_handler[17] = Do("msr", "cpsr_c", "abort_mode")
  /\ prefetch_abort_handler[18] = Pop(<<"lr">>)
  /\ prefetch_abort_handler[19] = Do("subs pc", "", "lr")
  /\ prefetch_abort_handler[21] = Pop(<<"r12">>)
  /\ prefetch_abort_handler[22] = Do("msr", "cpsr", "r12")
  /\ prefetch_abort_handler[23] = Pop(<<"r0", "r1", "r2", "r12">>)
  /\ prefetch_abort_handler[24] = Pop(<<"lr">>)
  /\ prefetch_abort_handler[25] = Pop(<<"lr", "pc">>)
<1>1. /\ restore_context[1] = Pop(<<"r12">>) /\ restore_context[2] = Do("msr", "cpsr", "r12")
      /\ restore_context[3] = Pop(<<"r0", "r1", "r2", "r12">>)
      /\ restore_context[4] = Pop(<<"lr">>) /\ restore_context[5] = Pop(<<"lr", "pc">>)
  BY DEF restore_context
<1>2. \A k \in {1, 2, 3, 4, 5} : prefetch_abort_handler[20 + k] = restore_context[k]
  BY ProgramText
<1>3. /\ prefetch_abort_handler[21] = restore_context[1] /\ prefetch_abort_handler[22] = restore_context[2]
      /\ prefetch_abort_handler[23] = restore_context[3] /\ prefetch_abort_handler[24] = restore_context[4]
      /\ prefetch_abort_handler[25] = restore_context[5]
  BY <1>2, SMT
<1>4. \A k \in 1 .. 19 : prefetch_abort_handler[k] = save_context[k]
  BY ProgramText
<1>5. /\ save_context[1] = Push(<<"return address">>)
      /\ save_context[2] = Push(<<"r0", "r1">>)
      /\ save_context[3] = Do("sub 4", "r0", "lr")
      /\ save_context[4] = Do("mrs spsr", "lr", "")
      /\ save_context[5] = Do("msr", "cpsr_c", "lr")
      /\ save_context[6] = Do("mov", "r1", "sp")
      /\ save_context[7] = Push(<<"r0">>)
      /\ save_context[8] = Push(<<"lr">>)
      /\ save_context[9] = Push(<<"r1">>)
      /\ save_context[10] = Push(<<"r2", "r12">>)
      /\ save_context[11] = Do("msr", "cpsr_c", "abort_mode")
      /\ save_context[12] = Pop(<<"r0", "r1">>)
      /\ save_context[13] = Do("mrs spsr", "r2", "")
      /\ save_context[14] = Do("msr", "cpsr_c", "lr")
      /\ save_context[15] = Push(<<"r0", "r1">>)
      /\ save_context[16] = Push(<<"r2">>)
      /\ save_context[17] = Do("msr", "cpsr_c", "abort_mode")
      /\ save_context[18] = Pop(<<"lr">>)
      /\ save_context[19] = Do("subs pc", "", "lr")
  BY DEF save_context
<1>6. /\ prefetch_abort_handler[1] = save_context[1]
      /\ prefetch_abort_handler[2] = save_context[2]
      /\ prefetch_abort_handler[3] = save_context[3]
      /\ prefetch_abort_handler[4] = save_context[4]
      /\ prefetch_abort_handler[5] = save_context[5]
      /\ prefetch_abort_handler[6] = save_context[6]
      /\ prefetch_abort_handler[7] = save_context[7]
      /\ prefetch_abort_handler[8] = save_context[8]
      /\ prefetch_abort_handler[9] = save_context[9]
      /\ prefetch_abort_handler[10] = save_context[10]
      /\ prefetch_abort_handler[11] = save_context[11]
      /\ prefetch_abort_handler[12] = save_context[12]
      /\ prefetch_abort_handler[13] = save_context[13]
      /\ prefetch_abort_handler[14] = save_context[14]
      /\ prefetch_abort_handler[15] = save_context[15]
      /\ prefetch_abort_handler[16] = save_context[16]
      /\ prefetch_abort_handler[17] = save_context[17]
      /\ prefetch_abort_handler[18] = save_context[18]
      /\ prefetch_abort_handler[19] = save_context[19]
  BY <1>4, SMT
<1> QED
  BY <1>1, <1>3, <1>5, <1>6, Zenon

-----------------------------------------------------------------------------
(***************************************************************************)
(* The state at each instruction, in terms of the context that was         *)
(* interrupted.                                                            *)
(***************************************************************************)
Items == Value \cup Nat \cup Status \cup Seq(Value)

CpuTypes ==
  /\ reg \in [Reg -> Items] /\ lr \in [Mode -> Items] /\ stack \in [Mode -> Seq(Items)]
  /\ original \in [reg : [Reg -> Value], lr : Value, stack : Seq(Value),
                   cpsr : [mode : {SVC}, masked : BOOLEAN, flags : Flags]]
  /\ goal \in Nat

(* The words of the context, the last one being where HBOOT goes on.       *)
FrameWord(k, resume) ==
  IF k = 1 THEN original.cpsr ELSE IF k = 2 THEN original.reg["r0"]
  ELSE IF k = 3 THEN original.reg["r1"] ELSE IF k = 4 THEN original.reg["r2"]
  ELSE IF k = 5 THEN original.reg["r12"] ELSE IF k = 6 THEN original.stack
  ELSE IF k = 7 THEN original.lr ELSE resume

(* The last n words of the context lie on the stack HBOOT had.             *)
Framed(s, n, resume) ==
  /\ Len(s) = n + Len(original.stack)
  /\ \A k \in 1 .. n : s[k] = FrameWord(8 - n + k, resume)
  /\ \A k \in 1 .. Len(original.stack) : s[n + k] = original.stack[k]

Depth(k) ==
  IF k \in 0 .. 7 THEN 0 ELSE IF k = 8 THEN 1 ELSE IF k = 9 THEN 2 ELSE IF k = 10 THEN 3
  ELSE IF k \in 11 .. 15 THEN 5 ELSE IF k = 16 THEN 7 ELSE IF k \in 17 .. 21 THEN 8
  ELSE IF k \in 22 .. 23 THEN 7 ELSE IF k = 24 THEN 3 ELSE 2

HbootStackAt(k, s) == Framed(s, Depth(k), IF k > 20 THEN goal ELSE Fault)

AbortStackAt(k, s) ==
  /\ Len(s) = IF k \in 3 .. 12 THEN 3 ELSE IF k = 2 \/ k \in 13 .. 18 THEN 1 ELSE 0
  /\ k \in 3 .. 12 => s[1] = original.reg["r0"] /\ s[2] = original.reg["r1"]

InAbort == [mode |-> ABT, masked |-> TRUE, flags |-> original.cpsr.flags]

StatusAt(k, status, saved) ==
  /\ k \in 1 .. 19 => saved = original.cpsr
  /\ k \in 1 .. 5 \/ k \in 12 .. 14 \/ k \in 18 .. 19 => status = InAbort
  /\ k = 0 \/ k \in 6 .. 11 \/ k \in 15 .. 17 \/ k = 20 \/ k \in 23 .. 25 => status = original.cpsr
  /\ k \in 21 .. 22 => \E f \in Flags : status = [original.cpsr EXCEPT !.flags = f]

RegistersAt(k, regs) ==
  /\ k \in 0 .. 3 \/ k = 13 \/ k \in 24 .. 25 => regs = original.reg
  /\ k \in 4 .. 6   => regs = [original.reg EXCEPT !["r0"] = Fault]
  /\ k \in 7 .. 12  => regs = [original.reg EXCEPT !["r0"] = Fault, !["r1"] = original.stack]
  /\ k \in 14 .. 20 => regs = [original.reg EXCEPT !["r2"] = original.cpsr]
  /\ k \in 22 .. 23 => regs["r12"] = original.cpsr

LinksAt(k, links) ==
  /\ k \in 0 .. 20  => links[SVC] = original.lr
  /\ k \in 1 .. 4   => links[ABT] = Fault + 4
  /\ k \in 5 .. 18  => links[ABT] = original.cpsr

ContextAt(k) ==
  /\ HbootStackAt(k, stack[SVC]) /\ AbortStackAt(k, stack[ABT])
  /\ StatusAt(k, cpsr, spsr) /\ RegistersAt(k, reg) /\ LinksAt(k, lr)

CpuInv ==
  /\ CpuTypes
  /\ at \in 0 .. 25
  /\ nested \in BOOLEAN
  /\ nested => at \in 1 .. 19
  /\ at = 0 => pc = goal
  /\ ~nested => ContextAt(at)

-----------------------------------------------------------------------------
(***************************************************************************)
(* What the instructions do.                                               *)
(***************************************************************************)
LEMMA PushEffect ==
  ASSUME Step, NEW regs, Instruction = Push(regs)
  PROVE  /\ stack' = [stack EXCEPT ![cpsr.mode] = [k \in DOMAIN regs |-> Read(regs[k])] \o @]
         /\ UNCHANGED <<reg, lr, cpsr, spsr, pc>>
<1>1. Instruction.op = "stmfd" /\ Instruction.regs = regs
  BY DEF Push
<1> HIDE DEF Instruction
<1>2. stmfd
  BY <1>1 DEF Step, ldmfd, mov, msr, subs_pc
<1> QED
  BY <1>1, <1>2 DEF stmfd

LEMMA PopEffect ==
  ASSUME Step, NEW regs, Instruction = Pop(regs)
  PROVE  /\ Write(regs, SubSeq(stack[cpsr.mode], 1, Len(regs)))
         /\ stack' = [stack EXCEPT ![cpsr.mode] = SubSeq(stack[cpsr.mode], Len(regs) + 1, Len(stack[cpsr.mode]))]
         /\ UNCHANGED <<cpsr, spsr>>
<1>1. Instruction.op = "ldmfd" /\ Instruction.regs = regs
  BY DEF Pop
<1> HIDE DEF Instruction
<1>2. ldmfd
  BY <1>1 DEF Step, stmfd, mov, msr, subs_pc
<1> QED
  BY <1>1, <1>2 DEF ldmfd

LEMMA MovEffect ==
  ASSUME Step, NEW op \in {"sub 4", "mrs spsr", "mov"}, NEW d, NEW s, Instruction = Do(op, d, s)
  PROVE  /\ Write(<<d>>, <<IF op = "sub 4" THEN Read(s) - 4 ELSE IF op = "mov" THEN Read(s) ELSE spsr>>)
         /\ UNCHANGED <<stack, cpsr, spsr>>
<1>1. Instruction.op = op /\ Instruction.d = d /\ Instruction.s = s
  BY DEF Do
<1> HIDE DEF Instruction
<1>2. mov
  BY <1>1 DEF Step, stmfd, ldmfd, msr, subs_pc
<1> QED
  BY <1>1, <1>2 DEF mov

LEMMA MsrEffect ==
  ASSUME Step, NEW d, NEW s, Instruction = Do("msr", d, s)
  PROVE  /\ cpsr' = IF d = "cpsr" THEN Read(s) ELSE [Read(s) EXCEPT !.flags = cpsr.flags]
         /\ UNCHANGED <<reg, lr, stack, spsr, pc>>
<1>1. Instruction.op = "msr" /\ Instruction.d = d /\ Instruction.s = s
  BY DEF Do
<1> HIDE DEF Instruction
<1>2. msr
  BY <1>1 DEF Step, stmfd, ldmfd, mov, subs_pc
<1> QED
  BY <1>1, <1>2 DEF msr

LEMMA SubsPcEffect ==
  ASSUME Step, NEW d, NEW s, Instruction = Do("subs pc", d, s)
  PROVE  cpsr' = spsr /\ UNCHANGED <<reg, lr, stack, spsr, pc>>
<1>1. Instruction.op = "subs pc"
  BY DEF Do
<1> HIDE DEF Instruction
<1>2. subs_pc
  BY <1>1 DEF Step, stmfd, ldmfd, mov, msr
<1> QED
  BY <1>1, <1>2 DEF subs_pc

(* What is written where, when the registers named are different.          *)
LEMMA WriteEffect ==
  ASSUME NEW names, NEW values, Write(names, values),
         \A j, k \in DOMAIN names : names[j] = names[k] => j = k
  PROVE  /\ \A k \in DOMAIN names :
              /\ names[k] \in Reg => reg'[names[k]] = values[k]
              /\ names[k] = "lr" => lr' = [lr EXCEPT ![cpsr.mode] = values[k]]
              /\ names[k] = "pc" => pc' = values[k]
         /\ \A r \in Reg : (\A k \in DOMAIN names : names[k] # r) => reg'[r] = reg[r]
         /\ (\A k \in DOMAIN names : names[k] # "lr") => lr' = [lr EXCEPT ![cpsr.mode] = @]
         /\ (\A k \in DOMAIN names : names[k] # "pc") => pc' = pc
         /\ reg' = [r \in Reg |-> reg'[r]]
<1>1. ASSUME NEW k \in DOMAIN names
      PROVE  (CHOOSE j \in DOMAIN names : names[j] = names[k]) = k
  <2>1. names[CHOOSE j \in DOMAIN names : names[j] = names[k]] = names[k]
        /\ (CHOOSE j \in DOMAIN names : names[j] = names[k]) \in DOMAIN names
    OBVIOUS
  <2> QED
    BY <2>1
<1> QED
  BY <1>1 DEF Write

-----------------------------------------------------------------------------
(***************************************************************************)
(* Stacks.                                                                 *)
(***************************************************************************)
LEMMA StackPushed ==
  ASSUME NEW p \in Seq(Items), NEW s \in Seq(Items)
  PROVE  /\ p \o s \in Seq(Items) /\ Len(p) \in Nat /\ Len(s) \in Nat
         /\ Len(p \o s) = Len(p) + Len(s)
         /\ \A k \in 1 .. Len(p) : (p \o s)[k] = p[k]
         /\ \A k \in 1 .. Len(s) : (p \o s)[Len(p) + k] = s[k]
<1>1. p \o s \in Seq(Items) /\ Len(p) \in Nat /\ Len(s) \in Nat /\ Len(p \o s) = Len(p) + Len(s)
  BY ConcatProperties, LenProperties
<1>2. \A i \in 1 .. Len(p) + Len(s) : (p \o s)[i] = IF i <= Len(p) THEN p[i] ELSE s[i - Len(p)]
  BY ConcatProperties
<1>3. \A k \in 1 .. Len(p) : k \in 1 .. Len(p) + Len(s) /\ k <= Len(p)
  BY <1>1, SMT
<1>4. \A k \in 1 .. Len(s) :
        Len(p) + k \in 1 .. Len(p) + Len(s) /\ ~(Len(p) + k <= Len(p)) /\ (Len(p) + k) - Len(p) = k
  BY <1>1, SMT
<1> QED
  BY <1>1, <1>2, <1>3, <1>4

LEMMA StackPopped ==
  ASSUME NEW s \in Seq(Items), NEW m \in Nat, m <= Len(s)
  PROVE  /\ SubSeq(s, m + 1, Len(s)) \in Seq(Items) /\ Len(s) \in Nat
         /\ Len(SubSeq(s, m + 1, Len(s))) = Len(s) - m
         /\ \A k \in 1 .. Len(s) - m : SubSeq(s, m + 1, Len(s))[k] = s[m + k]
         /\ \A k \in 1 .. m : SubSeq(s, 1, m)[k] = s[k] /\ s[k] \in Items
<1>1. Len(s) \in Nat /\ \A k \in 1 .. Len(s) : s[k] \in Items
  BY LenProperties, ElementOfSeq
<1>2. (\A k \in m + 1 .. Len(s) : s[k] \in Items) /\ (\A k \in 1 .. m : s[k] \in Items)
  BY <1>1, SMT
<1>3. /\ SubSeq(s, m + 1, Len(s)) \in Seq(Items)
      /\ Len(SubSeq(s, m + 1, Len(s))) = IF m + 1 <= Len(s) THEN Len(s) - (m + 1) + 1 ELSE 0
      /\ \A k \in 1 .. Len(s) - (m + 1) + 1 : SubSeq(s, m + 1, Len(s))[k] = s[m + 1 + k - 1]
  <2>1. m + 1 \in Int /\ Len(s) \in Int
    BY <1>1, SMT
  <2> QED
    BY <1>2, <2>1, SubSeqProperties
<1>4. Len(SubSeq(s, m + 1, Len(s))) = Len(s) - m
  BY <1>1, <1>3, SMT
<1>5. \A k \in 1 .. Len(s) - m : k \in 1 .. Len(s) - (m + 1) + 1 /\ m + 1 + k - 1 = m + k
  BY <1>1, SMT
<1>6. \A k \in 1 .. m : SubSeq(s, 1, m)[k] = s[k]
  <2>1. 1 \in Int /\ m \in Int
    BY SMT
  <2>2. \A i \in 1 .. m - 1 + 1 : SubSeq(s, 1, m)[i] = s[1 + i - 1]
    BY <1>2, <2>1, SubSeqProperties
  <2>3. \A i \in 1 .. m : i \in 1 .. m - 1 + 1 /\ 1 + i - 1 = i
    BY SMT
  <2> QED
    BY <2>2, <2>3
<1> QED
  BY <1>1, <1>2, <1>3, <1>4, <1>5, <1>6

LEMMA OriginalContext ==
  ASSUME CpuTypes
  PROVE  /\ original.stack \in Seq(Value) /\ Len(original.stack) \in Nat
         /\ original.cpsr \in Status /\ original.cpsr.mode = SVC /\ original.cpsr.flags \in Flags
         /\ original.reg \in [Reg -> Value] /\ original.lr \in Value
         /\ \A k, w : w \in Items => FrameWord(k, w) \in Items
         /\ Fault \in Items /\ goal \in Items /\ Fault \in Nat
<1>1. /\ original.stack \in Seq(Value) /\ original.reg \in [Reg -> Value] /\ original.lr \in Value
      /\ original.cpsr \in [mode : {SVC}, masked : BOOLEAN, flags : Flags]
  BY DEF CpuTypes
<1>2. original.cpsr \in Status /\ original.cpsr.mode = SVC /\ original.cpsr.flags \in Flags
  BY <1>1 DEF Status, Mode
<1>3. Len(original.stack) \in Nat
  BY <1>1, LenProperties
<1>4. \A r \in {"r0", "r1", "r2", "r12"} : original.reg[r] \in Value
  BY <1>1 DEF Reg
<1>5. \A k, w : w \in Items => FrameWord(k, w) \in Items
  BY <1>1, <1>2, <1>4 DEF FrameWord, Items
<1>6. Fault \in Nat /\ goal \in Nat
  BY ContextAssumption DEF CpuTypes
<1> QED
  BY <1>1, <1>2, <1>3, <1>5, <1>6 DEF Items

LEMMA FramePushed ==
  ASSUME CpuTypes, NEW s \in Seq(Items), NEW p \in Seq(Items), NEW w, NEW n \in 0 .. 8,
         Framed(s, n, w), \A k \in 1 .. Len(p) : p[k] = FrameWord(8 - (n + Len(p)) + k, w)
  PROVE  p \o s \in Seq(Items) /\ Framed(p \o s, n + Len(p), w)
<1>1. /\ p \o s \in Seq(Items) /\ Len(p) \in Nat /\ Len(s) \in Nat
      /\ Len(p \o s) = Len(p) + Len(s)
      /\ \A k \in 1 .. Len(p) : (p \o s)[k] = p[k]
      /\ \A k \in 1 .. Len(s) : (p \o s)[Len(p) + k] = s[k]
  BY StackPushed
<1>2. Len(original.stack) \in Nat /\ n \in Nat
  BY OriginalContext
<1>3. Len(p \o s) = (n + Len(p)) + Len(original.stack)
  <2>1. Len(s) = n + Len(original.stack)
    BY DEF Framed
  <2>2. Len(p) \in Nat /\ Len(p \o s) = Len(p) + Len(s)
    BY <1>1
  <2>3. \A a, b, c \in Nat : a + (b + c) = (b + a) + c
    BY SMT
  <2>4. Len(p) + (n + Len(original.stack)) = (n + Len(p)) + Len(original.stack)
    BY <1>2, <2>2, <2>3
  <2>5. Len(p \o s) = Len(p) + (n + Len(original.stack))
    BY <2>1, <2>2, Zenon
  <2> QED
    BY <2>4, <2>5, Zenon
<1>4. ASSUME NEW k \in 1 .. n + Len(p)
      PROVE  (p \o s)[k] = FrameWord(8 - (n + Len(p)) + k, w)
  <2>1. CASE k \in 1 .. Len(p)
    BY <1>1, <2>1
  <2>2. CASE k \notin 1 .. Len(p)
    <3>1. /\ k - Len(p) \in 1 .. n /\ k - Len(p) \in 1 .. Len(s) /\ Len(p) + (k - Len(p)) = k
          /\ 8 - n + (k - Len(p)) = 8 - (n + Len(p)) + k
      BY <1>1, <1>2, <1>4, <2>2, SMT DEF Framed
    <3>2. s[k - Len(p)] = FrameWord(8 - n + (k - Len(p)), w)
      BY <3>1 DEF Framed
    <3> QED
      BY <1>1, <3>1, <3>2
  <2> QED
    BY <2>1, <2>2
<1>5. ASSUME NEW k \in 1 .. Len(original.stack)
      PROVE  (p \o s)[n + Len(p) + k] = original.stack[k]
  <2>1. n + k \in 1 .. Len(s) /\ Len(p) + (n + k) = n + Len(p) + k
    BY <1>1, <1>2, SMT DEF Framed
  <2>2. s[n + k] = original.stack[k]
    BY DEF Framed
  <2> QED
    BY <1>1, <2>1, <2>2
<1> QED
  BY <1>1, <1>3, <1>4, <1>5 DEF Framed

LEMMA FramePopped ==
  ASSUME CpuTypes, NEW s \in Seq(Items), NEW w, NEW n \in 0 .. 8, NEW m \in 0 .. n, Framed(s, n, w)
  PROVE  /\ SubSeq(s, m + 1, Len(s)) \in Seq(Items)
         /\ Framed(SubSeq(s, m + 1, Len(s)), n - m, w)
         /\ \A k \in 1 .. m : SubSeq(s, 1, m)[k] = FrameWord(8 - n + k, w)
<1>1. Len(original.stack) \in Nat /\ n \in Nat /\ m \in Nat /\ m <= n
  BY OriginalContext
<1>2. Len(s) = n + Len(original.stack) /\ m <= Len(s)
  BY <1>1, SMT DEF Framed
<1> DEFINE t == SubSeq(s, m + 1, Len(s))
<1>3. /\ t \in Seq(Items) /\ Len(t) = Len(s) - m
      /\ \A k \in 1 .. Len(s) - m : t[k] = s[m + k]
      /\ \A k \in 1 .. m : SubSeq(s, 1, m)[k] = s[k]
  BY <1>1, <1>2, StackPopped
<1> HIDE DEF t
<1>4. Len(t) = (n - m) + Len(original.stack)
  BY <1>1, <1>2, <1>3, SMT
<1>5. ASSUME NEW k \in 1 .. n - m
      PROVE  t[k] = FrameWord(8 - (n - m) + k, w)
  <2>1. k \in 1 .. Len(s) - m /\ m + k \in 1 .. n /\ 8 - n + (m + k) = 8 - (n - m) + k
    BY <1>1, <1>2, <1>5, SMT
  <2> QED
    BY <1>3, <2>1 DEF Framed
<1>6. ASSUME NEW k \in 1 .. Len(original.stack)
      PROVE  t[n - m + k] = original.stack[k]
  <2>1. n - m + k \in 1 .. Len(s) - m /\ m + (n - m + k) = n + k
    BY <1>1, <1>2, <1>6, SMT
  <2> QED
    BY <1>3, <2>1 DEF Framed
<1>7. ASSUME NEW k \in 1 .. m
      PROVE  SubSeq(s, 1, m)[k] = FrameWord(8 - n + k, w)
  <2>1. k \in 1 .. n
    BY <1>1, <1>7, SMT
  <2> QED
    BY <1>3, <2>1 DEF Framed
<1> QED
  BY <1>3, <1>4, <1>5, <1>6, <1>7 DEF Framed, t

LEMMA ReadItem ==
  ASSUME CpuTypes, cpsr.mode \in Mode
  PROVE  \A n \in {"r0", "r1", "r2", "r12", "lr"} : Read(n) \in Items
BY DEF CpuTypes, Read, Reg

LEMMA PushOne ==
  ASSUME CpuTypes, Step, NEW m \in Mode, cpsr.mode = m, NEW n, Read(n) \in Items,
         Instruction = Push(<<n>>)
  PROVE  /\ \E p \in Seq(Items) : /\ Len(p) = 1 /\ p[1] = Read(n)
                                  /\ stack' = [stack EXCEPT ![m] = p \o stack[m]]
         /\ UNCHANGED <<reg, lr, cpsr, spsr, pc>>
<1> DEFINE p == [k \in DOMAIN <<n>> |-> Read(<<n>>[k])]
<1>1. stack' = [stack EXCEPT ![m] = p \o stack[m]] /\ UNCHANGED <<reg, lr, cpsr, spsr, pc>>
  BY PushEffect DEF CpuTypes
<1>2. DOMAIN <<n>> = 1 .. 1 /\ <<n>>[1] = n
  OBVIOUS
<1>3. p = [k \in 1 .. 1 |-> Read(<<n>>[k])]
  BY <1>2
<1>4. \A k \in 1 .. 1 : Read(<<n>>[k]) = Read(n)
  BY <1>2, SMT
<1> HIDE DEF p
<1>5. p = [k \in 1 .. 1 |-> Read(n)]
  BY <1>3, <1>4
<1>6. p \in Seq(Items) /\ Len(p) = 1 /\ p[1] = Read(n)
  BY <1>5
<1> QED
  BY <1>1, <1>6

LEMMA PushTwo ==
  ASSUME CpuTypes, Step, NEW m \in Mode, cpsr.mode = m, NEW n1, NEW n2,
         Read(n1) \in Items, Read(n2) \in Items, Instruction = Push(<<n1, n2>>)
  PROVE  /\ \E p \in Seq(Items) : /\ Len(p) = 2 /\ p[1] = Read(n1) /\ p[2] = Read(n2)
                                  /\ stack' = [stack EXCEPT ![m] = p \o stack[m]]
         /\ UNCHANGED <<reg, lr, cpsr, spsr, pc>>
<1> DEFINE p == [k \in DOMAIN <<n1, n2>> |-> Read(<<n1, n2>>[k])]
<1>1. stack' = [stack EXCEPT ![m] = p \o stack[m]] /\ UNCHANGED <<reg, lr, cpsr, spsr, pc>>
  BY PushEffect DEF CpuTypes
<1>2. DOMAIN <<n1, n2>> = 1 .. 2 /\ <<n1, n2>>[1] = n1 /\ <<n1, n2>>[2] = n2
  OBVIOUS
<1>3. p = [k \in 1 .. 2 |-> Read(<<n1, n2>>[k])]
  BY <1>2
<1>4. \A k \in 1 .. 2 : Read(<<n1, n2>>[k]) = IF k = 1 THEN Read(n1) ELSE Read(n2)
  BY <1>2, SMT
<1> HIDE DEF p
<1>5. p = [k \in 1 .. 2 |-> IF k = 1 THEN Read(n1) ELSE Read(n2)]
  BY <1>3, <1>4
<1>6. p \in Seq(Items) /\ Len(p) = 2 /\ p[1] = Read(n1) /\ p[2] = Read(n2)
  BY <1>5
<1> QED
  BY <1>1, <1>6

LEMMA PushOneSvc ==
  ASSUME CpuTypes, Step, cpsr.mode = SVC, NEW n \in {"r0", "r1", "r2", "lr"}, NEW d \in 0 .. 7,
         Framed(stack[SVC], d, Fault), Read(n) = FrameWord(8 - d, Fault), Instruction = Push(<<n>>)
  PROVE  /\ stack' \in [Mode -> Seq(Items)] /\ Framed(stack'[SVC], d + 1, Fault)
         /\ stack'[ABT] = stack[ABT] /\ UNCHANGED <<reg, lr, cpsr, spsr, pc>>
<1>1. SVC \in Mode /\ ABT \in Mode /\ SVC # ABT
  BY DEF Mode, SVC, ABT
<1>2. Read(n) \in Items
  BY <1>1, ReadItem
<1>3. PICK p \in Seq(Items) : /\ Len(p) = 1 /\ p[1] = Read(n)
                              /\ stack' = [stack EXCEPT ![SVC] = p \o stack[SVC]]
  BY <1>1, <1>2, PushOne
<1>4. UNCHANGED <<reg, lr, cpsr, spsr, pc>>
  BY <1>1, <1>2, PushOne
<1>5. stack[SVC] \in Seq(Items) /\ stack \in [Mode -> Seq(Items)]
  BY <1>1 DEF CpuTypes
<1>6. \A k \in 1 .. Len(p) : p[k] = FrameWord(8 - (d + Len(p)) + k, Fault)
  <2>1. \A k \in 1 .. 1 : k = 1 /\ 8 - (d + 1) + k = 8 - d
    BY SMT
  <2> QED
    BY <1>3, <2>1
<1>7. p \o stack[SVC] \in Seq(Items) /\ Framed(p \o stack[SVC], d + Len(p), Fault)
  <2>1. d \in 0 .. 8
    BY SMT
  <2> QED
    BY <1>5, <1>6, <2>1, FramePushed
<1> QED
  BY <1>1, <1>3, <1>4, <1>5, <1>7

LEMMA PushTwoSvc ==
  ASSUME CpuTypes, Step, cpsr.mode = SVC, NEW n1 \in {"r0", "r2"}, NEW n2 \in {"r1", "r12"}, NEW d \in 0 .. 6,
         Framed(stack[SVC], d, Fault), Read(n1) = FrameWord(7 - d, Fault),
         Read(n2) = FrameWord(8 - d, Fault), Instruction = Push(<<n1, n2>>)
  PROVE  /\ stack' \in [Mode -> Seq(Items)] /\ Framed(stack'[SVC], d + 2, Fault)
         /\ stack'[ABT] = stack[ABT] /\ UNCHANGED <<reg, lr, cpsr, spsr, pc>>
<1>1. SVC \in Mode /\ ABT \in Mode /\ SVC # ABT
  BY DEF Mode, SVC, ABT
<1>2. Read(n1) \in Items /\ Read(n2) \in Items
  BY <1>1, ReadItem
<1>3. PICK p \in Seq(Items) : /\ Len(p) = 2 /\ p[1] = Read(n1) /\ p[2] = Read(n2)
                              /\ stack' = [stack EXCEPT ![SVC] = p \o stack[SVC]]
  BY <1>1, <1>2, PushTwo
<1>4. UNCHANGED <<reg, lr, cpsr, spsr, pc>>
  BY <1>1, <1>2, PushTwo
<1>5. stack[SVC] \in Seq(Items) /\ stack \in [Mode -> Seq(Items)]
  BY <1>1 DEF CpuTypes
<1>6. \A k \in 1 .. Len(p) : p[k] = FrameWord(8 - (d + Len(p)) + k, Fault)
  <2>1. \A k \in 1 .. 2 : \/ k = 1 /\ 8 - (d + 2) + k = 7 - d
                          \/ k = 2 /\ 8 - (d + 2) + k = 8 - d
    BY SMT
  <2> QED
    BY <1>3, <2>1
<1>7. p \o stack[SVC] \in Seq(Items) /\ Framed(p \o stack[SVC], d + Len(p), Fault)
  <2>1. d \in 0 .. 8
    BY SMT
  <2> QED
    BY <1>5, <1>6, <2>1, FramePushed
<1> QED
  BY <1>1, <1>3, <1>4, <1>5, <1>7

LEMMA PopSvc ==
  ASSUME CpuTypes, Step, cpsr.mode = SVC, NEW regs, NEW d \in 0 .. 8, NEW m \in 0 .. d,
         Len(regs) = m, Framed(stack[SVC], d, goal), Instruction = Pop(regs)
  PROVE  /\ \E values : /\ Write(regs, values)
                        /\ \A k \in 1 .. m : values[k] = FrameWord(8 - d + k, goal)
         /\ stack' \in [Mode -> Seq(Items)] /\ Framed(stack'[SVC], d - m, goal)
         /\ stack'[ABT] = stack[ABT] /\ UNCHANGED <<cpsr, spsr>>
<1>1. SVC \in Mode /\ ABT \in Mode /\ SVC # ABT
  BY DEF Mode, SVC, ABT
<1>2. stack[SVC] \in Seq(Items) /\ stack \in [Mode -> Seq(Items)]
  BY <1>1 DEF CpuTypes
<1> DEFINE s == stack[SVC]
           v == SubSeq(s, 1, m)
           t == SubSeq(s, m + 1, Len(s))
<1>3. Write(regs, v) /\ stack' = [stack EXCEPT ![SVC] = t] /\ UNCHANGED <<cpsr, spsr>>
  BY PopEffect
<1>4. t \in Seq(Items) /\ Framed(t, d - m, goal) /\ \A k \in 1 .. m : v[k] = FrameWord(8 - d + k, goal)
  BY <1>2, FramePopped
<1> HIDE DEF v, t
<1> QED
  BY <1>1, <1>2, <1>3, <1>4

-----------------------------------------------------------------------------
(***************************************************************************)
(* The handler, one instruction at a time.                                 *)
(***************************************************************************)
LEMMA Modes == SVC \in Mode /\ ABT \in Mode /\ SVC # ABT
BY DEF Mode, SVC, ABT

LEMMA StepFrame ==
  ASSUME CpuInv, Step
  PROVE  /\ CpuTypes /\ ~nested /\ at \in 1 .. 25 /\ at # 20 /\ ContextAt(at)
         /\ at' = IF at = 25 THEN 0 ELSE at + 1
         /\ UNCHANGED <<original, goal, nested>>
BY ProgramText DEF CpuInv, Step

LEMMA NextContext ==
  ASSUME CpuInv, Step,
         stack' \in [Mode -> Seq(Items)], reg' \in [Reg -> Items], lr' \in [Mode -> Items],
         at = 25 => pc' = goal,
         LET k == IF at = 25 THEN 0 ELSE at + 1
         IN /\ HbootStackAt(k, stack'[SVC]) /\ AbortStackAt(k, stack'[ABT])
            /\ StatusAt(k, cpsr', spsr') /\ RegistersAt(k, reg') /\ LinksAt(k, lr')
  PROVE  CpuInv'
<1>1. /\ CpuTypes /\ ~nested /\ at \in 1 .. 25
      /\ at' = IF at = 25 THEN 0 ELSE at + 1
      /\ UNCHANGED <<original, goal, nested>>
  BY StepFrame
<1>2. CpuTypes'
  BY <1>1 DEF CpuTypes
<1>3. HbootStackAt(at, stack[SVC])'
  BY <1>1 DEF HbootStackAt, Framed, FrameWord
<1>4. AbortStackAt(at, stack[ABT])' /\ StatusAt(at, cpsr, spsr)'
  BY <1>1 DEF AbortStackAt, StatusAt, InAbort
<1>5. RegistersAt(at, reg)' /\ LinksAt(at, lr)'
  BY <1>1 DEF RegistersAt, LinksAt
<1>6. at' \in 0 .. 25 /\ (at' = 0 => at = 25)
  BY <1>1, SMT
<1> QED
  BY <1>1, <1>2, <1>3, <1>4, <1>5, <1>6 DEF CpuInv, ContextAt

(* The six stores to the stack of HBOOT.                                   *)
LEMMA StoredOnHbootStack ==
  ASSUME CpuInv, Step, at \in {7, 8, 9, 10, 15, 16},
         stack' \in [Mode -> Seq(Items)], Framed(stack'[SVC], Depth(at + 1), Fault),
         stack'[ABT] = stack[ABT], UNCHANGED <<reg, lr, cpsr, spsr, pc>>
  PROVE  CpuInv'
<1>1. CpuTypes /\ ContextAt(at)
  BY StepFrame
<1>2. HbootStackAt(at + 1, stack'[SVC])
  BY SMT DEF HbootStackAt
<1>3. AbortStackAt(at + 1, stack'[ABT])
  BY <1>1, SMT DEF ContextAt, AbortStackAt
<1>4. StatusAt(at + 1, cpsr', spsr')
  BY <1>1, SMT DEF ContextAt, StatusAt
<1>5. RegistersAt(at + 1, reg') /\ LinksAt(at + 1, lr')
  BY <1>1, SMT DEF ContextAt, RegistersAt, LinksAt
<1> QED
  BY <1>1, <1>2, <1>3, <1>4, <1>5, NextContext DEF CpuTypes

LEMMA HbootMode ==
  ASSUME CpuInv, Step, at \in 6 .. 11 \/ at \in 15 .. 17
  PROVE  /\ cpsr = original.cpsr /\ cpsr.mode = SVC /\ spsr = original.cpsr
         /\ Framed(stack[SVC], Depth(at), Fault)
<1>1. CpuTypes /\ ContextAt(at) /\ ~(at > 20) /\ at \in 1 .. 19
  BY StepFrame, SMT
<1>2. cpsr = original.cpsr /\ spsr = original.cpsr
  BY <1>1, SMT DEF ContextAt, StatusAt
<1>3. Framed(stack[SVC], Depth(at), Fault)
  BY <1>1 DEF ContextAt, HbootStackAt
<1> QED
  BY <1>1, <1>2, <1>3, OriginalContext

LEMMA PushesOne ==
  ASSUME CpuInv, Step, at \in {7, 8, 9, 16}
  PROVE  CpuInv'
<1>1. CpuTypes /\ ContextAt(at)
  BY StepFrame
<1>2. cpsr.mode = SVC /\ Framed(stack[SVC], Depth(at), Fault)
  BY HbootMode, SMT
<1>3. original.reg \in [Reg -> Value]
  BY <1>1, OriginalContext
<1>4. CASE at = 7
  <2>1. Instruction = Push(<<"r0">>)
    BY <1>4, InstructionAt DEF Instruction
  <2>2. reg = [original.reg EXCEPT !["r0"] = Fault, !["r1"] = original.stack]
    BY <1>1, <1>4 DEF ContextAt, RegistersAt
  <2>3. Read("r0") = FrameWord(8, Fault)
    BY <1>3, <2>2 DEF Read, Reg, FrameWord
  <2>4. Depth(at) = 0 /\ Depth(at + 1) = 0 + 1 /\ 8 - 0 = 8
    BY <1>4, SMT DEF Depth
  <2> QED
    BY <1>1, <1>2, <2>1, <2>3, <2>4, PushOneSvc, StoredOnHbootStack
<1>5. CASE at = 8
  <2>1. Instruction = Push(<<"lr">>)
    BY <1>5, InstructionAt DEF Instruction
  <2>2. Read("lr") = FrameWord(7, Fault)
    BY <1>1, <1>2, <1>5 DEF ContextAt, LinksAt, Read, Reg, FrameWord
  <2>3. Depth(at) = 1 /\ Depth(at + 1) = 1 + 1 /\ 8 - 1 = 7
    BY <1>5, SMT DEF Depth
  <2> QED
    BY <1>1, <1>2, <2>1, <2>2, <2>3, PushOneSvc, StoredOnHbootStack
<1>6. CASE at = 9
  <2>1. Instruction = Push(<<"r1">>)
    BY <1>6, InstructionAt DEF Instruction
  <2>2. reg = [original.reg EXCEPT !["r0"] = Fault, !["r1"] = original.stack]
    BY <1>1, <1>6 DEF ContextAt, RegistersAt
  <2>3. Read("r1") = FrameWord(6, Fault)
    BY <1>3, <2>2 DEF Read, Reg, FrameWord
  <2>4. Depth(at) = 2 /\ Depth(at + 1) = 2 + 1 /\ 8 - 2 = 6
    BY <1>6, SMT DEF Depth
  <2> QED
    BY <1>1, <1>2, <2>1, <2>3, <2>4, PushOneSvc, StoredOnHbootStack
<1>7. CASE at = 16
  <2>1. Instruction = Push(<<"r2">>)
    BY <1>7, InstructionAt DEF Instruction
  <2>2. reg = [original.reg EXCEPT !["r2"] = original.cpsr]
    BY <1>1, <1>7 DEF ContextAt, RegistersAt
  <2>3. Read("r2") = FrameWord(1, Fault)
    BY <1>3, <2>2 DEF Read, Reg, FrameWord
  <2>4. Depth(at) = 7 /\ Depth(at + 1) = 7 + 1 /\ 8 - 7 = 1
    BY <1>7, SMT DEF Depth
  <2> QED
    BY <1>1, <1>2, <2>1, <2>3, <2>4, PushOneSvc, StoredOnHbootStack
<1> QED
  BY <1>4, <1>5, <1>6, <1>7

LEMMA PushesTwo ==
  ASSUME CpuInv, Step, at \in {10, 15}
  PROVE  CpuInv'
<1>1. CpuTypes /\ ContextAt(at)
  BY StepFrame
<1>2. cpsr.mode = SVC /\ Framed(stack[SVC], Depth(at), Fault)
  BY HbootMode, SMT
<1>3. original.reg \in [Reg -> Value]
  BY <1>1, OriginalContext
<1>4. CASE at = 10
  <2>1. Instruction = Push(<<"r2", "r12">>)
    BY <1>4, InstructionAt DEF Instruction
  <2>2. reg = [original.reg EXCEPT !["r0"] = Fault, !["r1"] = original.stack]
    BY <1>1, <1>4 DEF ContextAt, RegistersAt
  <2>3. Read("r2") = FrameWord(4, Fault) /\ Read("r12") = FrameWord(5, Fault)
    BY <1>3, <2>2 DEF Read, Reg, FrameWord
  <2>4. Depth(at) = 3 /\ Depth(at + 1) = 3 + 2 /\ 8 - 3 = 5 /\ 7 - 3 = 4
    BY <1>4, SMT DEF Depth
  <2> QED
    BY <1>1, <1>2, <2>1, <2>3, <2>4, PushTwoSvc, StoredOnHbootStack
<1>5. CASE at = 15
  <2>1. Instruction = Push(<<"r0", "r1">>)
    BY <1>5, InstructionAt DEF Instruction
  <2>2. reg = [original.reg EXCEPT !["r2"] = original.cpsr]
    BY <1>1, <1>5 DEF ContextAt, RegistersAt
  <2>3. Read("r0") = FrameWord(2, Fault) /\ Read("r1") = FrameWord(3, Fault)
    BY <1>3, <2>2 DEF Read, Reg, FrameWord
  <2>4. Depth(at) = 5 /\ Depth(at + 1) = 5 + 2 /\ 8 - 5 = 3 /\ 7 - 5 = 2
    BY <1>5, SMT DEF Depth
  <2> QED
    BY <1>1, <1>2, <2>1, <2>3, <2>4, PushTwoSvc, StoredOnHbootStack
<1> QED
  BY <1>4, <1>5

(* The context is popped: the status word, the registers, the stack        *)
(* pointer, which the next pop replaces, and the link register and pc.     *)
LEMMA Popped ==
  ASSUME CpuInv, Step, NEW regs, NEW n \in 1 .. 8, at \in {21, 23, 24, 25},
         Instruction = Pop(regs), Len(regs) = n, n <= Depth(at)
  PROVE  /\ CpuTypes /\ cpsr.mode = SVC
         /\ \E values : /\ Write(regs, values)
                        /\ \A k \in 1 .. n : values[k] = FrameWord(8 - Depth(at) + k, goal)
         /\ stack' \in [Mode -> Seq(Items)] /\ Framed(stack'[SVC], Depth(at) - n, goal)
         /\ stack'[ABT] = stack[ABT] /\ AbortStackAt(at, stack[ABT]) /\ UNCHANGED <<cpsr, spsr>>
<1>1. CpuTypes /\ ContextAt(at)
  BY StepFrame
<1>2. cpsr.mode = SVC
  <2>1. original.cpsr \in Status /\ original.cpsr.mode = SVC
    BY <1>1, OriginalContext
  <2>2. cpsr = original.cpsr \/ \E f \in Flags : cpsr = [original.cpsr EXCEPT !.flags = f]
    BY <1>1, SMT DEF ContextAt, StatusAt
  <2> QED
    BY <2>1, <2>2 DEF Status
<1>3. Depth(at) \in 0 .. 8
  BY SMT DEF Depth
<1>4. n \in 0 .. Depth(at)
  BY <1>3, SMT
<1>5. Framed(stack[SVC], Depth(at), goal)
  BY <1>1, SMT DEF ContextAt, HbootStackAt
<1> HIDE DEF Instruction
<1> QED
  BY <1>1, <1>2, <1>3, <1>4, <1>5, PopSvc DEF ContextAt

LEMMA DifferentNames ==
  /\ \A j, k \in DOMAIN <<"lr", "pc">> : <<"lr", "pc">>[j] = <<"lr", "pc">>[k] => j = k
  /\ \A j, k \in DOMAIN <<"r0", "r1">> : <<"r0", "r1">>[j] = <<"r0", "r1">>[k] => j = k
  /\ \A j, k \in DOMAIN <<"r0", "r1", "r2", "r12">> :
       <<"r0", "r1", "r2", "r12">>[j] = <<"r0", "r1", "r2", "r12">>[k] => j = k
<1>1. DOMAIN <<"lr", "pc">> = {1, 2} /\ DOMAIN <<"r0", "r1">> = {1, 2}
  BY SMT
<1>2. DOMAIN <<"r0", "r1", "r2", "r12">> = {1, 2, 3, 4}
  BY SMT
<1> QED
  BY <1>1, <1>2, SMT

LEMMA WriteOne ==
  ASSUME CpuTypes, NEW n \in {"r0", "r1", "r2", "r12", "lr"}, NEW values, Write(<<n>>, values)
  PROVE  /\ n \in Reg => reg' = [reg EXCEPT ![n] = values[1]] /\ lr' = lr
         /\ n = "lr" => reg' = reg /\ lr' = [lr EXCEPT ![cpsr.mode] = values[1]]
<1>1. DOMAIN <<n>> = {1} /\ <<n>>[1] = n
  BY SMT
<1>2. /\ n \in Reg => reg'[n] = values[1]
      /\ n = "lr" => lr' = [lr EXCEPT ![cpsr.mode] = values[1]]
      /\ \A r \in Reg : n # r => reg'[r] = reg[r]
      /\ n # "lr" => lr' = [lr EXCEPT ![cpsr.mode] = @]
      /\ reg' = [r \in Reg |-> reg'[r]]
  <2>1. \A j, k \in DOMAIN <<n>> : <<n>>[j] = <<n>>[k] => j = k
    BY <1>1
  <2>2. /\ \A k \in DOMAIN <<n>> :
              /\ <<n>>[k] \in Reg => reg'[<<n>>[k]] = values[k]
              /\ <<n>>[k] = "lr" => lr' = [lr EXCEPT ![cpsr.mode] = values[k]]
        /\ \A r \in Reg : (\A k \in DOMAIN <<n>> : <<n>>[k] # r) => reg'[r] = reg[r]
        /\ (\A k \in DOMAIN <<n>> : <<n>>[k] # "lr") => lr' = [lr EXCEPT ![cpsr.mode] = @]
        /\ reg' = [r \in Reg |-> reg'[r]]
    BY <2>1, WriteEffect
  <2> QED
    BY <1>1, <2>2
<1>3. reg \in [Reg -> Items] /\ lr \in [Mode -> Items]
  BY DEF CpuTypes
<1>4. "lr" \notin Reg
  BY DEF Reg
<1> QED
  BY <1>2, <1>3, <1>4

LEMMA At21 ==
  ASSUME CpuInv, Step, at = 21
  PROVE  CpuInv'
<1>1. Instruction = Pop(<<"r12">>) /\ Depth(at) = 8
  <2>1. Instruction = Pop(<<"r12">>)
    BY InstructionAt DEF Instruction
  <2>2. Depth(at) = 8
    BY SMT DEF Depth
  <2> QED
    BY <2>1, <2>2
<1> HIDE DEF Instruction
<1>2. Len(<<"r12">>) = 1
  OBVIOUS
<1>3. /\ CpuTypes /\ cpsr.mode = SVC
      /\ \E values : /\ Write(<<"r12">>, values)
                     /\ \A k \in 1 .. 1 : values[k] = FrameWord(8 - Depth(at) + k, goal)
      /\ stack' \in [Mode -> Seq(Items)] /\ Framed(stack'[SVC], Depth(at) - 1, goal)
      /\ stack'[ABT] = stack[ABT] /\ AbortStackAt(at, stack[ABT]) /\ UNCHANGED <<cpsr, spsr>>
  BY <1>1, <1>2, Popped, SMT
<1>4. PICK values : Write(<<"r12">>, values) /\ values[1] = FrameWord(1, goal)
  <2>1. 1 \in 1 .. 1 /\ 8 - 8 + 1 = 1
    BY SMT
  <2> QED
    BY <1>1, <1>3, <2>1
<1>5. reg' = [reg EXCEPT !["r12"] = original.cpsr] /\ lr' = lr
  BY <1>3, <1>4, WriteOne DEF Reg, FrameWord
<1>6. reg' \in [Reg -> Items] /\ lr' \in [Mode -> Items] /\ reg'["r12"] = original.cpsr
  BY <1>3, <1>5, OriginalContext DEF CpuTypes, Items, Reg
<1>7. HbootStackAt(22, stack'[SVC])
  <2>1. Depth(22) = Depth(at) - 1 /\ 22 > 20
    BY <1>1, SMT DEF Depth
  <2> QED
    BY <1>3, <2>1 DEF HbootStackAt
<1>8. AbortStackAt(22, stack'[ABT]) /\ StatusAt(22, cpsr', spsr')
  BY <1>3, StepFrame, SMT DEF ContextAt, AbortStackAt, StatusAt
<1>9. RegistersAt(22, reg') /\ LinksAt(22, lr')
  BY <1>6, SMT DEF RegistersAt, LinksAt
<1>10. at # 25 /\ at + 1 = 22
  BY SMT
<1> QED
  BY <1>3, <1>6, <1>7, <1>8, <1>9, <1>10, NextContext

LEMMA At23 ==
  ASSUME CpuInv, Step, at = 23
  PROVE  CpuInv'
<1> DEFINE regs == <<"r0", "r1", "r2", "r12">>
<1>1. Instruction = Pop(regs) /\ Depth(at) = 7
  <2>1. Instruction = Pop(regs)
    BY InstructionAt DEF Instruction
  <2>2. Depth(at) = 7
    BY SMT DEF Depth
  <2> QED
    BY <2>1, <2>2
<1> HIDE DEF Instruction
<1>2. Len(regs) = 4 /\ DOMAIN regs = {1, 2, 3, 4} /\ 1 .. 4 = {1, 2, 3, 4}
      /\ regs[1] = "r0" /\ regs[2] = "r1" /\ regs[3] = "r2" /\ regs[4] = "r12"
      /\ \A j, k \in DOMAIN regs : regs[j] = regs[k] => j = k
  BY DifferentNames, SMT
<1> HIDE DEF regs
<1>3. /\ CpuTypes /\ cpsr.mode = SVC
      /\ \E values : /\ Write(regs, values)
                     /\ \A k \in 1 .. 4 : values[k] = FrameWord(8 - Depth(at) + k, goal)
      /\ stack' \in [Mode -> Seq(Items)] /\ Framed(stack'[SVC], Depth(at) - 4, goal)
      /\ stack'[ABT] = stack[ABT] /\ AbortStackAt(at, stack[ABT]) /\ UNCHANGED <<cpsr, spsr>>
  BY <1>1, <1>2, Popped, SMT
<1>4. PICK values : /\ Write(regs, values)
                    /\ values[1] = original.reg["r0"] /\ values[2] = original.reg["r1"]
                    /\ values[3] = original.reg["r2"] /\ values[4] = original.reg["r12"]
  <2>1. PICK values : /\ Write(regs, values)
                      /\ \A k \in 1 .. 4 : values[k] = FrameWord(8 - Depth(at) + k, goal)
    BY <1>3
  <2>2. 8 - 7 + 1 = 2 /\ 8 - 7 + 2 = 3 /\ 8 - 7 + 3 = 4 /\ 8 - 7 + 4 = 5
    BY SMT
  <2>3. /\ values[1] = FrameWord(2, goal) /\ values[2] = FrameWord(3, goal)
        /\ values[3] = FrameWord(4, goal) /\ values[4] = FrameWord(5, goal)
    BY <1>1, <1>2, <2>1, <2>2
  <2> QED
    BY <2>1, <2>3 DEF FrameWord
<1>5. /\ \A k \in DOMAIN regs : regs[k] \in Reg => reg'[regs[k]] = values[k]
      /\ reg' = [r \in Reg |-> reg'[r]]
      /\ (\A k \in DOMAIN regs : regs[k] # "lr") => lr' = [lr EXCEPT ![cpsr.mode] = @]
  BY <1>2, <1>4, WriteEffect
<1>6. lr' = lr
  <2>1. \A k \in DOMAIN regs : regs[k] # "lr"
    BY <1>2
  <2> QED
    BY <1>3, <1>5, <2>1 DEF CpuTypes
<1>7. original.reg \in [Reg -> Value]
  BY <1>3, OriginalContext
<1>8. reg' = original.reg
  <2>1. \A r \in Reg : reg'[r] = original.reg[r]
    BY <1>2, <1>4, <1>5 DEF Reg
  <2> QED
    BY <1>5, <1>7, <2>1
<1>9. reg' \in [Reg -> Items] /\ lr' \in [Mode -> Items]
  BY <1>3, <1>6, <1>7, <1>8 DEF CpuTypes, Items
<1>10. HbootStackAt(24, stack'[SVC])
  <2>1. Depth(24) = Depth(at) - 4 /\ 24 > 20
    BY <1>1, SMT DEF Depth
  <2> QED
    BY <1>3, <2>1 DEF HbootStackAt
<1>11. AbortStackAt(24, stack'[ABT]) /\ StatusAt(24, cpsr', spsr')
  BY <1>3, StepFrame, SMT DEF ContextAt, AbortStackAt, StatusAt
<1>12. RegistersAt(24, reg') /\ LinksAt(24, lr')
  BY <1>8, SMT DEF RegistersAt, LinksAt
<1>13. at # 25 /\ at + 1 = 24
  BY SMT
<1> QED
  BY <1>3, <1>9, <1>10, <1>11, <1>12, <1>13, NextContext

LEMMA At24 ==
  ASSUME CpuInv, Step, at = 24
  PROVE  CpuInv'
<1>1. Instruction = Pop(<<"lr">>) /\ Depth(at) = 3
  <2>1. Instruction = Pop(<<"lr">>)
    BY InstructionAt DEF Instruction
  <2>2. Depth(at) = 3
    BY SMT DEF Depth
  <2> QED
    BY <2>1, <2>2
<1> HIDE DEF Instruction
<1>2. Len(<<"lr">>) = 1
  OBVIOUS
<1>3. /\ CpuTypes /\ cpsr.mode = SVC
      /\ \E values : /\ Write(<<"lr">>, values)
                     /\ \A k \in 1 .. 1 : values[k] = FrameWord(8 - Depth(at) + k, goal)
      /\ stack' \in [Mode -> Seq(Items)] /\ Framed(stack'[SVC], Depth(at) - 1, goal)
      /\ stack'[ABT] = stack[ABT] /\ AbortStackAt(at, stack[ABT]) /\ UNCHANGED <<cpsr, spsr>>
  BY <1>1, <1>2, Popped, SMT
<1>4. PICK values : Write(<<"lr">>, values) /\ values[1] = FrameWord(6, goal)
  <2>1. 1 \in 1 .. 1 /\ 8 - 3 + 1 = 6
    BY SMT
  <2> QED
    BY <1>1, <1>3, <2>1
<1>5. reg' = reg /\ lr' = [lr EXCEPT ![cpsr.mode] = original.stack]
  BY <1>3, <1>4, WriteOne DEF FrameWord
<1>6. reg' \in [Reg -> Items] /\ lr' \in [Mode -> Items]
  BY <1>3, <1>5, OriginalContext, Modes DEF CpuTypes, Items
<1>7. HbootStackAt(25, stack'[SVC])
  <2>1. Depth(25) = Depth(at) - 1 /\ 25 > 20
    BY <1>1, SMT DEF Depth
  <2> QED
    BY <1>3, <2>1 DEF HbootStackAt
<1>8. AbortStackAt(25, stack'[ABT]) /\ StatusAt(25, cpsr', spsr')
  BY <1>3, StepFrame, SMT DEF ContextAt, AbortStackAt, StatusAt
<1>9. RegistersAt(25, reg') /\ LinksAt(25, lr')
  BY <1>5, StepFrame, SMT DEF ContextAt, RegistersAt, LinksAt
<1>10. at # 25 /\ at + 1 = 25
  BY SMT
<1> QED
  BY <1>3, <1>6, <1>7, <1>8, <1>9, <1>10, NextContext

LEMMA At25 ==
  ASSUME CpuInv, Step, at = 25
  PROVE  CpuInv'
<1> DEFINE regs == <<"lr", "pc">>
<1>1. Instruction = Pop(regs) /\ Depth(at) = 2
  <2>1. Instruction = Pop(regs)
    BY InstructionAt DEF Instruction
  <2>2. Depth(at) = 2
    BY SMT DEF Depth
  <2> QED
    BY <2>1, <2>2
<1> HIDE DEF Instruction
<1>2. /\ Len(regs) = 2 /\ DOMAIN regs = {1, 2} /\ 1 .. 2 = {1, 2}
      /\ regs[1] = "lr" /\ regs[2] = "pc"
      /\ \A j, k \in DOMAIN regs : regs[j] = regs[k] => j = k
  BY DifferentNames, SMT
<1> HIDE DEF regs
<1>3. /\ CpuTypes /\ cpsr.mode = SVC
      /\ \E values : /\ Write(regs, values)
                     /\ \A k \in 1 .. 2 : values[k] = FrameWord(8 - Depth(at) + k, goal)
      /\ stack' \in [Mode -> Seq(Items)] /\ Framed(stack'[SVC], Depth(at) - 2, goal)
      /\ stack'[ABT] = stack[ABT] /\ AbortStackAt(at, stack[ABT]) /\ UNCHANGED <<cpsr, spsr>>
  BY <1>1, <1>2, Popped, SMT
<1>4. PICK values : Write(regs, values) /\ values[1] = original.lr /\ values[2] = goal
  <2>1. PICK values : /\ Write(regs, values)
                      /\ \A k \in 1 .. 2 : values[k] = FrameWord(8 - Depth(at) + k, goal)
    BY <1>3
  <2>2. 8 - 2 + 1 = 7 /\ 8 - 2 + 2 = 8
    BY SMT
  <2>3. values[1] = FrameWord(7, goal) /\ values[2] = FrameWord(8, goal)
    BY <1>1, <1>2, <2>1, <2>2
  <2> QED
    BY <2>1, <2>3 DEF FrameWord
<1>5. /\ \A k \in DOMAIN regs :
           /\ regs[k] = "lr" => lr' = [lr EXCEPT ![cpsr.mode] = values[k]]
           /\ regs[k] = "pc" => pc' = values[k]
      /\ \A r \in Reg : (\A k \in DOMAIN regs : regs[k] # r) => reg'[r] = reg[r]
      /\ reg' = [r \in Reg |-> reg'[r]]
  BY <1>2, <1>4, WriteEffect
<1>6. lr' = [lr EXCEPT ![SVC] = original.lr] /\ pc' = goal
  BY <1>2, <1>3, <1>4, <1>5
<1>7. reg' = reg /\ reg = original.reg
  <2>1. \A r \in Reg : reg'[r] = reg[r]
    BY <1>2, <1>5 DEF Reg
  <2>2. reg = original.reg
    BY StepFrame, SMT DEF ContextAt, RegistersAt
  <2> QED
    BY <1>3, <1>5, <2>1, <2>2 DEF CpuTypes
<1>8. reg' \in [Reg -> Items] /\ lr' \in [Mode -> Items] /\ lr'[SVC] = original.lr
  BY <1>3, <1>6, <1>7, OriginalContext, Modes DEF CpuTypes, Items
<1>9. HbootStackAt(0, stack'[SVC])
  <2>1. Framed(stack'[SVC], 0, goal)
    BY <1>1, <1>3, SMT
  <2>2. Framed(stack'[SVC], 0, Fault)
    <3>1. 1 .. 0 = {}
      BY SMT
    <3> QED
      BY <2>1, <3>1 DEF Framed
  <2>3. Depth(0) = 0 /\ ~(0 > 20)
    BY SMT DEF Depth
  <2> QED
    BY <2>2, <2>3 DEF HbootStackAt
<1>10. AbortStackAt(0, stack'[ABT]) /\ StatusAt(0, cpsr', spsr')
  BY <1>3, StepFrame, SMT DEF ContextAt, AbortStackAt, StatusAt
<1>11. RegistersAt(0, reg') /\ LinksAt(0, lr')
  BY <1>7, <1>8, SMT DEF RegistersAt, LinksAt
<1> QED
  BY <1>3, <1>6, <1>8, <1>9, <1>10, <1>11, NextContext

(* Moves: the stacks and the status stay.                                  *)
LEMMA MovesKeep ==
  ASSUME CpuInv, Step, at \in {3, 4, 6, 13}, UNCHANGED <<stack, cpsr, spsr>>,
         reg' \in [Reg -> Items], lr' \in [Mode -> Items],
         RegistersAt(at + 1, reg'), LinksAt(at + 1, lr')
  PROVE  CpuInv'
<1>1. CpuTypes /\ ContextAt(at)
  BY StepFrame
<1>2. HbootStackAt(at + 1, stack[SVC])
  <2>1. Depth(at + 1) = Depth(at) /\ ~(at > 20) /\ ~(at + 1 > 20)
    BY SMT DEF Depth
  <2> QED
    BY <1>1, <2>1 DEF ContextAt, HbootStackAt
<1>3. AbortStackAt(at + 1, stack[ABT])
  BY <1>1, SMT DEF ContextAt, AbortStackAt
<1>4. StatusAt(at + 1, cpsr, spsr)
  BY <1>1, SMT DEF ContextAt, StatusAt
<1>5. stack \in [Mode -> Seq(Items)] /\ at # 25
  BY <1>1, SMT DEF CpuTypes
<1> QED
  BY <1>2, <1>3, <1>4, <1>5, NextContext

LEMMA StillInAbort ==
  ASSUME CpuInv, Step, at \in 1 .. 5 \/ at \in 12 .. 14 \/ at \in 18 .. 19
  PROVE  cpsr = InAbort /\ cpsr.mode = ABT /\ spsr = original.cpsr
<1>1. ContextAt(at) /\ at \in 1 .. 19
  BY StepFrame, SMT
<1> QED
  BY <1>1, SMT DEF ContextAt, StatusAt, InAbort

LEMMA Moves ==
  ASSUME CpuInv, Step, at \in {3, 4, 6, 13}
  PROVE  CpuInv'
<1>1. CpuTypes /\ ContextAt(at)
  BY StepFrame
<1>2. /\ original.reg \in [Reg -> Value] /\ original.stack \in Items /\ original.cpsr \in Items
      /\ Fault \in Items /\ Fault \in Nat /\ \A v \in Value : v \in Items
  BY <1>1, OriginalContext DEF Items
<1>3. reg \in [Reg -> Items] /\ lr \in [Mode -> Items]
  BY <1>1 DEF CpuTypes
<1>4. CASE at = 3
  <2>1. Instruction = Do("sub 4", "r0", "lr")
    BY <1>4, InstructionAt DEF Instruction
  <2> HIDE DEF Instruction
  <2>2. Write(<<"r0">>, <<Read("lr") - 4>>) /\ UNCHANGED <<stack, cpsr, spsr>>
    BY <2>1, MovEffect
  <2>3. Read("lr") - 4 = Fault
    <3>1. lr[ABT] = Fault + 4 /\ cpsr.mode = ABT
      BY <1>1, <1>4, StillInAbort DEF ContextAt, LinksAt
    <3> QED
      BY <1>2, <3>1 DEF Read, Reg
  <2>4. reg' = [reg EXCEPT !["r0"] = Fault] /\ lr' = lr
    BY <1>1, <2>2, <2>3, WriteOne DEF Reg
  <2>5. reg = original.reg
    BY <1>1, <1>4 DEF ContextAt, RegistersAt
  <2>6. RegistersAt(4, reg') /\ LinksAt(4, lr')
    BY <1>1, <1>4, <2>4, <2>5, SMT DEF ContextAt, RegistersAt, LinksAt
  <2>7. reg' \in [Reg -> Items] /\ at + 1 = 4
    <3>1. reg' \in [Reg -> Items]
      BY <1>2, <1>3, <2>4
    <3>2. at + 1 = 4
      BY <1>4, SMT
    <3> QED
      BY <3>1, <3>2
  <2> QED
    BY <1>3, <2>2, <2>4, <2>6, <2>7, MovesKeep
<1>5. CASE at = 4
  <2>1. Instruction = Do("mrs spsr", "lr", "")
    BY <1>5, InstructionAt DEF Instruction
  <2> HIDE DEF Instruction
  <2>2. Write(<<"lr">>, <<spsr>>) /\ UNCHANGED <<stack, cpsr, spsr>>
    BY <2>1, MovEffect
  <2>3. cpsr.mode = ABT /\ spsr = original.cpsr
    BY <1>5, StillInAbort
  <2>4. reg' = reg /\ lr' = [lr EXCEPT ![ABT] = original.cpsr]
    BY <1>1, <2>2, <2>3, WriteOne
  <2>5. lr' \in [Mode -> Items] /\ lr'[ABT] = original.cpsr /\ lr'[SVC] = lr[SVC]
    BY <1>2, <1>3, <2>4, Modes
  <2>6. RegistersAt(5, reg') /\ LinksAt(5, lr')
    BY <1>1, <1>5, <2>4, <2>5, SMT DEF ContextAt, RegistersAt, LinksAt
  <2> QED
    BY <1>3, <1>5, <2>2, <2>4, <2>5, <2>6, MovesKeep
<1>6. CASE at = 6
  <2>0. /\ 7 \notin 0 .. 3 /\ 7 # 13 /\ 7 \notin 24 .. 25 /\ 7 \notin 4 .. 6
        /\ 7 \notin 14 .. 20 /\ 7 \notin 22 .. 23
    BY SMT
  <2>1. Instruction = Do("mov", "r1", "sp")
    BY <1>6, InstructionAt DEF Instruction
  <2> HIDE DEF Instruction
  <2>2. Write(<<"r1">>, <<Read("sp")>>) /\ UNCHANGED <<stack, cpsr, spsr>>
    BY <2>1, MovEffect
  <2>3. Read("sp") = original.stack
    <3>1. cpsr.mode = SVC /\ Framed(stack[SVC], Depth(at), Fault)
      BY <1>6, HbootMode
    <3>2. Framed(stack[SVC], 0, Fault)
      BY <1>6, <3>1, SMT DEF Depth
    <3>3. Len(stack[SVC]) = Len(original.stack)
          /\ \A k \in 1 .. Len(original.stack) : stack[SVC][k] = original.stack[k]
      BY <1>1, <3>2, OriginalContext, SMT DEF Framed
    <3>4. stack[SVC] \in Seq(Items) /\ original.stack \in Seq(Items)
      <4>1. stack[SVC] \in Seq(Items)
        BY <1>1, Modes DEF CpuTypes
      <4>2. original.stack \in Seq(Value) /\ Value \subseteq Items
        BY <1>1, OriginalContext DEF Items
      <4> QED
        BY <4>1, <4>2, SeqMonotonic
    <3>5. stack[SVC] = original.stack
      BY <3>3, <3>4, SeqEqual
    <3> QED
      BY <3>1, <3>5 DEF Read, Reg
  <2>4. reg' = [reg EXCEPT !["r1"] = original.stack] /\ lr' = lr
    BY <1>1, <2>2, <2>3, WriteOne DEF Reg
  <2>5. reg = [original.reg EXCEPT !["r0"] = Fault]
    BY <1>1, <1>6 DEF ContextAt, RegistersAt
  <2>6. reg' = [original.reg EXCEPT !["r0"] = Fault, !["r1"] = original.stack]
    BY <1>2, <2>4, <2>5 DEF Reg
  <2>7. RegistersAt(7, reg') /\ LinksAt(7, lr')
    <3>1. RegistersAt(7, reg')
      BY <2>6, <2>0, Zenon DEF RegistersAt
    <3>2. LinksAt(7, lr')
      BY <1>1, <1>6, <2>4, SMT DEF ContextAt, LinksAt
    <3> QED
      BY <3>1, <3>2
  <2>8. reg' \in [Reg -> Items] /\ at + 1 = 7
    <3>1. reg' \in [Reg -> Items]
      BY <1>2, <1>3, <2>4
    <3>2. at + 1 = 7
      BY <1>6, SMT
    <3> QED
      BY <3>1, <3>2
  <2> QED
    BY <1>3, <2>2, <2>4, <2>7, <2>8, MovesKeep
<1>7. CASE at = 13
  <2>1. Instruction = Do("mrs spsr", "r2", "")
    BY <1>7, InstructionAt DEF Instruction
  <2> HIDE DEF Instruction
  <2>2. Write(<<"r2">>, <<spsr>>) /\ UNCHANGED <<stack, cpsr, spsr>>
    BY <2>1, MovEffect
  <2>3. spsr = original.cpsr
    BY <1>7, StillInAbort
  <2>4. reg' = [reg EXCEPT !["r2"] = original.cpsr] /\ lr' = lr
    BY <1>1, <2>2, <2>3, WriteOne DEF Reg
  <2>5. reg = original.reg
    BY <1>1, <1>7 DEF ContextAt, RegistersAt
  <2>6. RegistersAt(14, reg') /\ LinksAt(14, lr')
    BY <1>1, <1>7, <2>4, <2>5, SMT DEF ContextAt, RegistersAt, LinksAt
  <2>7. reg' \in [Reg -> Items] /\ at + 1 = 14
    <3>1. reg' \in [Reg -> Items]
      BY <1>2, <1>3, <2>4
    <3>2. at + 1 = 14
      BY <1>7, SMT
    <3> QED
      BY <3>1, <3>2
  <2> QED
    BY <1>3, <2>2, <2>4, <2>6, <2>7, MovesKeep
<1> QED
  BY <1>4, <1>5, <1>6, <1>7

(* Changes of mode.                                                        *)
LEMMA ModesKeep ==
  ASSUME CpuInv, Step, at \in {5, 11, 14, 17, 19, 22}, UNCHANGED <<stack, reg, lr, spsr>>,
         StatusAt(at + 1, cpsr', spsr)
  PROVE  CpuInv'
<1>1. CpuTypes /\ ContextAt(at)
  BY StepFrame
<1>2. HbootStackAt(at + 1, stack[SVC])
  <2>1. Depth(at + 1) = Depth(at) /\ (at > 20 <=> at + 1 > 20)
    BY SMT DEF Depth
  <2> QED
    BY <1>1, <2>1 DEF ContextAt, HbootStackAt
<1>3. AbortStackAt(at + 1, stack[ABT])
  BY <1>1, SMT DEF ContextAt, AbortStackAt
<1>4. RegistersAt(at + 1, reg) /\ LinksAt(at + 1, lr)
  BY <1>1, SMT DEF ContextAt, RegistersAt, LinksAt
<1>5. /\ stack \in [Mode -> Seq(Items)] /\ reg \in [Reg -> Items] /\ lr \in [Mode -> Items]
      /\ at # 25
  BY <1>1, SMT DEF CpuTypes
<1> QED
  BY <1>2, <1>3, <1>4, <1>5, NextContext

LEMMA ModeChanges ==
  ASSUME CpuInv, Step, at \in {5, 11, 14, 17, 19, 22}
  PROVE  CpuInv'
<1>1. CpuTypes /\ ContextAt(at)
  BY StepFrame
<1>2. /\ original.cpsr \in Status /\ original.cpsr.mode = SVC
      /\ \A f \in Flags : [original.cpsr EXCEPT !.flags = f] \in Status
  BY <1>1, OriginalContext DEF Status
<1>3. CASE at \in {5, 14}
  <2>1. Instruction = Do("msr", "cpsr_c", "lr")
    BY <1>3, InstructionAt DEF Instruction
  <2> HIDE DEF Instruction
  <2>2. cpsr' = [Read("lr") EXCEPT !.flags = cpsr.flags] /\ UNCHANGED <<reg, lr, stack, spsr, pc>>
    BY <2>1, MsrEffect
  <2>3. cpsr = InAbort /\ cpsr.mode = ABT /\ spsr = original.cpsr
    BY <1>3, StillInAbort, SMT
  <2>4. Read("lr") = original.cpsr
    BY <1>1, <1>3, <2>3, SMT DEF ContextAt, LinksAt, Read, Reg
  <2>5. cpsr' = original.cpsr
    BY <1>2, <2>2, <2>3, <2>4 DEF InAbort, Status
  <2>6. StatusAt(at + 1, cpsr', spsr)
    BY <1>3, <2>3, <2>5, SMT DEF StatusAt
  <2> QED
    BY <2>2, <2>6, ModesKeep
<1>4. CASE at \in {11, 17}
  <2>1. Instruction = Do("msr", "cpsr_c", "abort_mode")
    BY <1>4, InstructionAt DEF Instruction
  <2> HIDE DEF Instruction
  <2>2. /\ cpsr' = [Read("abort_mode") EXCEPT !.flags = cpsr.flags]
        /\ UNCHANGED <<reg, lr, stack, spsr, pc>>
    BY <2>1, MsrEffect
  <2>3. cpsr = original.cpsr /\ spsr = original.cpsr
    BY <1>4, HbootMode, SMT
  <2>4. cpsr' = InAbort
    BY <2>2, <2>3 DEF Read, Reg, AbortMode, InAbort
  <2>5. StatusAt(at + 1, cpsr', spsr)
    BY <1>4, <2>3, <2>4, SMT DEF StatusAt
  <2> QED
    BY <2>2, <2>5, ModesKeep
<1>5. CASE at = 19
  <2>1. Instruction = Do("subs pc", "", "lr")
    BY <1>5, InstructionAt DEF Instruction
  <2> HIDE DEF Instruction
  <2>2. cpsr' = spsr /\ UNCHANGED <<reg, lr, stack, spsr, pc>>
    BY <2>1, SubsPcEffect
  <2>3. spsr = original.cpsr
    BY <1>5, StillInAbort
  <2>4. StatusAt(at + 1, cpsr', spsr)
    BY <1>5, <2>2, <2>3, SMT DEF StatusAt
  <2> QED
    BY <2>2, <2>4, ModesKeep
<1>6. CASE at = 22
  <2>1. Instruction = Do("msr", "cpsr", "r12")
    BY <1>6, InstructionAt DEF Instruction
  <2> HIDE DEF Instruction
  <2>2. cpsr' = Read("r12") /\ UNCHANGED <<reg, lr, stack, spsr, pc>>
    BY <2>1, MsrEffect
  <2>3. Read("r12") = original.cpsr
    BY <1>1, <1>6, SMT DEF ContextAt, RegistersAt, Read, Reg
  <2>4. StatusAt(at + 1, cpsr', spsr)
    BY <1>6, <2>2, <2>3, SMT DEF StatusAt
  <2> QED
    BY <2>2, <2>4, ModesKeep
<1> QED
  BY <1>3, <1>4, <1>5, <1>6

(* The stack of abort mode.                                                *)
LEMMA AbortStackUsed ==
  ASSUME CpuInv, Step, at \in {1, 2, 12, 18},
         stack' \in [Mode -> Seq(Items)], stack'[SVC] = stack[SVC], AbortStackAt(at + 1, stack'[ABT]),
         reg' \in [Reg -> Items], lr' \in [Mode -> Items], UNCHANGED <<cpsr, spsr>>,
         RegistersAt(at + 1, reg'), LinksAt(at + 1, lr')
  PROVE  CpuInv'
<1>1. CpuTypes /\ ContextAt(at)
  BY StepFrame
<1>2. HbootStackAt(at + 1, stack'[SVC])
  <2>1. Depth(at + 1) = Depth(at) /\ ~(at > 20) /\ ~(at + 1 > 20)
    BY SMT DEF Depth
  <2> QED
    BY <1>1, <2>1 DEF ContextAt, HbootStackAt
<1>3. StatusAt(at + 1, cpsr, spsr) /\ at # 25
  <2>1. cpsr = InAbort /\ spsr = original.cpsr
    BY StillInAbort, SMT
  <2>2. at + 1 \in {2, 3, 13, 19} /\ at # 25
    BY SMT
  <2> QED
    BY <2>1, <2>2, SMT DEF StatusAt
<1> QED
  BY <1>2, <1>3, NextContext

LEMMA AbortStackNow ==
  ASSUME CpuInv, Step
  PROVE  stack \in [Mode -> Seq(Items)] /\ stack[ABT] \in Seq(Items) /\ AbortStackAt(at, stack[ABT])
BY StepFrame, Modes DEF CpuTypes, ContextAt

LEMMA AbortPushes ==
  ASSUME CpuInv, Step, at \in {1, 2}
  PROVE  CpuInv'
<1>1. CpuTypes /\ ContextAt(at) /\ reg \in [Reg -> Items] /\ lr \in [Mode -> Items]
  BY StepFrame DEF CpuTypes
<1>2. cpsr.mode = ABT /\ ABT \in Mode /\ SVC \in Mode /\ SVC # ABT
  BY StillInAbort, Modes, SMT
<1>3. stack \in [Mode -> Seq(Items)] /\ stack[ABT] \in Seq(Items) /\ AbortStackAt(at, stack[ABT])
  BY AbortStackNow
<1>4. RegistersAt(at + 1, reg) /\ LinksAt(at + 1, lr)
  BY <1>1, SMT DEF ContextAt, RegistersAt, LinksAt
<1>5. CASE at = 1
  <2>1. Instruction = Push(<<"return address">>)
    BY <1>5, InstructionAt DEF Instruction
  <2> HIDE DEF Instruction
  <2>2. Read("return address") \in Items
    BY SMT DEF Read, Reg, Items
  <2>3. /\ \E p \in Seq(Items) : Len(p) = 1 /\ stack' = [stack EXCEPT ![ABT] = p \o stack[ABT]]
        /\ UNCHANGED <<reg, lr, cpsr, spsr, pc>>
    BY <1>1, <1>2, <2>1, <2>2, PushOne
  <2>4. PICK p \in Seq(Items) : Len(p) = 1 /\ stack' = [stack EXCEPT ![ABT] = p \o stack[ABT]]
    BY <2>3
  <2>5. Len(stack[ABT]) = 0
    BY <1>3, <1>5, SMT DEF AbortStackAt
  <2>6. p \o stack[ABT] \in Seq(Items) /\ Len(p \o stack[ABT]) = 1
    <3>1. p \o stack[ABT] \in Seq(Items) /\ Len(p \o stack[ABT]) = Len(p) + Len(stack[ABT])
      BY <1>3, StackPushed
    <3>2. 1 + 0 = 1
      BY SMT
    <3> QED
      BY <2>4, <2>5, <3>1, <3>2
  <2>7. AbortStackAt(2, stack'[ABT]) /\ stack' \in [Mode -> Seq(Items)] /\ stack'[SVC] = stack[SVC]
    <3>1. stack'[ABT] = p \o stack[ABT] /\ stack' \in [Mode -> Seq(Items)] /\ stack'[SVC] = stack[SVC]
      BY <1>2, <1>3, <2>4, <2>6
    <3>2. AbortStackAt(2, stack'[ABT])
      BY <2>6, <3>1, SMT DEF AbortStackAt
    <3> QED
      BY <3>1, <3>2
  <2>8. at + 1 = 2
    BY <1>5
  <2> QED
    BY <1>1, <1>4, <2>3, <2>7, <2>8, AbortStackUsed
<1>6. CASE at = 2
  <2>1. Instruction = Push(<<"r0", "r1">>)
    BY <1>6, InstructionAt DEF Instruction
  <2> HIDE DEF Instruction
  <2>2. reg = original.reg
    BY <1>1, <1>6 DEF ContextAt, RegistersAt
  <2>3. /\ Read("r0") \in Items /\ Read("r1") \in Items
        /\ Read("r0") = original.reg["r0"] /\ Read("r1") = original.reg["r1"]
    BY <1>1, <1>2, <2>2, ReadItem DEF Read, Reg
  <2>4. /\ \E p \in Seq(Items) : /\ Len(p) = 2 /\ p[1] = Read("r0") /\ p[2] = Read("r1")
                                 /\ stack' = [stack EXCEPT ![ABT] = p \o stack[ABT]]
        /\ UNCHANGED <<reg, lr, cpsr, spsr, pc>>
    BY <1>1, <1>2, <2>1, <2>3, PushTwo
  <2>5. PICK p \in Seq(Items) : /\ Len(p) = 2 /\ p[1] = Read("r0") /\ p[2] = Read("r1")
                                /\ stack' = [stack EXCEPT ![ABT] = p \o stack[ABT]]
    BY <2>4
  <2>6. Len(stack[ABT]) = 1
    BY <1>3, <1>6, SMT DEF AbortStackAt
  <2>7. /\ p \o stack[ABT] \in Seq(Items) /\ Len(p \o stack[ABT]) = 3
        /\ (p \o stack[ABT])[1] = p[1] /\ (p \o stack[ABT])[2] = p[2]
    <3>1. /\ p \o stack[ABT] \in Seq(Items) /\ Len(p \o stack[ABT]) = Len(p) + Len(stack[ABT])
          /\ \A k \in 1 .. Len(p) : (p \o stack[ABT])[k] = p[k]
      BY <1>3, StackPushed
    <3>2. 2 + 1 = 3 /\ 1 \in 1 .. 2 /\ 2 \in 1 .. 2
      BY SMT
    <3> QED
      BY <2>5, <2>6, <3>1, <3>2
  <2>8. stack'[ABT] = p \o stack[ABT] /\ stack' \in [Mode -> Seq(Items)] /\ stack'[SVC] = stack[SVC]
    BY <1>2, <1>3, <2>5, <2>7
  <2>9. AbortStackAt(3, stack'[ABT])
    BY <2>3, <2>5, <2>7, <2>8, SMT DEF AbortStackAt
  <2>10. at + 1 = 3
    BY <1>6
  <2> QED
    BY <1>1, <1>4, <2>4, <2>8, <2>9, <2>10, AbortStackUsed
<1> QED
  BY <1>5, <1>6

LEMMA AbortPops ==
  ASSUME CpuInv, Step, at \in {12, 18}
  PROVE  CpuInv'
<1>1. CpuTypes /\ ContextAt(at) /\ reg \in [Reg -> Items] /\ lr \in [Mode -> Items]
  BY StepFrame DEF CpuTypes
<1>2. cpsr.mode = ABT /\ ABT \in Mode /\ SVC \in Mode /\ SVC # ABT
  BY StillInAbort, Modes, SMT
<1>3. stack \in [Mode -> Seq(Items)] /\ stack[ABT] \in Seq(Items) /\ AbortStackAt(at, stack[ABT])
  BY AbortStackNow
<1> DEFINE s == stack[ABT]
<1>4. CASE at = 12
  <2> DEFINE regs == <<"r0", "r1">>
  <2>1. Instruction = Pop(regs)
    BY <1>4, InstructionAt DEF Instruction
  <2> HIDE DEF Instruction
  <2>2. /\ Len(regs) = 2 /\ DOMAIN regs = {1, 2} /\ 1 .. 2 = {1, 2} /\ regs[1] = "r0" /\ regs[2] = "r1"
        /\ \A j, k \in DOMAIN regs : regs[j] = regs[k] => j = k
    BY DifferentNames, SMT
  <2> HIDE DEF regs
  <2>3. /\ Write(regs, SubSeq(s, 1, 2)) /\ stack' = [stack EXCEPT ![ABT] = SubSeq(s, 2 + 1, Len(s))]
        /\ UNCHANGED <<cpsr, spsr>>
    BY <1>2, <2>1, <2>2, PopEffect
  <2>4. Len(s) = 3 /\ s[1] = original.reg["r0"] /\ s[2] = original.reg["r1"]
    BY <1>3, <1>4, SMT DEF AbortStackAt
  <2>5. /\ SubSeq(s, 2 + 1, Len(s)) \in Seq(Items) /\ Len(SubSeq(s, 2 + 1, Len(s))) = Len(s) - 2
        /\ \A k \in 1 .. 2 : SubSeq(s, 1, 2)[k] = s[k]
    <3>1. 2 \in Nat /\ 2 <= Len(s)
      BY <2>4, SMT
    <3> QED
      BY <1>3, <3>1, StackPopped
  <2> DEFINE t == SubSeq(s, 2 + 1, Len(s))
             v == SubSeq(s, 1, 2)
  <2>6. t \in Seq(Items) /\ Len(t) = 1 /\ v[1] = original.reg["r0"] /\ v[2] = original.reg["r1"]
    <3>1. 3 - 2 = 1
      BY SMT
    <3> QED
      BY <2>2, <2>4, <2>5, <3>1
  <2>7. Write(regs, v) /\ stack' = [stack EXCEPT ![ABT] = t]
    BY <2>3
  <2> HIDE DEF t, v, s
  <2>8. /\ stack' \in [Mode -> Seq(Items)] /\ stack'[SVC] = stack[SVC] /\ stack'[ABT] = t
    BY <1>2, <1>3, <2>6, <2>7
  <2>9. AbortStackAt(13, stack'[ABT])
    BY <2>6, <2>8, SMT DEF AbortStackAt
  <2>10. /\ \A k \in DOMAIN regs : regs[k] \in Reg => reg'[regs[k]] = v[k]
         /\ \A r \in Reg : (\A k \in DOMAIN regs : regs[k] # r) => reg'[r] = reg[r]
         /\ (\A k \in DOMAIN regs : regs[k] # "lr") => lr' = [lr EXCEPT ![cpsr.mode] = @]
         /\ reg' = [r \in Reg |-> reg'[r]]
    BY <2>2, <2>7, WriteEffect
  <2>11. lr' = lr
    <3>1. \A k \in DOMAIN regs : regs[k] # "lr"
      BY <2>2
    <3> QED
      BY <1>1, <2>10, <3>1
  <2>12. reg = [original.reg EXCEPT !["r0"] = Fault, !["r1"] = original.stack]
    BY <1>1, <1>4 DEF ContextAt, RegistersAt
  <2>13. original.reg \in [Reg -> Value]
    BY <1>1, OriginalContext
  <2>14. \A r \in Reg : reg'[r] = original.reg[r]
    <3>1. reg'["r0"] = original.reg["r0"] /\ reg'["r1"] = original.reg["r1"]
      BY <2>2, <2>6, <2>10 DEF Reg
    <3>2. reg'["r2"] = reg["r2"] /\ reg'["r12"] = reg["r12"]
      BY <2>2, <2>10 DEF Reg
    <3>3. reg["r2"] = original.reg["r2"] /\ reg["r12"] = original.reg["r12"]
      BY <2>12, <2>13 DEF Reg
    <3> QED
      BY <3>1, <3>2, <3>3 DEF Reg
  <2>15. reg' = original.reg /\ reg' \in [Reg -> Items]
    BY <2>10, <2>13, <2>14 DEF Items
  <2>16. RegistersAt(13, reg') /\ LinksAt(13, lr')
    BY <1>1, <1>4, <2>11, <2>15, SMT DEF ContextAt, RegistersAt, LinksAt
  <2>17. at + 1 = 13
    BY <1>4
  <2> QED
    BY <1>1, <2>3, <2>8, <2>9, <2>11, <2>15, <2>16, <2>17, AbortStackUsed
<1>5. CASE at = 18
  <2>1. Instruction = Pop(<<"lr">>)
    BY <1>5, InstructionAt DEF Instruction
  <2> HIDE DEF Instruction
  <2>2. Len(<<"lr">>) = 1
    OBVIOUS
  <2>3. /\ Write(<<"lr">>, SubSeq(s, 1, 1)) /\ stack' = [stack EXCEPT ![ABT] = SubSeq(s, 1 + 1, Len(s))]
        /\ UNCHANGED <<cpsr, spsr>>
    BY <1>2, <2>1, <2>2, PopEffect
  <2>4. Len(s) = 1
    BY <1>3, <1>5, SMT DEF AbortStackAt
  <2>5. /\ SubSeq(s, 1 + 1, Len(s)) \in Seq(Items) /\ Len(SubSeq(s, 1 + 1, Len(s))) = Len(s) - 1
        /\ \A k \in 1 .. 1 : SubSeq(s, 1, 1)[k] = s[k] /\ s[k] \in Items
    <3>1. 1 \in Nat /\ 1 <= Len(s)
      BY <2>4, SMT
    <3> QED
      BY <1>3, <3>1, StackPopped
  <2> DEFINE t == SubSeq(s, 1 + 1, Len(s))
             v == SubSeq(s, 1, 1)
  <2>6. t \in Seq(Items) /\ Len(t) = 0 /\ v[1] \in Items
    <3>1. 1 - 1 = 0 /\ 1 \in 1 .. 1
      BY SMT
    <3> QED
      BY <2>4, <2>5, <3>1
  <2>7. Write(<<"lr">>, v) /\ stack' = [stack EXCEPT ![ABT] = t]
    BY <2>3
  <2> HIDE DEF t, v, s
  <2>8. /\ stack' \in [Mode -> Seq(Items)] /\ stack'[SVC] = stack[SVC] /\ stack'[ABT] = t
    BY <1>2, <1>3, <2>6, <2>7
  <2>9. AbortStackAt(19, stack'[ABT])
    BY <2>6, <2>8, SMT DEF AbortStackAt
  <2>10. reg' = reg /\ lr' = [lr EXCEPT ![ABT] = v[1]]
    BY <1>1, <1>2, <2>7, WriteOne
  <2>11. lr' \in [Mode -> Items] /\ lr'[SVC] = lr[SVC]
    BY <1>1, <1>2, <2>6, <2>10
  <2>12. RegistersAt(19, reg') /\ LinksAt(19, lr')
    BY <1>1, <1>5, <2>10, <2>11, SMT DEF ContextAt, RegistersAt, LinksAt
  <2>13. at + 1 = 19
    BY <1>5
  <2> QED
    BY <1>1, <2>3, <2>8, <2>9, <2>10, <2>11, <2>12, <2>13, AbortStackUsed
<1> QED
  BY <1>4, <1>5

LEMMA StepKeeps ==
  ASSUME CpuInv, Step
  PROVE  CpuInv'
<1>1. at \in 1 .. 25 /\ at # 20
  BY StepFrame
<1>2. \/ at \in {1, 2} \/ at \in {3, 4, 6, 13} \/ at \in {5, 11, 14, 17, 19, 22}
      \/ at \in {7, 8, 9, 16} \/ at \in {10, 15} \/ at \in {12, 18}
      \/ at = 21 \/ at = 23 \/ at = 24 \/ at = 25
  BY <1>1, SMT
<1> QED
  BY <1>2, AbortPushes, Moves, ModeChanges, PushesOne, PushesTwo, AbortPops, At21, At23, At24, At25

-----------------------------------------------------------------------------
(***************************************************************************)
(* The breakpoint, the debugger and the other abort.                       *)
(***************************************************************************)
LEMMA CpuInvInit == CpuInit => CpuInv
<1> SUFFICES ASSUME CpuInit
             PROVE  CpuInv
  OBVIOUS
<1>1. PICK v \in Value : lr = [m \in Mode |-> v]
  BY DEF CpuInit
<1>2. PICK w \in Value : stack = [m \in Mode |-> IF m = SVC THEN <<w>> ELSE <<>>]
  BY DEF CpuInit
<1>3. <<w>> \in Seq(Value) /\ <<w>> \in Seq(Items) /\ <<>> \in Seq(Items)
  BY EmptySeq DEF Items
<1>4. /\ stack \in [Mode -> Seq(Items)] /\ lr \in [Mode -> Items]
      /\ stack[SVC] = <<w>> /\ stack[ABT] = <<>> /\ lr[SVC] = v
  BY <1>1, <1>2, <1>3, Modes DEF Items
<1>5. /\ reg \in [Reg -> Value] /\ reg \in [Reg -> Items]
      /\ cpsr \in [mode : {SVC}, masked : BOOLEAN, flags : Flags]
      /\ original = [reg |-> reg, lr |-> v, stack |-> <<w>>, cpsr |-> cpsr]
      /\ at = 0 /\ pc = Fault /\ goal = Fault /\ nested = FALSE
  BY <1>4 DEF CpuInit, Items
<1>6. CpuTypes
  BY <1>3, <1>4, <1>5, ContextAssumption DEF CpuTypes
<1>7. HbootStackAt(0, stack[SVC])
  <2>1. Depth(0) = 0 /\ ~(0 > 20) /\ 1 .. 0 = {}
    BY SMT DEF Depth
  <2>2. original.stack = stack[SVC] /\ Len(original.stack) \in Nat
    BY <1>4, <1>5, <1>6, OriginalContext
  <2>3. Len(stack[SVC]) = 0 + Len(original.stack)
        /\ \A k \in 1 .. Len(original.stack) : stack[SVC][0 + k] = original.stack[k]
    BY <2>2, SMT
  <2> QED
    BY <2>1, <2>3 DEF HbootStackAt, Framed
<1>8. AbortStackAt(0, stack[ABT])
  BY <1>4, EmptySeq, SMT DEF AbortStackAt
<1>9. StatusAt(0, cpsr, spsr) /\ RegistersAt(0, reg) /\ LinksAt(0, lr)
  BY <1>4, <1>5, SMT DEF StatusAt, RegistersAt, LinksAt
<1>10. ContextAt(at)
  BY <1>5, <1>7, <1>8, <1>9 DEF ContextAt
<1>11. at \in 0 .. 25 /\ pc = goal /\ nested = FALSE /\ nested \in BOOLEAN
  <2>1. 0 \in 0 .. 25
    BY SMT
  <2> QED
    BY <1>5, <2>1
<1> QED
  BY <1>6, <1>10, <1>11 DEF CpuInv

(* A stack that is HBOOT's own is all there is of a context.               *)
LEMMA UnframedStack ==
  ASSUME CpuTypes, NEW s \in Seq(Items), NEW w, Framed(s, 0, w)
  PROVE  s = original.stack
<1>1. Len(s) = Len(original.stack) /\ \A k \in 1 .. Len(original.stack) : s[k] = original.stack[k]
  BY OriginalContext, SMT DEF Framed
<1>2. original.stack \in Seq(Value) /\ Value \subseteq Items
  BY OriginalContext DEF Items
<1>3. original.stack \in Seq(Items)
  BY <1>2, SeqMonotonic
<1> QED
  BY <1>1, <1>3, SeqEqual

LEMMA Running ==
  ASSUME CpuInv, at = 0
  PROVE  /\ CpuTypes /\ ~nested /\ pc = goal
         /\ reg = original.reg /\ cpsr = original.cpsr /\ lr[SVC] = original.lr
         /\ stack[SVC] = original.stack /\ AbortStackAt(0, stack[ABT])
<1>1. CpuTypes /\ ~nested /\ pc = goal /\ ContextAt(0)
  BY SMT DEF CpuInv
<1>2. reg = original.reg /\ cpsr = original.cpsr /\ lr[SVC] = original.lr
  BY <1>1, SMT DEF ContextAt, StatusAt, RegistersAt, LinksAt
<1>3. Framed(stack[SVC], 0, Fault)
  <2>1. Depth(0) = 0 /\ ~(0 > 20)
    BY SMT DEF Depth
  <2> QED
    BY <1>1, <2>1 DEF ContextAt, HbootStackAt
<1>4. stack[SVC] \in Seq(Items)
  BY <1>1, Modes DEF CpuTypes
<1> QED
  BY <1>1, <1>2, <1>3, <1>4, UnframedStack DEF ContextAt

LEMMA TrapKeeps ==
  ASSUME CpuInv, Trap
  PROVE  CpuInv'
<1>1. /\ CpuTypes /\ ~nested /\ pc = goal
      /\ reg = original.reg /\ cpsr = original.cpsr /\ lr[SVC] = original.lr
      /\ stack[SVC] = original.stack /\ AbortStackAt(0, stack[ABT])
  BY Running DEF Trap
<1>2. /\ at' = 1 /\ lr' = [lr EXCEPT ![ABT] = Fault + 4] /\ spsr' = cpsr /\ cpsr' = AbortMode
      /\ original' = [reg |-> reg, lr |-> lr[SVC], stack |-> stack[SVC], cpsr |-> cpsr]
      /\ goal' = Fault /\ UNCHANGED <<reg, stack, pc, nested>>
  BY DEF Trap
<1>3. original' = original
  BY <1>1, <1>2 DEF CpuTypes
<1>4. lr' \in [Mode -> Items] /\ lr'[ABT] = Fault + 4 /\ lr'[SVC] = original.lr
  <2>1. Fault + 4 \in Items
    BY ContextAssumption, SMT DEF Items
  <2> QED
    BY <1>1, <1>2, <2>1, Modes DEF CpuTypes
<1>5. CpuTypes'
  BY <1>1, <1>2, <1>3, <1>4, ContextAssumption DEF CpuTypes
<1>6. HbootStackAt(at, stack[SVC])'
  <2>1. Depth(1) = 0 /\ ~(1 > 20) /\ 1 .. 0 = {}
    BY SMT DEF Depth
  <2>2. /\ Len(stack[SVC]) = 0 + Len(original.stack)
        /\ \A k \in 1 .. Len(original.stack) : stack[SVC][0 + k] = original.stack[k]
    BY <1>1, OriginalContext, SMT
  <2>3. Framed(stack[SVC], 0, Fault)'
    BY <1>2, <1>3, <2>1, <2>2 DEF Framed
  <2> QED
    BY <1>2, <2>1, <2>3 DEF HbootStackAt
<1>7. AbortStackAt(at, stack[ABT])'
  BY <1>1, <1>2, SMT DEF AbortStackAt
<1>8. StatusAt(at, cpsr, spsr)'
  BY <1>1, <1>2, <1>3, SMT DEF StatusAt, InAbort, AbortMode
<1>9. RegistersAt(at, reg)' /\ LinksAt(at, lr)'
  BY <1>1, <1>2, <1>3, <1>4, SMT DEF RegistersAt, LinksAt
<1> QED
  BY <1>1, <1>2, <1>5, <1>6, <1>7, <1>8, <1>9, SMT DEF CpuInv, ContextAt

LEMMA Stopped ==
  ASSUME CpuInv, at = StopAt, ~nested
  PROVE  /\ CpuTypes /\ at = 20 /\ ContextAt(20) /\ cpsr = original.cpsr /\ cpsr.mode = SVC
         /\ Framed(stack[SVC], 8, Fault) /\ stack[SVC] \in Seq(Items) /\ Len(stack[ABT]) = 0
<1>1. CpuTypes /\ at = 20 /\ ContextAt(20)
  BY ProgramText DEF CpuInv
<1>2. cpsr = original.cpsr /\ Len(stack[ABT]) = 0
  BY <1>1, SMT DEF ContextAt, StatusAt, AbortStackAt
<1>3. Framed(stack[SVC], 8, Fault)
  <2>1. Depth(20) = 8 /\ ~(20 > 20)
    BY SMT DEF Depth
  <2> QED
    BY <1>1, <2>1 DEF ContextAt, HbootStackAt
<1> QED
  BY <1>1, <1>2, <1>3, OriginalContext, Modes DEF CpuTypes

LEMMA InstallKeeps ==
  ASSUME CpuInv, int_install_exception_handlers
  PROVE  CpuInv'
<1>1. /\ at = StopAt /\ ~nested /\ stack' = [stack EXCEPT ![ABT] = <<>>]
      /\ UNCHANGED <<reg, lr, cpsr, spsr, at, pc, original, goal, nested>>
  BY DEF int_install_exception_handlers, cpu_set_mode_stack
<1>2. CpuTypes /\ at = 20 /\ ContextAt(20)
  BY <1>1, Stopped
<1>3. stack' \in [Mode -> Seq(Items)] /\ stack'[SVC] = stack[SVC] /\ stack'[ABT] = <<>>
  BY <1>1, <1>2, EmptySeq, Modes DEF CpuTypes
<1>4. CpuTypes'
  BY <1>1, <1>2, <1>3 DEF CpuTypes
<1>5. HbootStackAt(at, stack[SVC])'
  BY <1>1, <1>2, <1>3 DEF ContextAt, HbootStackAt, Framed, FrameWord
<1>6. AbortStackAt(at, stack[ABT])'
  BY <1>1, <1>2, <1>3, EmptySeq, SMT DEF AbortStackAt
<1>7. StatusAt(at, cpsr, spsr)' /\ RegistersAt(at, reg)' /\ LinksAt(at, lr)'
  BY <1>1, <1>2 DEF ContextAt, StatusAt, InAbort, RegistersAt, LinksAt
<1> QED
  BY <1>1, <1>2, <1>4, <1>5, <1>6, <1>7, SMT DEF CpuInv, ContextAt

LEMMA DebuggerKeeps ==
  ASSUME CpuInv, dbg_event_handler
  PROVE  CpuInv'
<1>1. /\ at = StopAt /\ ~nested /\ goal' \in Elsewhere \cup {Fault}
      /\ stack' = [stack EXCEPT ![cpsr.mode][ContextPc] = goal']
      /\ at' = at + 1 /\ UNCHANGED <<spsr, pc, original, nested>>
  BY DEF dbg_event_handler
<1>2. PICK v \in Value : reg' = [r \in Reg |-> v] /\ lr' = [lr EXCEPT ![cpsr.mode] = v]
  BY DEF dbg_event_handler
<1>3. PICK f \in Flags : cpsr' = [cpsr EXCEPT !.flags = f]
  BY DEF dbg_event_handler
<1>4. /\ CpuTypes /\ at = 20 /\ ContextAt(20) /\ cpsr = original.cpsr /\ cpsr.mode = SVC
      /\ Framed(stack[SVC], 8, Fault) /\ stack[SVC] \in Seq(Items) /\ Len(stack[ABT]) = 0
  BY <1>1, Stopped
<1>5. goal' \in Nat /\ at' = 21
  <2>1. goal' \in Nat
    BY <1>1, ContextAssumption
  <2> QED
    BY <1>1, <1>4, <2>1, SMT
<1>6. Len(original.stack) \in Nat
  BY <1>4, OriginalContext
<1> DEFINE s == [stack[SVC] EXCEPT ![8] = goal']
<1>7. s \in Seq(Items) /\ Len(s) = Len(stack[SVC])
      /\ \A j \in 1 .. Len(stack[SVC]) : s[j] = IF j = 8 THEN goal' ELSE stack[SVC][j]
  <2>1. Len(stack[SVC]) = 8 + Len(original.stack)
    BY <1>4 DEF Framed
  <2>2. 8 \in 1 .. Len(stack[SVC])
    BY <1>6, <2>1, SMT
  <2>3. goal' \in Items
    BY <1>5 DEF Items
  <2> QED
    BY <1>4, <2>2, <2>3, ExceptSeq
<1>8. stack' \in [Mode -> Seq(Items)] /\ stack'[SVC] = s /\ stack'[ABT] = stack[ABT]
  <2>1. stack' = [stack EXCEPT ![SVC] = s]
    BY <1>1, <1>4 DEF ContextPc
  <2> HIDE DEF s
  <2> QED
    BY <1>4, <1>7, <2>1, Modes DEF CpuTypes
<1> HIDE DEF s
<1>9. CpuTypes'
  BY <1>1, <1>2, <1>4, <1>5, <1>8, Modes DEF CpuTypes, Items
<1>10. Framed(stack[SVC], 8, goal)'
  <2>1. Len(s) = 8 + Len(original.stack)
    BY <1>4, <1>7 DEF Framed
  <2>2. \A k \in 1 .. 8 : s[k] = FrameWord(8 - 8 + k, goal)'
    <3> SUFFICES ASSUME NEW k \in 1 .. 8
                 PROVE  s[k] = FrameWord(8 - 8 + k, goal)'
      OBVIOUS
    <3>1. k \in 1 .. Len(stack[SVC]) /\ 8 - 8 + k = k
      BY <1>6, <1>7, <2>1, SMT
    <3>2. stack[SVC][k] = FrameWord(k, Fault)
      BY <1>4, <3>1 DEF Framed
    <3>3. s[k] = IF k = 8 THEN goal' ELSE FrameWord(k, Fault)
      BY <1>7, <3>1, <3>2
    <3>4. k # 8 => FrameWord(k, Fault) = FrameWord(k, goal)'
      <4>1. k \in {1, 2, 3, 4, 5, 6, 7, 8}
        BY SMT
      <4> QED
        BY <1>1, <4>1 DEF FrameWord
    <3>5. k = 8 => FrameWord(k, goal)' = goal'
      BY DEF FrameWord
    <3> QED
      BY <3>1, <3>3, <3>4, <3>5
  <2>3. \A k \in 1 .. Len(original.stack) : s[8 + k] = original.stack[k]
    <3>1. \A k \in 1 .. Len(original.stack) : 8 + k # 8 /\ 8 + k \in 1 .. Len(stack[SVC])
      BY <1>6, <1>7, <2>1, SMT
    <3> QED
      BY <1>4, <1>7, <3>1 DEF Framed
  <2> QED
    BY <1>1, <1>8, <2>1, <2>2, <2>3 DEF Framed
<1>11. HbootStackAt(at, stack[SVC])'
  <2>1. Depth(21) = 8 /\ 21 > 20
    BY SMT DEF Depth
  <2> QED
    BY <1>5, <1>10, <2>1 DEF HbootStackAt
<1>12. AbortStackAt(at, stack[ABT])'
  BY <1>4, <1>5, <1>8, SMT DEF AbortStackAt
<1>13. StatusAt(at, cpsr, spsr)'
  BY <1>1, <1>3, <1>4, <1>5, SMT DEF StatusAt
<1>14. RegistersAt(at, reg)' /\ LinksAt(at, lr)'
  BY <1>5, SMT DEF RegistersAt, LinksAt
<1> QED
  BY <1>1, <1>5, <1>9, <1>11, <1>12, <1>13, <1>14, SMT DEF CpuInv, ContextAt

(* The second abort changes the registers of abort mode: the context is    *)
(* followed no further when it is being saved, and needs them no more      *)
(* when it is being restored.                                              *)
LEMMA NestedAbortKeeps ==
  ASSUME CpuInv, NestedAbort
  PROVE  CpuInv'
<1>1. /\ at # 0 /\ ~nested /\ lr' = [lr EXCEPT ![ABT] = 0] /\ nested' = Saving
      /\ UNCHANGED <<reg, stack, cpsr, at, pc, original, goal>>
  BY DEF NestedAbort
<1>2. CpuTypes /\ at \in 0 .. 25 /\ ContextAt(at)
  BY <1>1 DEF CpuInv
<1>3. Saving <=> at \in 1 .. 19
  BY ProgramText, SMT DEF Saving
<1>4. lr' \in [Mode -> Items] /\ lr'[SVC] = lr[SVC]
  BY <1>1, <1>2, Modes, SMT DEF CpuTypes, Items
<1>5. CpuTypes'
  BY <1>1, <1>2, <1>4 DEF CpuTypes
<1>6. CASE at \in 1 .. 19
  <2>1. nested' = TRUE
    BY <1>1, <1>3, <1>6, Zenon DEF Saving
  <2> QED
    BY <1>1, <1>2, <1>5, <1>6, <2>1 DEF CpuInv
<1>7. CASE at \notin 1 .. 19
  <2>1. at \in 20 .. 25
    BY <1>1, <1>2, <1>7, SMT
  <2>2. ~nested' /\ nested' \in BOOLEAN
    <3>1. ~Saving /\ Saving \in BOOLEAN
      BY <1>3, <1>7 DEF Saving
    <3> QED
      BY <1>1, <3>1
  <2>3. HbootStackAt(at, stack[SVC])' /\ AbortStackAt(at, stack[ABT])' /\ RegistersAt(at, reg)'
    BY <1>1, <1>2 DEF ContextAt, HbootStackAt, Framed, FrameWord, AbortStackAt, RegistersAt
  <2>4. StatusAt(at, cpsr, spsr)'
    BY <1>1, <1>2, <2>1, SMT DEF ContextAt, StatusAt
  <2>5. LinksAt(at, lr)'
    BY <1>1, <1>2, <1>4, <2>1, SMT DEF ContextAt, LinksAt
  <2> QED
    BY <1>1, <1>2, <1>5, <2>2, <2>3, <2>4, <2>5 DEF CpuInv, ContextAt
<1> QED
  BY <1>6, <1>7

LEMMA CpuInvNext == CpuInv /\ [CpuNext]_cpuVars => CpuInv'
<1> SUFFICES ASSUME CpuInv, [CpuNext]_cpuVars
             PROVE  CpuInv'
  OBVIOUS
<1>1. CASE UNCHANGED cpuVars
  <2>1. UNCHANGED <<reg, lr, stack, cpsr, spsr, at, pc, original, goal, nested>>
    BY <1>1 DEF cpuVars
  <2>2. CpuTypes' = CpuTypes /\ (~nested => ContextAt(at))' = (~nested => ContextAt(at))
    BY <2>1 DEF CpuTypes, ContextAt, HbootStackAt, Framed, FrameWord, AbortStackAt, StatusAt, InAbort,
         RegistersAt, LinksAt
  <2> QED
    BY <2>1, <2>2 DEF CpuInv
<1> QED
  BY <1>1, TrapKeeps, StepKeeps, InstallKeeps, DebuggerKeeps, NestedAbortKeeps DEF CpuNext

(* At every instruction of the handler the context is where the next one   *)
(* expects it.                                                             *)
THEOREM HandlerInvariant == CpuSpec => []CpuInv
<1> QED
  BY CpuInvInit, CpuInvNext, PTL DEF CpuSpec

LEMMA FrameIs ==
  ASSUME CpuTypes
  PROVE  /\ Frame(original) \in Seq(Items) /\ Len(Frame(original)) = 8
         /\ \A k \in 1 .. 8 : Frame(original)[k] = FrameWord(k, Fault)
<1> DEFINE w == [k \in 1 .. 8 |-> FrameWord(k, Fault)]
<1>1. /\ FrameWord(1, Fault) = original.cpsr /\ FrameWord(2, Fault) = original.reg["r0"]
      /\ FrameWord(3, Fault) = original.reg["r1"] /\ FrameWord(4, Fault) = original.reg["r2"]
      /\ FrameWord(5, Fault) = original.reg["r12"] /\ FrameWord(6, Fault) = original.stack
      /\ FrameWord(7, Fault) = original.lr /\ FrameWord(8, Fault) = Fault
  BY DEF FrameWord
<1>2. \A k \in 1 .. 8 : FrameWord(k, Fault) \in Items
  BY OriginalContext
<1>3. 1 .. 8 = {1, 2, 3, 4, 5, 6, 7, 8}
  BY SMT
<1>4. Frame(original) = <<FrameWord(1, Fault), FrameWord(2, Fault), FrameWord(3, Fault), FrameWord(4, Fault),
                          FrameWord(5, Fault), FrameWord(6, Fault), FrameWord(7, Fault), FrameWord(8, Fault)>>
  BY <1>1 DEF Frame
<1> DEFINE W(k) == FrameWord(k, Fault)
           f    == <<W(1), W(2), W(3), W(4), W(5), W(6), W(7), W(8)>>
<1> HIDE DEF W
<1>5. \A k \in {1, 2, 3, 4, 5, 6, 7, 8} : W(k) \in Items
  BY <1>2, <1>3 DEF W
<1>6. f \in Seq(Items) /\ Len(f) = 8
  BY <1>5
<1>7. f[1] = W(1) /\ f[2] = W(2) /\ f[3] = W(3) /\ f[4] = W(4)
      /\ f[5] = W(5) /\ f[6] = W(6) /\ f[7] = W(7) /\ f[8] = W(8)
  OBVIOUS
<1> HIDE DEF f
<1>8. Frame(original) = f
  BY <1>4 DEF f, W
<1> QED
  BY <1>3, <1>6, <1>7, <1>8 DEF W

(* What the debugger shows of the stopped program is its context, whatever *)
(* the registers, the flags, the stack and the addresses, and nothing is   *)
(* left on the stack of abort mode; unless a second abort came meanwhile.  *)
THEOREM ContextIsSaved == CpuSpec => []ContextSaved
<1>1. CpuInv => ContextSaved
  <2> SUFFICES ASSUME CpuInv, at = StopAt, ~nested
               PROVE  /\ cpsr.mode = original.cpsr.mode
                      /\ stack[SVC] = Frame(original) \o original.stack
                      /\ stack[ABT] = <<>>
    BY DEF ContextSaved
  <2>1. /\ CpuTypes /\ cpsr = original.cpsr
        /\ Framed(stack[SVC], 8, Fault) /\ stack[SVC] \in Seq(Items) /\ Len(stack[ABT]) = 0
    BY Stopped
  <2>2. stack[ABT] = <<>>
    <3>1. stack[ABT] \in Seq(Items)
      BY <2>1, Modes DEF CpuTypes
    <3> QED
      BY <2>1, <3>1, EmptySeq
  <2>3. stack[SVC] = Frame(original) \o original.stack
    <3> DEFINE f == Frame(original)
               o == original.stack
               s == stack[SVC]
    <3>1. f \in Seq(Items) /\ Len(f) = 8 /\ \A k \in 1 .. 8 : f[k] = FrameWord(k, Fault)
      BY <2>1, FrameIs
    <3>2. o \in Seq(Items) /\ Len(o) \in Nat
      <4>1. o \in Seq(Value) /\ Value \subseteq Items
        BY <2>1, OriginalContext DEF Items
      <4> QED
        BY <2>1, <4>1, SeqMonotonic, OriginalContext
    <3>3. /\ Len(s) = 8 + Len(o)
          /\ \A k \in 1 .. 8 : s[k] = FrameWord(8 - 8 + k, Fault)
          /\ \A k \in 1 .. Len(o) : s[8 + k] = o[k]
      BY <2>1 DEF Framed
    <3>4. s \in Seq(Items)
      BY <2>1
    <3> HIDE DEF f, o, s
    <3>5. /\ f \o o \in Seq(Items) /\ Len(f \o o) = 8 + Len(o)
          /\ \A k \in 1 .. 8 : (f \o o)[k] = f[k]
          /\ \A k \in 1 .. Len(o) : (f \o o)[8 + k] = o[k]
      <4>1. /\ f \o o \in Seq(Items) /\ Len(f \o o) = Len(f) + Len(o)
            /\ \A k \in 1 .. Len(f) : (f \o o)[k] = f[k]
            /\ \A k \in 1 .. Len(o) : (f \o o)[Len(f) + k] = o[k]
        BY <3>1, <3>2, StackPushed
      <4> QED
        BY <3>1, <4>1
    <3>6. \A i \in 1 .. Len(s) : s[i] = (f \o o)[i]
      <4> SUFFICES ASSUME NEW i \in 1 .. Len(s)
                   PROVE  s[i] = (f \o o)[i]
        OBVIOUS
      <4>1. CASE i \in 1 .. 8
        <5>1. 8 - 8 + i = i
          BY <4>1, SMT
        <5> QED
          BY <3>1, <3>3, <3>5, <4>1, <5>1
      <4>2. CASE i \notin 1 .. 8
        <5>1. i - 8 \in 1 .. Len(o) /\ 8 + (i - 8) = i
          BY <3>2, <3>3, <4>2, SMT
        <5> QED
          BY <3>3, <3>5, <5>1
      <4> QED
        BY <4>1, <4>2
    <3>7. s = f \o o
      BY <3>3, <3>4, <3>5, <3>6, SeqEqual
    <3> QED
      BY <3>7 DEF f, o, s
  <2> QED
    BY <2>1, <2>2, <2>3
<1> QED
  BY <1>1, HandlerInvariant, PTL

(* HBOOT goes on where the host wants it to, with the context it had, also *)
(* when a second abort came while the context was being restored.          *)
THEOREM ContextIsRestored == CpuSpec => []ContextRestored
<1>1. CpuInv => ContextRestored
  BY Running DEF ContextRestored
<1> QED
  BY <1>1, HandlerInvariant, PTL
=============================================================================
