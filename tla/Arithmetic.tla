----------------------------- MODULE Arithmetic -----------------------------
(***************************************************************************)
(* What the arithmetic instructions compute (src/src/CPU/cpu.cpp and       *)
(* opcodes.hpp): operators from words and flags to a word and flags.  The  *)
(* size of a nibble and the base of its decimal digits are parameters, 16  *)
(* and 10 in the code.  Mut_... are mistakes used to test the properties.  *)
(***************************************************************************)
EXTENDS Integers

CONSTANTS NibbleSize, Base

WordSize     == NibbleSize * NibbleSize
HalfWord     == WordSize \div 2
AddressSpace == WordSize * WordSize
Nibble  == 0 .. NibbleSize - 1
Word    == 0 .. WordSize - 1
Address == 0 .. AddressSpace - 1
Offset  == -HalfWord .. HalfWord - 1     \* signed char

ASSUME ArithmeticAssumption ==
  /\ NibbleSize \in Nat /\ NibbleSize >= 2 /\ NibbleSize % 2 = 0
  /\ Base \in Nat /\ Base >= 2 /\ Base <= NibbleSize

\* F is the set of its bits that are 1.  Its bits 3-0 are 0 in a real F.
FZ == 7
FN == 6
FH == 5
FC == 4
FlagBits == {FZ, FN, FH, FC}
Result == [value : Word, F : SUBSET FlagBits]

\* The four flags assigned, as every instruction below does; the others stay.
on(bit, condition) == IF condition THEN {bit} ELSE {}
flags(F, z, n, h, c) ==
  (F \ FlagBits) \cup on(FZ, z) \cup on(FN, n) \cup on(FH, h) \cup on(FC, c)
carryIn(F) == IF FC \in F THEN 1 ELSE 0

twoWordToDword(msb, lsb) == msb * WordSize + lsb
dwordMsb(value) == value \div WordSize
dwordLsb(value) == value % WordSize

getCarryFlag(a, b) == a + b > WordSize - 1
getHalfCarryFlag(a, b) == (a % NibbleSize) + (b % NibbleSize) >= NibbleSize
getCarryFlagDword(a, b) == a + b > AddressSpace - 1
getHalfCarryFlagDword(a, b) ==
  LET low == NibbleSize * WordSize IN (a % low) + (b % low) >= low

-----------------------------------------------------------------------------
(* 8-bit arithmetic: on A, except that INC and DEC take any register.      *)

Mut_IncSetsCarry(reg, F) ==
  LET value == (reg + 1) % WordSize
  IN  [value |-> value, F |-> flags(F, value = 0, FALSE, getHalfCarryFlag(reg, 1), value = 0)]
incRegister(reg, F) ==
  LET value == (reg + 1) % WordSize
  IN  [value |-> value, F |-> flags(F, value = 0, FALSE, getHalfCarryFlag(reg, 1), FC \in F)]

decRegister(reg, F) ==
  LET value == (reg - 1) % WordSize
  IN  [value |-> value, F |-> flags(F, value = 0, TRUE, (reg % NibbleSize) - 1 < 0, FC \in F)]

addRegister(A, F, reg) ==
  LET value == (A + reg) % WordSize
  IN  [value |-> value,
       F |-> flags(F, value = 0, FALSE, getHalfCarryFlag(A, reg), getCarryFlag(A, reg))]

subRegister(A, F, reg) ==
  LET value == (A - reg) % WordSize
  IN  [value |-> value,
       F |-> flags(F, value = 0, TRUE, (A % NibbleSize) - (reg % NibbleSize) < 0, A < reg)]

adcRegister(A, F, reg) ==
  LET result == A + reg + carryIn(F)
      value  == result % WordSize
  IN  [value |-> value,
       F |-> flags(F, value = 0, FALSE,
                   (A % NibbleSize) + (reg % NibbleSize) + carryIn(F) > NibbleSize - 1,
                   result > WordSize - 1)]

Mut_SbcHalf(A, F, reg) ==
  LET result == A - reg - carryIn(F)
      value  == result % WordSize
  IN  [value |-> value,
       F |-> flags(F, value = 0, TRUE,
                   (A % NibbleSize) - (reg % NibbleSize) < 0, result < 0)]
sbcRegister(A, F, reg) ==
  LET result == A - reg - carryIn(F)
      value  == result % WordSize
  IN  [value |-> value,
       F |-> flags(F, value = 0, TRUE,
                   (A % NibbleSize) - (reg % NibbleSize) - carryIn(F) < 0, result < 0)]

\* CP leaves A alone.
cpRegister(A, F, reg) ==
  flags(F, (A - reg) % WordSize = 0, TRUE, (A % NibbleSize) - (reg % NibbleSize) < 0, reg > A)

\* DAA turns the sum or difference of decimal words into a decimal word; 0x6
\* and 0x60 skip the nibbles that are no digit.  Each test sees what the one
\* before it has done.
Skip == NibbleSize - Base
LastDigits == (Base - 1) * NibbleSize + (Base - 1)
DAA(A, F) ==
  LET subtracted == FN \in F
      adjustHigh == FC \in F \/ (~subtracted /\ A > LastDigits)
      high == IF ~adjustHigh THEN A
              ELSE (IF subtracted THEN A - Skip * NibbleSize ELSE A + Skip * NibbleSize) % WordSize
      adjustLow == FH \in F \/ (~subtracted /\ high % NibbleSize > Base - 1)
      value == IF ~adjustLow THEN high
               ELSE (IF subtracted THEN high - Skip ELSE high + Skip) % WordSize
  IN  [value |-> value, F |-> flags(F, value = 0, subtracted, FALSE, adjustHigh)]

SCF(F) == flags(F, FZ \in F, FALSE, FALSE, TRUE)
CCF(F) == flags(F, FZ \in F, FALSE, FALSE, FC \notin F)
CPL(A, F) == [value |-> WordSize - 1 - A, F |-> flags(F, FZ \in F, TRUE, TRUE, FC \in F)]

-----------------------------------------------------------------------------
(* Shifts and rotations of any register, and RLCA ... RRA, which clear Z.  *)

bit7(x) == x >= HalfWord
bit0(x) == x % 2 = 1
one(condition) == IF condition THEN 1 ELSE 0
shiftLeft(x, in)  == ((2 * x) % WordSize) + one(in)
shiftRight(x, in) == (x \div 2) + one(in) * HalfWord
shifted(value, F, out) == [value |-> value, F |-> flags(F, value = 0, FALSE, FALSE, out)]

RLC(x, F) == shifted(shiftLeft(x, bit7(x)), F, bit7(x))
RL(x, F)  == shifted(shiftLeft(x, FC \in F), F, bit7(x))
SLA(x, F) == shifted(shiftLeft(x, FALSE), F, bit7(x))
RRC(x, F) == shifted(shiftRight(x, bit0(x)), F, bit0(x))
RR(x, F)  == shifted(shiftRight(x, FC \in F), F, bit0(x))
SRA(x, F) == shifted(shiftRight(x, bit7(x)), F, bit0(x))
SRL(x, F) == shifted(shiftRight(x, FALSE), F, bit0(x))
SWAP(x, F) == shifted((x % NibbleSize) * NibbleSize + (x \div NibbleSize), F, FALSE)

clearZ(r) == [r EXCEPT !.F = @ \ {FZ}]
RLCA(A, F) == clearZ(RLC(A, F))
RLA(A, F)  == clearZ(RL(A, F))
RRCA(A, F) == clearZ(RRC(A, F))
RRA(A, F)  == clearZ(RR(A, F))

-----------------------------------------------------------------------------
(* 16-bit arithmetic.                                                      *)

ADD_HL(HL, F, x) ==
  [value |-> (HL + x) % AddressSpace,
   F |-> flags(F, FZ \in F, FALSE, getHalfCarryFlagDword(HL, x), getCarryFlagDword(HL, x))]

\* ADD SP,e and LD HL,SP+e: the flags are of the low words, e taken unsigned.
Mut_SignedFlags(SP, F, e) ==
  [value |-> (SP + e) % AddressSpace,
   F |-> flags(F, FALSE, FALSE, getHalfCarryFlag(dwordLsb(SP), e), getCarryFlag(dwordLsb(SP), e))]
ADD_SP_e(SP, F, e) ==
  [value |-> (SP + e) % AddressSpace,
   F |-> flags(F, FALSE, FALSE, getHalfCarryFlag(dwordLsb(SP), e % WordSize),
               getCarryFlag(dwordLsb(SP), e % WordSize))]

-----------------------------------------------------------------------------
(* INC, DEC and SWAP of (HL) store the result and read it back for Z: from *)
(* ROM they read the old word, from DIV the 0 that any store leaves there. *)

Locations == {"RAM", "ROM", "DIV"}
Stored(location, old, new) ==
  CASE location = "RAM" -> new
    [] location = "ROM" -> old
    [] location = "DIV" -> 0

readBack(location, r, old) ==
  LET read == Stored(location, old, r.value)
  IN  [value |-> read, F |-> (r.F \ {FZ}) \cup on(FZ, read = 0)]

INC_iHL(location, x, F)  == readBack(location, incRegister(x, F), x)
DEC_iHL(location, x, F)  == readBack(location, decRegister(x, F), x)
SWAP_iHL(location, x, F) == readBack(location, SWAP(x, F), x)
=============================================================================
