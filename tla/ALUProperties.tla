--------------------------- MODULE ALUProperties ---------------------------
(***************************************************************************)
(* Correctness of the arithmetic.  Each property is about the accumulator  *)
(* and the flags of every reachable state, followed by any operand: no     *)
(* instruction is compared with its own definition, but with another one,  *)
(* with a sequence of others, or with the integers.                        *)
(***************************************************************************)
EXTENDS ALU

CONSTANT Samples   \* bound: the words the wide numbers are made of
ASSUME SamplesAssumption == Samples \subseteq Word

withoutC(flagsOf) == flagsOf \ {FC}
withC(c) == withoutC(F) \cup on(FC, c)
keepsC(r) == [r EXCEPT !.F = (@ \ {FC}) \cup (F \cap {FC})]

\* The code computes the same sums and flags in several places: ADD as ADC
\* without a carry, SUB and CP as SBC without one, INC and DEC as ADD 1 and
\* SUB 1 that keep C, doubling as ADD A,A and ADC A,A, the rotations within a
\* word as rotations through the carry, SWAP as its own inverse, and (HL) as
\* a register when it is RAM.  They agree, for every operand.
InstructionsAgree ==
  LET G == withoutC(F) IN
  /\ \A n \in Word :
       /\ addRegister(A, F, n) = adcRegister(A, G, n)
       /\ subRegister(A, F, n) = sbcRegister(A, G, n)
       /\ cpRegister(A, F, n) = sbcRegister(A, G, n).F
  /\ incRegister(A, F) = keepsC(addRegister(A, F, 1))
  /\ decRegister(A, F) = keepsC(subRegister(A, F, 1))
  /\ SLA(A, F).value = addRegister(A, F, A).value
  /\ RL(A, F).value = adcRegister(A, F, A).value
  /\ carryIn(RL(A, F).F) = carryIn(adcRegister(A, F, A).F)
  /\ RLC(A, F) = RL(A, withC(bit7(A))) /\ RRC(A, F) = RR(A, withC(bit0(A)))
  /\ SRA(A, F) = RR(A, withC(bit7(A)))
  /\ SWAP(SWAP(A, F).value, F).value = A
  /\ INC_iHL("RAM", A, F) = incRegister(A, F)
  /\ DEC_iHL("RAM", A, F) = decRegister(A, F)
  /\ SWAP_iHL("RAM", A, F) = SWAP(A, F)

\* A program computes with numbers wider than a word by chaining instructions
\* through C: ADD with ADC, SUB with SBC, SLA with RL, SRL with RR.  The chain
\* gives the sum, difference, double or half of the whole number and leaves
\* its carry in C; where the code has an instruction for it, ADD HL and
\* ADD SP, this gives the same, flags included.
Chain(low, high) == twoWordToDword(high.value, low.value)
WideAdd(x, y) ==
  LET low  == addRegister(dwordLsb(x), F, dwordLsb(y))
      high == adcRegister(dwordMsb(x), low.F, dwordMsb(y))
      wide == ADD_HL(x, F, y)
  IN  /\ x + y = Chain(low, high) + carryIn(high.F) * AddressSpace
      /\ wide.value = Chain(low, high)
      /\ wide.F \cap {FN, FH, FC} = high.F \cap {FN, FH, FC}
WideSubtract(x, y) ==
  LET low  == subRegister(dwordLsb(x), F, dwordLsb(y))
      high == sbcRegister(dwordMsb(x), low.F, dwordMsb(y))
  IN  x - y = Chain(low, high) - carryIn(high.F) * AddressSpace
WideShift(x) ==
  LET left == SLA(dwordLsb(x), F)     left2 == RL(dwordMsb(x), left.F)
      right == SRL(dwordMsb(x), F)    right2 == RR(dwordLsb(x), right.F)
  IN  /\ 2 * x = Chain(left, left2) + carryIn(left2.F) * AddressSpace
      /\ x = 2 * Chain(right2, right) + carryIn(right2.F)
StackOffset(x, e) ==
  LET low  == addRegister(dwordLsb(x), F, e % WordSize)
      high == adcRegister(dwordMsb(x), low.F, IF e < 0 THEN WordSize - 1 ELSE 0)
      sp   == ADD_SP_e(x, F, e)
  IN  /\ sp.value = Chain(low, high)
      /\ sp.F \cap {FH, FC} = low.F \cap {FH, FC}
WideArithmetic ==
  \A lsb \in Samples :
    LET x == twoWordToDword(A, lsb) IN
    /\ WideShift(x)
    /\ \A msb2, lsb2 \in Samples :
         LET y == twoWordToDword(msb2, lsb2) IN WideAdd(x, y) /\ WideSubtract(x, y)
    /\ \A n \in Samples : StackOffset(x, n - HalfWord)

\* DAA: the sum or difference of two decimal words, and of the carry of the
\* words before them, is corrected to the decimal sum or difference, with its
\* carry in C.
IsDecimal(w) == (w \div NibbleSize) < Base /\ (w % NibbleSize) < Base
Decimal(w) == (w \div NibbleSize) * Base + (w % NibbleSize)
DecimalIs(r, exact) ==
  LET d == DAA(r.value, r.F) IN
  /\ IsDecimal(d.value) /\ Decimal(d.value) = exact % (Base * Base)
  /\ (FC \in d.F) <=> exact \notin 0 .. Base * Base - 1
DecimalArithmetic ==
  \A n \in Word : (IsDecimal(A) /\ IsDecimal(n)) =>
    /\ DecimalIs(adcRegister(A, F, n), Decimal(A) + Decimal(n) + carryIn(F))
    /\ DecimalIs(sbcRegister(A, F, n), Decimal(A) - Decimal(n) - carryIn(F))
=============================================================================
