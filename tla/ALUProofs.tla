----------------------------- MODULE ALUProofs -----------------------------
(***************************************************************************)
(* What is proved of the arithmetic, for nibbles of any even size and      *)
(* digits of any base.                                                     *)
(***************************************************************************)
EXTENDS ALUProperties, TLAPS

-----------------------------------------------------------------------------
(* Words and their parts.                                                  *)

LEMMA Sizes ==
  /\ WordSize \in Nat /\ WordSize >= 4 /\ WordSize >= NibbleSize
  /\ HalfWord \in Nat /\ WordSize = 2 * HalfWord
  /\ AddressSpace \in Nat /\ AddressSpace >= WordSize
<1>1. WordSize \in Nat /\ WordSize >= 4 /\ WordSize >= NibbleSize
  BY ArithmeticAssumption, SMT DEF WordSize
<1>2. WordSize % 2 = 0
  BY ArithmeticAssumption, SMT DEF WordSize
<1>3. HalfWord \in Nat /\ WordSize = 2 * HalfWord
  BY <1>1, <1>2, SMT DEF HalfWord
<1>4. AddressSpace \in Nat /\ AddressSpace >= WordSize
  BY <1>1, SMT DEF AddressSpace
<1> QED
  BY <1>1, <1>3, <1>4

\* What wraps at the end of the words wraps once.
LEMMA WrapsOnce ==
  ASSUME NEW w \in Nat, w > 0, NEW x \in Int, -w <= x, x < 2 * w
  PROVE  /\ x % w \in 0 .. w - 1
         /\ x % w = IF x < 0 THEN x + w ELSE IF x < w THEN x ELSE x - w
  BY SMT

LEMMA SumWraps ==
  ASSUME NEW w \in Nat, w > 0, NEW x \in 0 .. w - 1, NEW y \in 0 .. w - 1
  PROVE  (x + y) % w = IF x + y < w THEN x + y ELSE x + y - w
  BY SMT

\* The quotient and the rest of a division.
LEMMA Quotients ==
  ASSUME NEW w \in Nat, w > 0, NEW q \in Int, NEW r \in 0 .. w - 1
  PROVE  (q * w + r) \div w = q /\ (q * w + r) % w = r
<1> DEFINE d == (q * w + r) \div w
           m == (q * w + r) % w
<1>1. q * w \in Int /\ d \in Int /\ m \in 0 .. w - 1 /\ q * w + r = w * d + m
  BY SMT
<1>2. d * w = w * d /\ d * w \in Int
  BY <1>1, SMT
<1>3. d >= q
  <2> SUFFICES ASSUME d + 1 <= q PROVE FALSE
    BY <1>1, SMT
  <2>1. (d + 1) * w <= q * w /\ (d + 1) * w = d * w + w
    BY <1>1, SMT
  <2> QED
    BY <1>1, <1>2, <2>1, SMT
<1>4. d <= q
  <2> SUFFICES ASSUME q + 1 <= d PROVE FALSE
    BY <1>1, SMT
  <2>1. (q + 1) * w <= d * w /\ (q + 1) * w = q * w + w
    BY <1>1, SMT
  <2> QED
    BY <1>1, <1>2, <2>1, SMT
<1>5. d = q
  BY <1>1, <1>3, <1>4, SMT
<1> QED
  BY <1>1, <1>2, <1>5, SMT

\* Both nibbles of a word, and the word they make.
LEMMA Nibbles ==
  ASSUME NEW x \in Word
  PROVE  /\ x % NibbleSize \in Nibble /\ x \div NibbleSize \in Nibble
         /\ x = (x \div NibbleSize) * NibbleSize + (x % NibbleSize)
<1>1. NibbleSize \in Nat /\ NibbleSize > 0 /\ x \in Nat /\ x < NibbleSize * NibbleSize
  BY ArithmeticAssumption, Sizes, SMT DEF Word, WordSize
<1> DEFINE q == x \div NibbleSize
<1>2. q \in Int /\ x % NibbleSize \in 0 .. NibbleSize - 1 /\ x = q * NibbleSize + (x % NibbleSize)
  BY <1>1, SMT
<1>3. q >= 0 /\ q < NibbleSize
  BY <1>1, <1>2, SMT
<1> QED
  BY <1>1, <1>2, <1>3, SMT DEF Nibble

LEMMA Joined ==
  ASSUME NEW h \in Nibble, NEW l \in Nibble
  PROVE  h * NibbleSize + l \in Word
  BY ArithmeticAssumption, SMT DEF Nibble, Word, WordSize

-----------------------------------------------------------------------------
(* Every instruction turns words and flags into a word and flags.          *)

LEMMA ShiftTypes ==
  ASSUME NEW x \in Word, NEW in \in BOOLEAN
  PROVE  shiftLeft(x, in) \in Word /\ shiftRight(x, in) \in Word
<1>1. (2 * x) % WordSize = IF 2 * x < WordSize THEN 2 * x ELSE 2 * x - WordSize
  BY Sizes, WrapsOnce, SMT DEF Word
<1>2. x \div 2 \in 0 .. HalfWord - 1
  BY Sizes, SMT DEF Word
<1> QED
  BY <1>1, <1>2, Sizes, SMT DEF Word, shiftLeft, shiftRight, one

\* What stays in a word does so because it wraps once.
LEMMA WrapTypes ==
  ASSUME NEW x \in Int
  PROVE  x % WordSize \in Word
  BY Sizes, SMT DEF Word

LEMMA SumTypes ==
  ASSUME NEW a \in Word, NEW f \in SUBSET FlagBits, NEW reg \in Word
  PROVE  /\ addRegister(a, f, reg) \in Result /\ subRegister(a, f, reg) \in Result
         /\ adcRegister(a, f, reg) \in Result /\ sbcRegister(a, f, reg) \in Result
         /\ cpRegister(a, f, reg) \in SUBSET FlagBits
<1>a. a \in Int /\ reg \in Int /\ carryIn(f) \in Int
  BY Sizes, SMT DEF Word, carryIn
<1>1. /\ (a + reg) % WordSize \in Word /\ (a - reg) % WordSize \in Word
      /\ (a + reg + carryIn(f)) % WordSize \in Word
      /\ (a - reg - carryIn(f)) % WordSize \in Word
  BY <1>a, WrapTypes, SMT
<1>2. addRegister(a, f, reg) \in Result
  BY <1>1 DEF Result, flags, on, FlagBits, addRegister, getHalfCarryFlag, getCarryFlag
<1>3. subRegister(a, f, reg) \in Result
  BY <1>1 DEF Result, flags, on, FlagBits, subRegister
<1>4. adcRegister(a, f, reg) \in Result
  BY <1>1 DEF Result, flags, on, FlagBits, adcRegister
<1>5. sbcRegister(a, f, reg) \in Result
  BY <1>1 DEF Result, flags, on, FlagBits, sbcRegister
<1>6. cpRegister(a, f, reg) \in SUBSET FlagBits
  BY DEF cpRegister, flags, on, FlagBits
<1> QED
  BY <1>2, <1>3, <1>4, <1>5, <1>6

LEMMA RegisterTypes ==
  ASSUME NEW x \in Word, NEW f \in SUBSET FlagBits
  PROVE  /\ incRegister(x, f) \in Result /\ decRegister(x, f) \in Result
         /\ RLC(x, f) \in Result /\ RL(x, f) \in Result /\ SLA(x, f) \in Result
         /\ RRC(x, f) \in Result /\ RR(x, f) \in Result
         /\ SRA(x, f) \in Result /\ SRL(x, f) \in Result
         /\ SWAP(x, f) \in Result /\ CPL(x, f) \in Result
<1>a. x \in Int /\ WordSize - 1 - x \in Word
  BY Sizes, SMT DEF Word
<1>1. /\ (x + 1) % WordSize \in Word /\ (x - 1) % WordSize \in Word
      /\ WordSize - 1 - x \in Word
      /\ (x % NibbleSize) * NibbleSize + (x \div NibbleSize) \in Word
  BY <1>a, WrapTypes, Nibbles, Joined, SMT
<1>2. incRegister(x, f) \in Result
  BY <1>1 DEF Result, flags, on, FlagBits, incRegister, getHalfCarryFlag
<1>3. decRegister(x, f) \in Result
  BY <1>1 DEF Result, flags, on, FlagBits, decRegister
<1>4. ASSUME NEW value \in Word, NEW out \in BOOLEAN
      PROVE  shifted(value, f, out) \in Result
  BY DEF Result, flags, on, FlagBits, shifted
<1>5. bit7(x) \in BOOLEAN /\ bit0(x) \in BOOLEAN /\ (FC \in f) \in BOOLEAN
  BY DEF bit7, bit0
<1>6. /\ RLC(x, f) \in Result /\ RL(x, f) \in Result /\ SLA(x, f) \in Result
      /\ RRC(x, f) \in Result /\ RR(x, f) \in Result
      /\ SRA(x, f) \in Result /\ SRL(x, f) \in Result
  BY <1>4, <1>5, ShiftTypes DEF RLC, RL, SLA, RRC, RR, SRA, SRL
<1>7. SWAP(x, f) \in Result
  BY <1>1, <1>4 DEF SWAP
<1>8. CPL(x, f) \in Result
  BY <1>1 DEF Result, flags, on, FlagBits, CPL
<1> QED
  BY <1>2, <1>3, <1>6, <1>7, <1>8

LEMMA DaaType ==
  ASSUME NEW a \in Word, NEW f \in SUBSET FlagBits
  PROVE  DAA(a, f) \in Result
<1> DEFINE subtracted == FN \in f
           adjustHigh == FC \in f \/ (~subtracted /\ a > LastDigits)
           high == IF ~adjustHigh THEN a
                   ELSE (IF subtracted THEN a - Skip * NibbleSize ELSE a + Skip * NibbleSize) % WordSize
           adjustLow == FH \in f \/ (~subtracted /\ high % NibbleSize > Base - 1)
           value == IF ~adjustLow THEN high
                    ELSE (IF subtracted THEN high - Skip ELSE high + Skip) % WordSize
<1>1. Skip \in Int /\ Skip * NibbleSize \in Int /\ a \in Int
  BY ArithmeticAssumption, Sizes, SMT DEF Skip, Word
<1>2. high \in Word
  BY <1>1, WrapTypes, SMT
<1>3. high \in Int
  BY <1>2, Sizes, SMT DEF Word
<1>4. value \in Word
  BY <1>1, <1>2, <1>3, WrapTypes, SMT
<1>5. [value |-> value, F |-> flags(f, value = 0, subtracted, FALSE, adjustHigh)] \in Result
  BY <1>4 DEF Result, flags, on, FlagBits
<1> QED
  BY <1>5 DEF DAA

-----------------------------------------------------------------------------
(* The accumulator holds a word, and the low bits of F are never set.      *)

\* AluTypeOK holds in every reachable state, whatever the sizes are.
THEOREM TypeCorrect == Spec => []AluTypeOK
<1>1. Init => AluTypeOK
  BY Sizes, SMT DEF Init, AluTypeOK, Word
<1>2. AluTypeOK /\ [Next]_vars => AluTypeOK'
  <2> SUFFICES ASSUME AluTypeOK, [Next]_vars
               PROVE  AluTypeOK'
    OBVIOUS
  <2> USE DEF AluTypeOK
  <2>1. ASSUME NEW r \in Result, onA(r)
        PROVE  AluTypeOK'
    BY <2>1 DEF onA, Result
  <2>2. ASSUME NEW r \in Result, F' = r.F, UNCHANGED A
        PROVE  AluTypeOK'
    BY <2>2 DEF Result
  <2>3. ASSUME NEW n \in Word,
               \/ ExecuteADD(n) \/ ExecuteSUB(n) \/ ExecuteADC(n) \/ ExecuteSBC(n)
               \/ ExecuteCP(n)
        PROVE  AluTypeOK'
    BY <2>1, <2>3, SumTypes DEF ExecuteADD, ExecuteSUB, ExecuteADC, ExecuteSBC, ExecuteCP
  <2>4. ASSUME NEW n \in Word, ExecuteAND(n) \/ ExecuteOR(n) \/ ExecuteXOR(n)
        PROVE  AluTypeOK'
    <3>1. PICK w \in Word :
            /\ A' = w
            /\ \/ F' = flags(F, w = 0, FALSE, TRUE, FALSE)
               \/ F' = flags(F, w = 0, FALSE, FALSE, FALSE)
      BY <2>4 DEF ExecuteAND, ExecuteOR, ExecuteXOR
    <3> QED
      BY <3>1 DEF flags, on, FlagBits
  <2>5. ASSUME NEW x \in Word, NEW r \in ofRegister(x)
        PROVE  r \in Result
    BY <2>5, RegisterTypes DEF ofRegister
  <2>6. ASSUME NEW n \in Word, ExecuteOnOther(n) \/ ExecuteLD(n)
        PROVE  AluTypeOK'
    BY <2>2, <2>5, <2>6 DEF ExecuteOnOther, ExecuteLD
  <2>7. ASSUME NEW b, NEW n \in Word, ExecuteBIT(b, n)
        PROVE  AluTypeOK'
    BY <2>7 DEF ExecuteBIT, flags, on, FlagBits
  <2>8. ASSUME NEW location \in Locations, NEW n \in Word, ExecuteOn_iHL(location, n)
        PROVE  AluTypeOK'
    <3>1. PICK s \in {incRegister(n, F), decRegister(n, F), SWAP(n, F)} :
            F' = readBack(location, s, n).F /\ UNCHANGED A
      BY <2>8 DEF ExecuteOn_iHL, INC_iHL, DEC_iHL, SWAP_iHL
    <3>2. s \in Result
      BY RegisterTypes
    <3> QED
      BY <3>1, <3>2 DEF readBack, Result, on, FlagBits
  <2>9. ASSUME NEW n \in Word, NEW f \in Word, ExecutePOP_AF(n, f)
        PROVE  AluTypeOK'
    BY <2>9 DEF ExecutePOP_AF
  <2>10. ASSUME NEW d, NEW e, ExecuteADD_HL(d, e) \/ ExecuteADD_SP_e(d, e)
         PROVE  AluTypeOK'
    BY <2>10
       DEF flags, on, FlagBits, ExecuteADD_HL, ExecuteADD_SP_e, ADD_HL, ADD_SP_e, getHalfCarryFlag,
           getCarryFlag, getHalfCarryFlagDword, getCarryFlagDword
  <2>11. ASSUME NEW b, ExecuteRES(b) \/ ExecuteSET(b) \/ ExecuteBIT(b, A)
         PROVE  AluTypeOK'
    BY <2>7, <2>11 DEF ExecuteRES, ExecuteSET
  <2>12. CASE ExecuteOnA
    BY <2>1, <2>5, <2>12 DEF ExecuteOnA
  <2>13. CASE ExecuteRotateA
    <3>1. ASSUME NEW r \in Result
          PROVE  clearZ(r) \in Result
      BY DEF clearZ, Result
    <3> QED
      BY <2>1, <2>13, <3>1, RegisterTypes DEF ExecuteRotateA, RLCA, RLA, RRCA, RRA
  <2>14. CASE ExecuteDAA \/ ExecuteCPL
    BY <2>1, <2>14, DaaType, RegisterTypes DEF ExecuteDAA, ExecuteCPL
  <2>15. CASE ExecuteSCF \/ ExecuteCCF
    BY <2>15 DEF flags, on, FlagBits, ExecuteSCF, ExecuteCCF, SCF, CCF
  <2>16. CASE UNCHANGED vars
    BY <2>16 DEF vars
  <2> QED
    BY <2>3, <2>4, <2>6, <2>7, <2>8, <2>9, <2>10, <2>11, <2>12, <2>13, <2>14, <2>15, <2>16,
       AluAssumption DEF Next
<1> QED
  BY <1>1, <1>2, PTL DEF Spec

-----------------------------------------------------------------------------
(* Instructions that the code computes in different places agree.          *)

LEMMA OneInWord == 1 \in Word /\ 1 % NibbleSize = 1
  BY ArithmeticAssumption, Sizes, SMT DEF Word

LEMMA NibbleSums ==
  ASSUME NEW x \in Word
  PROVE  x % NibbleSize \in 0 .. NibbleSize - 1
  BY Nibbles DEF Nibble

\* Without a carry, ADC is ADD and SBC is SUB.
LEMMA WithoutCarry ==
  ASSUME NEW a \in Word, NEW f \in SUBSET FlagBits, NEW n \in Word
  PROVE  /\ addRegister(a, f, n) = adcRegister(a, f \ {FC}, n)
         /\ subRegister(a, f, n) = sbcRegister(a, f \ {FC}, n)
         /\ cpRegister(a, f, n) = sbcRegister(a, f \ {FC}, n).F
<1>1. /\ a \in Int /\ n \in Int /\ a % NibbleSize \in Int /\ n % NibbleSize \in Int
      /\ WordSize \in Int /\ NibbleSize \in Int /\ carryIn(f \ {FC}) = 0
  BY ArithmeticAssumption, Sizes, NibbleSums, SMT DEF Word, carryIn
<1>2. /\ a + n + carryIn(f \ {FC}) = a + n /\ a - n - carryIn(f \ {FC}) = a - n
      /\ (getCarryFlag(a, n) <=> a + n > WordSize - 1)
      /\ (getHalfCarryFlag(a, n)
            <=> (a % NibbleSize) + (n % NibbleSize) + carryIn(f \ {FC}) > NibbleSize - 1)
      /\ (a % NibbleSize) - (n % NibbleSize) - carryIn(f \ {FC})
            = (a % NibbleSize) - (n % NibbleSize)
      /\ (a < n <=> a - n < 0) /\ (n > a <=> a - n < 0)
  BY <1>1, SMT DEF getCarryFlag, getHalfCarryFlag
<1>4. addRegister(a, f, n) = adcRegister(a, f \ {FC}, n)
  BY <1>2, Zenon DEF addRegister, adcRegister, flags, on, FlagBits
<1>5. subRegister(a, f, n) = sbcRegister(a, f \ {FC}, n)
  BY <1>2 DEF subRegister, sbcRegister, flags, on, FlagBits
<1>6. cpRegister(a, f, n) = sbcRegister(a, f \ {FC}, n).F
  BY <1>2 DEF cpRegister, sbcRegister, flags, on, FlagBits
<1> QED
  BY <1>4, <1>5, <1>6

LEMMA SumsExact ==
  ASSUME NEW a \in Word, NEW f \in SUBSET FlagBits, NEW n \in Word
  PROVE  /\ a + n = addRegister(a, f, n).value + carryIn(addRegister(a, f, n).F) * WordSize
         /\ a - n = subRegister(a, f, n).value - carryIn(subRegister(a, f, n).F) * WordSize
         /\ a + n + carryIn(f) = adcRegister(a, f, n).value
                                   + carryIn(adcRegister(a, f, n).F) * WordSize
         /\ a - n - carryIn(f) = sbcRegister(a, f, n).value
                                   - carryIn(sbcRegister(a, f, n).F) * WordSize
<1> DEFINE c == carryIn(f)
<1>1. /\ WordSize \in Nat /\ WordSize > 0 /\ a \in 0 .. WordSize - 1 /\ n \in 0 .. WordSize - 1
      /\ c \in {0, 1}
  BY Sizes, SMT DEF Word, carryIn
<1>2. /\ (a + n) % WordSize = IF a + n < WordSize THEN a + n ELSE a + n - WordSize
      /\ (a - n) % WordSize = IF a - n < 0 THEN a - n + WordSize ELSE a - n
      /\ (a + n + c) % WordSize = IF a + n + c < WordSize THEN a + n + c ELSE a + n + c - WordSize
      /\ (a - n - c) % WordSize = IF a - n - c < 0 THEN a - n - c + WordSize ELSE a - n - c
  BY <1>1, WrapsOnce, SMT
<1>3. /\ FC \in addRegister(a, f, n).F <=> a + n > WordSize - 1
      /\ FC \in subRegister(a, f, n).F <=> a < n
      /\ FC \in adcRegister(a, f, n).F <=> a + n + c > WordSize - 1
      /\ FC \in sbcRegister(a, f, n).F <=> a - n - c < 0
  BY DEF addRegister, subRegister, adcRegister, sbcRegister, getCarryFlag, flags, on, FlagBits,
         FZ, FN, FH, FC
<1>4. /\ addRegister(a, f, n).value = (a + n) % WordSize
      /\ subRegister(a, f, n).value = (a - n) % WordSize
      /\ adcRegister(a, f, n).value = (a + n + c) % WordSize
      /\ sbcRegister(a, f, n).value = (a - n - c) % WordSize
  BY DEF addRegister, subRegister, adcRegister, sbcRegister
<1>5. a + n = addRegister(a, f, n).value + carryIn(addRegister(a, f, n).F) * WordSize
  BY <1>1, <1>2, <1>3, <1>4, SMT DEF carryIn
<1>6. a - n = subRegister(a, f, n).value - carryIn(subRegister(a, f, n).F) * WordSize
  BY <1>1, <1>2, <1>3, <1>4, SMT DEF carryIn
<1>7. a + n + c = adcRegister(a, f, n).value + carryIn(adcRegister(a, f, n).F) * WordSize
  BY <1>1, <1>2, <1>3, <1>4, SMT DEF carryIn
<1>8. a - n - c = sbcRegister(a, f, n).value - carryIn(sbcRegister(a, f, n).F) * WordSize
  BY <1>1, <1>2, <1>3, <1>4, SMT DEF carryIn
<1> QED
  BY <1>5, <1>6, <1>7, <1>8

\* The same of the shifts: what is shifted out is in C, what was in C is shifted in.
LEMMA ShiftsExact ==
  ASSUME NEW x \in Word, NEW f \in SUBSET FlagBits
  PROVE  /\ 2 * x = SLA(x, f).value + carryIn(SLA(x, f).F) * WordSize
         /\ 2 * x + carryIn(f) = RL(x, f).value + carryIn(RL(x, f).F) * WordSize
         /\ x = 2 * SRL(x, f).value + carryIn(SRL(x, f).F)
         /\ x + carryIn(f) * WordSize = 2 * RR(x, f).value + carryIn(RR(x, f).F)
<1>1. /\ HalfWord \in Nat /\ WordSize \in Nat /\ WordSize = 2 * HalfWord
      /\ x \in 0 .. WordSize - 1 /\ carryIn(f) \in {0, 1} /\ carryIn(f) = one(FC \in f)
  BY Sizes, SMT DEF Word, carryIn, one
<1>2. (2 * x) % WordSize = IF 2 * x < WordSize THEN 2 * x ELSE 2 * x - WordSize
  BY <1>1, Sizes, WrapsOnce, SMT
<1>3. /\ SLA(x, f).value = (2 * x) % WordSize
      /\ RL(x, f).value = ((2 * x) % WordSize) + carryIn(f)
      /\ SRL(x, f).value = x \div 2
      /\ RR(x, f).value = (x \div 2) + carryIn(f) * HalfWord
  <2>1. (2 * x) % WordSize \in Int /\ x \div 2 \in Int
    BY <1>1, <1>2, SMT
  <2> QED
    BY <1>1, <2>1, SMT DEF SLA, RL, SRL, RR, shifted, shiftLeft, shiftRight, one
<1>4. /\ carryIn(SLA(x, f).F) = one(bit7(x)) /\ carryIn(RL(x, f).F) = one(bit7(x))
      /\ carryIn(SRL(x, f).F) = one(bit0(x)) /\ carryIn(RR(x, f).F) = one(bit0(x))
  BY DEF SLA, RL, SRL, RR, shifted, flags, on, FlagBits, FZ, FN, FH, FC, carryIn, one
<1>5. /\ x = 2 * (x \div 2) + one(bit0(x))
      /\ 2 * x = ((2 * x) % WordSize) + one(bit7(x)) * WordSize
  BY <1>1, <1>2, SMT DEF bit0, bit7, one
<1>6. /\ one(bit0(x)) \in {0, 1} /\ one(bit7(x)) \in {0, 1}
      /\ x \div 2 \in Int /\ (2 * x) % WordSize \in Int
  BY <1>1, <1>2, SMT DEF one
<1> DEFINE out0 == one(bit0(x))
           out7 == one(bit7(x))
           half == x \div 2
           double == (2 * x) % WordSize
           in == carryIn(f)
<1>7. /\ in * WordSize = 2 * (in * HalfWord) /\ in * HalfWord \in Int
      /\ out7 * WordSize \in Int /\ out0 \in Int /\ half \in Int /\ double \in Int /\ in \in Int
  BY <1>1, <1>6, SMT
<1>8. /\ x = 2 * half + out0 /\ 2 * x = double + out7 * WordSize
      /\ SLA(x, f).value = double /\ carryIn(SLA(x, f).F) = out7
      /\ RL(x, f).value = double + in /\ carryIn(RL(x, f).F) = out7
      /\ SRL(x, f).value = half /\ carryIn(SRL(x, f).F) = out0
      /\ RR(x, f).value = half + in * HalfWord /\ carryIn(RR(x, f).F) = out0
  BY <1>3, <1>4, <1>5
<1> HIDE DEF out0, out7, half, double, in
<1>9. /\ x + in * WordSize = 2 * (half + in * HalfWord) + out0
      /\ 2 * x + in = (double + in) + out7 * WordSize
  BY <1>1, <1>7, <1>8, SMT
<1> QED
  BY <1>8, <1>9 DEF in

\* INC and DEC are ADD 1 and SUB 1 that keep C.
LEMMA StepsAreSums ==
  ASSUME AluTypeOK
  PROVE  /\ incRegister(A, F) = keepsC(addRegister(A, F, 1))
         /\ decRegister(A, F) = keepsC(subRegister(A, F, 1))
<1>1. ASSUME NEW value, NEW g
      PROVE  keepsC([value |-> value, F |-> g])
               = [value |-> value, F |-> (g \ {FC}) \cup (F \cap {FC})]
  BY DEF keepsC
<1>2. incRegister(A, F) = keepsC(addRegister(A, F, 1))
  <2>1. incRegister(A, F).F = (addRegister(A, F, 1).F \ {FC}) \cup (F \cap {FC})
    BY DEF incRegister, addRegister, flags, on, FlagBits, FZ, FN, FH, FC
  <2> DEFINE g == addRegister(A, F, 1).F
             f == incRegister(A, F).F
             value == (A + 1) % WordSize
  <2>2. /\ incRegister(A, F) = [value |-> value, F |-> f]
        /\ addRegister(A, F, 1) = [value |-> value, F |-> g]
    BY DEF incRegister, addRegister
  <2>3. f = (g \ {FC}) \cup (F \cap {FC})
    BY <2>1
  <2> HIDE DEF g, f, value
  <2> QED
    BY <1>1, <2>2, <2>3
<1>3. decRegister(A, F) = keepsC(subRegister(A, F, 1))
  <2>1. decRegister(A, F).F = (subRegister(A, F, 1).F \ {FC}) \cup (F \cap {FC})
    BY OneInWord DEF decRegister, subRegister, flags, on, FlagBits, FZ, FN, FH, FC
  <2> DEFINE g == subRegister(A, F, 1).F
             f == decRegister(A, F).F
             value == (A - 1) % WordSize
  <2>2. /\ decRegister(A, F) = [value |-> value, F |-> f]
        /\ subRegister(A, F, 1) = [value |-> value, F |-> g]
    BY DEF decRegister, subRegister
  <2>3. f = (g \ {FC}) \cup (F \cap {FC})
    BY <2>1
  <2> HIDE DEF g, f, value
  <2> QED
    BY <1>1, <2>2, <2>3
<1> QED
  BY <1>2, <1>3

\* Shifting left is adding to itself.
LEMMA DoublingIsSum ==
  ASSUME AluTypeOK
  PROVE  /\ SLA(A, F).value = addRegister(A, F, A).value
         /\ RL(A, F).value = adcRegister(A, F, A).value
         /\ carryIn(RL(A, F).F) = carryIn(adcRegister(A, F, A).F)
<1>1. /\ A \in Word /\ F \in SUBSET FlagBits /\ SLA(A, F) \in Result /\ RL(A, F) \in Result
      /\ addRegister(A, F, A) \in Result /\ adcRegister(A, F, A) \in Result
  BY RegisterTypes, SumTypes DEF AluTypeOK
<1>2. ASSUME NEW r \in Result, NEW s \in Result,
             r.value + carryIn(r.F) * WordSize = s.value + carryIn(s.F) * WordSize
      PROVE  r.value = s.value /\ carryIn(r.F) = carryIn(s.F)
  <2> DEFINE rv == r.value
             sv == s.value
             rc == carryIn(r.F)
             sc == carryIn(s.F)
  <2>1. /\ rv \in 0 .. WordSize - 1 /\ sv \in 0 .. WordSize - 1 /\ WordSize \in Nat
        /\ rc = 0 \/ rc = 1
        /\ sc = 0 \/ sc = 1
    BY Sizes DEF Result, Word, carryIn
  <2>2. rv + rc * WordSize = sv + sc * WordSize
    BY <1>2
  <2> HIDE DEF rv, sv, rc, sc
  <2>3. rv = sv /\ rc = sc
    BY <2>1, <2>2, SMT
  <2> QED
    BY <2>3 DEF rv, sv, rc, sc
<1>3. 2 * A = A + A /\ 2 * A + carryIn(F) = A + A + carryIn(F)
  BY <1>1, Sizes, SMT DEF Word, carryIn
<1>4. /\ 2 * A = SLA(A, F).value + carryIn(SLA(A, F).F) * WordSize
      /\ 2 * A + carryIn(F) = RL(A, F).value + carryIn(RL(A, F).F) * WordSize
  BY <1>1, ShiftsExact
<1>5. /\ A + A = addRegister(A, F, A).value + carryIn(addRegister(A, F, A).F) * WordSize
      /\ A + A + carryIn(F) = adcRegister(A, F, A).value
                                + carryIn(adcRegister(A, F, A).F) * WordSize
  BY <1>1, SumsExact
<1> QED
  BY <1>1, <1>2, <1>3, <1>4, <1>5

\* What RAM stores is what is read back.
LEMMA ReadBackFromRAM ==
  ASSUME AluTypeOK
  PROVE  /\ INC_iHL("RAM", A, F) = incRegister(A, F)
         /\ DEC_iHL("RAM", A, F) = decRegister(A, F)
         /\ SWAP_iHL("RAM", A, F) = SWAP(A, F)
<1>1. ASSUME NEW r, NEW z, NEW value, NEW g,
             r = [value |-> value, F |-> g], FZ \in g <=> value = 0
      PROVE  readBack("RAM", r, z) = r
  BY <1>1 DEF readBack, Stored, on
<1>2. INC_iHL("RAM", A, F) = incRegister(A, F)
  <2> DEFINE value == (A + 1) % WordSize
             g == incRegister(A, F).F
  <2>1. incRegister(A, F) = [value |-> value, F |-> g] /\ (FZ \in g <=> value = 0)
    BY DEF incRegister, flags, on, FlagBits, FZ, FN, FH, FC
  <2> QED
    BY <1>1, <2>1 DEF INC_iHL
<1>3. DEC_iHL("RAM", A, F) = decRegister(A, F)
  <2> DEFINE value == (A - 1) % WordSize
             g == decRegister(A, F).F
  <2>1. decRegister(A, F) = [value |-> value, F |-> g] /\ (FZ \in g <=> value = 0)
    BY DEF decRegister, flags, on, FlagBits, FZ, FN, FH, FC
  <2> QED
    BY <1>1, <2>1 DEF DEC_iHL
<1>4. SWAP_iHL("RAM", A, F) = SWAP(A, F)
  <2> DEFINE value == (A % NibbleSize) * NibbleSize + (A \div NibbleSize)
             g == SWAP(A, F).F
  <2>1. SWAP(A, F) = [value |-> value, F |-> g] /\ (FZ \in g <=> value = 0)
    BY DEF SWAP, shifted, flags, on, FlagBits, FZ, FN, FH, FC
  <2> QED
    BY <1>1, <2>1 DEF SWAP_iHL
<1> QED
  BY <1>2, <1>3, <1>4

\* A rotation within the word is one through the carry, if the carry is the
\* bit that comes out; nibbles swapped twice are where they were.
LEMMA RotationsAgree ==
  ASSUME AluTypeOK
  PROVE  /\ RLC(A, F) = RL(A, withC(bit7(A))) /\ RRC(A, F) = RR(A, withC(bit0(A)))
         /\ SRA(A, F) = RR(A, withC(bit7(A)))
         /\ SWAP(SWAP(A, F).value, F).value = A
<1>1. ASSUME NEW c \in BOOLEAN
      PROVE  (FC \in withC(c)) = c
  BY DEF withC, withoutC, on
<1>2. ASSUME NEW c \in BOOLEAN, NEW v, NEW out \in BOOLEAN
      PROVE  shifted(v, withC(c), out) = shifted(v, F, out)
  BY DEF shifted, flags, withC, withoutC, on, FlagBits
<1>3. bit7(A) \in BOOLEAN /\ bit0(A) \in BOOLEAN
  BY DEF bit7, bit0
<1>4. /\ RLC(A, F) = RL(A, withC(bit7(A))) /\ RRC(A, F) = RR(A, withC(bit0(A)))
      /\ SRA(A, F) = RR(A, withC(bit7(A)))
  BY <1>1, <1>2, <1>3 DEF RLC, RL, RRC, RR, SRA
<1>5. SWAP(SWAP(A, F).value, F).value = A
  <2> DEFINE h == A \div NibbleSize
             l == A % NibbleSize
             s == l * NibbleSize + h
  <2>1. h \in Nibble /\ l \in Nibble /\ A = h * NibbleSize + l
    BY Nibbles DEF AluTypeOK
  <2>2. /\ NibbleSize \in Nat /\ NibbleSize > 0 /\ l \in Int /\ h \in 0 .. NibbleSize - 1
    BY <2>1, ArithmeticAssumption DEF Nibble
  <2>3. SWAP(A, F).value = s /\ SWAP(s, F).value = (s % NibbleSize) * NibbleSize + (s \div NibbleSize)
    BY DEF SWAP, shifted
  <2>4. s \div NibbleSize = l /\ s % NibbleSize = h
    <3> HIDE DEF h, l
    <3> QED
      BY <2>2, Quotients
  <2> HIDE DEF h, l, s
  <2> QED
    BY <2>1, <2>3, <2>4
<1> QED
  BY <1>4, <1>5

\* InstructionsAgree holds in every reachable state, for words of every size.
THEOREM AgreeCorrect == Spec => []InstructionsAgree
<1>1. AluTypeOK => InstructionsAgree
  BY WithoutCarry, StepsAreSums, DoublingIsSum, RotationsAgree, ReadBackFromRAM
     DEF AluTypeOK, InstructionsAgree, withoutC
<1> QED
  BY <1>1, TypeCorrect, PTL

-----------------------------------------------------------------------------
(* Numbers of two words.                                                   *)

LEMMA Dwords ==
  ASSUME NEW h \in Word, NEW l \in Word
  PROVE  LET x == twoWordToDword(h, l)
         IN  /\ x = h * WordSize + l /\ x \in Address
             /\ dwordMsb(x) = h /\ dwordLsb(x) = l
<1>1. /\ WordSize \in Nat /\ WordSize > 0 /\ h \in 0 .. WordSize - 1 /\ l \in 0 .. WordSize - 1
      /\ AddressSpace = WordSize * WordSize
  BY Sizes, SMT DEF Word, AddressSpace
<1>2. (h * WordSize + l) \div WordSize = h /\ (h * WordSize + l) % WordSize = l
  BY <1>1, Quotients
<1>3. h * WordSize + l \in 0 .. AddressSpace - 1
  BY <1>1, SMT
<1> QED
  BY <1>2, <1>3 DEF twoWordToDword, dwordMsb, dwordLsb, Address

\* The lower three nibbles of a number.
LEMMA LowerNibbles ==
  ASSUME NEW h \in Word, NEW l \in Word
  PROVE  twoWordToDword(h, l) % (NibbleSize * WordSize) = (h % NibbleSize) * WordSize + l
<1> DEFINE hh == h \div NibbleSize
           hl == h % NibbleSize
           w  == NibbleSize * WordSize
           r  == hl * WordSize + l
<1>1. /\ WordSize \in Nat /\ NibbleSize \in Nat /\ WordSize > 0 /\ NibbleSize > 0
      /\ l \in 0 .. WordSize - 1
  BY ArithmeticAssumption, Sizes, SMT DEF Word
<1>2. hl \in 0 .. NibbleSize - 1 /\ hh \in 0 .. NibbleSize - 1 /\ h = hh * NibbleSize + hl
  BY Nibbles DEF Nibble
<1>3. w \in Nat /\ w > 0 /\ r \in 0 .. w - 1
  <2>1. hl * WordSize <= (NibbleSize - 1) * WordSize
    BY <1>1, <1>2, SMT
  <2>2. (NibbleSize - 1) * WordSize = NibbleSize * WordSize - WordSize
    BY <1>1, SMT
  <2> QED
    BY <1>1, <1>2, <2>1, <2>2, SMT
<1>4. h * WordSize + l = hh * w + r
  BY <1>1, <1>2, SMT
<1>5. (hh * w + r) % w = r
  <2> HIDE DEF hh, w, r
  <2> QED
    BY <1>2, <1>3, Quotients, SMT
<1> QED
  BY <1>4, <1>5 DEF twoWordToDword

\* The words of numbers taken together.
LEMMA Together ==
  ASSUME NEW w \in Int, NEW h1 \in Int, NEW l1 \in Int, NEW h2 \in Int, NEW l2 \in Int,
         NEW hv \in Int, NEW lv \in Int, NEW c1 \in Int, NEW c2 \in Int,
         l1 + l2 = lv + c1 * w, h1 + h2 + c1 = hv + c2 * w
  PROVE  (h1 * w + l1) + (h2 * w + l2) = (hv * w + lv) + c2 * (w * w)
<1>1. (h1 + h2 + c1) * w = (hv + c2 * w) * w
  OBVIOUS
<1>2. (h1 + h2 + c1) * w = h1 * w + h2 * w + c1 * w
  BY SMT
<1>3. (hv + c2 * w) * w = hv * w + c2 * (w * w)
  BY SMT
<1>4. /\ h1 * w \in Int /\ h2 * w \in Int /\ c1 * w \in Int
      /\ hv * w \in Int /\ c2 * (w * w) \in Int
  BY SMT
<1> QED
  BY <1>1, <1>2, <1>3, <1>4, SMT

\* ADD and ADC add wide numbers exactly, and ADD HL does the same.
LEMMA WideSums ==
  ASSUME AluTypeOK, NEW h1 \in Word, NEW l1 \in Word, NEW h2 \in Word, NEW l2 \in Word
  PROVE  WideAdd(twoWordToDword(h1, l1), twoWordToDword(h2, l2))
<1> DEFINE x == twoWordToDword(h1, l1)
           y == twoWordToDword(h2, l2)
           low == addRegister(l1, F, l2)
           high == adcRegister(h1, low.F, h2)
           wide == ADD_HL(x, F, y)
           lv == low.value
           hv == high.value
           c1 == carryIn(low.F)
           c2 == carryIn(high.F)
<1>1. F \in SUBSET FlagBits /\ low \in Result /\ high \in Result
  BY SumTypes DEF Result, AluTypeOK
<1>2. /\ WordSize \in Nat /\ WordSize > 0 /\ AddressSpace = WordSize * WordSize
      /\ h1 \in 0 .. WordSize - 1 /\ h2 \in 0 .. WordSize - 1
      /\ l1 \in 0 .. WordSize - 1 /\ l2 \in 0 .. WordSize - 1
      /\ lv \in 0 .. WordSize - 1 /\ hv \in 0 .. WordSize - 1
      /\ c1 \in {0, 1} /\ c2 \in {0, 1}
  BY <1>1, Sizes DEF Result, Word, AddressSpace, carryIn
<1>3. l1 + l2 = lv + c1 * WordSize /\ h1 + h2 + c1 = hv + c2 * WordSize
  <2>1. low.F \in SUBSET FlagBits
    BY <1>1 DEF Result
  <2>2. l1 + l2 = lv + c1 * WordSize
    BY <1>1, SumsExact, Zenon
  <2>3. h1 + h2 + c1 = hv + c2 * WordSize
    BY <2>1, SumsExact, Zenon
  <2> QED
    BY <2>2, <2>3
<1>4. /\ x = h1 * WordSize + l1 /\ y = h2 * WordSize + l2
      /\ Chain(low, high) = hv * WordSize + lv /\ Chain(low, high) \in 0 .. AddressSpace - 1
      /\ x \in 0 .. AddressSpace - 1 /\ y \in 0 .. AddressSpace - 1
  BY <1>1, Dwords DEF Result, Chain, Address
<1>5. x + y = Chain(low, high) + c2 * AddressSpace
  <2>1. /\ WordSize \in Int /\ h1 \in Int /\ l1 \in Int /\ h2 \in Int /\ l2 \in Int
        /\ hv \in Int /\ lv \in Int /\ c1 \in Int /\ c2 \in Int
    BY <1>2, SMT
  <2> HIDE DEF x, y, low, high, lv, hv, c1, c2
  <2>2. (h1 * WordSize + l1) + (h2 * WordSize + l2)
          = (hv * WordSize + lv) + c2 * (WordSize * WordSize)
    BY <1>3, <2>1, Together
  <2> QED
    BY <1>2, <1>4, <2>2
<1>6. wide.value = Chain(low, high)
  <2>1. wide.value = (x + y) % AddressSpace
    BY DEF ADD_HL
  <2>2. /\ AddressSpace \in Nat /\ AddressSpace > 0 /\ x + y \in Int
        /\ -AddressSpace <= x + y /\ x + y < 2 * AddressSpace
        /\ x + y < AddressSpace <=> c2 = 0
        /\ x + y >= 0
    <3> HIDE DEF x, y, low, high, c2
    <3> QED
      BY <1>2, <1>4, <1>5, Sizes, SMT
  <2>3. (x + y) % AddressSpace = IF x + y < AddressSpace THEN x + y ELSE x + y - AddressSpace
    <3> HIDE DEF x, y
    <3> QED
      BY <1>4, Sizes, SumWraps
  <2> HIDE DEF x, y, low, high, c2, wide
  <2> QED
    BY <1>2, <1>4, <1>5, <2>1, <2>2, <2>3, SMT
<1>7. /\ FC \in wide.F <=> x + y > AddressSpace - 1
      /\ FH \in wide.F <=> getHalfCarryFlagDword(x, y)
      /\ FN \notin wide.F /\ FN \notin high.F
      /\ FC \in high.F <=> c2 = 1
      /\ FH \in high.F <=> (h1 % NibbleSize) + (h2 % NibbleSize) + c1 > NibbleSize - 1
  BY DEF ADD_HL, adcRegister, getCarryFlagDword, flags, on, FlagBits, FZ, FN, FH, FC, carryIn
<1>8. x + y > AddressSpace - 1 <=> c2 = 1
  BY <1>2, <1>4, <1>5, Sizes, SMT
<1>9. getHalfCarryFlagDword(x, y)
        <=> (h1 % NibbleSize) + (h2 % NibbleSize) + c1 > NibbleSize - 1
  <2> DEFINE a == h1 % NibbleSize
             b == h2 % NibbleSize
  <2>1. /\ a \in Nat /\ b \in Nat /\ NibbleSize \in Nat
    BY ArithmeticAssumption, NibbleSums, SMT
  <2>2. getHalfCarryFlagDword(x, y)
          <=> (a * WordSize + l1) + (b * WordSize + l2) >= NibbleSize * WordSize
    BY LowerNibbles DEF getHalfCarryFlagDword
  <2>3. (a * WordSize + l1) + (b * WordSize + l2) = (a + b + c1) * WordSize + lv
    <3> HIDE DEF a, b, lv, c1
    <3> QED
      BY <1>2, <1>3, <2>1, SMT
  <2>4. (a + b + c1) * WordSize + lv >= NibbleSize * WordSize <=> a + b + c1 >= NibbleSize
    <3> DEFINE s == a + b + c1
    <3>1. s \in Nat
      BY <1>2, <2>1, SMT
    <3> HIDE DEF s, lv
    <3>2. CASE s >= NibbleSize
      <4>1. s * WordSize >= NibbleSize * WordSize
        BY <1>2, <2>1, <3>1, <3>2, SMT
      <4> QED
        BY <1>2, <2>1, <3>1, <3>2, <4>1, SMT
    <3>3. CASE s + 1 <= NibbleSize
      <4>1. (s + 1) * WordSize <= NibbleSize * WordSize /\ (s + 1) * WordSize = s * WordSize + WordSize
        BY <1>2, <2>1, <3>1, <3>3, SMT
      <4> QED
        BY <1>2, <2>1, <3>1, <3>3, <4>1, SMT
    <3> QED
      BY <2>1, <3>1, <3>2, <3>3, SMT DEF s
  <2> HIDE DEF a, b, c1, lv, x, y
  <2>5. a + b + c1 >= NibbleSize <=> a + b + c1 > NibbleSize - 1
    BY <1>2, <2>1, SMT
  <2> QED
    BY <2>2, <2>3, <2>4, <2>5 DEF a, b
<1>10. wide.F \cap {FN, FH, FC} = high.F \cap {FN, FH, FC}
  BY <1>7, <1>8, <1>9
<1> QED
  BY <1>5, <1>6, <1>10, Dwords DEF WideAdd

\* SUB and SBC subtract wide numbers exactly.
LEMMA WideDifferences ==
  ASSUME AluTypeOK, NEW h1 \in Word, NEW l1 \in Word, NEW h2 \in Word, NEW l2 \in Word
  PROVE  WideSubtract(twoWordToDword(h1, l1), twoWordToDword(h2, l2))
<1> DEFINE x == twoWordToDword(h1, l1)
           y == twoWordToDword(h2, l2)
           low == subRegister(l1, F, l2)
           high == sbcRegister(h1, low.F, h2)
           lv == low.value
           hv == high.value
           c1 == carryIn(low.F)
           c2 == carryIn(high.F)
<1>1. F \in SUBSET FlagBits /\ low \in Result /\ high \in Result
  BY SumTypes DEF Result, AluTypeOK
<1>2. /\ WordSize \in Nat /\ AddressSpace = WordSize * WordSize
      /\ h1 \in Int /\ h2 \in Int /\ l1 \in Int /\ l2 \in Int
      /\ lv \in Int /\ hv \in Int /\ c1 \in {0, 1} /\ c2 \in {0, 1}
  BY <1>1, Sizes DEF Result, Word, AddressSpace, carryIn
<1>3. l1 - l2 = lv - c1 * WordSize /\ h1 - h2 - c1 = hv - c2 * WordSize
  <2>1. low.F \in SUBSET FlagBits
    BY <1>1 DEF Result
  <2>2. l1 - l2 = lv - c1 * WordSize
    BY <1>1, SumsExact, Zenon
  <2>3. h1 - h2 - c1 = hv - c2 * WordSize
    BY <2>1, SumsExact, Zenon
  <2> QED
    BY <2>2, <2>3
<1>4. /\ x = h1 * WordSize + l1 /\ y = h2 * WordSize + l2
      /\ Chain(low, high) = hv * WordSize + lv
  BY <1>1, Dwords DEF Result, Chain
<1> HIDE DEF x, y, low, high, lv, hv, c1, c2
<1>5. lv + l2 = l1 + c1 * WordSize /\ hv + h2 + c1 = h1 + c2 * WordSize
  BY <1>2, <1>3, SMT
<1>6. (hv * WordSize + lv) + (h2 * WordSize + l2)
        = (h1 * WordSize + l1) + c2 * (WordSize * WordSize)
  BY <1>2, <1>5, Together, Sizes, SMT
<1>7. x - y = Chain(low, high) - c2 * AddressSpace
  BY <1>2, <1>4, <1>6, SMT
<1> QED
  BY <1>7, Dwords DEF WideSubtract, x, y, low, high, lv, hv, c1, c2

\* SLA and RL double, SRL and RR halve.
LEMMA WideShifts ==
  ASSUME AluTypeOK, NEW h \in Word, NEW l \in Word
  PROVE  WideShift(twoWordToDword(h, l))
<1> DEFINE x == twoWordToDword(h, l)
           left == SLA(l, F)
           left2 == RL(h, left.F)
           right == SRL(h, F)
           right2 == RR(l, right.F)
<1>1. /\ F \in SUBSET FlagBits /\ left \in Result /\ left2 \in Result
      /\ right \in Result /\ right2 \in Result
  BY RegisterTypes DEF Result, AluTypeOK
<1>2. /\ WordSize \in Nat /\ AddressSpace = WordSize * WordSize /\ h \in Int /\ l \in Int
      /\ left.value \in Int /\ left2.value \in Int /\ right.value \in Int /\ right2.value \in Int
      /\ carryIn(left.F) \in Int /\ carryIn(left2.F) \in Int
      /\ carryIn(right.F) \in Int /\ carryIn(right2.F) \in Int
  BY <1>1, Sizes DEF Result, Word, AddressSpace, carryIn
<1>3. /\ 2 * l = left.value + carryIn(left.F) * WordSize
      /\ 2 * h + carryIn(left.F) = left2.value + carryIn(left2.F) * WordSize
      /\ h = 2 * right.value + carryIn(right.F)
      /\ l + carryIn(right.F) * WordSize = 2 * right2.value + carryIn(right2.F)
  BY <1>1, ShiftsExact DEF Result
<1>4. /\ x = h * WordSize + l
      /\ Chain(left, left2) = left2.value * WordSize + left.value
      /\ Chain(right2, right) = right.value * WordSize + right2.value
  BY <1>1, Dwords DEF Result, Chain
<1> HIDE DEF left, left2, right, right2, x
<1>5. 2 * x = Chain(left, left2) + carryIn(left2.F) * AddressSpace
  <2> DEFINE c1 == carryIn(left.F)
             c2 == carryIn(left2.F)
             v1 == left.value
             v2 == left2.value
  <2>1. l + l = v1 + c1 * WordSize /\ h + h + c1 = v2 + c2 * WordSize
    BY <1>2, <1>3, SMT
  <2>2. /\ c1 \in Int /\ c2 \in Int /\ v1 \in Int /\ v2 \in Int
        /\ WordSize \in Int /\ h \in Int /\ l \in Int
    BY <1>2, SMT
  <2> HIDE DEF c1, c2, v1, v2
  <2>3. (h * WordSize + l) + (h * WordSize + l)
          = (v2 * WordSize + v1) + c2 * (WordSize * WordSize)
    BY <2>1, <2>2, Together
  <2> QED
    BY <1>2, <1>4, <2>3, SMT DEF c2, v1, v2
<1>6. x = 2 * Chain(right2, right) + carryIn(right2.F)
  <2> DEFINE rest == l - carryIn(right2.F)
  <2>1. /\ rest \in Int /\ 0 \in Int
        /\ right2.value + right2.value = rest + carryIn(right.F) * WordSize
        /\ right.value + right.value + carryIn(right.F) = h + 0 * WordSize
    BY <1>2, <1>3, SMT
  <2> HIDE DEF rest
  <2>2. (right.value * WordSize + right2.value) + (right.value * WordSize + right2.value)
          = (h * WordSize + rest) + 0 * (WordSize * WordSize)
    BY <1>2, <2>1, Together, Sizes, SMT
  <2> QED
    BY <1>2, <1>4, <2>2, SMT DEF rest
<1> QED
  BY <1>5, <1>6, Dwords DEF WideShift, left, left2, right, right2, x

\* SP plus an offset is the sum of SP and the offset with its sign extended,
\* with the flags of the low words.
LEMMA Offsets ==
  ASSUME AluTypeOK, NEW h \in Word, NEW l \in Word, NEW e \in Offset
  PROVE  StackOffset(twoWordToDword(h, l), e)
<1> DEFINE x == twoWordToDword(h, l)
           el == e % WordSize
           eh == IF e < 0 THEN WordSize - 1 ELSE 0
           low == addRegister(l, F, el)
           high == adcRegister(h, low.F, eh)
           sp == ADD_SP_e(x, F, e)
           lv == low.value
           hv == high.value
           c1 == carryIn(low.F)
           c2 == carryIn(high.F)
           wrapped == c2 - one(e < 0)
<1>1. /\ WordSize \in Nat /\ WordSize > 0 /\ AddressSpace = WordSize * WordSize
      /\ AddressSpace \in Nat /\ AddressSpace > 0
      /\ h \in 0 .. WordSize - 1 /\ l \in 0 .. WordSize - 1
      /\ e \in Int /\ -WordSize <= e /\ e < WordSize
  BY Sizes, SMT DEF Word, Offset, AddressSpace
<1>2. el = (IF e < 0 THEN e + WordSize ELSE e) /\ el \in Word /\ eh \in Word
  <2>1. e % WordSize = IF e < 0 THEN e + WordSize ELSE e
    BY <1>1, WrapsOnce, SMT
  <2> QED
    BY <1>1, <2>1, SMT DEF Word
<1>3. F \in SUBSET FlagBits /\ low \in Result /\ low.F \in SUBSET FlagBits /\ high \in Result
  <2> HIDE DEF el, eh
  <2>1. F \in SUBSET FlagBits /\ low \in Result
    BY <1>2, SumTypes DEF AluTypeOK
  <2>2. low.F \in SUBSET FlagBits
    BY <2>1 DEF Result
  <2> HIDE DEF low
  <2> QED
    BY <1>2, <2>1, <2>2, SumTypes
<1>4. lv \in Word /\ hv \in Word /\ c1 \in {0, 1} /\ c2 \in {0, 1}
  <2> HIDE DEF low, high
  <2> QED
    BY <1>3 DEF Result, carryIn
<1>5. l + el = lv + c1 * WordSize /\ h + eh + c1 = hv + c2 * WordSize
  <2> HIDE DEF el, eh
  <2>1. l + el = lv + c1 * WordSize
    BY <1>2, <1>3, SumsExact
  <2> HIDE DEF low
  <2>2. h + eh + c1 = hv + c2 * WordSize
    BY <1>2, <1>3, SumsExact
  <2> QED
    BY <2>1, <2>2
<1>6. /\ x = h * WordSize + l /\ x \in Address /\ dwordLsb(x) = l
      /\ Chain(low, high) = hv * WordSize + lv /\ Chain(low, high) \in Address
  <2> HIDE DEF low, high
  <2> QED
    BY <1>4, Dwords DEF Chain
<1>7. x + e = Chain(low, high) + wrapped * AddressSpace
  <2>1. /\ WordSize \in Int /\ h \in Int /\ l \in Int /\ el \in Int /\ eh \in Int
        /\ hv \in Int /\ lv \in Int /\ c1 \in Int /\ c2 \in Int
        /\ one(e < 0) \in {0, 1}
    <3> HIDE DEF el, eh, lv, hv, c1, c2
    <3> QED
      BY <1>1, <1>2, <1>4, SMT DEF Word, one
  <2>2. (h * WordSize + l) + (eh * WordSize + el)
          = (hv * WordSize + lv) + c2 * (WordSize * WordSize)
    <3> HIDE DEF el, eh, lv, hv, c1, c2
    <3> QED
      BY <1>5, <2>1, Together
  <2>3. eh * WordSize + el = e + one(e < 0) * (WordSize * WordSize)
    <3>1. CASE e < 0
      <4>1. eh = WordSize - 1 /\ el = e + WordSize /\ one(e < 0) = 1
        BY <1>2, <3>1 DEF one
      <4>2. (WordSize - 1) * WordSize = WordSize * WordSize - WordSize
        BY <1>1, SMT
      <4> HIDE DEF el, eh
      <4> QED
        BY <1>1, <4>1, <4>2, SMT
    <3>2. CASE ~(e < 0)
      <4>1. eh = 0 /\ el = e /\ one(e < 0) = 0
        BY <1>2, <3>2 DEF one
      <4> HIDE DEF el, eh
      <4> QED
        BY <1>1, <4>1, SMT
    <3> QED
      BY <3>1, <3>2
  <2>4. wrapped * AddressSpace = c2 * (WordSize * WordSize) - one(e < 0) * (WordSize * WordSize)
    <3> HIDE DEF c2
    <3> QED
      BY <1>1, <2>1, SMT DEF wrapped
  <2> HIDE DEF x, el, eh, low, high, lv, hv, c1, c2, wrapped
  <2> QED
    BY <1>1, <1>6, <2>1, <2>2, <2>3, <2>4, SMT
<1>8. sp.value = Chain(low, high)
  <2>1. sp.value = (x + e) % AddressSpace
    BY DEF ADD_SP_e
  <2>2. wrapped \in Int /\ Chain(low, high) \in 0 .. AddressSpace - 1
    <3> HIDE DEF c2, low, high
    <3> QED
      BY <1>4, <1>6, SMT DEF Address, one
  <2> HIDE DEF x, low, high, wrapped, sp
  <2>3. x + e = wrapped * AddressSpace + Chain(low, high)
    BY <1>1, <1>7, <2>2, SMT
  <2>4. (wrapped * AddressSpace + Chain(low, high)) % AddressSpace = Chain(low, high)
    BY <1>1, <2>2, Quotients
  <2> QED
    BY <2>1, <2>3, <2>4
<1>9. sp.F \cap {FH, FC} = low.F \cap {FH, FC}
  <2> HIDE DEF x, el
  <2> QED
    BY <1>6 DEF ADD_SP_e, addRegister, flags, on, FlagBits, FZ, FN, FH, FC, el
<1> QED
  BY <1>8, <1>9, <1>6, Dwords DEF StackOffset

\* WideArithmetic holds in every reachable state, for words of every size.
THEOREM WideCorrect == Spec => []WideArithmetic
<1>1. AluTypeOK => WideArithmetic
  <2> SUFFICES ASSUME AluTypeOK
               PROVE  WideArithmetic
    OBVIOUS
  <2>1. A \in Word /\ Samples \subseteq Word
    BY SamplesAssumption DEF AluTypeOK
  <2>2. \A n \in Samples : n - HalfWord \in Offset
    BY <2>1, Sizes, SMT DEF Word, Offset
  <2> QED
    BY <2>1, <2>2, WideShifts, WideSums, WideDifferences, Offsets DEF WideArithmetic
<1> QED
  BY <1>1, TypeCorrect, PTL

-----------------------------------------------------------------------------
(* Decimal arithmetic.                                                     *)

\* A digit that has left its range by less than the range.
wrapped(x, m) == IF x < 0 THEN x + m ELSE IF x < m THEN x ELSE x - m

\* A number of two digits in base m, and its remainder.
LEMMA Digits ==
  ASSUME NEW m \in Nat, m > 0, NEW x \in Int, -m <= x, x < 2 * m, NEW r \in 0 .. m - 1
  PROVE  /\ wrapped(x, m) \in 0 .. m - 1
         /\ (x * m + r) % (m * m) = wrapped(x, m) * m + r
         /\ x * m + r < 0 <=> x < 0
         /\ x * m + r > m * m - 1 <=> x >= m
         /\ (x * m + r) \div m = x /\ (x * m + r) % m = r
<1> DEFINE w == m * m
           p == x * m
<1>1. (x * m + r) \div m = x /\ (x * m + r) % m = r
  BY Quotients
<1>2. wrapped(x, m) \in 0 .. m - 1
  BY DEF wrapped
<1>3. p \in Int /\ w \in Nat /\ w > 0
  BY SMT
<1>4. (x + 1) * m = p + m /\ (x + m) * m = p + w /\ (x - m) * m = p - w
  BY SMT
<1>5. /\ x < 0 => p <= -m
      /\ x >= 0 => p >= 0
      /\ x >= m => p >= w
      /\ x < m => p <= w - m
      /\ p >= -w /\ p < 2 * w - m + 1
  BY SMT
<1>6. (p + r) % w = IF p + r < 0 THEN p + r + w ELSE IF p + r < w THEN p + r ELSE p + r - w
  <2> HIDE DEF p, w
  <2> QED
    BY <1>3, <1>5, WrapsOnce, SMT
<1>7. (p + r) % w = wrapped(x, m) * m + r
  <2>1. wrapped(x, m) * m = IF x < 0 THEN p + w ELSE IF x < m THEN p ELSE p - w
    BY <1>4 DEF wrapped
  <2>2. wrapped(x, m) * m \in Int
    BY <1>2, SMT
  <2> HIDE DEF p, w
  <2> QED
    BY <1>3, <1>5, <1>6, <2>1, <2>2, SMT
<1>8. (p + r < 0 <=> x < 0) /\ (p + r > w - 1 <=> x >= m)
  <2> HIDE DEF p, w
  <2> QED
    BY <1>3, <1>5, SMT
<1> QED
  BY <1>1, <1>2, <1>7, <1>8

\* The order of numbers is that of their digits.
LEMMA DigitsOrder ==
  ASSUME NEW m \in Nat, m > 0, NEW x \in 0 .. m - 1, NEW r \in 0 .. m - 1,
         NEW y \in 0 .. m - 1, NEW s \in 0 .. m - 1
  PROVE  x * m + r > y * m + s <=> x > y \/ (x = y /\ r > s)
<1> DEFINE p == x * m
           q == y * m
<1>1. p \in Int /\ q \in Int
  BY SMT
<1>2. x > y => p >= q + m
  BY SMT
<1>3. x < y => q >= p + m
  BY SMT
<1>4. x = y => p = q
  OBVIOUS
<1> HIDE DEF p, q
<1>5. p + r > q + s <=> x > y \/ (x = y /\ r > s)
  BY <1>1, <1>2, <1>3, <1>4, SMT
<1> QED
  BY <1>5 DEF p, q

\* What DAA does to the nibbles of its word.
adjustsHigh(x, r, f) ==
  FC \in f \/ (FN \notin f /\ (x > Base - 1 \/ (x = Base - 1 /\ r > Base - 1)))
adjustedHigh(x, r, f) ==
  IF ~adjustsHigh(x, r, f) THEN x
  ELSE wrapped(IF FN \in f THEN x - Skip ELSE x + Skip, NibbleSize)
adjustedLow(r, f) ==
  IF ~(FH \in f \/ (FN \notin f /\ r > Base - 1)) THEN r
  ELSE IF FN \in f THEN r - Skip ELSE r + Skip
carryOf(s) == IF s < 0 THEN -1 ELSE IF s < NibbleSize THEN 0 ELSE 1

LEMMA DaaDigits ==
  ASSUME NEW x \in Nibble, NEW r \in Nibble, NEW f \in SUBSET FlagBits
  PROVE  /\ DAA(x * NibbleSize + r, f).value
              = wrapped(adjustedHigh(x, r, f) + carryOf(adjustedLow(r, f)), NibbleSize) * NibbleSize
                  + wrapped(adjustedLow(r, f), NibbleSize)
         /\ FC \in DAA(x * NibbleSize + r, f).F <=> adjustsHigh(x, r, f)
<1> DEFINE N == NibbleSize
           a == x * N + r
           subtracted == FN \in f
           adjustHigh == FC \in f \/ (~subtracted /\ a > LastDigits)
           high == IF ~adjustHigh THEN a
                   ELSE (IF subtracted THEN a - Skip * N ELSE a + Skip * N) % WordSize
           adjustLow == FH \in f \/ (~subtracted /\ high % N > Base - 1)
           value == IF ~adjustLow THEN high
                    ELSE (IF subtracted THEN high - Skip ELSE high + Skip) % WordSize
           y == adjustedHigh(x, r, f)
           s == adjustedLow(r, f)
<1>1. /\ N \in Nat /\ N > 0 /\ Base \in Nat /\ Base >= 2 /\ Base <= N
      /\ x \in 0 .. N - 1 /\ r \in 0 .. N - 1 /\ Skip \in 0 .. N - 2
      /\ WordSize = N * N /\ a \in Int /\ Skip * N \in Int
  BY ArithmeticAssumption, SMT DEF Nibble, Skip, WordSize
<1>2. a > LastDigits <=> x > Base - 1 \/ (x = Base - 1 /\ r > Base - 1)
  <2>1. Base - 1 \in 0 .. N - 1
    BY <1>1
  <2> HIDE DEF N
  <2> QED
    BY <1>1, <2>1, DigitsOrder DEF LastDigits, N
<1>3. adjustHigh <=> adjustsHigh(x, r, f)
  BY <1>2 DEF adjustsHigh
<1>4. high = y * N + r /\ y \in 0 .. N - 1
  <2>1. CASE ~adjustHigh
    BY <1>1, <1>3, <2>1 DEF adjustedHigh
  <2>2. CASE adjustHigh
    <3> DEFINE t == IF subtracted THEN x - Skip ELSE x + Skip
    <3>1. t \in Int /\ -N <= t /\ t < 2 * N
      BY <1>1
    <3>2. (IF subtracted THEN a - Skip * N ELSE a + Skip * N) = t * N + r
      <4>1. (x - Skip) * N = x * N - Skip * N /\ (x + Skip) * N = x * N + Skip * N
        BY <1>1, SMT
      <4>2. x * N \in Int
        BY <1>1, SMT
      <4> QED
        BY <1>1, <4>1, <4>2, SMT
    <3>3. y = wrapped(t, N)
      BY <1>3, <2>2 DEF adjustedHigh
    <3> HIDE DEF t, N
    <3>4. (t * N + r) % (N * N) = wrapped(t, N) * N + r /\ wrapped(t, N) \in 0 .. N - 1
      BY <1>1, <3>1, Digits
    <3> QED
      BY <1>1, <2>2, <3>2, <3>3, <3>4
  <2> QED
    BY <2>1, <2>2
<1>5. high % N = r
  <2> HIDE DEF high, y, N
  <2> QED
    BY <1>1, <1>4, Quotients
<1>6. value = wrapped(y + carryOf(s), N) * N + wrapped(s, N)
  <2>1. adjustLow <=> FH \in f \/ (FN \notin f /\ r > Base - 1)
    BY <1>5
  <2>2. s \in Int /\ -N <= s /\ s < 2 * N
    BY <1>1 DEF adjustedLow
  <2>3. wrapped(s, N) \in 0 .. N - 1 /\ s = carryOf(s) * N + wrapped(s, N) /\ carryOf(s) \in -1 .. 1
    <3> HIDE DEF s, N
    <3> QED
      BY <1>1, <2>2 DEF wrapped, carryOf, N
  <2> DEFINE t == y + carryOf(s)
  <2>4. t \in Int /\ -N <= t /\ t < 2 * N
    BY <1>1, <1>4, <2>3
  <2>5. t * N + wrapped(s, N) = y * N + s
    <3>1. (y + carryOf(s)) * N = y * N + carryOf(s) * N
      BY <1>1, <1>4, <2>3, SMT
    <3>2. y * N \in Int /\ carryOf(s) * N \in Int
      BY <1>1, <1>4, <2>3, SMT
    <3> HIDE DEF y, s, N
    <3> QED
      BY <2>2, <2>3, <3>1, <3>2
  <2>6. (y * N + s) % WordSize = wrapped(t, N) * N + wrapped(s, N)
    <3> HIDE DEF t, N, y, s
    <3> QED
      BY <1>1, <2>3, <2>4, <2>5, Digits
  <2>7. CASE adjustLow
    <3>1. (IF subtracted THEN high - Skip ELSE high + Skip) = y * N + s
      <4>1. s = IF FN \in f THEN r - Skip ELSE r + Skip
        BY <2>1, <2>7 DEF adjustedLow
      <4>2. y * N \in Int
        BY <1>1, <1>4, SMT
      <4> HIDE DEF high, y, s
      <4> QED
        BY <1>1, <1>4, <4>1, <4>2
    <3> QED
      BY <2>6, <2>7, <3>1
  <2>8. CASE ~adjustLow
    <3>1. s = r
      BY <2>1, <2>8 DEF adjustedLow
    <3>2. carryOf(s) = 0 /\ wrapped(s, N) = s
      BY <1>1, <3>1 DEF carryOf, wrapped
    <3>3. wrapped(y + 0, N) = y
      BY <1>1, <1>4 DEF wrapped
    <3> QED
      BY <1>4, <2>8, <3>1, <3>2, <3>3
  <2> QED
    BY <2>7, <2>8
<1>7. DAA(a, f) = [value |-> value, F |-> flags(f, value = 0, subtracted, FALSE, adjustHigh)]
  BY DEF DAA
<1>8. FC \in flags(f, value = 0, subtracted, FALSE, adjustHigh) <=> adjustHigh
  <2> HIDE DEF value, adjustHigh
  <2> QED
    BY DEF flags, on, FlagBits, FZ, FN, FH, FC
<1>9. /\ DAA(a, f).value = value
      /\ FC \in DAA(a, f).F <=> adjustHigh
  <2>1. ASSUME NEW d, NEW v, NEW g, d = [value |-> v, F |-> g]
        PROVE  d.value = v /\ d.F = g
    BY <2>1
  <2> DEFINE g == flags(f, value = 0, subtracted, FALSE, adjustHigh)
  <2>2. DAA(a, f) = [value |-> value, F |-> g] /\ (FC \in g <=> adjustHigh)
    BY <1>7, <1>8
  <2> HIDE DEF value, adjustHigh, a, g
  <2> QED
    BY <2>1, <2>2
<1> QED
  BY <1>3, <1>6, <1>9

\* The nibbles of a decimal word are decimal digits.
LEMMA DecimalWords ==
  ASSUME NEW h \in 0 .. Base - 1, NEW l \in 0 .. Base - 1
  PROVE  /\ IsDecimal(h * NibbleSize + l)
         /\ Decimal(h * NibbleSize + l) = h * Base + l
<1>1. NibbleSize \in Nat /\ NibbleSize > 0 /\ Base \in Nat /\ Base <= NibbleSize
  BY ArithmeticAssumption
<1>2. (h * NibbleSize + l) \div NibbleSize = h /\ (h * NibbleSize + l) % NibbleSize = l
  BY <1>1, Quotients
<1> DEFINE w == h * NibbleSize + l
<1>3. w \div NibbleSize = h /\ w % NibbleSize = l
  BY <1>2
<1> HIDE DEF w
<1>4. IsDecimal(w) /\ Decimal(w) = h * Base + l
  BY <1>1, <1>3 DEF IsDecimal, Decimal
<1> QED
  BY <1>4 DEF w

\* Digits that are the sum or difference modulo the base are the decimal word
\* that was asked for.
LEMMA DecimalResult ==
  ASSUME NEW r, NEW exact \in Int, NEW x \in Int, NEW d \in 0 .. Base - 1,
         -Base <= x, x < 2 * Base, exact = x * Base + d,
         DAA(r.value, r.F).value = wrapped(x, Base) * NibbleSize + d,
         FC \in DAA(r.value, r.F).F <=> x \notin 0 .. Base - 1
  PROVE  DecimalIs(r, exact)
<1>1. Base \in Nat /\ Base > 0
  BY ArithmeticAssumption
<1>2. /\ wrapped(x, Base) \in 0 .. Base - 1
      /\ exact % (Base * Base) = wrapped(x, Base) * Base + d
      /\ exact < 0 <=> x < 0
      /\ exact > Base * Base - 1 <=> x >= Base
  BY <1>1, Digits
<1>3. exact \in 0 .. Base * Base - 1 <=> x \in 0 .. Base - 1
  <2>1. Base * Base \in Int
    BY <1>1, SMT
  <2> QED
    BY <1>1, <1>2, <2>1
<1>4. /\ IsDecimal(DAA(r.value, r.F).value)
      /\ Decimal(DAA(r.value, r.F).value) = wrapped(x, Base) * Base + d
  BY <1>2, DecimalWords
<1> QED
  BY <1>2, <1>3, <1>4 DEF DecimalIs

\* The nibbles of two decimal words, and their sum and difference.
LEMMA DecimalParts ==
  ASSUME NEW a \in Word, IsDecimal(a)
  PROVE  \E h \in 0 .. Base - 1, l \in 0 .. Base - 1 :
           /\ a = h * NibbleSize + l
           /\ a % NibbleSize = l
           /\ Decimal(a) = h * Base + l
<1>1. a \div NibbleSize \in 0 .. Base - 1 /\ a % NibbleSize \in 0 .. Base - 1
  BY Nibbles, ArithmeticAssumption DEF IsDecimal, Nibble
<1> QED
  BY <1>1, Nibbles DEF Decimal

LEMMA DecimalSum ==
  ASSUME NEW a \in Word, NEW n \in Word, NEW f \in SUBSET FlagBits, IsDecimal(a), IsDecimal(n)
  PROVE  DecimalIs(adcRegister(a, f, n), Decimal(a) + Decimal(n) + carryIn(f))
<1> DEFINE N == NibbleSize
           c == carryIn(f)
<1>1. PICK ah \in 0 .. Base - 1, al \in 0 .. Base - 1 :
        a = ah * N + al /\ a % N = al /\ Decimal(a) = ah * Base + al
  BY DecimalParts
<1>2. PICK nh \in 0 .. Base - 1, nl \in 0 .. Base - 1 :
        n = nh * N + nl /\ n % N = nl /\ Decimal(n) = nh * Base + nl
  BY DecimalParts
<1>3. /\ N \in Nat /\ N > 0 /\ Base \in Nat /\ Base >= 2 /\ Base <= N
      /\ c \in {0, 1} /\ WordSize = N * N
  BY ArithmeticAssumption DEF carryIn, WordSize
<1> DEFINE lo == al + nl + c
           half == lo > N - 1
           x == ah + nh + (IF half THEN 1 ELSE 0)
           r == lo - (IF half THEN N ELSE 0)
           sum == adcRegister(a, f, n)
<1>4. x \in Int /\ -N <= x /\ x < 2 * N /\ r \in 0 .. N - 1
  BY <1>3
<1>5. a + n + c = x * N + r
  <2>1. /\ (ah + nh) * N = ah * N + nh * N /\ (ah + nh + 1) * N = ah * N + nh * N + N
        /\ ah * N \in Int /\ nh * N \in Int
    BY <1>3, SMT
  <2>2. x * N = ah * N + nh * N + (IF half THEN N ELSE 0)
    <3>1. CASE half
      BY <2>1, <3>1
    <3>2. CASE ~half
      BY <2>1, <3>2, <1>3
    <3> QED
      BY <3>1, <3>2
  <2> DEFINE p == ah * N
             q == nh * N
             s == x * N
  <2>3. s = p + q + (IF half THEN N ELSE 0) /\ p \in Int /\ q \in Int
    BY <2>1, <2>2
  <2>4. a = p + al /\ n = q + nl
    BY <1>1, <1>2
  <2> HIDE DEF p, q, s, c
  <2>5. a + n + c = s + r
    BY <1>3, <2>3, <2>4
  <2> QED
    BY <2>5 DEF s
<1>6. /\ sum.value = wrapped(x, N) * N + r /\ wrapped(x, N) \in 0 .. N - 1
      /\ a + n + c > WordSize - 1 <=> x >= N
  <2> HIDE DEF x, r, N
  <2>1. (x * N + r) % (N * N) = wrapped(x, N) * N + r /\ wrapped(x, N) \in 0 .. N - 1
        /\ (x * N + r > N * N - 1 <=> x >= N)
    BY <1>3, <1>4, Digits
  <2>2. sum.value = (a + n + c) % WordSize
    BY DEF adcRegister
  <2> HIDE DEF sum, c
  <2> QED
    BY <1>3, <1>5, <2>1, <2>2
<1>7. /\ sum.F \in SUBSET FlagBits /\ FN \notin sum.F
      /\ (FH \in sum.F <=> half) /\ (FC \in sum.F <=> x >= N)
  <2>1. sum.F \in SUBSET FlagBits
    BY SumTypes DEF Result
  <2>2. FN \notin sum.F /\ (FH \in sum.F <=> (a % N) + (n % N) + c > N - 1)
        /\ (FC \in sum.F <=> a + n + c > WordSize - 1)
    BY DEF adcRegister, flags, on, FlagBits, FZ, FN, FH, FC
  <2> HIDE DEF x, sum
  <2> QED
    BY <1>1, <1>2, <1>6, <2>1, <2>2
\* The decimal carry, and the digits.
<1> DEFINE k == IF lo >= Base THEN 1 ELSE 0
           X == ah + nh + k
           d == lo - k * Base
           w == wrapped(x, N)
           y == adjustedHigh(w, r, sum.F)
           s == adjustedLow(r, sum.F)
<1>8. /\ DAA(sum.value, sum.F).value = wrapped(y + carryOf(s), N) * N + wrapped(s, N)
      /\ FC \in DAA(sum.value, sum.F).F <=> adjustsHigh(w, r, sum.F)
  <2>1. w \in Nibble /\ r \in Nibble
    BY <1>4, <1>6 DEF Nibble
  <2> HIDE DEF r, x, sum, w
  <2> QED
    BY <1>6, <1>7, <2>1, DaaDigits DEF w
<1>9. X \in Int /\ -Base <= X /\ X < 2 * Base /\ d \in 0 .. Base - 1
  BY <1>3
<1>10. Decimal(a) + Decimal(n) + c = X * Base + d
  <2>1. /\ (ah + nh) * Base = ah * Base + nh * Base
        /\ (ah + nh + 1) * Base = ah * Base + nh * Base + Base
        /\ ah * Base \in Int /\ nh * Base \in Int
    BY <1>3, SMT
  <2> QED
    BY <1>1, <1>2, <1>3, <2>1
<1>11. adjustsHigh(w, r, sum.F) <=> X \notin 0 .. Base - 1
  <2>1. adjustsHigh(w, r, sum.F) <=> x >= N \/ w > Base - 1 \/ (w = Base - 1 /\ r > Base - 1)
    <3> HIDE DEF x, w, r, sum
    <3> QED
      BY <1>7 DEF adjustsHigh
  <2>2. w = IF x < N THEN x ELSE x - N
    BY <1>3 DEF wrapped
  <2> HIDE DEF sum, w
  <2> QED
    BY <1>3, <2>1, <2>2
<1>12. wrapped(y + carryOf(s), N) = wrapped(X, Base) /\ wrapped(s, N) = d
  <2>1. w = IF x < N THEN x ELSE x - N
    BY <1>3 DEF wrapped
  <2>2. y = IF X \in 0 .. Base - 1 THEN w ELSE wrapped(w + N - Base, N)
    <3> HIDE DEF w, X, r, sum
    <3>1. y = IF X \in 0 .. Base - 1 THEN w ELSE wrapped(w + Skip, N)
      BY <1>7, <1>11 DEF adjustedHigh
    <3>2. w + Skip = w + N - Base
      BY <1>3, <1>6 DEF Skip, w
    <3> QED
      BY <3>1, <3>2
  <2>3. s = IF ~(half \/ r > Base - 1) THEN r ELSE r + N - Base
    <3> HIDE DEF half, r, sum
    <3>1. s = IF ~(half \/ r > Base - 1) THEN r ELSE r + Skip
      BY <1>7 DEF adjustedLow
    <3>2. r + Skip = r + N - Base
      BY <1>3, <1>4 DEF Skip
    <3> QED
      BY <3>1, <3>2
  <2> HIDE DEF y, s, w, sum
  <2>4. wrapped(s, N) = d /\ carryOf(s) = (IF half THEN 0 ELSE k)
    BY <1>3, <2>3 DEF wrapped, carryOf
  <2>5. wrapped(y + (IF half THEN 0 ELSE k), N) = wrapped(X, Base)
    BY <1>3, <2>1, <2>2 DEF wrapped
  <2> QED
    BY <2>4, <2>5
<1> HIDE DEF X, d, y, s, w, x, r, sum
<1>13. DAA(sum.value, sum.F).value = wrapped(X, Base) * N + d
  BY <1>8, <1>12
<1>14. FC \in DAA(sum.value, sum.F).F <=> X \notin 0 .. Base - 1
  BY <1>8, <1>11
<1>15. Decimal(a) + Decimal(n) + c \in Int
  <2>1. X * Base \in Int
    BY <1>3, <1>9, SMT
  <2> QED
    BY <1>9, <1>10, <2>1
<1>16. DecimalIs(sum, Decimal(a) + Decimal(n) + c)
  <2> HIDE DEF c
  <2> QED
    BY <1>9, <1>10, <1>13, <1>14, <1>15, DecimalResult
<1> QED
  BY <1>16 DEF sum

LEMMA DecimalDifference ==
  ASSUME NEW a \in Word, NEW n \in Word, NEW f \in SUBSET FlagBits, IsDecimal(a), IsDecimal(n)
  PROVE  DecimalIs(sbcRegister(a, f, n), Decimal(a) - Decimal(n) - carryIn(f))
<1> DEFINE N == NibbleSize
           c == carryIn(f)
<1>1. PICK ah \in 0 .. Base - 1, al \in 0 .. Base - 1 :
        a = ah * N + al /\ a % N = al /\ Decimal(a) = ah * Base + al
  BY DecimalParts
<1>2. PICK nh \in 0 .. Base - 1, nl \in 0 .. Base - 1 :
        n = nh * N + nl /\ n % N = nl /\ Decimal(n) = nh * Base + nl
  BY DecimalParts
<1>3. /\ N \in Nat /\ N > 0 /\ Base \in Nat /\ Base >= 2 /\ Base <= N
      /\ c \in {0, 1} /\ WordSize = N * N
  BY ArithmeticAssumption DEF carryIn, WordSize
\* The same nibble below gives the digit, for the borrow is that of both.
<1> DEFINE lo == al - nl - c
           half == lo < 0
           x == ah - nh - (IF half THEN 1 ELSE 0)
           r == lo + (IF half THEN N ELSE 0)
           d == lo + (IF half THEN Base ELSE 0)
           difference == sbcRegister(a, f, n)
<1>4. /\ x \in Int /\ -Base <= x /\ x < Base /\ -N <= x /\ x < 2 * N
      /\ r \in 0 .. N - 1 /\ d \in 0 .. Base - 1
  BY <1>3
<1>5. a - n - c = x * N + r
  <2>1. /\ (ah - nh) * N = ah * N - nh * N /\ (ah - nh - 1) * N = ah * N - nh * N - N
        /\ ah * N \in Int /\ nh * N \in Int
    BY <1>3, SMT
  <2>2. x * N = ah * N - nh * N - (IF half THEN N ELSE 0)
    <3>1. CASE half
      BY <2>1, <3>1
    <3>2. CASE ~half
      BY <2>1, <3>2, <1>3
    <3> QED
      BY <3>1, <3>2
  <2> DEFINE p == ah * N
             q == nh * N
             s == x * N
  <2>3. s = p - q - (IF half THEN N ELSE 0) /\ p \in Int /\ q \in Int
    BY <2>1, <2>2
  <2>4. a = p + al /\ n = q + nl
    BY <1>1, <1>2
  <2> HIDE DEF p, q, s, c
  <2>5. a - n - c = s + r
    BY <1>3, <2>3, <2>4
  <2> QED
    BY <2>5 DEF s
<1>6. /\ difference.value = wrapped(x, N) * N + r /\ wrapped(x, N) \in 0 .. N - 1
      /\ a - n - c < 0 <=> x < 0
  <2> HIDE DEF x, r, N
  <2>1. (x * N + r) % (N * N) = wrapped(x, N) * N + r /\ wrapped(x, N) \in 0 .. N - 1
        /\ (x * N + r < 0 <=> x < 0)
    BY <1>3, <1>4, Digits
  <2>2. difference.value = (a - n - c) % WordSize
    BY DEF sbcRegister
  <2> HIDE DEF difference, c
  <2> QED
    BY <1>3, <1>5, <2>1, <2>2
<1>7. /\ difference.F \in SUBSET FlagBits /\ FN \in difference.F
      /\ FH \in difference.F <=> half
      /\ FC \in difference.F <=> x < 0
  <2>1. difference.F \in SUBSET FlagBits
    BY SumTypes DEF Result
  <2>2. FN \in difference.F /\ (FH \in difference.F <=> (a % N) - (n % N) - c < 0)
        /\ (FC \in difference.F <=> a - n - c < 0)
    BY DEF sbcRegister, flags, on, FlagBits, FZ, FN, FH, FC
  <2> HIDE DEF x, difference
  <2> QED
    BY <1>1, <1>2, <1>6, <2>1, <2>2
<1> DEFINE w == wrapped(x, N)
           y == adjustedHigh(w, r, difference.F)
           s == adjustedLow(r, difference.F)
<1>8. /\ DAA(difference.value, difference.F).value
           = wrapped(y + carryOf(s), N) * N + wrapped(s, N)
      /\ FC \in DAA(difference.value, difference.F).F <=> adjustsHigh(w, r, difference.F)
  <2>1. w \in Nibble /\ r \in Nibble
    BY <1>4, <1>6 DEF Nibble
  <2> HIDE DEF r, x, difference, w
  <2> QED
    BY <1>6, <1>7, <2>1, DaaDigits DEF w
<1>9. Decimal(a) - Decimal(n) - c = x * Base + d
  <2>1. /\ (ah - nh) * Base = ah * Base - nh * Base
        /\ (ah - nh - 1) * Base = ah * Base - nh * Base - Base
        /\ ah * Base \in Int /\ nh * Base \in Int
    BY <1>3, SMT
  <2>2. x * Base = ah * Base - nh * Base - (IF half THEN Base ELSE 0)
    <3>1. CASE half
      BY <2>1, <3>1
    <3>2. CASE ~half
      BY <2>1, <3>2, <1>3
    <3> QED
      BY <3>1, <3>2
  <2> DEFINE p == ah * Base
             q == nh * Base
             z == x * Base
  <2>3. z = p - q - (IF half THEN Base ELSE 0) /\ p \in Int /\ q \in Int
    BY <2>1, <2>2
  <2>4. Decimal(a) = p + al /\ Decimal(n) = q + nl
    BY <1>1, <1>2
  <2> HIDE DEF p, q, z, c
  <2>5. Decimal(a) - Decimal(n) - c = z + d
    BY <1>3, <2>3, <2>4
  <2> QED
    BY <2>5 DEF z
<1>10. adjustsHigh(w, r, difference.F) <=> x \notin 0 .. Base - 1
  <2>1. adjustsHigh(w, r, difference.F) <=> x < 0
    <3> HIDE DEF x, w, r, difference
    <3> QED
      BY <1>7 DEF adjustsHigh
  <2> HIDE DEF x, w, r, difference
  <2> QED
    BY <1>3, <1>4, <2>1
<1>11. wrapped(y + carryOf(s), N) = wrapped(x, Base) /\ wrapped(s, N) = d
  <2>1. w = IF x < 0 THEN x + N ELSE x
    BY <1>3 DEF wrapped
  <2>2. y = IF x < 0 THEN wrapped(w - (N - Base), N) ELSE w
    <3> HIDE DEF w, x, r, difference
    <3>1. y = IF x < 0 THEN wrapped(w - Skip, N) ELSE w
      BY <1>3, <1>4, <1>7, <1>10 DEF adjustedHigh
    <3> QED
      BY <3>1 DEF Skip
  <2>3. s = IF half THEN r - (N - Base) ELSE r
    <3> HIDE DEF half, r, difference
    <3> QED
      BY <1>7 DEF adjustedLow, Skip
  <2>4. y = wrapped(x, Base)
    <3> HIDE DEF y, w, x
    <3> QED
      BY <1>3, <1>4, <2>1, <2>2 DEF wrapped
  <2> HIDE DEF y, s, w, difference
  <2>5. s = d
    BY <1>3, <2>3
  <2> HIDE DEF d, r, x
  <2>6. carryOf(s) = 0 /\ wrapped(s, N) = d
    BY <1>3, <1>4, <2>5 DEF wrapped, carryOf
  <2>7. wrapped(y + 0, N) = y
    BY <1>3, <1>4, <2>4 DEF wrapped
  <2> QED
    BY <2>4, <2>6, <2>7
<1> HIDE DEF d, y, s, w, x, r, difference
<1>12. DAA(difference.value, difference.F).value = wrapped(x, Base) * N + d
  BY <1>8, <1>11
<1>13. FC \in DAA(difference.value, difference.F).F <=> x \notin 0 .. Base - 1
  BY <1>8, <1>10
<1>14. Decimal(a) - Decimal(n) - c \in Int
  <2>1. x * Base \in Int
    BY <1>3, <1>4, SMT
  <2> QED
    BY <1>4, <1>9, <2>1
<1>15. DecimalIs(difference, Decimal(a) - Decimal(n) - c)
  <2> HIDE DEF c
  <2>1. x < 2 * Base
    BY <1>3, <1>4
  <2> QED
    BY <1>4, <1>9, <1>12, <1>13, <1>14, <2>1, DecimalResult
<1> QED
  BY <1>15 DEF difference

\* DecimalArithmetic holds in every reachable state, for digits of every base
\* that fits into a nibble.
THEOREM DecimalCorrect == Spec => []DecimalArithmetic
<1>1. AluTypeOK => DecimalArithmetic
  BY DecimalSum, DecimalDifference DEF AluTypeOK, DecimalArithmetic
<1> QED
  BY <1>1, TypeCorrect, PTL
=============================================================================
