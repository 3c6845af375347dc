-------------------------------- MODULE ALU --------------------------------
(***************************************************************************)
(* The accumulator and the flags under the instructions that compute       *)
(* (src/src/CPU/opcodes.hpp).  The program is not fixed: any instruction   *)
(* may come next, and what the other registers, the immediate operands and *)
(* the memory hold is any word of Operands.                                *)
(***************************************************************************)
EXTENDS Arithmetic

CONSTANTS
  WordBits,    \* the bits of a word, 8
  Operands     \* bound: the operands the program uses

ASSUME AluAssumption == WordBits \in Nat /\ Operands \subseteq Word

VARIABLES A, F
vars == <<A, F>>

AluTypeOK == A \in Word /\ F \in SUBSET FlagBits

\* What reset leaves.
Init == A = 1 /\ F = {}

\* Bits of words, and the words that have them.
Bits == [w \in Word |-> {n \in 0 .. WordBits - 1 : (w \div 2^n) % 2 = 1}]

-----------------------------------------------------------------------------
(* Instructions on A with an operand from a register, from memory or from  *)
(* the program.                                                            *)

onA(r) == A' = r.value /\ F' = r.F

ExecuteADD(n) == onA(addRegister(A, F, n))
ExecuteSUB(n) == onA(subRegister(A, F, n))
ExecuteADC(n) == onA(adcRegister(A, F, n))
ExecuteSBC(n) == onA(sbcRegister(A, F, n))
ExecuteCP(n)  == F' = cpRegister(A, F, n) /\ UNCHANGED A

ExecuteAND(n) ==
  \E w \in Word : /\ Bits[w] = Bits[A] \cap Bits[n]
                  /\ A' = w /\ F' = flags(F, w = 0, FALSE, TRUE, FALSE)
ExecuteOR(n) ==
  \E w \in Word : /\ Bits[w] = Bits[A] \cup Bits[n]
                  /\ A' = w /\ F' = flags(F, w = 0, FALSE, FALSE, FALSE)
ExecuteXOR(n) ==
  \E w \in Word : /\ Bits[w] = (Bits[A] \ Bits[n]) \cup (Bits[n] \ Bits[A])
                  /\ A' = w /\ F' = flags(F, w = 0, FALSE, FALSE, FALSE)

-----------------------------------------------------------------------------
(* Instructions on A alone, and on the flags.                              *)

ExecuteRotateA == onA(RLCA(A, F)) \/ onA(RLA(A, F)) \/ onA(RRCA(A, F)) \/ onA(RRA(A, F))
ExecuteDAA == onA(DAA(A, F))
ExecuteCPL == onA(CPL(A, F))
ExecuteSCF == F' = SCF(F) /\ UNCHANGED A
ExecuteCCF == F' = CCF(F) /\ UNCHANGED A

-----------------------------------------------------------------------------
(* Instructions on any register: A, or one whose value is left open.       *)

\* The instructions of one register, of A and of another.
ofRegister(x) ==
  {incRegister(x, F), decRegister(x, F), RLC(x, F), RL(x, F), SLA(x, F), RRC(x, F),
   RR(x, F), SRA(x, F), SRL(x, F), SWAP(x, F)}
ExecuteOnA == \E r \in ofRegister(A) : onA(r)
ExecuteOnOther(x) == \E r \in ofRegister(x) : F' = r.F /\ UNCHANGED A

ExecuteBIT(n, x) ==
  F' = flags(F, n \notin Bits[x], FALSE, TRUE, FC \in F) /\ UNCHANGED A
ExecuteRES(n) == \E w \in Word : Bits[w] = Bits[A] \ {n} /\ A' = w /\ UNCHANGED F
ExecuteSET(n) == \E w \in Word : Bits[w] = Bits[A] \cup {n} /\ A' = w /\ UNCHANGED F

\* On (HL); the shifts take Z from the result and not from what is read back.
ExecuteOn_iHL(location, x) ==
  /\ \E r \in {INC_iHL(location, x, F), DEC_iHL(location, x, F), SWAP_iHL(location, x, F)} :
       F' = r.F
  /\ UNCHANGED A

ExecuteLD(x) == A' = x /\ UNCHANGED F

\* F is masked when it is popped: the program's stack may hold any word.
Mut_NoMask(a, f) == A' = a /\ F' = Bits[f]
ExecutePOP_AF(a, f) == A' = a /\ F' = Bits[f] \cap FlagBits

-----------------------------------------------------------------------------
(* 16-bit instructions; only their flags are seen here.                    *)

ExecuteADD_HL(hl, x) == F' = ADD_HL(hl, F, x).F /\ UNCHANGED A
ExecuteADD_SP_e(sp, e) == F' = ADD_SP_e(sp, F, e).F /\ UNCHANGED A

Next ==
  \/ \E n \in Operands :
       \/ ExecuteADD(n) \/ ExecuteSUB(n) \/ ExecuteADC(n) \/ ExecuteSBC(n) \/ ExecuteCP(n)
       \/ ExecuteAND(n) \/ ExecuteOR(n) \/ ExecuteXOR(n)
       \/ ExecuteOnOther(n) \/ ExecuteLD(n)
       \/ \E bit \in 0 .. WordBits - 1 : ExecuteBIT(bit, n)
       \/ \E location \in Locations : ExecuteOn_iHL(location, n)
       \/ \E f \in Operands : ExecutePOP_AF(n, f)
       \/ \E x \in Operands : ExecuteADD_HL(twoWordToDword(A, n), twoWordToDword(x, n))
       \/ \E e \in Operands : ExecuteADD_SP_e(twoWordToDword(A, n), e - HalfWord)
  \/ \E bit \in 0 .. WordBits - 1 : ExecuteRES(bit) \/ ExecuteSET(bit) \/ ExecuteBIT(bit, A)
  \/ ExecuteOnA \/ ExecuteRotateA \/ ExecuteDAA \/ ExecuteCPL \/ ExecuteSCF \/ ExecuteCCF

Spec == Init /\ [][Next]_vars
=============================================================================
