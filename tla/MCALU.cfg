\* The code's words and digits.  Operands and samples lie at the edges of
\* nibbles, digits and signs; the invariants range over every word beside.
SPECIFICATION Spec
CONSTANTS
  NibbleSize = 16
  Base = 10
  WordBits = 8
  Operands = {0, 1, 15, 16, 127, 128, 153, 255}
  Samples = {0, 1, 15, 127, 128, 255}
INVARIANTS AluTypeOK InstructionsAgree WideArithmetic DecimalArithmetic
