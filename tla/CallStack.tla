----------------------------- MODULE CallStack -----------------------------
(***************************************************************************)
(* What the processor promises about control flow: return addresses and    *)
(* saved registers form a stack of 16-bit frames, last in first out; an    *)
(* interrupt is a call that happens between two instructions, returns to   *)
(* the instruction it displaced, and shuts the master switch behind it.    *)
(***************************************************************************)
EXTENDS Naturals, Sequences

CONSTANTS
  Space,     \* addresses are 0 .. Space - 1 and wrap around
  Vectors    \* where interrupts go


VARIABLES
  pc,      \* address of the next instruction
  frames,  \* 16-bit values on the stack, innermost first
  ime      \* interrupts are accepted

vars == <<pc, frames, ime>>

Address == 0 .. Space - 1
After(length) == (pc + length) % Space

Init == pc \in Address /\ frames = << >> /\ ime = FALSE

\* An instruction that leaves the stack alone may go anywhere.
Run ==
  /\ pc' \in Address
  /\ ime' \in BOOLEAN
  /\ UNCHANGED frames

\* A call (3 bytes, or 1 for RST) leaves the address of the next instruction.
Call ==
  /\ \E length \in {1, 3} : frames' = <<After(length)>> \o frames
  /\ pc' \in Address
  /\ UNCHANGED ime

\* PUSH and POP move one register pair and go on to the next instruction.
Push ==
  /\ \E value \in Address : frames' = <<value>> \o frames
  /\ pc' = After(1)
  /\ UNCHANGED ime

Pop ==
  /\ frames # << >> /\ frames' = Tail(frames)
  /\ pc' = After(1)
  /\ UNCHANGED ime

Return ==
  /\ frames # << >> /\ frames' = Tail(frames)
  /\ pc' = Head(frames)
  /\ ime' \in {ime, TRUE}

\* The program gives up its frames and starts a new stack.
Restart ==
  /\ frames' = << >>
  /\ pc' \in Address
  /\ UNCHANGED ime

Interrupt ==
  /\ ime /\ ime' = FALSE
  /\ frames' = <<pc>> \o frames
  /\ pc' \in Vectors

Next == Run \/ Call \/ Push \/ Pop \/ Return \/ Restart \/ Interrupt

Spec == Init /\ [][Next]_vars
=============================================================================
