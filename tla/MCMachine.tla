----------------------------- MODULE MCMachine -----------------------------
(* Instances of the whole machine for TLC. *)
EXTENDS MachineProperties, MachineParts

MCVectors == [i \in INTERRUPT_ID |-> 0]
MCFastRates == [s \in 0 .. 3 |-> 2]

\* All released, or the first control pressed.
MCStatuses == {0 .. 7, 1 .. 7}
=============================================================================
