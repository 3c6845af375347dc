------------------------------- MODULE MCCPU -------------------------------
(* Instances of the processor for TLC. *)
EXTENDS CPUProperties

MCVectors == [i \in INTERRUPT_ID |-> (i + 1) % AddressSpace]
=============================================================================
