------------------------------- MODULE Types -------------------------------
(***************************************************************************)
(* Names shared by every component (src/src/types.hpp and the enums of     *)
(* ppu.hpp).                                                               *)
(***************************************************************************)
EXTENDS Naturals

\* Bits of the IF and IE registers, in order of decreasing priority.
INTERRUPT_VBLANK == 0
INTERRUPT_STAT   == 1
INTERRUPT_TIMER  == 2
INTERRUPT_SERIAL == 3
INTERRUPT_JOYPAD == 4

INTERRUPT_ID == INTERRUPT_VBLANK .. INTERRUPT_JOYPAD

\* The four values of bits 1-0 of STAT.
PPU_MODE == {"H_BLANK", "V_BLANK", "OAM_SCAN", "DRAWING"}
=============================================================================
