---------------------------- MODULE MachineParts ----------------------------
(***************************************************************************)
(* The machine against the modules of its components: next to the others,  *)
(* each behaves as its module says it does alone, and what that module     *)
(* assumes of the accesses of the others is what they do.  This is what    *)
(* carries the properties checked and proved of a component alone over to  *)
(* the machine.                                                            *)
(***************************************************************************)
EXTENDS Machine

\* The timer unit and the PPU look at their own interrupts only.
TimerAlone == INSTANCE TimerController WITH
  BootDIV <- 0, REG_IF <- REG_IF \cap {INTERRUPT_TIMER}
PPUAlone == INSTANCE PPU WITH
  FrameWrap <- 1, MAX_SPRITES_PER_LINE <- 0, MAX_SPRITE_HEIGHT <- 0,
  SHORT_SPRITE_HEIGHT <- 0, SpriteWrites <- {}, SizeWrites <- {},
  REG_IF <- REG_IF \cap {INTERRUPT_VBLANK, INTERRUPT_STAT}

\* The timer unit and the PPU are clocked for ever, and the others touch their
\* registers and interrupts only as TimerController and PPU let a program do;
\* to the processor, the others do nothing but request interrupts, and only
\* between two of its clocks.
ComponentsFit == TimerAlone!Spec /\ PPUAlone!Spec /\ cpu!Spec
=============================================================================
