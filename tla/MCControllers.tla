--------------------------- MODULE MCControllers ---------------------------
(* Instances of the cartridge for TLC. *)
EXTENDS ControllerProperties

\* 0 to 3, the value that enables the RAM, which is a register of the clock
\* of MBC3 as well, and a bank that is neither RAM nor clock.
MCValues == {{}, {0}, {1}, {0, 1}, {1, 3}, {2}}

\* Zero, which selects bank 1, and bank 2 with a bit that is masked.
MCRomValues == {{}, {1, 7}}
MCData == {{}, {0}}
=============================================================================
