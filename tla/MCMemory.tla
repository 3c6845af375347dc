------------------------------ MODULE MCMemory ------------------------------
(***************************************************************************)
(* Instances for TLC of the three components behind the program's reads    *)
(* and stores that share no state: the address bus, the cartridge and the  *)
(* controls.  In a behavior one of them runs, from each of its initial     *)
(* states, and the others rest.                                            *)
(*                                                                         *)
(* The address bus has two bytes to a page and each part of the map one    *)
(* page long: ROM 0-3 of which boot ROM 0-1, video RAM 4-5, cartridge RAM  *)
(* 6-7, work RAM 8-11 of which 8-9 echoed at 12-13, OAM 14-15, registers.  *)
(***************************************************************************)
EXTENDS AddressBusProperties, MCControllers, MCJoypad

MCBootRom == [address \in {0, 1} |-> 5 + address]

\* Two banks of a cartridge, which differ in ROM and in RAM.
MCCartContents == {[address \in CartAddress |-> bank] : bank \in {1, 2}}

\* The cartridge; work RAM and its echo; DMA from the boot ROM, the cartridge
\* RAM, the work RAM, and from the first page that is refused; STAT, LY, DIV
\* and the lock of the boot ROM.
MCStores ==
  {<<2, 0>>, <<8, 3>>, <<9, 0>>, <<12, 0>>, <<13, 4>>}
    \cup ({REG_DMA} \X {0, 3, 4, 6})
    \cup ({REG_STAT, REG_LY} \X {0, 7})
    \cup ({REG_DIV, BOOT_ROM_LOCK} \X {0, 1})

MCSkipBootStores == [reg \in {REG_DIV, REG_DMA, BOOT_ROM_LOCK} |->
                       IF reg = REG_DMA THEN 7 ELSE 1]

-----------------------------------------------------------------------------
VARIABLE running

BusRests == memory = Zeros /\ cart = CHOOSE contents \in CartContents : TRUE
CartridgeRests == controller = "MBC0"
ControlsRest == REG_JOIP = {}

MCInit ==
  /\ BusInit /\ Init /\ HInit
  /\ \/ running = "bus" /\ CartridgeRests /\ ControlsRest
     \/ running = "cartridge" /\ BusRests /\ ControlsRest
     \/ running = "controls" /\ BusRests /\ CartridgeRests

MCNext ==
  /\ \/ running = "bus" /\ BusNext /\ UNCHANGED <<vars, hvars>>
     \/ running = "cartridge" /\ Next /\ UNCHANGED <<busVars, hvars>>
     \/ running = "controls" /\ HNext /\ UNCHANGED <<busVars, vars>>
  /\ UNCHANGED running

MCSpec == MCInit /\ [][MCNext]_<<busVars, vars, hvars, running>>
=============================================================================
