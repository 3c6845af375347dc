# A TLA+ model of the Game Boy emulator

This directory holds a formal model of the emulator in `src/`: TLA+ modules for
its components, TLC configurations that check them on small instances, and proofs
that TLAPS checks for every value of the constants. `PROJECT.json` maps every
definition to the lines it stands for and lists runs, mutants, hazards, findings
and theorems.

## 1. The system

The emulator is a synchronous machine inside an event loop. `Gameboy::machineClock`
steps three components in a fixed order, timer unit, CPU, PPU, each of which reads
and writes one shared array, the address bus. `Frontend::mainLoop` calls it over and
over, and once per 17556 clocks polls the window's events and draws the screen.
There are no threads. What makes it hard is *shared registers* (IF is written by all
components, STAT, LY and DIV by two of them), *counters that must stay in step* with
one another, *events handled later than they happen*, and *sessions* that are
connected only by a save file.

| Component | State | Operations | Talks to | What is hard | What makes it correct |
|---|---|---|---|---|---|
| Timer unit (`TimerController`) | `clockCount`, DIV, TIMA, TMA, TAC | `machineClock`; stores of the program | IF | residues of one free-running counter, wrap-around, reload on overflow | exact period, DIV in step with the clock, a running timer fires for ever |
| CPU: control (`cpu.cpp`, `opcodes.hpp`) | PC, SP, the stack in memory, IME, `halted`, `crashed`, `busyCycles`, IE, IF | one instruction, dispatch, wake-up, count-down per clock | bus, IF | interrupts between any two instructions, several at once, HALT with IME off, cycles counted down clock by clock | the stack is LIFO, no request is lost, highest priority first, bounded latency, instructions take their cycles, HALT ends in time |
| CPU: arithmetic (`opcodes.hpp`) | A to L, flags | ADD to DAA, shifts, bit and flag instructions | bus for (HL) | one sum computed in several places, carries between words, a flag read back from memory | the instructions agree with one another; chains of them compute with wide numbers; DAA is decimal |
| PPU: timing (`ppu.cpp`) | mode, LY, LYC, line counter, once-per-line STAT filter, sprite buffer, frame count | `machineClock` per mode, `lineEndLogic` | IF, STAT, LY, OAM | boundaries of modes, lines and frames; registers stored to at any clock | mode follows the beam, every row once per frame, one V-Blank per frame, one STAT request per line, sprite limit and order |
| PPU: pixels (`ppu.cpp`) | background and window line buffers, sprite buffer, `screenBuffer` | prepare a line, draw it, scan OAM | video RAM, OAM, palettes | buffers that outlive a line, wrap-around of the map, registers stored to between scan and drawing | each pixel is the one that maps, window and sprites describe |
| Address bus | 64 kB of memory | `read`, `write` with the writer's identity, DMA | cartridge, boot ROM, all components | overlays, echo, protected registers, DMA through the overlays | echo mirrors, registers change only by their owners, DMA copies what is read |
| Cartridge: MBC1, MBC3 | bank registers, mode, RAM enable, RAM | `read`, `write` of ROM and RAM windows | bus | bank arithmetic, addressing modes over one RAM, stores that fall through | two windows into ROM, one into RAM, no word lost or mixed |
| Cartridge: MBC0 | none | reads; stores are ignored | bus | out of range reads | the same windows as the others, fixed |
| Cartridge: header | none after construction | parsing | - | - | - |
| Joypad (`Gameboy::setJoypad`, JOIP) | `joypadStatus`, JOIP, IF | report, select, read | frontend, bus | one register for the program's selection and the frontend's report | the selected group is read |
| Machine (`Gameboy`) | all of the above | `machineClock`, `setJoypad`, `skipBoot` | frontend | order of the components, shared IF | one handler per V-Blank, in time; HALT ends in time |
| Frontend | main loop, draw counter, speed cap, window, save file | clock, poll, handle an event, draw, load, save | Gameboy, window, disk | events seen late, failing saves, crashes, restarts | whole frames, saves resume, controls follow the keys, the loop never starves |
| Real-time clock, serial port, debug printing | - | - | - | not part of the emulated behaviour, or a placeholder | - |

`PROJECT.json` lists the hazards of this code at the lines where they bite; the
properties were chosen to cover them.

## 2. Modules

```
Types            interrupt numbers, PPU modes
Raster           abstract: a beam over lines and columns
PPU              -> PPUProperties -> PPUProofs, MCPPU
CallStack        abstract: a stack of 16-bit frames with interrupts
CPU              -> CPUProperties -> CPUProofs, MCCPU
TimerController  -> TimerProperties -> TimerProofs, MCUnits
Joypad           -> JoypadProperties -> MemoryProofs, MCJoypad, MCMemory
Machine          composes TimerController, CPU, PPU, Joypad
                 -> MachineProperties, with MachineParts
                 -> MachineProofs, MCMachine
Arithmetic       the operators of the instructions that compute
ALU              -> ALUProperties -> ALUProofs
Pixels           -> PixelProperties -> PixelProofs, MCUnits
BankedMemory     abstract: two windows into ROM, one into RAM
Cartridge        what every cartridge has
MBC1             -> MBC1Properties, proved in MemoryProofs
MBC3
Controllers      the cartridge in the machine, with MBC0, MBC1 or MBC3
                 -> ControllerProperties -> MemoryProofs, MCControllers, MCMemory
AddressBus       -> AddressBusProperties -> MemoryProofs, MCMemory
Frontend         over the beam of Raster
                 -> FrontendProperties -> FrontendProofs
```

`X` holds the state and the actions, `XProperties` what is claimed (with history
variables that only observe, and a specification `HSpec` that adds them), `XProofs`
the theorems, `MCX` the instance for TLC (`ALU` and `Frontend` need none: their
constants are written in the `.cfg`). `MCUnits` and `MCMemory` instantiate components
that share no state, the timer unit and the drawing of lines, and the bus, the cartridge
and the controls: in a behaviour one of them runs (`running`), from each of its initial
states and with its own fairness, and the others rest. A definition `Mut_...` is a plausible
mistake in the definition after it; it is not part of the model and is used to see
that a property notices the mistake. `MemoryProofs` holds the theorems of all that the
program reaches through the bus: `AddressBus`, `Controllers` and `Joypad`. The three share
no state and keep their own specifications there (`BusSpec`, `Spec` and the controls'
`HSpec`); MBC1 alone is an instance in it (`mbc1`).

**How modules correspond to the code.**

* `PPU`: `PPU::machineClock` is split into one action per path (`OamScanClock`,
  `DrawCurrentLine`, `DrawingClock`, `EnterHBlank`, `BlankClock`, `EndLine`);
  `lineEndLogic` is one operator with the order of the code: enter the new mode,
  request, compare LY with LYC, set or reset the filter. STAT is three variables
  (mode, enable bits, LYC flag). Between two clocks the program may store to STAT,
  LYC, OAM, LCDC's sprite size and IF. `screenBuffer` keeps, for each row, the frame
  that last wrote it instead of 160 colours.
* `CPU`: `CPU::machineClock` is one action per path (`CrashedClock`, `BusyClock`,
  `DispatchInterrupt`, `WakeUp`, `HaltedClock`, `executeCurrentInstruction`). There
  is no fixed program: whenever an instruction is fetched it may be any. The
  instructions that jump, push, pop, halt, crash, or touch IME, IE or IF are modelled
  one by one; the others keep only length and cycles.
* `Arithmetic` has one operator per function of `opcodes.hpp` that computes, returning
  value and flags; `ALU` has one action per instruction, on A and F. The other registers,
  immediate operands and the memory hold any word, so an instruction on B or (HL) leaves
  its flags and forgets its value. INC, DEC and SWAP of (HL) take their Z from what the
  location answers after the store (`readBack`).
* `Pixels`: `drawCurrentLine` with the loops it calls, one line at a time. When it is
  called is `PPU`'s business; here the line is scanned and drawn, and at any moment in
  between the program stores to registers, video memory or OAM. A tile line is two sets
  of bits, a colour a number.
* `TimerController`: one action per clock, one per register store.
* `Joypad`: `setJoypad`, the store to JOIP and `AddressBus::getJoypad` as an operator.
  Registers are sets of bits.
* `Machine`: instances of the four with shared IF; `phase` says whose turn it is
  within a clock, as `Gameboy::machineClock` calls them one after the other. A store
  of the program to another component's register happens in the CPU's turn. Controls
  are reported only between two clocks, because `Frontend` calls `setJoypad` outside
  `machineClock`.
* `Cartridge`, `MBC1`, `MBC3`, `Controllers`: words and bank numbers are sets of bits,
  so masks are intersections, as in the code. A byte of ROM is its bank and offset. MBC0
  has no state and a step of it changes none (`Controllers!Mbc0Step`). An access beyond a vector is a choice over any word, no effect, or the end of the
  program. `NDEBUG` says whether assertions are compiled in.
* `AddressBus`: `read` and `write` with the writer's identity, over a memory map given
  by constants in the order of `types.hpp`; the cartridge is whatever it answers now.
* `Frontend`: the main loop with its event handler, over any number of sessions. The
  machine it clocks is the beam of `Raster`, which `PPU` is shown to implement. A save
  is two steps, opening (which truncates) and writing, each of which a crash may
  follow. Keyboard, event queue and disk are external.

## 3. Runs

Every passing run is exhaustive over its instance; `PROJECT.json` names a mutant of
the code's model for each property, which TLC rejects under the same configuration.

| Run | Instance | Shows |
|---|---|---|
| `units` | the timer unit: registers of four values, clock counter wraps at 16, four rates roughly in the code's proportions. Pixels: tiles of 2 x 2, maps of 3 x 3 tiles, a screen of 4 x 3, three sprites of which two fit on a line, registers at their edges | between stores the timer interrupt comes exactly every (256 - TMA) x rate clocks; DIV follows the clock through both wrap-arounds; a running timer fires for ever. A drawn line shows the maps of that moment, with nothing left of an earlier frame or window line; where sprites are, the last visible one in the buffer shows |
| `ppu` | four lines of five clocks, two of them V-Blank; four sprites scanned in two clocks, one per line | the mode follows the beam under every store; the PPU implements `Raster`; rows in V-Blank belong to one frame; one STAT request on a line that matches LYC or lies in V-Blank; a program that waits for LYC alone waits no longer than a frame and a line (`LineInterruptInTime`); sprites have a row on their line and are the first in OAM |
| `cpu` | words of two values, stack of two frames, V-Blank and timer interrupts | memory, SP and PC implement `CallStack`; a request leaves IF only by a store or its own dispatch, by priority; latency; V-Blank is not starved |
| `machine` | three lines of four clocks, V-Blank longer than the longest instruction; timer overflows on each tick; two states of the controls | at most one V-Blank handler per V-Blank, started early in V-Blank; a processor halted until V-Blank goes on within a frame, one halted until the timer within its longest period (`HaltEndsInTime`); inside the machine timer, PPU and CPU implement the specifications of their own modules (`ComponentsFit`): their environments were general enough, and what is checked and proved of a component's safety alone holds of it in the machine |
| `alu` | words of eight bits; every state of A and F, operands at the edges of nibbles, digits and signs | ADD, SUB, CP, INC, DEC, shifts and rotations agree with the instructions they are special cases of; chains through C compute 16-bit sums, differences, doubles and halves, as ADD HL and ADD SP do; DAA corrects sums and differences of decimal words |
| `memory` | the bus: each part of the map one page of two bytes. The cartridge: 64 kB of ROM, four banks of RAM of one byte, MBC0, MBC1 and MBC3 in a Release build. The controls: four in every combination, every selection | work RAM and echo agree; STAT, LY and DIV change only by their owners; DMA copies what the program would read, overlays included. All controllers implement `BankedMemory` under every order of stores, but for the exceptions `ControllerProperties` names; the windows of MBC1 show banks that exist. The selected group of controls is read as long as nothing was reported in between |
| `frontend` | three lines of four clocks drawn once per frame; two controls and both command keys, two events waiting, two changes of RAM | whole frames, none left out; a session resumes from the last closed one; the window keeps being drawn; the controls are the keys held whenever no key event waits (`ControlsFollowKeys`) |

Five more runs end in a counterexample, each to something a comment, an assertion or a
document says:

* `cpu_cycles`: the README (line 31) says that execution is "delayed by the correct amount
  of cycles", `cpu.hpp:165` speaks of the cycles "an instruction is supposed to take", and
  `cpu.cpp:312` of five for the interrupt routine. The clock that executes is not counted
  among them (`cpu.cpp:380`), so N cycles take N + 1 clocks.
* `ppu_filter`: "At most one stat interrupt per line" (`ppu.cpp:247`, and `ppu.hpp:78`).
  A line whose OAM scan requests one requests another at H-Blank, because the filter is
  opened again after the new mode was entered (`ppu.cpp:141`). Where the filter does hold,
  run `ppu` checks that there is one (`FilteredLinesRequestOnce`).
* `controllers_high`: with a ROM of 1 MB or more, `MBC1::getHighBank` takes the
  intersection of disjoint masks (`mbc1.hpp:107`) and the switchable window shows
  bank 0, where `mbc1.hpp:105` means "Exactly 2MB ROMs" to work.
* `controllers_mode`: MBC1's branch for the mode register has no return and goes on to the
  RAM store (`mbc1.hpp:155`), which the assertions at `mbc1.hpp:159` mean never to happen:
  in a Release build the word lands in the RAM as well.
* `joypad_hold`: a report of the frontend is stored over the program's selection
  (`gameboy.cpp:160`), so the next read may be of the other group.

Other disagreements met while modelling, for which the properties state what the code
does:

* the LYC=LY flag is set only if the LYC interrupt is enabled as well and cleared
  otherwise (`ppu.cpp:132` and `:140`), where `ppu.cpp:130` says it is set when the
  values are equal;
* an enabled LYC match is silent on a line that begins with the filter shut
  (`ppu.cpp:248`);
* INC, DEC and SWAP of (HL) take Z from a second read, so for ROM or DIV it is not that
  of the result (`opcodes.hpp:610` against `cpu.hpp:64`; `InstructionsAgree` is about RAM);
* upside-down sprites are drawn a row off (`ppu.cpp:393`), sprites that begin left of the
  screen not at all (`ppu.cpp:410`, known to the Todo at `:358`), and a sprite's priority
  is decided by the unscrolled background (`ppu.cpp:421`); `SpritesCover` is about the
  others (`Upright`). The window is drawn without the palette BGP (`ppu.cpp:278`), and
  `LineShowsMaps` says so;
* a save interrupted between truncation and writing leaves a file that
  `loadBatteryBackedRAM` refuses (`frontend.cpp:150`; `Frontend!CanLoad`);
* a key pressed and released between two polls is never reported (`frontend.cpp:58`).

**Bounds.** A frame needs a visible line, a last visible line, a V-Blank line and the
wrap to the first; a line needs a clock in each mode and, for the scan, two sprites of
which one is too many; one of the sprites of `MCPPU` is on a line at double height
only, the other at both. All comparisons in the code are with the constants
the instances shrink, and the proofs of section 5 show the safety part for every value.
Words of two values tell the bytes of an address apart, and two frames are enough for a
call inside an interrupt. Arithmetic is checked on the code's own words
of eight bits: A and F take every value a program reaches, the invariants range over every
second operand, `Operands` bounds what the program itself uses and `Samples` the words that
16-bit numbers are made of. The pixels' instance has a map wider and higher than the
screen, a window that can begin left of it, in it or right of it, and both values of
each LCDC bit (`MCUnits`); `RegisterWrites`, `VramWrites` and `OamWrites`
bound the stores. The timer's `ClockWrap` is a multiple of every rate as 2^64 is.
One byte in a bank of RAM keeps the four banks, two addressing modes and every register
store of the cartridge in one instance; two bytes are in the violation runs and any number
in the proof. Bounds on
the environment are named in the modules: `MaxEvents`, `MaxRamChanges`, `StackBytes`
with `CanPush` and `CanPop` (a program keeps its stack where it put it), `StatWrites`,
`LycWrites`, `SpriteWrites`, `Stores`, `Values`. The draw interval of the instance is
its frame, 3 x 4, as 17556 is 154 x 114 in the code. `CHECK_DEADLOCK FALSE` is used for
`frontend`, because with a truncated save file no session can start again, and for the two
runs of the cartridge in which an access out of bounds may end the program.

**Fairness.** The main loop clocks the machine for as long as the window is open, so
each component has weak fairness on its clock (`WF_vars(machineClock)`), the machine on
the whole clock, and the frontend on its own steps (`Step`). Nothing is assumed of the
program, the user, or the requests of other components: where a property needs them to
settle it says so as a premise (`LeftRunning`, `EventsCease`, `StaysOpen`). Where the code bounds a wait,
the property is the bound and needs no fairness: `LineInterruptInTime`, `HaltEndsInTime`,
`HandlerStartsInVBlank`, `DispatchLatency` count clocks.

## 4. Abstract specifications

* `Raster`: the beam alone decides mode, rows painted and V-Blank requests. `PPU`
  implements it with LY as the line and the clock counter as the column.
* `CallStack`: the frames read back from memory two bytes at a time are a stack, and an
  interrupt returns to the instruction it displaced.
* `BankedMemory`: two windows into ROM, one into RAM, cells that change only through an
  open window; a bank or cell the cartridge lacks returns any word, stores nothing and may
  end the program. The bank registers of either controller are mapped to the windows.
  Every step of the code is a step of it, except a mode store of MBC1 that falls through and
  the failing assertions of a Debug build, which `ImplementsBankedMemory` lists beside it
  (`ModeStoreFallsThrough`, `AssertionFails`).
* `MachineParts`: the module of each component is the abstract specification of its part
  of `Machine`.

## 5. Proofs

All proofs are for every value of the constants under the assumptions their modules name
(`TimingAssumption`: OAM scan, drawing and line end in this order, at least one visible
line and one V-Blank line; `SpriteAssumption`; `CpuAssumption`; `RatesAssumption`;
`StatusesAssumption`; `ArithmeticAssumption` and `AluAssumption`; `CartridgeAssumption`;
`MapAssumption`: the parts of the memory map in the order of the code;
`MachineAssumption`: the interrupts there are include those the machine requests;
`VBlankAssumption`: the picture's sizes in order as above, V-Blank longer than the longest
instruction, as 1140 clocks are; `PeriodAssumption`: each rate divides the wrap-around of
the clock counter, and even the fastest timer takes more than a clock to overflow, as
256 x 4 clocks are;
`FrameAssumption`: the draw interval is the frame, as 17556 is 154 x 114;
`PixelAssumption`: a screen no larger than a map, as 160 x 144 in 256 x 256 is). TLC evaluates each of them on the
instances of section 3.

* `PPUProofs`. `BeamInv` = `TypeOK` and `ModeFollowsBeam` is inductive (types alone are
  not: LY stays in range only because the mode is the beam's). From it follow
  `TypeCorrect` and `ModeIsBeamMode`. `FrameComplete` needs `PaintedBehindBeam`, rows
  above the beam belong to this frame and rows below it to the frame before.
  `RefinesRaster` maps every step to a step of `Raster` or a stutter. `SpritesOnLine`
  carries the sprite rows through the scan and needs that LY does not change while the
  buffer is in use. `FilteredOnce` is over the specification with the history variable; its
  strengthening `FilterInv` relates the number of requests so far to the filter and the
  LYC flag. `ScanCorrect` is an induction over the clocks of the scan: what is kept are the
  first sprites on the line among those looked at so far, and each of the two looks of a
  clock extends that by one number (`ScanOne`); a store to OAM or to the sprite size ends
  the claim for the line, as the property says. `LineInterruptBound` counts down: the clocks
  waited and those left to the next match are at most a frame and a line, and at most a
  line if this line began with the filter shut and the next one is the match (`WaitInv`);
  a match that raises nothing found the filter shut, so it is of the second kind, and leaves
  a whole frame to go.
* `PixelProofs`. `MapsShown` and `SpritesShown`: the line buffers hold
  the map's colors in the order of the line (`MapLine`, over lemmas on quotients, because
  tile and pixel are computed by division and wrapped before it), the window's words are of
  this line wherever they are shown (`WindowBehind`), and the row after n sprites shows the
  last visible of them (`LastWins`). The two loops are recursive functions; that they exist
  and what they compute is shown with `NatSet`, induction stated over a set of numbers,
  which needs no operator as a parameter.
* `CPUProofs`. `CpuInv` adds to `TypeOK` that there is room on the stack for an
  interrupt while they are accepted. `RequestsLeave` is an action property: only
  stores and dispatch clear IF, and dispatch the chosen interrupt only. `LatencyBound`
  strengthens the latency to: waiting time plus clocks left is at most the longest
  instruction.
  `RefinesCallStack` maps every step to one of `CallStack`: SP stays even (`StackInv`),
  so a push or a pop touches the two bytes of one frame and the frames below are the
  same sequence without its first element.
* `TimerProofs`. `TypeCorrect`; `DivCorrect`: DIV and the quotient of the clock counter
  keep their distance through the wrap-around of either; `PeriodExact`. The strengthening
  of the last, `PeriodInv`, says that each tick since the last request has added one rate
  to the clocks counted and that the clock counter holds the remainder. It rests on two
  lemmas about quotients, and on every rate dividing `ClockWrap` (`RatesAssumption`).
* `ALUProofs`. `TypeCorrect`: results are words and no bit of F beyond the four flags is
  ever set. `AgreeCorrect` and `WideCorrect` hold for every size of nibble and word: each
  instruction is shown to leave the exact result minus its carry times the word size, and
  the chains add these equations up. `DecimalCorrect`: after an addition or a subtraction of
  two decimal words DAA leaves the decimal result and its carry, for every size of nibble
  and every base that fits in one: each digit is corrected by itself, and the half carry
  carries from the lower to the upper.
* `MemoryProofs`, the cartridge. `Mbc1TypeCorrect`, for every size of ROM and RAM and both builds,
  and `Mbc1Windows`, whose strengthening is that the ROM bank register is never 0, are
  about MBC1 alone. `WindowsCorrect` carries the windows over to the cartridge in the
  machine. `RefinesBankedMemory` is the refinement of `BankedMemory` by all three
  controllers, without a premise: for every size of bank, every size of ROM and RAM, both
  builds and every store of the program. It is shown controller by controller: which bank,
  which offset and which cell an address is, by division with remainder; that the window
  MBC1 computes from its two registers is one the ROM has whatever they hold; and where
  the RAM ends inside a bank, the accesses past its end.
* `MemoryProofs`, the bus and the controls. `EchoesAgree` needs that neither part of the
  echo overlaps a register or the OAM, which `MapAssumption` gives; `TransfersCopy` that a page DMA
  accepts never reaches the OAM. `TypeCorrect` follows a transfer through the overlays.
  `OwnersKeep`: no address is echoed onto a register, so each register changes only in a
  store to itself, and there the writer's identity decides. `SelectionRead` is about JOIP, for every set of
  controls.
* `MachineProofs`. `OneHandler` and `HandlerInTime` are about the specification with
  history variables, over all phases of a clock. For the first, a V-Blank whose handler
  was taken leaves no request behind (`HandlerInv`): the only request of V-Blank comes
  as the beam enters it. For the second, as long as the interrupt is wanted and not yet
  served, its age in clocks is the number of clocks the beam has been in V-Blank, and
  this age and what is left of the running instruction are together no more than the
  longest instruction (`AgeInv`); so the handler starts before the beam can leave, which
  `VBlankAssumption` says of the sizes. `HaltEnds` is about three components at once
  (`HaltInv`): while V-Blank is not requested, the clocks slept are no more than those the
  beam counts since the last V-Blank (`VBlankWakes`); while the timer is not, the clocks
  slept and those it still needs are no more than its longest period (`TimerWakes`); and a
  request leaves a sleeping processor only the clock it is in, because no program runs
  that could take it back and the first clock after HALT is the only busy one (`SleepInv`).
  That the beam and the timer keep the time needs their own invariants (`BeamInv`,
  `TimerInv`) and lemmas on remainders and products. `MachineFits` is the safety part of
  `ComponentsFit`: every step of the machine is, for timer unit, CPU and PPU, a step of
  their own specification or a stutter. What is proved of a component's safety alone
  therefore holds in the machine. `MachineShowsRaster` goes one level up: the steps of the
  machine are those of `Raster`, with the beam moving once per clock, after the turn of the
  processor. (`Machine` numbers all frames alike; which frame a row belongs to is proved of
  `PPU` and `Frontend`.)
* `FrontendProofs`. `WholeFrames`: the clocks counted since the last draw are the place of
  the beam in its frame, rows above it belong to this frame and rows below to the one before
  (`FrameInv`). `Resumes`: a file that is whole holds the last save, which is the RAM as it
  was when that session was closed, whatever crashed in between (`SaveInv`).
  `ControlsCorrect`: a step that changes the keys leaves a key event in the queue, and one that
  takes a key event away reports the keys as they are then, unless a command key is down; so the claim is an invariant with the types (`Taken`, `Queued`).

Left to TLC, because the prover does not do it: liveness under fairness
(`VBlankTaken`, `TimerKeepsFiring`, `KeepsDrawing`), and with it the fairness that
`ImplementsRaster` and `ComponentsFit` ask for beyond the steps proved here. Every
invariant and every action property of a passing run is proved.

## 6. Not modelled

* What moves words between registers and memory without computing (LD of the other
  registers, LDH): `ALU` lets the other registers hold anything instead.
* The bus of a machine without a cartridge: `AddressBus` always has one, so a read's 0xFF
  (`address-bus.cpp:83`) and a store's `runtime_error` (`:101`) for want of one have no
  counterpart.
* In `Machine`, initial values that only skipBoot leaves: IF = 0xE1 (`gameboy.cpp:103`) and
  its DIV. The shared IF starts empty, as it does through the boot ROM; `CPU` and
  `TimerController` alone start from these values too, and the properties of `Machine`
  count from a V-Blank or a HALT, not from the start.
* The read of RAM from an MBC0 cartridge (`mbc0.hpp:20`).
* A write to the save file that fails after the file was opened.
* Serial port (a debugging placeholder), debug printing, the unused real-time clock.
* The parsing of the header: the sizes it yields are constants. ROM files shorter than
  their header says.
* Real time: a turn of the main loop in which too little time has passed is a stutter.
  The speed toggle is modelled, but nothing documented depends on it, so no property is
  about it.
* `scripts/cpplint.py` is a copy of a third-party program that checks the style of C++
  files and is no part of the emulator, though it is the longest file here.
* Build files, tests, bundled libraries, test ROMs.

## 7. Plan

Done, in this order, most important first: `PPU` with `Raster`; `CPU` with `CallStack`;
`TimerController`; `Joypad`; `Machine` over the four; `Frontend`; the cartridge with
`BankedMemory`; `AddressBus`; `ALU`; `Pixels`; MBC0; proofs of the safety properties of all
of them.

Next, modelling: sprites and DMA in `Machine`, with `AddressBus` in place of the
components' own registers.

Next, proofs: `Machine` as an implementation of `CallStack`, which `MachineFits` and
`RefinesCallStack` together say but no single theorem does (the prover cannot cite the
theorems of an instance).
