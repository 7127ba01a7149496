# A TLA+ model of DKC2-Android-Port

This directory holds the specifications kept beside the code in `src/`: TLA+
modules translated from the C, Objective-C, Java and Kotlin sources, TLC
configurations that check them on small instances, and theorems about them
checked by TLAPS.

## 1. The system

The repository holds two programs that share a memory map and little else.

* The **bring-up core** (`src/src`, `src/include/dkc2`, `src/app`): an
  interpreter of the game's 65C816 code with a cycle scheduler, the CPU-visible
  registers, DMA and HDMA, an APU wrapper, a software PPU, a static analyser,
  and three command line tools.
* The **shipped host** (`src/runner`, `src/android`): the recompiled game in a
  desktop or Android application, with audio, presentation, save states,
  rewinding, an overlay, and the staging of the user's ROM. The recompiler's
  runtime (`Rtl*`, `g_snes`) is an external submodule that is not in the tree.

### Inventory

| Component | State | Operations | What is hard, what must hold |
| --- | --- | --- | --- |
| Scheduler and registers (`snes_io.c`) | beam, NMI and TIMEUP latches, timers, poll, controllers, multiply/divide unit, barrier | advance by an amount of master cycles; register reads and writes; set a controller; take an NMI | A call is cut at line ends while timers, poll and arithmetic run across them; nothing may be lost, doubled or early |
| Boot loop (`boot_main.c`) | step count, breakpoint count, wait state | serve an interrupt, wait a line, step, pay, leave | An NMI is served before the next instruction and the next VBlank; WAI ends; a barrier stops time |
| 65C816 interpreter (`execute.c`) | registers, waiting, stopped | step, NMI, IRQ, reset | Long instructions between two services; widths and stack under emulation |
| DMA and HDMA (`snes_io.c`) | eight channels: table address, line counter, repeat | start at `$420B`, initialise at the frame, run at HBlank | 64 KiB sizes, `$80` descriptors, a barrier half way through a line, writes in mid-frame |
| Band scan (`dkc2_hdma.c`) | none (a walk over a table) | scan a table into bands | Must agree with a line-by-line walk |
| Decoder and analyser (`decode.c`, `cpu.c`, `analyze_main.c`) | queue of points, visited points, edges, calls; what is known of E, M, X, C and the stack | decode, follow, queue, end a path | What it says of flags and stack must be true of every run; nothing may be dropped |
| Memory map (`bus.c`, `hirom.c`) | WRAM, SRAM, open bus | read, write | Mirrors and open bus |
| APU wrapper (`apu.c`, `snes_io.c`) | signed cycle balance | advance, ports | Rounding must not accumulate |
| PPU (`ppu_render.c`) | registers, memories | render a line | Pixel arithmetic |
| Host loop (`sdl_main.c`) | mode, audio queue, save slots, overlay | one turn of the loop | Save, load, rewind, fast forward and pause in any order; priming |
| Rewind history (`desktop_rewind.c`) | ring of snapshots | push, pop, reset | Wrap-around, popping across the wrap |
| Display link (`macos_display_link.m`) | tick count, thread | start, stop, wait, tick | Two threads; stalls; a display that stops |
| Pacer (`desktop_pacer.c`, `PaceFrame`) | measurements, lock, deadline | observe, reset, wait for a deadline | Late frames, lost locks, no burst afterwards |
| ROM staging (launcher, `MainActivity.java`, `android_main.c`) | `rom.sfc`, `rom.sfc.tmp`, preferences, phase shown | restore, pick, folder, clear, start, park | Three actors on one directory; a process may be killed between two file operations |
| Settings, diagnostics | settings and report files | load, save, rotate | In-place rewriting, delete then rename |
| Wide picture (`dkc2_game.c`, `dkc2_video.c`) | slide of the window and its age, west hold, level source, restored flag, readiness | draw a frame, load a state, change aspect or edge policy | Everything lags: the slide behind the camera, the culls by a frame, the source by a screen; nothing outside the level is shown, no object shown is released |
| Rest of video path and game glue, overlay widgets, ROM hashing, recording | pixels, runtime state, widgets, bytes | many | Sequential or dependent on external code |

The scheduler is called by the boot loop after each instruction and by the
registers only indirectly: registers change its latches between two calls. It
calls HDMA when a frame begins and at the HBlank of a visible line. The boot loop
hands a pending interrupt to the interpreter. The host loop calls the runtime
for a frame, the presenter, the audio device, the rewind history and the pacing.
The runtime's frame ends in the drawing of the wide picture, which leaves the
culls' slack for the game's next frame; loading a state resets it.
The Android launcher, the game's activity and the native thread communicate
through files, one flag and a request to quit.

The hazards, each at its line and with the properties that would catch it going
wrong, are in `PROJECT.json`.

## 2. Modules

| Module | Models | Role |
| --- | --- | --- |
| `SnesTiming` | `snes_io.c`: scheduler and registers | component |
| `FrameClock` | what a video clock promises: VBlank and timer positions on a ring | abstract specification, implemented by `SnesTiming` |
| `BootLoop` | `boot_main.c`'s timed loop, with the interpreter reduced to accesses, WAI, STP and the I flag | composition: extends `SnesTiming` |
| `Hdma` | `snes_io.c`: DMA and HDMA | component |
| `HdmaBands` | `dkc2_hdma.c`: the scan of a frame into bands | pure functions, compared with `Hdma` by `MCHdma` |
| `Decode` | `decode.c`, `cpu.c`: opcodes, lengths, flow, the abstract bits | pure functions |
| `Analyzer` | `analyze_main.c`: the walk | component: extends `Decode` |
| `AnalyzedRun` | `execute.c`: the analysed program being run | composition: extends `Analyzer` |
| `RewindRing` | `desktop_rewind.c` and the host's reset of it | component |
| `RewindStack` | a bounded stack | abstract specification, implemented by `RewindRing` |
| `HostLoop` | `sdl_main.c`: one turn of the shipped host's loop | composition: uses `RewindStack` with the machine as the caller's buffer |
| `FramePacing` | `macos_display_link.m`, `desktop_pacer.c`, `PaceFrame` and `WaitForDisplayTick` of `sdl_main.c` | composition of two threads and time |
| `WideFrame` | `dkc2_game.c`: drawing of an extended frame; `dkc2_video.c`: slide, margins, culls, hold | component |
| `RomStaging` | launcher, activity and native thread on the ROM's files | composition of three actors and the process's death |
| `MCSnesTiming`, `MCBootLoop`, `MCHdma`, `MCAnalyzer`, `MCHostLoop`, `MCFramePacing`, `MCWideFrame`, `MCHostParts`, `MCRomStaging` | | values of constants, history variables, properties about them |
| `SnesTimingProofs`, `BootLoopProofs`, `HdmaProofs`, `AnalyzerProofs`, `RewindRingProofs`, `HostLoopProofs`, `HostPartsProofs`, `RomStagingProofs` | | theorems; `HostPartsProofs` has those of pacing and wide picture, `BootLoopProofs` builds on `SnesTimingProofs` |

### SnesTiming

Time is counted in dots of four master cycles; every constant and amount in the
code is a whole number of dots. `dkc2_snes_io_advance_master_cycles` is a
`while` loop that cuts its argument at line ends. The call is the action
`Advance`, which puts the argument into `credit` (the local variable
`master_cycles`), and each turn of the loop is one `Segment`, in the order of
the code: beam and H timer, HBlank, poll, arithmetic, and at a line end
`begin_scanline` with VBlank and the timers of the line start. A register may
be touched only while no call is running. `h` and `v` are `h_counter` and
`v_counter`; `shift` keeps the latched word and the number of bits shifted out
in place of the shifted word; `mathOp` keeps captured operation and operands.

HDMA at HBlank is reduced to the only effect it can have on this state: it may
meet an unsupported transfer and set the barrier (`hdmaStops`). The APU, DMA,
rendering and counters kept for reports are left out. Bytes of 16-bit registers
are written one by one in the code; a write leaves some value of the register's
set, so intermediate values are members of that set. The buttons may change
between any two calls (`SetController`), which the interface allows; the one tool
in the tree sets them once, before its loop (`boot_main.c:284-285`).

### BootLoop

`phase` says where the thread is: at the loop's test, inside `dkc2_cpu_step`,
inside a call that advances time, or out of the loop. An instruction is its
accesses, each of which may be any register access of `SnesTiming`; afterwards
`Pay` turns their number into time, eight master cycles each. WAI, STP, the
breakpoint, the limit, an unimplemented opcode and a barrier are the loop's
exits. `DKC2_STEP_WAITING` is the phase `asleep`. The breakpoint's hit count is
abstracted: a breakpoint may hit at any turn.

### Hdma and HdmaBands

`Hdma` has the eight channels of `snes_io.c` on one bank of memory. What
`SnesTiming` decides, that a frame begins and that a visible line enters HBlank,
are its actions `BeginFrame` (`initialize_hdma`) and `BeginHBlank`. The loops
over the channels, `run_hdma_scanline` and `run_dma`, do one channel a step, so
that a transfer that cannot be done stops them half way as in the code:
`SkipChannel`, `EndChannel`, `WalkLine` and `BlockedLine` are the four ways
through the loop's body. Between two lines the program may write `$420B`, `$420C`
and of any channel `$43x0`-`$43x3`, `$43x5`, `$43x6` and `$43x8`-`$43xA`: the
pointer a channel under way reads its table from, and a line counter that is
only shown. The bank registers `$43x4` and `$43x7` are left out, since one bank
stands for all of memory. Tables and data do not change while they are walked:
neither the CPU nor a transfer writes the bank. A byte of a 16-bit register is
not told apart from the register.

`HdmaBands` is the other implementation of the same walk: before a frame is
drawn, the shipped renderer walks the tables and groups the lines into bands of
equal registers. It is a function of memory, configuration and registers; the
code's loops over lines and channels are recursive functions of the line and of
the channel (`FrameScan`, `LineWalk`). Of the
tracked registers those that one byte sets are kept (screen enables, `BGnSC`);
scroll offsets, which two writes and two latches put together, are left out.

`MCHdma` puts the two side by side. At `BeginFrame` it scans the tables; then
the lines are walked, and in each the band must hold the registers in effect.
`DescriptorOf`, `Covering`, `Transfers` and `UnitAddress` are a third view, a
reference: they say from the table alone which descriptor begins at which line
and which unit belongs to a line, without walking. `LinesFollowTable` and
`CountersTrackBeam` hold the walk against it. Both leave out a table with a
descriptor `$80` on a visible line (`HasLongest`): whether it means 128
repeating lines or one unit is what the finding below is about.

### Decode, Analyzer and AnalyzedRun

`Decode` has the 256 rows of `opcode_table` as length and flow, and
`dkc2_decode_state_apply` as `Apply`; its data are bytes and addresses of the
real size, since a length taken wrongly is the hazard. `Analyzer` is
`analyze_entry`: the outer loop takes a point from the queue (`TakePath`), the
inner one visits points until a path ends, one action for each case of its
`switch`. Points are compared as `point_equal` does, the depth included.
`start.return_depth` is never set and `return_stack_known` is false: `Garbage` is
what it may hold. Printing is left out; symbols only name addresses.

`AnalyzedRun` runs the same image on the processor of `execute.c` once the
analyser is done. Kept are the program counter, E, M, X and C and the bytes known
to lie on the stack: words that PEA, PER and calls push, the bank that JSL and PHK
push, the flags that PHP pushes, and data. Whatever arithmetic computes is left
open, so both ways of every branch are taken. So is where a store goes: STA, STX,
STY, STZ and the read-modify-writes may miss the stack or hit any byte of it, or two
neighbours when they are wide, and a block move any run of them (`Hits`). RTS and RTL
take their address from the stack, RTL its bank too. The opcode lists there are those of `execute.c`, not of
`Decode`: the two agreeing is what is checked and proved. The run stops where the analyser
claims nothing:

* at an instruction it printed as blocked, and at jumps and returns it does not
  resolve. `docs/ARCHITECTURE.md` says: "Indirect jumps and unknown stack effects
  end a path rather than inviting a guess";
* at the return of a callee that changed E, M, X, C or the stack pointer: the analyser
  prints that "post-call width state is assumed unchanged". A callee that stores over
  its caller's bytes may return, the bytes being lost to the run from then on;
* at a return through an address of which a byte was not seen pushed, or has been
  stored over since. For a word that the analyser knows this is a real gap in it:
  `track_stack_effect` (`analyze_main.c:315-370`) keeps the words across every store,
  and the edge it draws then is where the program would go had the store
  missed. Whether that is an unknown stack effect in the sense quoted is a matter of
  reading; nothing is claimed here of what such a program does;
* inside a callee, unless `--follow-calls` was given;
* at an XCE into emulation while S is outside page 1 and return words are known:
  the processor then moves S, and the analyser keeps the words.

Interrupts during the run, transfers by DMA onto the stack, programs that store into
their own code, and pushes that wrap in page 1 are not modelled: the analyser makes
no claim about them.

### RewindRing

`storage`, `count` and `write_index` as in the code; `popped` is the caller's
buffer. `Clear` is the host's assignment of zero to both counters on a load: the
storage keeps its old snapshots, which no pop may return.

### HostLoop

The emulated machine is external and deterministic, so its state is the
sequence of inputs it was given: two moments are of one play exactly when one
is a prefix of the other. A snapshot, a save file and a chunk of sound are each
the state they were made in. The history is the bounded stack that `RewindRing`
is shown to implement, instantiated with `popped <- machine`: the snapshot given
back is loaded at once. Audio is counted in chunks, one for a frame
(`kMaximumFrameAudio`); rate control, which stretches a chunk by a fraction of a
percent, is left out.

A turn is a `while` body of 380 lines; `phase` cuts it at the places between
which the device's thread (`DevicePull`) may take sound from the queue, and at
each frame of the inner `for`:

| Actions | Code |
| --- | --- |
| `Leave`, `BeginTurn`, `QuitFromOverlay` | loop test, events, controls, overlay and its actions, assist gate, save |
| `LoadState` | load: machine, audio reset, a history of its own |
| `ChooseMode` | speed, audio reset on a change, frames to run |
| `RewindFrame`, `RewindFails`, `NothingToRewind` | pop and restore |
| `RunFrame`, `RunFails`, `RunEnds` | a frame, its snapshot and its sound; stop of the runtime |
| `PresentFails`, `EndTurn` | priming, presenting, the choice to wait |

What the user does is any set of actions the overlay lets through. A save may
fail and leave the old file or a spoilt one; a load may fail; a snapshot, a
restore, a frame, the presentation and the audio queue may fail. Variables of
the turn are reset at its end, as the scope of the C variables says.

### FramePacing

The wait that ends a turn of the macOS host. `Tick` is the display's thread:
it counts and signals. `Elapse` is time, in units of which a frame has
`FramePeriod`. The host's `phase` is at the loop's test, at work on a frame, in a
wait for a tick (`waiting`), in the loop of `PaceFrame` (`pacing`), or showing a
frame at once (`unpaced`). `due` is the deadline counted from now.

The pacer's arithmetic is left open: once it has `LockObservations` intervals it
may lock to any of `Locks` ticks a frame, or to none, at every observation. Ticks
come at any time, early or late; a stall is an interval that is too long to be a
period. The sub-tick fraction of the deadline and condition waits that return for
no reason are left out. The link is started before the loop and stopped after
it, once each; whether there is one, and whether the lock is allowed, is `link`.

### WideFrame

On a wide screen the host shows margins beside the console's picture, slides the
picture away from a level's walls, and widens the window in which the game keeps
its objects. One `DrawFrame` is a frame of the game, which moves the camera, and
its drawing: `DrawLevel` for an extended screen, `DrawBounded` for any other.
`LoadState` is a state file or one step of a rewind; aspect and edge policy are
set between frames.

| Variables | Code |
| --- | --- |
| `biasValid`, `biasFrames`, `biasPresented` | `s_bias_*`; the age is saturated where it is no longer compared |
| `holdWest`, `holdCamera` | `s_hold_west_*` and `s_hold_camera_*`: a position, or `None` when its valid flag is down |
| `holdStartFrames` | `s_hold_start_frames` |
| `source` | the last level's signature and its valid flag |
| `stateLoadedRecently`, `terrainReady`, `presentationBias` | the statics of these names |
| `margins` | what was shown beside the window, which the code computes and returns |

The order in a frame is the code's: the slide is stepped first, then a new source
is noticed and slide and hold are forgotten, then the hold is read for the next
frame. The decoder of the level's map is reduced to its outcome, `refused`,
`partial` or `exact`, and the rows of the map to `EmptyColumns`, the sets of
columns that the visible rows may leave empty. Whether the player is pinned to
the window's edge is left open.

The cartridge writes its camera and the scroll of the PPU apart: "the WRAM camera
can lead hScroll by 1-3 pixels" (`dkc2_game.c:1827-1836`). Slide and margins are made
for the camera (`camera`, line 2140); the map is read, and the picture stands, where
the PPU renders, which is anywhere in `Rendered(camera)` and another place every frame.
`holdCamera` is that place, as `s_hold_camera_x` is. Tiles, colours and the choice of layers are left
out.

### RomStaging

`rom` and `tmp` are what lies at `rom.sfc` and `rom.sfc.tmp`: the supported ROM, a
file as long but not it, one too short, a copy that has not ended, or nothing.
Each coroutine of the launcher is a slot of `thread`, the main thread is `Main`;
`at` is the next file operation of a task and `rest` the candidates left. A
thread keeps a file it has opened when its path is deleted, renamed or opened
again: `holds` says where that file is. Results are reported on the main thread
(`Report`, `Resume`), which does nothing else while it copies or clears itself.

`verifyAndStage` of the launcher and `onActivityResult` of the game are the same
steps with different tests (`Takes`): the launcher hashes, the activity goes by
length. `native` is the SDL thread, from the wait for a first ROM to its end;
`Destroy` and `Joined` are `onDestroy`, which asks it to quit and joins it.

`Crash` is the process being killed and started again at any step: files and
preferences stay, coroutines and the game are gone, the system may still deliver
the launcher's picker. Left out: the launcher being left altogether, which
cancels its tasks; the delay of writing preferences; `rescan`, which nothing
calls; files too short among the launcher's picks, which are refused like bad
ones. Deleting and renaming fail only when the file is not there. The cached path
`rom.cfg` is always that of `rom.sfc`, so it only shortens the wait in `Poll`.

## 3. Runs

| Run | Question | Result |
| --- | --- | --- |
| `timing` | Do beam, latches and poll work at every cut of every call, under every timer setting? Does the scheduler implement `FrameClock`? Is the arithmetic unit's result that of the last operation started, and never seen half done? Do the shift registers follow host, program and poll? | holds |
| `timing_nmi_edge` | Is NMI edge-latched, as `snes_io.h:157` says? | **violated** |
| `boot_loop` | Is an NMI served before the next instruction and the next VBlank? Does a barrier stop time and end the run? Does WAI end? | holds |
| `hdma_lines` | Does every line get the units its table lists, whatever is written between the lines? Do the counters keep step with the beam behind a blocked channel? Does the scan foresee the lines? | holds |
| `hdma_128_lines` | Does it also with the descriptor `$80`? | **violated** |
| `analyzer` | Has the analyser been wherever a program gets until its run stops, behind calls into another bank and stores onto the stack too, with nothing false said of flags and stack? Is every step an edge? Is anything dropped? | holds |
| `host_loop` | Do history and sound belong to the play the machine is in, through saves, loads, speeds, overlay and failures? Is there silence when time does not run at its own speed? Does a turn that does not wait run a frame? | holds |
| `host_parts` | Is the ring a bounded stack? Does pacing never hurry after a miss, show one frame a tick, miss no tick it waits for, and always end? Does the wide picture stay inside its level but for the PPU's distance from the camera, do the culls keep what it shows, and does a restored level enter no hold as if it started? | holds |
| `wide_hold` | Does a level's start always enter its hold? | **violated** |
| `display_lock` | Does the lock last on a display with two ticks a frame? | **violated** |
| `rom_staging` | Is what is staged whole and accepted, unless tasks meet? Is a replaced ROM the one played? Do validation and the main thread's join end? | holds |
| `rom_race` | Does "Dados prontos" mean that the engine takes the file, also when tasks meet? | **violated** |

**NMI edge.** `snes_io.c:1131` raises `nmi_pending` on every write of `$4200`
with bit 7 set while `nmi_flag` is up, not only on a write that turns the bit
on. A program that rewrites `$4200` in its handler before it reads `$4210`
serves one VBlank twice. `include/dkc2/snes_io.h:157` and
`docs/TIMING_AND_INTERRUPTS.md:68` say that NMI is edge-latched.

**Descriptor `$80`.** The interpreter takes it as 128 repeating lines
(`snes_io.c:583-587`), as `docs/TIMING_AND_INTERRUPTS.md:94` says. The scan of the
shipped renderer (`dkc2_hdma.c:76-116`) keeps repeat bit and count in one byte:
it transfers once, counts down to `$7F`, and stays silent for 127 lines. The run
has a table whose second line changes a register, and the band does not. The
scan says of itself that it mirrors the recompiler's runtime, which is not in the
tree; should that read `$80` the same way, it is the runtime that differs.

**Display lock.** `Dkc2MacDisplayLinkWait` waits on its condition once, and every
tick signals it. With two ticks a frame the first of them ends the wait for the
second; the wait reports that the tick has not come, and `WaitForDisplayTick`
takes that for a display that stopped, drops the lock and starts measuring again.
`macos_display_link.h:27-29`, `docs/ARCHITECTURE.md:384-390` and
`tests/test_desktop_pacer.c:49` say that two ticks a frame are meant to work. With
one tick a frame (`host_parts`) the property holds.

**Level start.** A level opens with its camera at a bound, so for its first frames
the void beside the window is enough to enter the hold (`dkc2_game.c:82-84`); "a
state restore is not a level start" (`docs/ARCHITECTURE.md:1007-1008`).
`Dkc2OnStateLoaded` remembers the restore in a flag that only the next change of
source on an extended screen clears. In the run a state is loaded on the map,
which is not extended; the level entered from there starts, and is taken for the
one restored. `RestoreIsNoLevelStart` (`host_parts`) is the other half of the
promise, and holds.

**ROM race.** The check made at start finds the staged ROM good; before it
reports, a folder is picked, which makes the phase `Validating` and enables the
button that clears; clearing deletes the ROM on the main thread; the report then
makes the phase `Found`. Starting the game in this state opens the picker, so
nothing is lost but the promise of `DataSelectionViewModel.kt:29-32`.
`FoundUnlessOverlapped` says that it takes two tasks that meet.

What the properties avoid claiming:

* tapped rewinding thins the history (`sdl_main.c:1177`: a pop takes the snapshot
  for good), so a later frame of rewinding may go back over several intervals;
* two copies that meet in `rom.sfc.tmp` may put a partial file into place
  (`StagedIsWhole` excludes them): the game hashes what it loads and parks it;
* under the policy `shift` a camera that moves by more than a pixel a frame
  reaches a wall before the slide does, and a margin is cut by the difference,
  although `dkc2_video.h:121-123` says that margins stay full: `DrawnInsideLevel`
  says that nothing outside is shown, not that all of the inside is;
* after a change from 16:9 to 16:10 at a wall the slide is wider than the margins
  for some frames, and the slack at the right is short by the excess
  (`CullCoversPicture` excludes it);
* what the PPU renders beside the camera may show that many pixels past a wall, in the
  frame in which it does: the margins are cut for the camera, and nothing in the code
  asks otherwise. `DrawnInsideLevel` says that the lag of the slide, of a hold or of a
  policy adds nothing to it, and that the next frame inherits nothing of it;
* a hold may be entered near the east wall, and the camera may then reach that wall
  before the slide, a pixel a frame, is undone: `crowded` is up from
  such a frame until the slide is at its target again, and `DrawnInsideLevel` claims
  nothing meanwhile. Without that condition TLC finds frames that show what is beyond
  the wall. It takes walls so near each other that the camera has less than a frame
  for each pixel of the slide: less than 215 pixels with five a frame and 43 of
  slide. The same goes for a level that scrolls over less than that; which levels and
  holds do is in the ROM's data;
* the first frame of a level entered with no other screen between has the old
  level's slide (`biasValid'` in `DrawnInsideLevel`), and a wide screen turned off
  and on inside a level counts as a level start.

### Bounds

* `timing`: lines of 5 dots and frames of 4 lines, in place of 341 and 262, and 3
  and 3 in `timing_nmi_edge`. The code compares positions, and subtracts and
  resets them; what matters is that a line has a dot before, at and after HBlank,
  that there is a line before, at and after the VBlank line, and that calls
  shorter than a line, longer than a line and longer than a frame all occur
  (`BeamAdvances`). The poll of 7 dots crosses a line end, as the real one of 1056
  dots crosses three. Timer values include 0, a dot inside the line, the last
  dot, and one past it; V timers include a line past the last one. The delays of
  the unit are 2 and 4 dots, so that an operation may cross a line end and calls
  shorter than, between and longer than both occur. Operands are 0 and 3. A shift
  register of 2 bits in place of 16, two ports, one button.
* A behaviour of `timing` uses the timers, the ports or the arithmetic unit
  (`UnitsSpec`): the three share only the beam, and the proofs cover them together.
* `boot_loop`: `MaxAccesses` = 3 accesses of 2 dots, so that an instruction may be longer
  than a line. `ShortInstructions`, that none is as long as a frame, is assumed
  by `MCBootLoop` for the second half of `NmiServedInTime`; a DMA or block move of 32 KiB breaks it
  in reality, and two VBlanks then share an NMI, as on the console.
* `hdma_*`: two channels, five visible lines, a bank of 64 bytes, `Half` = 4 in place
  of 128, so that descriptors of every kind end inside the picture. The tables
  are direct and indirect, with units of one, two and four bytes; one lies in
  the middle of the bank and one runs over its end. Two channels suffice for
  one to be in front of a blocked one and for two to write one register; two register
  writes allow a channel to be switched off and on again in one frame.
  `BandsMatchLines` is claimed for tables inside their bank, forward transfers
  and frames the program does not disturb, which is what the scan is given.
* `analyzer`: all programs of three of 19 instructions behind two beginnings, in
  reset and interrupt mode, with and without `--follow-calls`: 54872 cases of
  image, entry and option. The list has each instruction that changes a tracked
  bit, widths that swallow a CLC and XCE when taken wrongly, loops, JSR, JSL to a
  callee in the next bank that stores and returns with RTL, pushed return words, RTS,
  and a store that may hit them. `Limit` = 14 is enough for most walks to complete and
  cuts the longest off; only completed ones are run. `WordCapacity` = 2 in place
  of 8, so that a third word overflows. A run keeps 8 stack bytes and 2 frames.
* `host_parts`: a ring of 4 slots and 3 snapshots in place of 600: every fill level, every
  index, and wrapped content in every position. Frames of 3 units of time, a
  slack of 1 and a timeout of 4, so that a deadline can be met, missed by less
  and by more than the slack, and a wait can end by its timeout; a lock after 3 of
  8 observations; 8 ticks, after which the display is silent. The wide picture
  has a level of 10 pixels, whose first column is empty at some height, so that a
  hold leaves the slide room before the east wall at 16:10 and none at 16:9, and one of
  2 pixels, narrower than its margins; margins of 0, 1 and 3 pixels; a camera of 3 pixels
  a frame, faster than the slide, and a picture rendered up to a pixel beside it
  (`MaxTravel`, `MaxLag`); a glide of 3 pixels of travel for each of slide in place of
  8; 2 frames to settle and one of a level's start in place of 4 and 8. That the
  camera travels no further in a frame than the glide spans for a pixel is part of
  `WideAssumption`: its speed is at most five (`docs/HARDWARE_NOTES.md:841-865`) and the
  span is eight. The policy
  `reflect` is left out, whose slide is that of `bars`. Ring, pacing and wide
  picture share nothing; a behaviour of this run is one of them alone, and of the two
  ways pacing starts, with a display link or without, the picture is drawn in one.
* `wide_hold`: one level whose camera opens beside empty columns, 3 frames of a
  level's start, and a camera of 2 pixels a frame.
* `host_loop`: two inputs make two plays that differ from any frame on;
  `MaxFrames` = 4 frames are two captures at an interval of 2, so that a
  history of 2 is full, overflows and is popped empty, and a save can lie
  before, on and beyond the play that is rewound. Fast forward runs 2 frames, and
  the queue's target is 2 chunks above a low mark of 1, so that priming, draining
  and losing it all occur. One slot is enough: a slot only remembers a play.
* `rom_*`: two launcher tasks at once besides the main thread's, a folder of a bad
  file and a good one, and two events, each a picker opened or a death of the
  process: a pick in the launcher, then one in the game, or a death in either.

### Fairness

* `boot_loop` assumes weak fairness of the loop's next-state relation: the
  tool is one thread that waits for nothing, so as long as a step is possible one
  is taken. Nothing is assumed of which branch is taken. `WaiResumes` asks only
  for wake-ups that can come (`CanWake`): NMI enabled, or TIMEUP unmasked and set
  to a real position. With only masked sources the loop waits for ever, as the
  console does.
* `host_parts` assumes that time passes (`WF(Elapse)`) and that the host goes on
  once a wait is over (`WF(Proceed)`). Nothing is assumed of the display: it may
  never tick, or stop at any time.
* `rom_staging` assumes that every thread gets on with its file work and the SDL
  thread with its loops, which look at the request to quit at every turn. `Report`
  and `Resume` have strong fairness: the main looper takes its messages in the
  order they were posted, so a report is taken although other messages keep
  the main thread busy in between. Users, failures and the game's end owe nothing.

`boot_loop`, `host_loop`, `hdma_*`, `rom_*` and `analyzer` switch the deadlock
check off: their loops are meant to end, a barrier stops the machine, a user may
do nothing more, and an analysis ends.

## 4. Proofs

| Theorem | For every | Argument |
| --- | --- | --- |
| `TimingTypeInvariant` | geometry, delays, inputs | inductive as it stands; a step never passes the line end (`StepBounds`) |
| `AutojoyFollowsBeam` | same | inductive with the type invariant; needs `AutojoyFitsVBlank`, that a poll ends before the next frame starts |
| `StrobeFollowsControllers` | ports and words | inductive with the type invariant |
| `MathResultsCorrect` | operands | inductive: the step that finishes computes from `mathOp`, which nothing changes without setting `mathLeft` |
| `MathIsAtomic` | operands | action property from `SegmentFinishesMath` and `MathUntouched` |
| `AnalyzerTypeInvariant` | images, limit, capacity of return words, garbage | `TypeInv` adds to the type that the image is one; each step's new point is good because decoding yields addresses (`OperandBounds`, `InBankType`), applying yields bits (`ApplyType`), and words stay within the depth (`PushType`, `StackReturnType`) |
| `AnalyzerDropsNothing` | same | `Counted`: a visit queues at most one point and records at most two edges and one call, and there are at most `Limit` visits, so the lengths stay below the capacities that the code derives from the limit |
| `RunsAreCovered`, `RunsFollowEdges` | same, stacks and nesting of calls | the walk is `Closed`: until the limit ends it, what a visit leads to is visited, or is where the walk is, or waits in the queue, so a completed walk has visited everything it leads to (`CompleteIsClosed`); and `Drawn`: every visit has its edges. `RunInv` adds the processor: a visited point covers it, and one covers the return of every call the claim outlives (`Behind`), stores into the caller's bytes included. A step of a covered state goes to one, because decoder and processor agree on length and operand (`DecodedAlike`), target (`TargetAlike`), bits (`FlagsAlike`, `EmulationAgrees`, `ExchangeAlike`) and return words (`StackAlike`, `PoppedFromTop`), for each of the 256 opcodes; a store leaves a known word or a byte marked as stored over, which no return takes |
| `RingTypeInvariant` | capacity | inductive: the slots of the history are those that were written |
| `RingImplementsStack` | capacity | `History` maps the ring to a sequence; each action maps to the stack's, by modular arithmetic on `SlotOf` |
| `HostTypeInvariant` | inputs, slots, capacity, interval, speed, length of play | inductive; one lemma for each group of actions |
| `SilenceUnlessPlaying`, `LoopNeverSpins` | same | need `TurnInv`, which says what each phase of the turn knows: the mode chosen, whether a frame is ready, and that the queue was emptied when the mode changed |
| `RewindStaysOnPlay` | same | a save may hold any play, but a load drops the history; a frame makes the machine longer; a pop leaves the prefix of a chain of prefixes (`PrefixOfMore`, `PrefixTransitive`) |
| `AudioFollowsPlay` | same | with silence while rewinding, from `TurnInv`: the machine never goes back with sound queued |
| `TimingImplementsClock` | geometry, delays, inputs | a turn of the advance loop maps to a move of the clock by `StepDots` (`DotReached`: where the i-th dot of a step lies on the ring); every other action leaves the beam alone. That a timer's position lies inside a step is the code's comparison of `h` and `v` (`TimerAt`) |
| `BootTypeInvariant` | geometry, costs of an access | the types of the scheduler, and that an instruction in progress has fetched its opcode |
| `BarrierStopsClock` | same | action property: no phase in which time goes on is reached behind a barrier |
| `NmiIsServedInTime` | same, if no instruction is as long as a frame | `NmiOnTime`: no call has a frame left to run, and from the VBlank on, the dots since it and what is left of the call stay below a frame's. The deadline is a sum of two counters, which neither has by itself |
| `HdmaTypeInvariant` | channels, lines, banks, tables, writes | needs `WalkInFrame`: the loop over the channels runs only on a visible line |
| `CountersAgreeWithBeam`, `TablesAreFollowed` | same | `WalkInv`: every channel enrolled and left alone is at the descriptor of its table that the beam has reached: in front of it, inside it, or halted in it by a blocked transfer (`OnTable`). What the table says is a recursive function; that it has the values its equation gives, and that its descriptors follow each other (`TableEquation`, `TableOrder`, `CoveringIs`), is proved by a smallest counterexample |
| `PlainBandsMatchLines` | same, where the tables are plain, under `FrameFitsBankAssumption` | `DrawnInv`: the bands are those of the scan of the frame's tables, and the interpreter is where the scan was in front of the same channel of the same line, with the same registers and at the same place of each table, with as many lines and units left (`InStep`), or a table has run over the end of the bank (`Far`) and stays so for the frame. A channel's turn in the interpreter is one in the scan (`TurnFollows`: skipped, counted, repeated or reloaded), because a unit inside the bank sends the same bytes in both (`UnitIsWritten`) and the entry the scan reads is the descriptor of `DescriptorOf` (`EntryIsDescriptor`). The scan's recursive functions have the values their equations give (`WalkSteps`, `ScanSteps`, by a smallest counterexample); the bands partition the lines scanned so far, each with the registers of its lines (`BandsFollowScan`) |
| `PacingTypeInvariant` | period, slack, timeout, locks | with it: a deadline lies ahead only in `PaceFrame`'s loop, and a host that waits for a tick is locked |
| `TicksAreNotLost` | same | action property of the wait, from the type invariant |
| `TickBringsOneFrame` | same | `ShownOnce`: a wait begun since the last frame is for a later tick |
| `ClockNeverHurries` | same | `ClockKept`: the time since the last frame and the time to the deadline make up a frame less the slack, or a whole frame has passed |
| `LockSurvivesTicks` | period, slack, timeout; locks of one tick a frame | `WaitsForNext`: a wait is for the next tick there is. With a lock of two ticks it is false: run `display_lock` |
| `WideTypeInvariant` | levels, maps, aspects, policies | `SourceIsScene`: a source is the scene's, a hold one of its level's |
| `CullsCoverPicture` | same | the bias moves by a pixel once it has settled (`BiasAfter`), and the slack has that pixel |
| `RestoresStartNoLevel` | same | `RestoredHasNoStart`: a restored level has no start left, or has yet to be entered and is known to be restored |
| `PictureInsideLevel` | same, lags of the PPU | `BiasHasWay`: unless the walls leave no room for it (`crowded`), the slide is never further out than the camera, at full speed, has frames to the wall; what the policies ask for has this property (`WantedHasWay`), and a pixel a frame keeps it (`WayIsKept`), so slide and margins fit at the camera (`WayIsInside`), and the picture is that window moved by the lag of the frame (`RenderedBesideCamera`) |
| `PartsTypeInvariant` | all of the above, ring capacity | a behaviour of `host_parts` is one of each part (`PartsKeepTheirSpecs`) |
| `RomTypeInvariant` | slots, folders, events | `WellFormed`: threads, system and activity; who writes has a file open, who has candidates left is in the loop over them |
| `StagedFilesAreWhole` | same | `Whole`, while no two copies have met: nobody writes at `rom.sfc`, one thread stages, and its temporary file is whole once closed |
| `PicksReplaceTheGame` | same | `PickInPlay`: a game that did not wait holds the file that was picked, or its activity is about to be made anew |
| `FoundIsAccepted` | same | `Roles` (which thread does which task behind which screen) and `Alone`, while no two tasks have met: there is one task, and the phase `Found` means the supported ROM until the game or a clear changes it |

The assumptions are the named `ASSUME`s, which TLC evaluates on every run of
their modules:

* `GeometryAssumption`, `DelayAssumption`, `AutojoyFitsVBlank`, `InputAssumption`
  (`SnesTiming`): a line and a frame have positions, HBlank is inside a line and
  VBlank inside a frame, delays are positive, a poll ends before the frame does,
  inputs are numbers;
* `CpuAssumption` (`BootLoop`): an access takes time, and instructions and an
  interrupt's entry have accesses; `ShortInstructionsAssumption` (`MCBootLoop`) is discussed under the
  bounds, and only `NmiIsServedInTime` uses it;
* `HdmaConstantsAssumption`, `HdmaInputsAssumption` (`Hdma`): there are channels and
  lines, and memories, registers and sizes have their ranges; `FrameFitsBankAssumption`
  (`MCHdma`): a frame's lines, which move a table on by five bytes at most, cannot
  take it round the bank (225 lines, 65536 bytes), and only `PlainBandsMatchLines`
  uses it;
* `AnalyzerAssumption`, `CapacityAssumption`, `HostAssumption`: images are bytes at
  addresses, and limits, capacities, intervals and speeds are positive;
* `PacingAssumption` (`FramePacing`): the slack is below a frame's period, and a
  lock is of one to four ticks, as `desktop_pacer.c` has it;
* `WideAssumption` (`WideFrame`): only the native picture has no margins, a level has
  a page, settling takes frames, the camera travels in a frame no further than the
  glide spans for a pixel, and the PPU lies at most a page from the camera;
* `StagingAssumption` (`RomStaging`): there are finitely many slots besides the main
  thread, and at least one.

All hold of the constants in the code, but for what the bounds say of long
instructions.

Only model-checked are `WaiResumes`, `BarrierEndsRun`, `WaitsEnd` and
`NothingWaitsForEver`: liveness and `ENABLED` are out of the prover's reach. Every
safety invariant and action property of a passing run is stated by a theorem;
`BandsMatchLines` alone has a hypothesis that is not an assumption on the
constants, `PlainTables`. It asks two things of the tables of the frame. None has the
descriptor `$80` on a visible line: run `hdma_128_lines` shows that the property is
false with it. And no indirect unit lies across the end of the bank, where the
interpreter goes round and the scan stops reading. Every frame that is scanned in
`hdma_lines` satisfies it. Tables that themselves run over the end need no
hypothesis: `InBank`, which is part of the property, leaves them out.

## 5. The plan, and what is not modelled

Every item of the plan is done, and every safety property of a
passing run is proved. What could come next:

* scroll offsets in `HdmaBands`: two writes and the PPU's latches for each, which
  `BandsMatchLines` would compare as well;
* settings and diagnostics files under a death of the process, if they gain a second
  writer;
* the recompiled game's save RAM, once the runtime's sources are in the tree.

Not modelled:

* pixels (`ppu_render.c`, presenters and filters, and of `dkc2_video.c` the tiles,
  the colours and the layers): pure functions of large memories, where a small
  instance says little. Where the wide picture stands is in `WideFrame`;
* the rest of the recompiled game's glue (`dkc2_game.c`: start, save RAM, patches) and the
  generated `recomp/funcs.h`: their state is in an absent submodule. Its callbacks
  for HDMA are in `HdmaBands`;
* the Win32 host (`desktop_main.c`), whose loop is the shared host's in another
  message pump, and the menus of macOS;
* the overlay and the desktop launcher (`recomp-ui` included): widgets over settings. What they ask
  of the loop is in `HostLoop`. The setup wizard of `recomp-ui`
  and its worker thread (`launcher_model.c`) are not wired up by this program;
* memory map, hashing, identification, symbols: functions without behaviour
  over time, covered by the repository's tests;
* input recording and playback: a run-length encoding and its inverse on one thread;
* settings and diagnostics: files rewritten by one actor;
* the APU wrapper, whose promise is the vendored core's;
* rate control of the sound, the frame rate in the title, the performance log:
  arithmetic and output that no other state depends on;
* vendored code (`third_party`, `org/libsdl`), except `SDLActivity`'s start and join
  of the SDL thread, which `RomStaging` needs.
