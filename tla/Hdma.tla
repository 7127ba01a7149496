-------------------------------- MODULE Hdma --------------------------------
(***************************************************************************)
(* The transfers of src/src/snes_io.c: general DMA started by $420B, and   *)
(* HDMA, whose channels walk a table of line descriptors, one line of the  *)
(* picture at a time.                                                      *)
(*                                                                         *)
(* SnesTiming decides when a frame begins and when a visible line enters   *)
(* horizontal blanking; here those are the actions BeginFrame and          *)
(* BeginHBlank.  run_hdma_scanline and run_dma are loops over the channels *)
(* and do one channel a step, so that a transfer that cannot be done stops *)
(* them half way, as in the code.  Nothing else runs meanwhile.            *)
(*                                                                         *)
(* A byte of a 16-bit register is not told apart from the register.  One   *)
(* bank holds every table and every source, so the bank registers $43x4    *)
(* and $43x7 are left out; its bytes do not change.                        *)
(***************************************************************************)
EXTENDS Integers, FiniteSets, FiniteSetsExt, Sequences

CONSTANTS
  NChannels,     (* Eight.                                                 *)
  VisibleLines,  (* DKC2_NTSC_VBLANK_START: lines with HDMA.               *)
  BankSize,      (* 0x10000.                                               *)
  Half,          (* 0x80: the repeat bit, and the longest descriptor.      *)
  Images,        (* Contents the bank may have.                            *)
  Controls,      (* Values of $43x0 and $43x1, decoded.                    *)
  Starts,        (* Values of $43x2/$43x3, and of $43x8/$43x9 written.     *)
  Sizes          (* Values of $43x5/$43x6 and $43xA written.               *)

Channels  == 0 .. NChannels - 1
Addresses == 0 .. BankSize - 1
Bytes     == 0 .. 2 * Half - 1
Registers == 0 .. 5            (* The B-bus registers the controls reach.  *)

(* dma_pattern and dma_pattern_length, for the modes 0 to 7. *)
Lengths  == <<1, 2, 2, 4, 4, 4, 2, 4>>
Patterns == << <<0>>, <<0, 1>>, <<0, 0>>, <<0, 0, 1, 1>>, <<0, 1, 2, 3>>,
               <<0, 1, 0, 1>>, <<0, 0>>, <<0, 0, 1, 1>> >>

Length(mode)     == Lengths[mode + 1]
Pattern(mode, i) == Patterns[mode + 1][(i % Length(mode)) + 1]

(* toCpu is the direction from the B bus to memory, which is unsupported;  *)
(* `step' is what general DMA adds to its source after a byte.             *)
ControlWords ==
  [mode : 0 .. 7, indirect : BOOLEAN, toCpu : BOOLEAN, step : {-1, 0, 1},
   register : {0, 1, 2}]

ASSUME HdmaConstantsAssumption ==
  /\ NChannels \in Nat \ {0}
  /\ VisibleLines \in Nat \ {0}
  /\ BankSize \in Nat \ {0}
  /\ Half \in Nat \ {0}

ASSUME HdmaInputsAssumption ==
  /\ Images \subseteq [Addresses -> Bytes]
  /\ Controls \subseteq ControlWords
  /\ Starts \subseteq Addresses
  /\ Sizes \subseteq Addresses

VARIABLES
  mem,       (* The bank.                                                  *)
  control,   (* $43x0, $43x1.                                              *)
  start,     (* $43x2/3: the table HDMA starts from, the source of DMA.    *)
  pointer,   (* $43x5/6: the size of a DMA, the indirect address of HDMA.  *)
  table,     (* $43x8/9.                                                   *)
  counter,   (* $43xA.                                                     *)
  enabled,   (* $420C.                                                     *)
  active,    (* The channels whose hdma[c].active is set.                  *)
  hdma,      (* The rest of dkc2_hdma_channel_state.                       *)
  ppu,       (* The B-bus registers.                                       *)
  line,      (* v_counter, no further than the VBlank line.                *)
  next,      (* The channel run_hdma_scanline is at, or stopped at.        *)
  pending,   (* The channels run_dma has still to run.                     *)
  barrier    (* A transfer was met that is not supported.                  *)

setupVars == <<mem, control, start, pointer>>
hdmaVars  == <<table, counter, active, hdma>>
vars == <<setupVars, hdmaVars, enabled, ppu, line, next, pending, barrier>>

Cleared == [left |-> 0, repeat |-> FALSE, transfer |-> FALSE]

HdmaInit ==
  /\ mem \in Images
  /\ control \in [Channels -> Controls]
  /\ start \in [Channels -> Starts]
  /\ pointer = [c \in Channels |-> 0]
  /\ table = [c \in Channels |-> 0]
  /\ counter = [c \in Channels |-> 0]
  /\ enabled = {} /\ active = {}
  /\ hdma = [c \in Channels |-> Cleared]
  /\ ppu = [r \in Registers |-> 0]
  /\ line = VisibleLines
  /\ next = NChannels /\ pending = {} /\ barrier = FALSE

-----------------------------------------------------------------------------
(* Moving bytes. *)

(* The B-bus registers after n bytes from `from' on, a step apart, have    *)
(* gone through the channel's pattern: the last byte a register got.       *)
Written(c, from, n, step) ==
  [ r \in Registers |->
      LET hits == { i \in 0 .. n - 1 :
                      control[c].register + Pattern(control[c].mode, i) = r }
      IN  IF hits = {} THEN ppu[r]
          ELSE mem[(from + step * Max(hits)) % BankSize] ]

Unit(c) == Length(control[c].mode)

-----------------------------------------------------------------------------
(* HDMA. *)

(* Nobody is in the middle of a transfer. *)
Idle == next = NChannels /\ pending = {} /\ ~barrier

(* initialize_hdma, at the start of line 0. *)
BeginFrame ==
  /\ Idle /\ line = VisibleLines
  /\ line' = 0
  /\ active' = enabled
  /\ hdma' = [c \in Channels |->
                [Cleared EXCEPT !.transfer = c \in enabled]]
  /\ table' = [c \in Channels |-> IF c \in enabled THEN start[c] ELSE table[c]]
  /\ counter' = [c \in Channels |-> IF c \in enabled THEN 0 ELSE counter[c]]
  /\ UNCHANGED <<setupVars, enabled, ppu, next, pending, barrier>>

BeginHBlank ==
  /\ Idle /\ line < VisibleLines
  /\ next' = 0
  /\ UNCHANGED <<setupVars, hdmaVars, enabled, ppu, line, pending, barrier>>

(* The loop goes on; after its last channel the beam reaches the next line.*)
ChannelDone ==
  /\ next' = next + 1
  /\ line' = IF next + 1 = NChannels THEN line + 1 ELSE line

AtChannel == next \in Channels /\ ~barrier
Walks(c) == c \in enabled /\ c \in active

SkipChannel ==
  /\ AtChannel /\ ~Walks(next)
  /\ ChannelDone
  /\ UNCHANGED <<setupVars, hdmaVars, enabled, ppu, pending, barrier>>

Reloads(c) == hdma[c].left = 0
Descriptor(c) == mem[table[c]]
After(c, n) == (table[c] + n) % BankSize

(* A zero descriptor ends the table. *)
EndChannel ==
  /\ AtChannel /\ Walks(next)
  /\ Reloads(next) /\ Descriptor(next) = 0
  /\ active' = active \ {next}
  /\ table' = [table EXCEPT ![next] = After(next, 1)]
  /\ counter' = [counter EXCEPT ![next] = 0]
  /\ ChannelDone
  /\ UNCHANGED <<setupVars, hdma, enabled, ppu, pending, barrier>>

(* Mutant: the repeat bit is left in the count. *)
LineCountWhole(d) == IF d % Half = 0 THEN Half ELSE d

LineCount(d) == IF d % Half = 0 THEN Half ELSE d % Half

(* The channel as reload_hdma_line_descriptor leaves it, if it is called. *)
Reloaded(c) ==
  [left |-> LineCount(Descriptor(c)), repeat |-> Descriptor(c) >= Half,
   transfer |-> TRUE]

Current(c) == IF Reloads(c) THEN Reloaded(c) ELSE hdma[c]

TableNow(c) ==
  IF ~Reloads(c) THEN table[c]
  ELSE After(c, IF control[c].indirect THEN 3 ELSE 1)

PointerNow(c) ==
  IF Reloads(c) /\ control[c].indirect
    THEN (mem[After(c, 1)] + 2 * Half * mem[After(c, 2)]) % BankSize
    ELSE pointer[c]

(* Mutant: repeating lines always read the first unit of the descriptor. *)
AdvanceSourceStill(c, moved) ==
  /\ table' = [table EXCEPT ![c] = TableNow(c)]
  /\ pointer' = [pointer EXCEPT ![c] = PointerNow(c)]

(* transfer_hdma_line reads its unit behind the descriptor, or where the   *)
(* indirect address points, and moves that pointer on.                     *)
AdvanceSource(c, moved) ==
  /\ table' = [table EXCEPT ![c] =
       IF control[c].indirect THEN TableNow(c)
       ELSE (TableNow(c) + moved) % BankSize]
  /\ pointer' = [pointer EXCEPT ![c] =
       IF control[c].indirect THEN (PointerNow(c) + moved) % BankSize
       ELSE PointerNow(c)]

Source(c) == IF control[c].indirect THEN PointerNow(c) ELSE TableNow(c)

(* A line that cannot be transferred: the descriptor was read, the line is *)
(* not counted, and the channels behind do not get their line.             *)
BlockedLine ==
  /\ AtChannel /\ Walks(next)
  /\ ~(Reloads(next) /\ Descriptor(next) = 0)
  /\ Current(next).transfer /\ control[next].toCpu
  /\ barrier' = TRUE
  /\ hdma' = [hdma EXCEPT ![next] = Current(next)]
  /\ AdvanceSource(next, 0)
  /\ UNCHANGED <<mem, control, start, counter, enabled, active, ppu, line,
                 next, pending>>

TransfersNext(now, left) == left # 0 /\ now.repeat

WalkLine ==
  LET c == next
      now == Current(c)
      left == now.left - 1
  IN
  /\ AtChannel /\ Walks(c)
  /\ ~(Reloads(c) /\ Descriptor(c) = 0)
  /\ ~(now.transfer /\ control[c].toCpu)
  /\ ppu' = IF now.transfer THEN Written(c, Source(c), Unit(c), 1) ELSE ppu
  /\ AdvanceSource(c, IF now.transfer THEN Unit(c) ELSE 0)
  /\ hdma' = [hdma EXCEPT ![c] =
       [now EXCEPT !.left = left, !.transfer = TransfersNext(now, left)]]
  /\ counter' = [counter EXCEPT ![c] =
                   (IF now.repeat THEN Half ELSE 0) + left]
  /\ ChannelDone
  /\ UNCHANGED <<mem, control, start, enabled, active, pending, barrier>>

-----------------------------------------------------------------------------
(* The program's registers. *)

(* Mutant: a channel switched off keeps its state for the frame. *)
StaysActive(channels) == active

StillActive(channels) == active \cap channels

(* $420C: a channel switched off is out of the frame; one switched on is   *)
(* not set up before the next frame begins.                                *)
WriteEnable(channels) ==
  /\ Idle
  /\ enabled' = channels
  /\ active' = StillActive(channels)
  /\ UNCHANGED <<setupVars, table, counter, hdma, ppu, line, next, pending,
                 barrier>>

WriteControl(c, word) ==
  /\ Idle
  /\ control' = [control EXCEPT ![c] = word]
  /\ UNCHANGED <<mem, start, pointer, hdmaVars, enabled, ppu, line, next,
                 pending, barrier>>

WriteStart(c, a) ==
  /\ Idle
  /\ start' = [start EXCEPT ![c] = a]
  /\ UNCHANGED <<mem, control, pointer, hdmaVars, enabled, ppu, line, next,
                 pending, barrier>>

WriteSize(c, n) ==
  /\ Idle
  /\ pointer' = [pointer EXCEPT ![c] = n]
  /\ UNCHANGED <<mem, control, start, hdmaVars, enabled, ppu, line, next,
                 pending, barrier>>

(* $43x8/9: a channel that is under way goes on reading from there.        *)
WriteTable(c, a) ==
  /\ Idle
  /\ table' = [table EXCEPT ![c] = a]
  /\ UNCHANGED <<setupVars, counter, active, hdma, enabled, ppu, line, next,
                 pending, barrier>>

(* $43xA, a byte that is never read back: the lines left are in hdma.      *)
WriteCounter(c, n) ==
  /\ Idle
  /\ counter' = [counter EXCEPT ![c] = n % (2 * Half)]
  /\ UNCHANGED <<setupVars, table, active, hdma, enabled, ppu, line, next,
                 pending, barrier>>

(* $420B. *)
StartDma(channels) ==
  /\ Idle
  /\ pending' = channels
  /\ UNCHANGED <<setupVars, hdmaVars, enabled, ppu, line, next, barrier>>

DmaBytes(c) == IF pointer[c] = 0 THEN BankSize ELSE pointer[c]

(* run_dma_channel. *)
RunDma ==
  LET c == Min(pending)
      bytes == IF control[c].toCpu THEN 0 ELSE DmaBytes(c)
  IN
  /\ pending # {} /\ ~barrier
  /\ ppu' = Written(c, start[c], bytes, control[c].step)
  /\ start' = [start EXCEPT ![c] =
                 (@ + control[c].step * bytes) % BankSize]
  /\ pointer' = [pointer EXCEPT ![c] = 0]
  /\ barrier' = control[c].toCpu
  /\ pending' = IF barrier' THEN {} ELSE pending \ {c}
  /\ UNCHANGED <<mem, control, hdmaVars, enabled, line, next>>

Beam == BeginFrame \/ BeginHBlank
Scanline == SkipChannel \/ EndChannel \/ BlockedLine \/ WalkLine
Program ==
  \/ \E channels \in SUBSET Channels : WriteEnable(channels)
  \/ \E c \in Channels : \/ \E word \in Controls : WriteControl(c, word)
                         \/ \E a \in Starts : WriteStart(c, a) \/ WriteTable(c, a)
                         \/ \E n \in Sizes : WriteSize(c, n) \/ WriteCounter(c, n)
  \/ \E channels \in SUBSET Channels \ {{}} : StartDma(channels)

HdmaNext == Beam \/ Scanline \/ RunDma \/ Program

HdmaSpec == HdmaInit /\ [][HdmaNext]_vars

-----------------------------------------------------------------------------
(* Properties. *)

(* Registers and channels keep their ranges; a line counter is never past  *)
(* the longest descriptor, and only set up channels have lines left.       *)
HdmaTypeOK ==
  /\ mem \in [Addresses -> Bytes]
  /\ control \in [Channels -> ControlWords]
  /\ start \in [Channels -> Addresses] /\ pointer \in [Channels -> Addresses]
  /\ table \in [Channels -> Addresses]
  /\ counter \in [Channels -> Bytes]
  /\ enabled \subseteq Channels /\ active \subseteq enabled
  /\ hdma \in [Channels -> [left : 0 .. Half, repeat : BOOLEAN,
                            transfer : BOOLEAN]]
  /\ ppu \in [Registers -> Bytes]
  /\ line \in 0 .. VisibleLines
  /\ next \in 0 .. NChannels
  /\ pending \subseteq Channels
  /\ barrier \in BOOLEAN
=============================================================================
