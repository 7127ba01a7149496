------------------------------- MODULE MCHdma -------------------------------
(***************************************************************************)
(* Hdma next to HdmaBands: at the start of a frame the tables are scanned  *)
(* for the bands they will produce, and the picture is then walked line by *)
(* line.  History variables remember the frame's start.                    *)
(***************************************************************************)
EXTENDS Hdma

CONSTANTS
  MaxWrites,   (* Bound: register writes of the program in a run.          *)
  Setups       (* The pairs of control words the channels start with.      *)

(* A line moves a table on by five bytes at most, a descriptor and a unit: *)
(* no table goes round the bank in a frame (225 lines, 0x10000 bytes).     *)
ASSUME FrameFitsBankAssumption == 5 * VisibleLines < BankSize

VARIABLES
  bands,      (* What the scan made of the frame.                          *)
  base,       (* Where each channel's table starts this frame.             *)
  held,       (* Channels enabled at the start of the frame and ever since.*)
  touched,    (* Channels whose walk the program has changed since.        *)
  drawnAhead, (* Nothing the scan relies on was changed since.             *)
  writes      (* Register writes so far.                                   *)

history == <<bands, base, held, touched, drawnAhead, writes>>

Scan == INSTANCE HdmaBands WITH LastLine <- VisibleLines - 1

(* Dkc2ScanFrameBands: the channels as the program has left them. *)
Configs ==
  [ c \in Channels |->
      [ active |-> c \in enabled, table |-> start[c],
        indirect |-> control[c].indirect, mode |-> control[c].mode,
        register |-> control[c].register ] ]

(* One table in the middle of the bank, one that runs over its end; bytes  *)
(* of neither are zero, and no indirect address is near the end.           *)
LowTable  == 8
HighTable == BankSize - 2

Image(low, high) ==
  [ a \in Addresses |->
      LET up == (a - HighTable) % BankSize
      IN  IF a - LowTable \in 0 .. 3 THEN low[a - LowTable + 1]
          ELSE IF up \in 0 .. 3 THEN high[up + 1]
          ELSE 1 + (a % 3) ]

TablesOf(codes) ==
  { Image(low, high) : low \in { <<a, b, c, d>> : a, b \in codes, c \in {0, 2}, d \in {1} },
                       high \in { <<6, 1, 0, 2>>, <<1, 2, 5, 0>> } }
PlainImages == TablesOf({2, 5, 7})
LongImages  == TablesOf({1, 4})      (* Half alone is the code $80. *)

Word(mode, indirect, toCpu, step, register) ==
  [mode |-> mode, indirect |-> indirect, toCpu |-> toCpu, step |-> step,
   register |-> register]
Single   == Word(0, FALSE, FALSE, 1, 0)
Pair     == Word(1, FALSE, FALSE, 0, 1)
Pointed  == Word(3, TRUE, FALSE, -1, 0)
Backward == Word(0, FALSE, TRUE, 1, 0)
AllControls == {Single, Pair, Pointed, Backward}

Pairs(set) == { [c \in Channels |-> p[c + 1]] : p \in set }
MixedSetups == Pairs({<<Single, Pair>>, <<Pointed, Single>>, <<Single, Pointed>>,
                      <<Pair, Backward>>})

MCInit ==
  /\ HdmaInit
  /\ control \in Setups
  /\ \A c \in Channels : start[c] = IF c = 0 THEN LowTable ELSE HighTable
  /\ bands = <<>> /\ base = start
  /\ held = {} /\ touched = {} /\ drawnAhead = FALSE /\ writes = 0

FrameBegins ==
  /\ BeginFrame
  /\ bands' = Scan!ScanBands(mem, Configs, ppu)
  /\ base' = start
  /\ held' = enabled /\ touched' = {}
  /\ drawnAhead' = (\A c \in enabled : ~control[c].toCpu)
  /\ UNCHANGED writes

(* A control word decides how a table is read; a size is the indirect      *)
(* address of a channel that uses one; the table's address is where it is  *)
(* read next.                                                              *)
ProgramWrites ==
  /\ Program
  /\ writes < MaxWrites /\ writes' = writes + 1
  /\ held' = held \cap enabled'
  /\ touched' = touched \cup
       { c \in Channels : \/ control'[c] # control[c]
                          \/ control[c].indirect /\ pointer'[c] # pointer[c]
                          \/ table'[c] # table[c] }
  /\ drawnAhead' = (drawnAhead /\ enabled' = enabled /\ control' = control
                      /\ touched' = {})
  /\ UNCHANGED <<bands, base>>

DmaRuns ==
  /\ RunDma
  /\ touched' = touched \cup
       { c \in Channels : control[c].indirect /\ pointer'[c] # pointer[c] }
  /\ drawnAhead' = FALSE
  /\ UNCHANGED <<bands, base, held, writes>>

MCNext ==
  \/ FrameBegins
  \/ (BeginHBlank \/ Scanline) /\ UNCHANGED history
  \/ ProgramWrites
  \/ DmaRuns

MCSpec == MCInit /\ [][MCNext]_<<vars, history>>

-----------------------------------------------------------------------------
(* What a table says of a line, without walking it. *)

(* A descriptor's lines, and the bytes from it to the next: the descriptor *)
(* above Half has a unit for each of its lines, any other one unit.        *)
LinesAt(at) == IF mem[at] = 0 THEN VisibleLines + 1
               ELSE IF mem[at] > Half THEN mem[at] - Half ELSE mem[at]
UnitsAt(at) == IF mem[at] > Half THEN mem[at] - Half ELSE 1
SizeAt(c, at) == IF control[c].indirect THEN 3 ELSE 1 + Unit(c) * UnitsAt(at)

DescriptorAt(at, n) == [at |-> at, line |-> n, end |-> n + LinesAt(at)]

(* The k-th descriptor of the channel's table: where it is, which line it  *)
(* is reached on, and which line is behind it.                             *)
DescriptorOf(c) ==
  LET D[k \in 0 .. VisibleLines] ==
        IF k = 0 THEN DescriptorAt(base[c], 0)
        ELSE DescriptorAt((D[k - 1].at + SizeAt(c, D[k - 1].at)) % BankSize, D[k - 1].end)
  IN  D

(* A line of the frame has the descriptor $80, which the interpreter       *)
(* repeats.                                                                *)
HasLongest(c) ==
  LET D == DescriptorOf(c)
  IN  \E k \in DOMAIN D : D[k].line < VisibleLines /\ mem[D[k].at] = Half

Covering(c, n) ==
  LET D == DescriptorOf(c)
      k == CHOOSE i \in DOMAIN D : D[i].line <= n /\ n < D[i].end
  IN  D[k]

(* A descriptor above Half transfers a unit on each of its lines, any      *)
(* other one unit on its first line.                                       *)
Transfers(c, n) ==
  LET d == Covering(c, n)
  IN  mem[d.at] # 0 /\ (mem[d.at] > Half \/ n = d.line)

UnitAddress(c, n) ==
  LET d      == Covering(c, n)
      passed == (n - d.line) * Unit(c)
      Byte(i) == mem[(d.at + i) % BankSize]
  IN  (passed + IF control[c].indirect THEN Byte(1) + 2 * Half * Byte(2)
                ELSE d.at + 1) % BankSize

(* Properties. *)

(* Line by line a channel sends exactly the units its table lists, from    *)
(* the table it had when the frame began, whatever the program does to the *)
(* other channels, to its start address or by general DMA in between.  A   *)
(* channel that was not enabled at the start of the frame, or was switched *)
(* off since, is silent.  Tables with the descriptor $80 are left out.     *)
LinesFollowTable ==
  [][\A c \in Channels : AtChannel /\ next = c /\ ~barrier' =>
       IF c \notin held THEN ppu' = ppu
       ELSE c \notin touched =>
              \/ ppu' = IF Transfers(c, line)
                          THEN Written(c, UnitAddress(c, line), Unit(c), 1)
                          ELSE ppu
              \/ HasLongest(c)]_<<vars, history>>

(* How many lines a channel has had, also when the line was broken off.    *)
LinesHad(c) == IF c < next /\ next < NChannels THEN line + 1 ELSE line

(* The line counters and the beam agree: what a channel has left is what   *)
(* its table has left, for the channels in front of a blocked one as for   *)
(* those behind it.  Tables with the descriptor $80 are left out.          *)
CountersTrackBeam ==
  \A c \in (held \cap active) \ touched :
    LET d == Covering(c, LinesHad(c))
    IN  \/ /\ hdma[c].left \in {d.end - LinesHad(c), 0}
           /\ hdma[c].left = 0 => LinesHad(c) = d.line
        \/ HasLongest(c)

(* No table has run over the end of its bank, where the walk goes round    *)
(* and the scan stops.                                                     *)
InBank == \A c \in held : table[c] >= base[c]

(* "records, for every rendered scanline, the BG scroll and screen-enable  *)
(* values that will be in effect" (runner/dkc2_hdma.h): the band of a line *)
(* has the registers the line is drawn with when the tables are walked     *)
(* line by line.                                                           *)
BandsMatchLines ==
  drawnAhead /\ Idle /\ InBank /\ line \in 1 .. VisibleLines - 1 =>
    Scan!BandForLine(bands, line).regs = ppu
=============================================================================
