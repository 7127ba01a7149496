----------------------------- MODULE HdmaBands -----------------------------
(***************************************************************************)
(* src/runner/dkc2_hdma.c: the shipped renderer's dry run of the HDMA      *)
(* tables of a frame, which groups the picture's lines into bands of equal *)
(* registers before any of them is drawn.                                  *)
(*                                                                         *)
(* It is a function of the memory, the channels' configuration and the     *)
(* registers at the start of the frame.  A channel keeps the repeat bit    *)
(* and the lines left in one byte.  Of the tracked registers those that    *)
(* one byte sets are kept (screen enables, BGnSC); scroll offsets, which   *)
(* two writes put together, are left out.                                  *)
(***************************************************************************)
EXTENDS Integers, SequencesExt

CONSTANTS
  NChannels,    (* Eight.                                                  *)
  BankSize,     (* The bytes that are readable.                            *)
  Half,         (* 0x80.                                                   *)
  LastLine      (* kDkc2HdmaLastLine.                                      *)

FirstLine == 1  (* kDkc2HdmaFirstLine. *)
NoTable == -1   (* A channel whose table is NULL. *)

(* kTransferLengths and kRegisterOffsets. *)
TransferLengths == <<1, 2, 2, 4, 4, 4, 2, 4>>
RegisterOffsets == << <<0, 0, 0, 0>>, <<0, 1, 0, 1>>, <<0, 0, 0, 0>>,
                      <<0, 0, 1, 1>>, <<0, 1, 2, 3>>, <<0, 1, 0, 1>>,
                      <<0, 0, 0, 0>>, <<0, 0, 1, 1>> >>

Readable(address, length) == address >= 0 /\ address + length <= BankSize

Channel(table, source, count) ==
  [table |-> table, source |-> source, count |-> count]

(* The channels and the registers before line 0. *)
StartOfWalk(configs, regs) ==
  [ channels |-> [ c \in 0 .. NChannels - 1 |->
      Channel(IF configs[c].active THEN configs[c].table ELSE NoTable,
              NoTable, 0) ],
    regs |-> regs ]

(* Mutant: the entry is used up when its whole byte is. *)
NeedsEntryByByte(channel) == channel.count = 0

NeedsEntry(channel) == channel.count % Half = 0

(* The channel with the next entry of its table read.  Zero ends the table,*)
(* and so does an entry that lies past the readable bytes.                 *)
Entry(mem, config, channel) ==
  LET at   == channel.table
      size == IF config.indirect THEN 3 ELSE 1
  IN  IF ~Readable(at, 1) \/ mem[at] = 0 \/ ~Readable(at, size)
        THEN [channel EXCEPT !.table = NoTable]
        ELSE Channel(at + size,
                     IF config.indirect
                       THEN mem[at + 1] + 2 * Half * mem[at + 2]
                       ELSE channel.source,
                     mem[at])

(* The registers after the bytes of a unit that can be read: each holds    *)
(* the last byte its offset got.                                           *)
ApplyUnit(mem, config, from, regs) ==
  LET mode  == config.mode + 1
      Hits(r) == { j \in 0 .. TransferLengths[mode] - 1 :
                     /\ config.register + RegisterOffsets[mode][j + 1] = r
                     /\ \A i \in 0 .. j : Readable(from + i, 1) }
  IN  [ r \in DOMAIN regs |->
          IF Hits(r) = {} THEN regs[r] ELSE mem[from + Max(Hits(r))] ]

(* Dkc2HdmaBandMatches. *)
BandMatches(band, regs) == band.regs = regs

(* Dkc2HdmaStepChannel: one channel, one line. *)
StepChannel(mem, config, c, walk) ==
  LET before  == walk.channels[c]
      fresh   == before.table # NoTable /\ NeedsEntry(before)
      now     == IF fresh THEN Entry(mem, config, before) ELSE before
      from    == IF config.indirect THEN now.source ELSE now.table
      length  == TransferLengths[config.mode + 1]
      sends   == fresh \/ now.count >= Half
      sent    == IF ~sends THEN now
                 ELSE IF ~Readable(from, length)
                   THEN [now EXCEPT !.table = NoTable]
                 ELSE IF config.indirect
                   THEN [now EXCEPT !.source = @ + length]
                   ELSE [now EXCEPT !.table = @ + length]
  IN  IF now.table = NoTable
        THEN [walk EXCEPT !.channels[c] = now]
        ELSE [ channels |-> [walk.channels EXCEPT ![c] =
                               [sent EXCEPT !.count = (@ - 1) % (2 * Half)]],
               regs |-> IF sends THEN ApplyUnit(mem, config, from, walk.regs)
                        ELSE walk.regs ]

(* The walk after each of a line's channels, in their order. *)
LineWalk(mem, configs, walk) ==
  LET W[c \in 0 .. NChannels] ==
        IF c = 0 THEN walk
        ELSE StepChannel(mem, configs[c - 1], c - 1, W[c - 1])
  IN  W

(* A line joins the last band or begins one of its own. *)
AddLine(bands, line, regs) ==
  IF bands # <<>> /\ BandMatches(Last(bands), regs)
    THEN [bands EXCEPT ![Len(bands)].last = line]
    ELSE Append(bands, [first |-> line, last |-> line, regs |-> regs])

(* A line's band, and then the line's walk: line 0 is never drawn. *)
ScanLine(mem, configs, scan, line) ==
  [ walk  |-> LineWalk(mem, configs, scan.walk)[NChannels],
    bands |-> IF line < FirstLine THEN scan.bands
              ELSE AddLine(scan.bands, line, scan.walk.regs) ]

(* The walk and the bands in front of each line. *)
FrameScan(mem, configs, regs) ==
  LET S[n \in 0 .. LastLine + 1] ==
        IF n = 0 THEN [walk |-> StartOfWalk(configs, regs), bands |-> <<>>]
        ELSE ScanLine(mem, configs, S[n - 1], n - 1)
  IN  S

(* Dkc2HdmaScanBands. *)
ScanBands(mem, configs, regs) ==
  FrameScan(mem, configs, regs)[LastLine + 1].bands

(* Dkc2HdmaBandForLine. *)
BandForLine(bands, line) ==
  LET drawn == Max({FirstLine, Min({LastLine, line})})
  IN  CHOOSE band \in ToSet(bands) : drawn \in band.first .. band.last
=============================================================================
