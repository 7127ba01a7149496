----------------------------- MODULE HdmaProofs -----------------------------
(***************************************************************************)
(* Proofs about DMA and HDMA for every number of channels and lines, every *)
(* bank, every table in it and every write of the program: registers and   *)
(* counters keep their ranges, a channel's counter agrees with the beam,   *)
(* and its lines send the units its table lists.                           *)
(*                                                                         *)
(* What a table says is the recursive function DescriptorOf; that it has   *)
(* the values its equation gives, and that its descriptors cover different *)
(* lines, is proved by a smallest counterexample.  The walk is then held   *)
(* against it: WalkInv says at which descriptor every channel is.          *)
(*                                                                         *)
(* The bands of the shipped renderer come from a scan of their own.  Its   *)
(* recursive functions get their equations the same way; the bands have    *)
(* the registers of the scan's lines; and DrawnInv says that the lines are *)
(* walked in step with the scan, channel by channel.                       *)
(***************************************************************************)
EXTENDS MCHdma, WellFoundedInduction, TLAPS

-----------------------------------------------------------------------------
(* Arithmetic. *)

(* Every set of naturals has a smallest element. *)
LEMMA NaturalsHaveMinimum ==
  ASSUME NEW S, S \subseteq Nat, S # {}
  PROVE  \E x \in S : \A y \in S : x <= y
PROOF
<1> DEFINE Less == OpToRel(<, Nat)
<1>1. \A x, y \in Nat : <<y, x>> \in Less <=> y < x
  BY DEF OpToRel
<1>2. IsWellFoundedOn(Less, Nat)
  BY NatLessThanWellFounded
<1> HIDE DEF Less
<1>3. PICK x \in S : \A y \in S : ~(<<y, x>> \in Less)
  BY <1>2, WFMin
<1>4. ASSUME NEW y \in S
      PROVE  x <= y
  <2>1. ~(y < x)
    BY <1>1, <1>3
  <2> QED
    BY <2>1
<1> QED
  BY <1>4

(* The smallest of some naturals is one of them. *)
LEMMA MinIsSmallest ==
  ASSUME NEW S, S \subseteq Nat, S # {}
  PROVE  Min(S) \in S
PROOF
<1>1. \E x \in S : \A y \in S : x <= y
  BY NaturalsHaveMinimum
<1> QED
  BY <1>1 DEF Min

(* The largest of some numbers below n is one of them. *)
LEMMA MaxIsLargest ==
  ASSUME NEW n \in Nat, NEW S, S \subseteq 0 .. n - 1, S # {}
  PROVE  Max(S) \in S
PROOF
<1> DEFINE R == { i \in Nat : n - 1 - i \in S }
<1>1. R \subseteq Nat /\ \A r \in R : n - 1 - r \in S
  OBVIOUS
<1>2. ASSUME NEW s \in S
      PROVE  n - 1 - s \in R /\ s \in Int
  OBVIOUS
<1> HIDE DEF R
<1>3. R # {}
  BY <1>2
<1>4. PICK r \in R : \A q \in R : r <= q
  BY <1>1, <1>3, NaturalsHaveMinimum
<1>5. ASSUME NEW s \in S
      PROVE  n - 1 - r >= s
  <2>1. r <= n - 1 - s
    BY <1>2, <1>4
  <2> QED
    BY <1>1, <1>2, <2>1
<1> QED
  BY <1>1, <1>5 DEF Max

(* An address wraps round within the bank. *)
LEMMA Wraps ==
  ASSUME NEW a \in Int
  PROVE  a % BankSize \in Addresses
PROOF BY HdmaConstantsAssumption DEF Addresses
-----------------------------------------------------------------------------
(* What the operators of the transfers return. *)

(* Every byte of the bank is a byte, and so is what a transfer leaves in a *)
(* register of the B bus.                                                  *)
LEMMA WrittenIsBytes ==
  ASSUME mem \in [Addresses -> Bytes], ppu \in [Registers -> Bytes],
         NEW c, NEW from \in Int, NEW n \in Nat, NEW step \in Int
  PROVE  Written(c, from, n, step) \in [Registers -> Bytes]
PROOF
<1> DEFINE Hits(r) == { i \in 0 .. n - 1 : control[c].register + Pattern(control[c].mode, i) = r }
           Got(r)  == IF Hits(r) = {} THEN ppu[r] ELSE mem[(from + step * Max(Hits(r))) % BankSize]
<1>1. \A r \in Registers : Got(r) \in Bytes
  <2>1. ASSUME NEW r \in Registers, Hits(r) # {}
        PROVE  mem[(from + step * Max(Hits(r))) % BankSize] \in Bytes
    <3> DEFINE last == Max(Hits(r))
    <3>1. last \in Hits(r)
      BY <2>1, MaxIsLargest
    <3>2. last \in Int
      BY <3>1
    <3> HIDE DEF last
    <3>3. from + step * last \in Int
      BY <3>2
    <3>4. (from + step * last) % BankSize \in Addresses
      BY <3>3, Wraps
    <3>5. mem[(from + step * last) % BankSize] \in Bytes
      BY <3>4
    <3> QED
      BY <3>5 DEF last
  <2> HIDE DEF Hits
  <2>2. \A r \in Registers : ppu[r] \in Bytes
    OBVIOUS
  <2> QED
    BY <2>1, <2>2
<1>2. Written(c, from, n, step) = [r \in Registers |-> Got(r)]
  BY DEF Written
<1> HIDE DEF Got
<1> QED
  BY <1>1, <1>2

(* The lengths of the transfer modes. *)
LEMMA UnitBounds ==
  ASSUME NEW word \in ControlWords
  PROVE  Length(word.mode) \in 1 .. 4
PROOF
<1>1. word.mode \in 0 .. 7
  BY DEF ControlWords
<1> QED
  BY <1>1 DEF Length, Lengths

(* A descriptor that is not zero stands for a line at least, and for Half  *)
(* lines at most.                                                          *)
LEMMA LineCountBounds ==
  ASSUME NEW d \in Bytes
  PROVE  LineCount(d) \in 1 .. Half
PROOF
<1>1. d \in Int /\ Half \in Nat /\ Half > 0
  BY HdmaConstantsAssumption DEF Bytes
<1>2. d % Half \in 0 .. Half - 1
  BY <1>1
<1> QED
  BY <1>1, <1>2 DEF LineCount

-----------------------------------------------------------------------------
(* Type correctness. *)

(* The walk over the channels belongs to a visible line.                   *)
WalkInFrame == next < NChannels => line < VisibleLines

ChannelStates == [left : 0 .. Half, repeat : BOOLEAN, transfer : BOOLEAN]

(* What a channel's line reads and leaves. *)
LEMMA ChannelTypes ==
  ASSUME HdmaTypeOK, NEW c \in Channels
  PROVE  /\ control[c] \in ControlWords /\ Unit(c) \in 1 .. 4
         /\ Descriptor(c) \in Bytes
         /\ Current(c) \in ChannelStates /\ Current(c).left \in 1 .. Half
         /\ TableNow(c) \in Addresses /\ PointerNow(c) \in Addresses
         /\ Source(c) \in Addresses
         /\ \A n \in Int : After(c, n) \in Addresses
PROOF
<1>1. /\ control[c] \in ControlWords /\ table[c] \in Addresses /\ pointer[c] \in Addresses
      /\ hdma[c] \in ChannelStates
  BY DEF HdmaTypeOK, ChannelStates
<1>2. Unit(c) \in 1 .. 4
  BY <1>1, UnitBounds DEF Unit
<1>3. \A n \in Int : After(c, n) \in Addresses
  <2>1. table[c] \in Int
    BY <1>1 DEF Addresses
  <2> QED
    BY <2>1, Wraps DEF After
<1>4. /\ Descriptor(c) \in Bytes /\ mem[After(c, 1)] \in Int /\ mem[After(c, 2)] \in Int
  <2>1. \A a \in Addresses : mem[a] \in Bytes
    BY DEF HdmaTypeOK
  <2>2. After(c, 1) \in Addresses /\ After(c, 2) \in Addresses
    BY <1>3
  <2> QED
    BY <1>1, <2>1, <2>2 DEF Descriptor, Bytes
<1>5. Reloaded(c) \in ChannelStates /\ Reloaded(c).left \in 1 .. Half
  <2>1. LineCount(Descriptor(c)) \in 1 .. Half
    BY <1>4, LineCountBounds
  <2>2. (Descriptor(c) >= Half) \in BOOLEAN
    <3>1. Descriptor(c) \in Int /\ Half \in Int
      BY <1>4, HdmaConstantsAssumption DEF Bytes
    <3> QED
      BY <3>1, SMT
  <2>3. LineCount(Descriptor(c)) \in 0 .. Half
    BY <2>1
  <2> QED
    BY <2>1, <2>2, <2>3 DEF Reloaded, ChannelStates
<1>6. Current(c) \in ChannelStates /\ Current(c).left \in 1 .. Half
  BY <1>1, <1>5 DEF Current, Reloads, ChannelStates
<1>7. TableNow(c) \in Addresses
  BY <1>1, <1>3 DEF TableNow
<1>8. PointerNow(c) \in Addresses
  <2>1. 2 * Half * mem[After(c, 2)] \in Int
    BY <1>4, HdmaConstantsAssumption
  <2>2. mem[After(c, 1)] + 2 * Half * mem[After(c, 2)] \in Int
    BY <1>4, <2>1
  <2>3. (mem[After(c, 1)] + 2 * Half * mem[After(c, 2)]) % BankSize \in Addresses
    BY <2>2, Wraps
  <2> QED
    BY <1>1, <2>3 DEF PointerNow
<1> QED
  BY <1>1, <1>2, <1>3, <1>4, <1>6, <1>7, <1>8 DEF Source

(* A line moves the pointers of its channel within the bank. *)
LEMMA AdvanceTypes ==
  ASSUME HdmaTypeOK, NEW c \in Channels, NEW moved \in Nat, AdvanceSource(c, moved)
  PROVE  table' \in [Channels -> Addresses] /\ pointer' \in [Channels -> Addresses]
PROOF
<1>1. TableNow(c) \in Addresses /\ PointerNow(c) \in Addresses
  BY ChannelTypes
<1>2. TableNow(c) + moved \in Int /\ PointerNow(c) + moved \in Int
  BY <1>1 DEF Addresses
<1>3. (TableNow(c) + moved) % BankSize \in Addresses /\ (PointerNow(c) + moved) % BankSize \in Addresses
  BY <1>2, Wraps
<1>4. /\ \E t \in Addresses : table' = [table EXCEPT ![c] = t]
      /\ \E p \in Addresses : pointer' = [pointer EXCEPT ![c] = p]
  BY <1>1, <1>3 DEF AdvanceSource
<1> QED
  BY <1>4 DEF HdmaTypeOK

(* The beam goes on within the picture. *)
LEMMA ChannelDoneTypes ==
  ASSUME HdmaTypeOK, WalkInFrame, next \in Channels, ChannelDone
  PROVE  line' \in 0 .. VisibleLines /\ next' \in 0 .. NChannels /\ WalkInFrame'
PROOF
<1>1. /\ next \in Int /\ 0 <= next /\ next < NChannels /\ NChannels \in Int
      /\ line \in Int /\ 0 <= line /\ line < VisibleLines /\ VisibleLines \in Int
  BY HdmaConstantsAssumption DEF HdmaTypeOK, WalkInFrame, Channels
<1> QED
  BY <1>1 DEF ChannelDone, WalkInFrame

(* A step of the beam or of the walk over the channels keeps the types. *)
LEMMA WalkKeepsTypes ==
  ASSUME HdmaTypeOK, WalkInFrame, Beam \/ Scanline
  PROVE  HdmaTypeOK' /\ WalkInFrame'
PROOF
<1>1. CASE BeginFrame
  <2>1. /\ table' \in [Channels -> Addresses] /\ counter' \in [Channels -> Bytes]
        /\ line' \in 0 .. VisibleLines
    <3>1. 0 \in Bytes
      BY HdmaConstantsAssumption DEF Bytes
    <3> QED
      BY <1>1, <3>1, HdmaConstantsAssumption DEF BeginFrame, HdmaTypeOK
  <2>2. hdma' \in [Channels -> ChannelStates]
    <3>1. \A c \in Channels : [Cleared EXCEPT !.transfer = c \in enabled] \in ChannelStates
      <4>1. \A b \in BOOLEAN : [Cleared EXCEPT !.transfer = b] \in ChannelStates
        <5>1. FALSE \in BOOLEAN /\ 0 \in 0 .. Half
          BY HdmaConstantsAssumption
        <5> QED
          BY <5>1 DEF Cleared, ChannelStates
      <4>2. \A c : (c \in enabled) \in BOOLEAN
        OBVIOUS
      <4> QED
        BY <4>1, <4>2
    <3> QED
      BY <1>1, <3>1 DEF BeginFrame
  <2>3. /\ active' = enabled /\ next = NChannels
        /\ UNCHANGED <<mem, control, start, pointer, enabled, ppu, next, pending, barrier>>
    BY <1>1 DEF BeginFrame, Idle, setupVars
  <2> QED
    BY <2>1, <2>2, <2>3, HdmaConstantsAssumption DEF HdmaTypeOK, ChannelStates, WalkInFrame
<1>2. CASE BeginHBlank
  <2>1. next' = 0 /\ line < VisibleLines
        /\ UNCHANGED <<mem, control, start, pointer, table, counter, active, hdma, enabled, ppu, line,
                      pending, barrier>>
    BY <1>2 DEF BeginHBlank, setupVars, hdmaVars
  <2> QED
    BY <2>1, HdmaConstantsAssumption DEF HdmaTypeOK, WalkInFrame
<1>3. CASE SkipChannel
  <2>1. /\ line' \in 0 .. VisibleLines /\ next' \in 0 .. NChannels /\ WalkInFrame'
    BY <1>3, ChannelDoneTypes DEF SkipChannel, AtChannel
  <2>2. UNCHANGED <<mem, control, start, pointer, table, counter, active, hdma, enabled, ppu, pending,
                    barrier>>
    BY <1>3 DEF SkipChannel, setupVars, hdmaVars
  <2> QED
    BY <2>1, <2>2 DEF HdmaTypeOK
<1>4. CASE EndChannel
  <2>1. /\ line' \in 0 .. VisibleLines /\ next' \in 0 .. NChannels /\ WalkInFrame'
    BY <1>4, ChannelDoneTypes DEF EndChannel, AtChannel
  <2>2. table' \in [Channels -> Addresses]
    <3>1. next \in Channels /\ After(next, 1) \in Addresses
      BY <1>4, ChannelTypes DEF EndChannel, AtChannel
    <3> QED
      BY <1>4, <3>1 DEF EndChannel, HdmaTypeOK
  <2>3. counter' \in [Channels -> Bytes]
    <3>1. 0 \in Bytes
      BY HdmaConstantsAssumption DEF Bytes
    <3> QED
      BY <1>4, <3>1 DEF EndChannel, HdmaTypeOK
  <2>4. /\ active' \subseteq active
        /\ UNCHANGED <<mem, control, start, pointer, hdma, enabled, ppu, pending, barrier>>
    BY <1>4 DEF EndChannel, setupVars
  <2> QED
    BY <2>1, <2>2, <2>3, <2>4 DEF HdmaTypeOK
<1>5. CASE BlockedLine
  <2>1. next \in Channels /\ AdvanceSource(next, 0) /\ Current(next) \in ChannelStates
    BY <1>5, ChannelTypes DEF BlockedLine, AtChannel
  <2>2. table' \in [Channels -> Addresses] /\ pointer' \in [Channels -> Addresses]
    BY <2>1, AdvanceTypes
  <2>3. hdma' \in [Channels -> ChannelStates]
    BY <1>5, <2>1 DEF BlockedLine, HdmaTypeOK, ChannelStates
  <2>4. barrier' \in BOOLEAN
    BY <1>5, Zenon DEF BlockedLine
  <2>5. UNCHANGED <<mem, control, start, counter, enabled, active, ppu, line, next, pending>>
    BY <1>5 DEF BlockedLine
  <2> QED
    BY <2>2, <2>3, <2>4, <2>5 DEF HdmaTypeOK, ChannelStates, WalkInFrame
<1>6. CASE WalkLine
  <2> DEFINE now  == Current(next)
             left == now.left - 1
  <2>1. next \in Channels
    BY <1>6 DEF WalkLine, AtChannel
  <2>2. /\ now \in ChannelStates /\ now.left \in 1 .. Half /\ Unit(next) \in 1 .. 4
        /\ Source(next) \in Addresses
    BY <2>1, ChannelTypes
  <2>3. /\ line' \in 0 .. VisibleLines /\ next' \in 0 .. NChannels /\ WalkInFrame'
    BY <1>6, <2>1, ChannelDoneTypes DEF WalkLine
  <2>4. ppu' \in [Registers -> Bytes]
    <3>1. Source(next) \in Int /\ Unit(next) \in Nat /\ 1 \in Int
      BY <2>2 DEF Addresses
    <3>2. Written(next, Source(next), Unit(next), 1) \in [Registers -> Bytes]
      BY <3>1, WrittenIsBytes DEF HdmaTypeOK
    <3> QED
      BY <1>6, <3>2 DEF WalkLine, HdmaTypeOK
  <2>5. table' \in [Channels -> Addresses] /\ pointer' \in [Channels -> Addresses]
    <3>1. \E moved \in Nat : AdvanceSource(next, moved)
      BY <1>6, <2>2 DEF WalkLine
    <3> QED
      BY <2>1, <3>1, AdvanceTypes
  <2>6. hdma' = [hdma EXCEPT ![next] =
                   [now EXCEPT !.left = left, !.transfer = TransfersNext(now, left)]]
    BY <1>6 DEF WalkLine
  <2>7. counter' = [counter EXCEPT ![next] = (IF now.repeat THEN Half ELSE 0) + left]
    BY <1>6 DEF WalkLine
  <2> HIDE DEF now
  <2>8. left \in 0 .. Half - 1 /\ Half \in Nat
    BY <2>2, HdmaConstantsAssumption
  <2>9. [now EXCEPT !.left = left, !.transfer = TransfersNext(now, left)] \in ChannelStates
    <3>1. TransfersNext(now, left) \in BOOLEAN
      BY <2>2, Zenon DEF TransfersNext, ChannelStates
    <3>2. left \in 0 .. Half
      BY <2>8
    <3> HIDE DEF left
    <3> QED
      BY <2>2, <3>1, <3>2 DEF ChannelStates
  <2>10. (IF now.repeat THEN Half ELSE 0) + left \in Bytes
    BY <2>8 DEF Bytes
  <2> HIDE DEF left
  <2>11. hdma' \in [Channels -> ChannelStates] /\ counter' \in [Channels -> Bytes]
    BY <2>6, <2>7, <2>9, <2>10 DEF HdmaTypeOK, ChannelStates
  <2>12. UNCHANGED <<mem, control, start, enabled, active, pending, barrier>>
    BY <1>6 DEF WalkLine
  <2> QED
    BY <2>3, <2>4, <2>5, <2>11, <2>12 DEF HdmaTypeOK, ChannelStates
<1> QED
  BY <1>1, <1>2, <1>3, <1>4, <1>5, <1>6 DEF Beam, Scanline

(* A write of the program, or a general DMA, keeps the types. *)
LEMMA ProgramKeepsTypes ==
  ASSUME HdmaTypeOK, WalkInFrame, RunDma \/ Program
  PROVE  HdmaTypeOK' /\ WalkInFrame'
PROOF
<1>1. CASE \E channels \in SUBSET Channels : WriteEnable(channels)
  BY <1>1 DEF WriteEnable, StillActive, setupVars, HdmaTypeOK, WalkInFrame
<1>2. CASE \E c \in Channels : \E word \in Controls : WriteControl(c, word)
  <2>1. /\ control' \in [Channels -> ControlWords]
        /\ UNCHANGED <<mem, start, pointer, table, counter, active, hdma, enabled, ppu, line, next,
                       pending, barrier>>
    BY <1>2, HdmaInputsAssumption DEF WriteControl, hdmaVars, HdmaTypeOK
  <2> QED
    BY <2>1 DEF HdmaTypeOK, WalkInFrame
<1>3. CASE \E c \in Channels : (\E a \in Starts : WriteStart(c, a)) \/ (\E n \in Sizes : WriteSize(c, n))
  <2>1. UNCHANGED <<mem, control, table, counter, active, hdma, enabled, ppu, line, next, pending,
                    barrier>>
    BY <1>3 DEF WriteStart, WriteSize, hdmaVars
  <2>2. start' \in [Channels -> Addresses] /\ pointer' \in [Channels -> Addresses]
    <3>1. CASE \E c \in Channels : \E a \in Starts : WriteStart(c, a)
      BY <3>1, HdmaInputsAssumption DEF WriteStart, HdmaTypeOK
    <3>2. CASE \E c \in Channels : \E n \in Sizes : WriteSize(c, n)
      BY <3>2, HdmaInputsAssumption DEF WriteSize, HdmaTypeOK
    <3> QED
      BY <1>3, <3>1, <3>2
  <2> QED
    BY <2>1, <2>2 DEF HdmaTypeOK, WalkInFrame
<1>4. CASE \E channels \in SUBSET Channels \ {{}} : StartDma(channels)
  BY <1>4 DEF StartDma, setupVars, hdmaVars, HdmaTypeOK, WalkInFrame
<1>5. CASE \E c \in Channels : \E a \in Starts : WriteTable(c, a)
  <2>1. /\ table' \in [Channels -> Addresses]
        /\ UNCHANGED <<mem, control, start, pointer, counter, active, hdma, enabled, ppu, line, next,
                       pending, barrier>>
    BY <1>5, HdmaInputsAssumption DEF WriteTable, setupVars, HdmaTypeOK
  <2> QED
    BY <2>1 DEF HdmaTypeOK, WalkInFrame
<1>6. CASE \E c \in Channels : \E n \in Sizes : WriteCounter(c, n)
  <2>1. PICK c \in Channels, n \in Sizes : WriteCounter(c, n)
    BY <1>6
  <2>2. n % (2 * Half) \in Bytes
    <3>1. n \in Int /\ 2 * Half \in Nat \ {0}
      BY HdmaInputsAssumption, HdmaConstantsAssumption DEF Addresses
    <3>2. n % (2 * Half) \in 0 .. 2 * Half - 1
      BY <3>1
    <3> QED
      BY <3>2 DEF Bytes
  <2>3. /\ counter' \in [Channels -> Bytes]
        /\ UNCHANGED <<mem, control, start, pointer, table, active, hdma, enabled, ppu, line, next,
                       pending, barrier>>
    BY <2>1, <2>2 DEF WriteCounter, setupVars, HdmaTypeOK
  <2> QED
    BY <2>3 DEF HdmaTypeOK, WalkInFrame
<1>7. CASE RunDma
  <2> DEFINE c     == Min(pending)
             bytes == IF control[c].toCpu THEN 0 ELSE DmaBytes(c)
  <2>1. c \in Channels
    <3>1. pending \subseteq Nat /\ pending # {}
      BY <1>7 DEF RunDma, HdmaTypeOK, Channels
    <3>2. c \in pending
      BY <3>1, MinIsSmallest
    <3> QED
      BY <3>2 DEF HdmaTypeOK
  <2>2. /\ ppu' = Written(c, start[c], bytes, control[c].step)
        /\ start' = [start EXCEPT ![c] = (start[c] + control[c].step * bytes) % BankSize]
        /\ pointer' = [pointer EXCEPT ![c] = 0]
        /\ barrier' = control[c].toCpu
        /\ pending' \subseteq pending
        /\ UNCHANGED <<mem, control, table, counter, active, hdma, enabled, line, next>>
    BY <1>7, <2>1 DEF RunDma, hdmaVars, HdmaTypeOK
  <2> HIDE DEF c
  <2>3. control[c].step \in Int /\ control[c].toCpu \in BOOLEAN
    BY <2>1 DEF HdmaTypeOK, ControlWords
  <2>4. bytes \in Nat
    BY <2>1, HdmaConstantsAssumption DEF DmaBytes, HdmaTypeOK, Addresses
  <2>5. start[c] \in Int
    BY <2>1 DEF HdmaTypeOK, Addresses
  <2> HIDE DEF bytes
  <2>6. Written(c, start[c], bytes, control[c].step) \in [Registers -> Bytes]
    BY <2>3, <2>4, <2>5, WrittenIsBytes DEF HdmaTypeOK
  <2>7. start[c] + control[c].step * bytes \in Int
    BY <2>3, <2>4, <2>5
  <2>8. (start[c] + control[c].step * bytes) % BankSize \in Addresses
    BY <2>7, Wraps
  <2>9. start' \in [Channels -> Addresses]
    BY <2>2, <2>8 DEF HdmaTypeOK
  <2>10. pointer' \in [Channels -> Addresses]
    <3>1. 0 \in Addresses
      BY HdmaConstantsAssumption DEF Addresses
    <3> QED
      BY <2>2, <3>1 DEF HdmaTypeOK
  <2>11. barrier' \in BOOLEAN /\ ppu' \in [Registers -> Bytes]
    BY <2>2, <2>3, <2>6
  <2> QED
    BY <2>2, <2>9, <2>10, <2>11 DEF HdmaTypeOK, WalkInFrame
<1> QED
  BY <1>1, <1>2, <1>3, <1>4, <1>5, <1>6, <1>7 DEF Program

(* Every step keeps the types. *)
LEMMA StepKeepsTypes ==
  ASSUME HdmaTypeOK, WalkInFrame, HdmaNext \/ UNCHANGED vars
  PROVE  HdmaTypeOK' /\ WalkInFrame'
PROOF
<1>1. CASE UNCHANGED vars
  BY <1>1 DEF vars, setupVars, hdmaVars, HdmaTypeOK, WalkInFrame
<1> QED
  BY <1>1, WalkKeepsTypes, ProgramKeepsTypes DEF HdmaNext

(* The machine begins well typed. *)
LEMMA InitIsTyped ==
  ASSUME HdmaInit
  PROVE  HdmaTypeOK /\ WalkInFrame
PROOF
<1>1. 0 \in Addresses /\ 0 \in Bytes /\ 0 \in 0 .. Half
  BY HdmaConstantsAssumption DEF Addresses, Bytes
<1>2. Cleared \in ChannelStates
  <2>1. FALSE \in BOOLEAN
    OBVIOUS
  <2> QED
    BY <1>1, <2>1 DEF Cleared, ChannelStates
<1>3. /\ mem \in [Addresses -> Bytes] /\ control \in [Channels -> ControlWords]
      /\ start \in [Channels -> Addresses]
  BY HdmaInputsAssumption DEF HdmaInit
<1>4. barrier \in BOOLEAN
  BY Zenon DEF HdmaInit
<1>5. hdma \in [Channels -> ChannelStates]
  BY <1>2 DEF HdmaInit
<1>6. /\ pointer \in [Channels -> Addresses] /\ table \in [Channels -> Addresses]
      /\ counter \in [Channels -> Bytes] /\ ppu \in [Registers -> Bytes]
  BY <1>1 DEF HdmaInit
<1> QED
  BY <1>3, <1>4, <1>5, <1>6, HdmaConstantsAssumption DEF HdmaInit, HdmaTypeOK, ChannelStates, WalkInFrame

(* A step of the picture is a step of the transfers. *)
LEMMA PictureSteps ==
  ASSUME MCNext
  PROVE  HdmaNext
PROOF BY DEF MCNext, FrameBegins, ProgramWrites, DmaRuns, HdmaNext, Beam

(* Registers, pointers and line counters keep their ranges through every   *)
(* table, every write of the program, a table that runs over the end of    *)
(* its bank, and a barrier in the middle of a line.                        *)
THEOREM HdmaTypeInvariant ==
  /\ HdmaSpec => []HdmaTypeOK
  /\ MCSpec => []HdmaTypeOK
PROOF
<1>1. HdmaInit => HdmaTypeOK /\ WalkInFrame
  BY InitIsTyped
<1>2. HdmaTypeOK /\ WalkInFrame /\ [HdmaNext]_vars => HdmaTypeOK' /\ WalkInFrame'
  BY StepKeepsTypes
<1>3. MCInit => HdmaInit
  BY DEF MCInit
<1>4. [MCNext]_<<vars, history>> => [HdmaNext]_vars
  BY PictureSteps
<1>5. HdmaSpec => []HdmaTypeOK
  BY <1>1, <1>2, PTL DEF HdmaSpec
<1>6. MCSpec => HdmaSpec
  BY <1>3, <1>4, PTL DEF MCSpec, HdmaSpec
<1> QED
  BY <1>5, <1>6, PTL

-----------------------------------------------------------------------------
(* The table of a channel. *)

(* The descriptor behind d in the channel's table. *)
Behind(c, d) == DescriptorAt((d.at + SizeAt(c, d.at)) % BankSize, d.end)

(* D lists a table of n more descriptors from the first one on. *)
Lists(D, first, c, n) ==
  D = [k \in 0 .. n |-> IF k = 0 THEN first ELSE Behind(c, D[k - 1])]

(* Counting from zero to n. *)
LEMMA Counting ==
  ASSUME NEW n \in Nat, NEW S, 0 \in S, \A k \in 0 .. n - 1 : k \in S => k + 1 \in S
  PROVE  0 .. n \subseteq S
PROOF
<1> DEFINE Missing == { k \in 0 .. n : k \notin S }
<1>1. ASSUME Missing # {}
      PROVE  FALSE
  <2>1. PICK k \in Missing : \A l \in Missing : k <= l
    <3>1. Missing \subseteq Nat
      OBVIOUS
    <3> HIDE DEF Missing
    <3> QED
      BY <1>1, <3>1, NaturalsHaveMinimum
  <2>2. k \in 0 .. n /\ k # 0 /\ k \notin S
    OBVIOUS
  <2>3. k - 1 \in 0 .. n - 1 /\ k - 1 \in 0 .. n
    BY <2>2
  <2>4. k - 1 \in S
    BY <2>1, <2>2, <2>3
  <2>5. k - 1 + 1 = k
    BY <2>2
  <2> QED
    BY <2>2, <2>3, <2>4, <2>5
<1> QED
  BY <1>1

(* The recursive definition of a table has a solution, *)
LEMMA TableExists ==
  ASSUME NEW first, NEW c, NEW n \in Nat
  PROVE  \E D : Lists(D, first, c, n)
PROOF
<1> DEFINE With == { m \in Nat : \E D : Lists(D, first, c, m) }
<1>1. 0 \in With
  <2>1. Lists([k \in 0 .. 0 |-> first], first, c, 0)
    BY DEF Lists
  <2> QED
    BY <2>1
<1>2. ASSUME NEW m \in 0 .. n - 1, m \in With
      PROVE  m + 1 \in With
  <2>1. PICK D : Lists(D, first, c, m)
    BY <1>2
  <2> DEFINE E == [k \in 0 .. m + 1 |-> IF k = m + 1 THEN Behind(c, D[m]) ELSE D[k]]
  <2>2. \A k \in 0 .. m + 1 : E[k] = IF k = 0 THEN first ELSE Behind(c, E[k - 1])
    <3>1. \A k \in 0 .. m : D[k] = IF k = 0 THEN first ELSE Behind(c, D[k - 1])
      BY <2>1 DEF Lists
    <3>2. \A k \in 0 .. m : E[k] = D[k]
      OBVIOUS
    <3>3. E[m + 1] = Behind(c, D[m])
      OBVIOUS
    <3> HIDE DEF E
    <3> QED
      BY <3>1, <3>2, <3>3
  <2>3. Lists(E, first, c, m + 1)
    <3>1. E = [k \in 0 .. m + 1 |-> E[k]]
      OBVIOUS
    <3> HIDE DEF E
    <3> QED
      BY <2>2, <3>1 DEF Lists
  <2>4. m + 1 \in Nat
    OBVIOUS
  <2> HIDE DEF E
  <2> QED
    BY <2>3, <2>4
<1>3. 0 .. n \subseteq With
  <2> HIDE DEF With
  <2> QED
    BY <1>1, <1>2, Counting
<1> QED
  BY <1>3

(* so that DescriptorOf is one. *)
LEMMA TableEquation ==
  \A c : Lists(DescriptorOf(c), DescriptorAt(base[c], 0), c, VisibleLines)
PROOF
<1> SUFFICES ASSUME NEW c
             PROVE  Lists(DescriptorOf(c), DescriptorAt(base[c], 0), c, VisibleLines)
  OBVIOUS
<1>1. VisibleLines \in Nat
  BY HdmaConstantsAssumption
<1>2. DescriptorOf(c) = CHOOSE D : Lists(D, DescriptorAt(base[c], 0), c, VisibleLines)
  BY DEF DescriptorOf, Behind, Lists
<1>3. \E D : Lists(D, DescriptorAt(base[c], 0), c, VisibleLines)
  BY <1>1, TableExists
<1> QED
  BY <1>2, <1>3

(* The first descriptor of a table and the ones behind it. *)
LEMMA TableSteps ==
  ASSUME NEW c
  PROVE  /\ DescriptorOf(c)[0] = DescriptorAt(base[c], 0)
         /\ \A k \in 0 .. VisibleLines - 1 :
              DescriptorOf(c)[k + 1] = Behind(c, DescriptorOf(c)[k])
         /\ DOMAIN DescriptorOf(c) = 0 .. VisibleLines
PROOF
<1>1. VisibleLines \in Nat
  BY HdmaConstantsAssumption
<1> DEFINE D == DescriptorOf(c)
<1>2. D = [k \in 0 .. VisibleLines |-> IF k = 0 THEN DescriptorAt(base[c], 0) ELSE Behind(c, D[k - 1])]
  BY TableEquation DEF Lists
<1> HIDE DEF D
<1>3. ASSUME NEW k \in 0 .. VisibleLines - 1
      PROVE  D[k + 1] = Behind(c, D[k])
  <2>1. k + 1 \in 0 .. VisibleLines /\ k + 1 # 0 /\ k + 1 - 1 = k
    BY <1>1
  <2> QED
    <3> DEFINE E(j) == IF j = 0 THEN DescriptorAt(base[c], 0) ELSE Behind(c, D[j - 1])
    <3>1. D[k + 1] = E(k + 1)
      <4> HIDE DEF E
      <4>1. D = [j \in 0 .. VisibleLines |-> E(j)]
        BY <1>2 DEF E
      <4> QED
        BY <2>1, <4>1
    <3> QED
      BY <2>1, <3>1
<1>4. D[0] = DescriptorAt(base[c], 0) /\ DOMAIN D = 0 .. VisibleLines
  BY <1>1, <1>2
<1> QED
  BY <1>3, <1>4 DEF D

(* Descriptors lie in the bank; each stands for a line at least. *)
Descriptors ==
  { d \in [at : Addresses, line : Nat, end : Nat] :
      d.line < d.end /\ d.end = d.line + LinesAt(d.at) }

(* A descriptor stands for at least one line. *)
LEMMA LinesBounds ==
  ASSUME HdmaTypeOK, NEW at \in Addresses
  PROVE  /\ mem[at] \in Bytes
         /\ LinesAt(at) \in Nat /\ LinesAt(at) > 0
         /\ UnitsAt(at) \in Nat
PROOF
<1>1. mem[at] \in Bytes
  BY DEF HdmaTypeOK
<1> QED
  BY <1>1, HdmaConstantsAssumption DEF LinesAt, UnitsAt, Bytes

(* The descriptor at an address is one. *)
LEMMA DescriptorTypes ==
  ASSUME HdmaTypeOK, NEW at \in Addresses, NEW n \in Nat
  PROVE  DescriptorAt(at, n) \in Descriptors
PROOF
<1>1. LinesAt(at) \in Nat /\ LinesAt(at) > 0
  BY LinesBounds
<1> QED
  BY <1>1 DEF DescriptorAt, Descriptors

(* So is the one behind, which is reached where this one ends. *)
LEMMA BehindTypes ==
  ASSUME HdmaTypeOK, NEW c \in Channels, NEW d \in Descriptors
  PROVE  Behind(c, d) \in Descriptors /\ Behind(c, d).line = d.end
PROOF
<1>1. Unit(c) \in Nat
  BY ChannelTypes
<1>2. d.at \in Addresses /\ d.at \in Int /\ d.end \in Nat
  BY DEF Descriptors, Addresses
<1>3. UnitsAt(d.at) \in Nat
  BY <1>2, LinesBounds
<1>4. SizeAt(c, d.at) \in Nat
  BY <1>1, <1>3 DEF SizeAt
<1>5. d.at + SizeAt(c, d.at) \in Int
  BY <1>2, <1>4
<1>6. (d.at + SizeAt(c, d.at)) % BankSize \in Addresses
  BY <1>5, Wraps
<1> QED
  BY <1>2, <1>6, DescriptorTypes DEF Behind, DescriptorAt

(* The k-th descriptor is reached on line k at the earliest. *)
LEMMA TableShape ==
  ASSUME HdmaTypeOK, NEW c \in Channels, base[c] \in Addresses, NEW k \in 0 .. VisibleLines
  PROVE  DescriptorOf(c)[k] \in Descriptors /\ DescriptorOf(c)[k].line >= k
PROOF
<1> DEFINE D == DescriptorOf(c)
           S == { i \in 0 .. VisibleLines : D[i] \in Descriptors /\ D[i].line >= i }
<1>1. VisibleLines \in Nat
  BY HdmaConstantsAssumption
<1>2. 0 \in S
  <2>1. D[0] = DescriptorAt(base[c], 0)
    BY TableSteps
  <2>2. DescriptorAt(base[c], 0) \in Descriptors
    BY DescriptorTypes
  <2>3. DescriptorAt(base[c], 0).line = 0
    BY DEF DescriptorAt
  <2> HIDE DEF D
  <2> QED
    BY <1>1, <2>1, <2>2, <2>3
<1>3. ASSUME NEW i \in 0 .. VisibleLines - 1, i \in S
      PROVE  i + 1 \in S
  <2>1. D[i + 1] = Behind(c, D[i])
    BY TableSteps
  <2> HIDE DEF D
  <2>2. D[i] \in Descriptors /\ D[i].line >= i
    BY <1>3
  <2>3. D[i + 1] \in Descriptors /\ D[i + 1].line = D[i].end
    BY <2>1, <2>2, BehindTypes
  <2>4. D[i].line \in Nat /\ D[i].end \in Nat /\ D[i].line < D[i].end
    BY <2>2 DEF Descriptors
  <2>5. i + 1 \in 0 .. VisibleLines /\ D[i + 1].line >= i + 1
    BY <1>1, <2>2, <2>3, <2>4
  <2> QED
    BY <2>3, <2>5
<1>4. 0 .. VisibleLines \subseteq S
  <2> HIDE DEF S
  <2> QED
    BY <1>1, <1>2, <1>3, Counting
<1> QED
  BY <1>4

(* A descriptor ends before any later one begins. *)
LEMMA TableOrder ==
  ASSUME HdmaTypeOK, NEW c \in Channels, base[c] \in Addresses,
         NEW i \in 0 .. VisibleLines, NEW k \in 0 .. VisibleLines, i < k
  PROVE  DescriptorOf(c)[i].end <= DescriptorOf(c)[k].line
PROOF
<1> DEFINE D == DescriptorOf(c)
           S == { j \in 0 .. VisibleLines : i < j => D[i].end <= D[j].line }
<1>1. VisibleLines \in Nat
  BY HdmaConstantsAssumption
<1>2. 0 \in S
  BY <1>1
<1>3. ASSUME NEW j \in 0 .. VisibleLines - 1, j \in S
      PROVE  j + 1 \in S
  <2>1. D[j + 1] = Behind(c, D[j])
    BY TableSteps
  <2>2. D[i] \in Descriptors /\ D[j] \in Descriptors
    BY <1>1, TableShape
  <2> HIDE DEF D
  <2>3. D[j + 1].line = D[j].end
    BY <2>1, <2>2, BehindTypes
  <2>4. D[j].line \in Nat /\ D[j].end \in Nat /\ D[j].line < D[j].end /\ D[i].end \in Nat
    BY <2>2 DEF Descriptors
  <2>5. j + 1 \in 0 .. VisibleLines
    BY <1>1
  <2>6. CASE i = j
    BY <2>3, <2>4, <2>5, <2>6
  <2>7. CASE i < j
    <3>1. D[i].end <= D[j].line
      BY <1>3, <2>7
    <3> QED
      BY <2>3, <2>4, <2>5, <3>1
  <2>8. CASE i > j
    <3>1. ~(i < j + 1)
      BY <2>8
    <3> QED
      BY <2>5, <3>1
  <2> QED
    BY <2>6, <2>7, <2>8
<1>4. 0 .. VisibleLines \subseteq S
  <2> HIDE DEF S
  <2> QED
    BY <1>1, <1>2, <1>3, Counting
<1> QED
  BY <1>4

(* so that the descriptor of a line is the only one that covers it. *)
LEMMA CoveringIs ==
  ASSUME HdmaTypeOK, NEW c \in Channels, base[c] \in Addresses,
         NEW k \in 0 .. VisibleLines, NEW n \in Nat,
         DescriptorOf(c)[k].line <= n, n < DescriptorOf(c)[k].end
  PROVE  Covering(c, n) = DescriptorOf(c)[k]
PROOF
<1> DEFINE D == DescriptorOf(c)
           Covers(i) == D[i].line <= n /\ n < D[i].end
<1>1. ASSUME NEW i \in 0 .. VisibleLines, Covers(i)
      PROVE  i = k
  <2>1. D[i] \in Descriptors /\ D[k] \in Descriptors
    BY TableShape
  <2>2. i < k => D[i].end <= D[k].line
    BY TableOrder
  <2>3. k < i => D[k].end <= D[i].line
    BY TableOrder
  <2>4. /\ D[i].line \in Nat /\ D[i].end \in Nat /\ D[k].line \in Nat /\ D[k].end \in Nat
    BY <2>1 DEF Descriptors
  <2>5. D[k].line <= n /\ n < D[k].end /\ D[i].line <= n /\ n < D[i].end
    BY <1>1
  <2> HIDE DEF D
  <2> QED
    BY <2>2, <2>3, <2>4, <2>5
<1>2. Covers(k) /\ DOMAIN D = 0 .. VisibleLines
  BY TableSteps
<1>3. Covering(c, n) = D[CHOOSE i \in DOMAIN D : Covers(i)]
  BY DEF Covering
<1> HIDE DEF D, Covers
<1>4. (CHOOSE i \in DOMAIN D : Covers(i)) = k
  <2>1. \E i : i \in DOMAIN D /\ Covers(i)
    BY <1>2
  <2> QED
    BY <1>1, <1>2, <2>1
<1> QED
  BY <1>3, <1>4 DEF D

-----------------------------------------------------------------------------
(* The walk and the table. *)

(* Where the units of an indirect descriptor are, and how many units the   *)
(* channel has sent from d before line n.                                  *)
IndirectAddress(at) == mem[(at + 1) % BankSize] + 2 * Half * mem[(at + 2) % BankSize]
UnitsSent(d, n) == IF mem[d.at] > Half THEN n - d.line ELSE 1

(* The channel reads d on its next line, *)
BeforeDescriptor(c, d) ==
  hdma[c].left = 0 /\ LinesHad(c) = d.line /\ table[c] = d.at

(* is on a further line of d, *)
InsideDescriptor(c, d) ==
  LET n    == LinesHad(c)
      sent == UnitsSent(d, n) * Unit(c)
  IN  /\ mem[d.at] # 0 /\ d.line < n /\ n < d.end
      /\ hdma[c].left = d.end - n
      /\ hdma[c].repeat = (mem[d.at] > Half) /\ hdma[c].transfer = (mem[d.at] > Half)
      /\ IF control[c].indirect
           THEN /\ table[c] = (d.at + 3) % BankSize
                /\ pointer[c] = (IndirectAddress(d.at) + sent) % BankSize
           ELSE table[c] = (d.at + 1 + sent) % BankSize

(* was stopped on one of its lines, or is past the last descriptor.        *)
Halted(c, d) ==
  /\ barrier /\ d.line <= LinesHad(c) /\ LinesHad(c) < d.end
  /\ hdma[c].left = d.end - LinesHad(c)
Ended(c, d) == mem[d.at] = 0 /\ d.line < LinesHad(c)

AtDescriptor(c, d) ==
  IF c \in active THEN BeforeDescriptor(c, d) \/ InsideDescriptor(c, d) \/ Halted(c, d)
  ELSE Ended(c, d)

OnTable(c) ==
  HasLongest(c) \/ \E k \in 0 .. VisibleLines : AtDescriptor(c, DescriptorOf(c)[k])

(* A channel that walks was enabled when the frame began; general DMA and  *)
(* the walk exclude each other.                                            *)
Enrolled ==
  /\ active \subseteq held /\ held \subseteq enabled
  /\ base \in [Channels -> Addresses]
  /\ next < NChannels => pending = {}

(* The inductive invariant: every channel the program has left alone is at *)
(* the descriptor of its table that the beam has reached.                  *)
WalkInv ==
  /\ HdmaTypeOK /\ WalkInFrame /\ Enrolled
  /\ \A c \in held \ touched : OnTable(c)

(* Nothing the table is read from has changed. *)
SameTable(c) == mem' = mem /\ base'[c] = base[c] /\ control'[c] = control[c]

(* ... the table is the same. *)
LEMMA TableStays ==
  ASSUME NEW c, SameTable(c)
  PROVE  DescriptorOf(c)' = DescriptorOf(c)
PROOF BY SMT DEF SameTable, DescriptorOf, DescriptorAt, LinesAt, SizeAt, UnitsAt, Unit

(* ... and so has its $80. *)
LEMMA LongestStays ==
  ASSUME NEW c, SameTable(c)
  PROVE  HasLongest(c)' <=> HasLongest(c)
PROOF
<1>1. DescriptorOf(c)' = DescriptorOf(c) /\ mem' = mem
  BY TableStays DEF SameTable
<1> QED
  BY <1>1 DEF HasLongest

(* A step that leaves the channel, its lines and its table alone leaves it *)
(* where it is.                                                            *)
LEMMA ChannelStays ==
  ASSUME NEW c, SameTable(c), OnTable(c),
         hdma'[c] = hdma[c], table'[c] = table[c],
         control[c].indirect => pointer'[c] = pointer[c],
         LinesHad(c)' = LinesHad(c), c \in active' <=> c \in active, barrier => barrier'
  PROVE  OnTable(c)'
PROOF
<1>1. DescriptorOf(c)' = DescriptorOf(c) /\ mem' = mem /\ control'[c] = control[c]
  BY TableStays DEF SameTable
<1>2. HasLongest(c)' <=> HasLongest(c)
  BY LongestStays
<1>3. ASSUME NEW k \in 0 .. VisibleLines, AtDescriptor(c, DescriptorOf(c)[k])
      PROVE  AtDescriptor(c, DescriptorOf(c)[k])'
  <2> DEFINE d == DescriptorOf(c)[k]
  <2>1. d' = d
    BY <1>1
  <2>2. IndirectAddress(d.at)' = IndirectAddress(d.at)
    BY <1>1, <2>1 DEF IndirectAddress
  <2>3. Unit(c)' = Unit(c) /\ UnitsSent(d, LinesHad(c))' = UnitsSent(d, LinesHad(c))
    BY <1>1, <2>1 DEF Unit, UnitsSent
  <2> HIDE DEF d
  <2>4. BeforeDescriptor(c, d) => BeforeDescriptor(c, d)'
    BY <2>1 DEF BeforeDescriptor
  <2>5. InsideDescriptor(c, d) => InsideDescriptor(c, d)'
    BY <1>1, <2>1, <2>2, <2>3 DEF InsideDescriptor
  <2>6. Halted(c, d) => Halted(c, d)'
    BY <2>1 DEF Halted
  <2>7. Ended(c, d) => Ended(c, d)'
    BY <1>1, <2>1 DEF Ended
  <2>8. AtDescriptor(c, d)'
    BY <1>3, <2>4, <2>5, <2>6, <2>7 DEF AtDescriptor, d
  <2> QED
    BY <2>8 DEF d
<1> QED
  BY <1>2, <1>3 DEF OnTable

(* The lines a channel has had when the walk leaves it behind. *)
LEMMA LinesGoOn ==
  ASSUME HdmaTypeOK, next \in Channels, ChannelDone
  PROVE  /\ LinesHad(next) = line
         /\ \A c \in Channels : LinesHad(c)' = IF c = next THEN line + 1 ELSE LinesHad(c)
PROOF
<1>1. /\ next \in Int /\ 0 <= next /\ next < NChannels /\ NChannels \in Int /\ line \in Int
      /\ next' = next + 1
  BY HdmaConstantsAssumption DEF HdmaTypeOK, Channels, ChannelDone
<1>2. LinesHad(next) = line
  BY <1>1 DEF LinesHad
<1>3. ASSUME NEW c \in Channels
      PROVE  LinesHad(c)' = IF c = next THEN line + 1 ELSE LinesHad(c)
  <2>1. c \in Int /\ c < NChannels
    BY HdmaConstantsAssumption DEF Channels
  <2>2. CASE next + 1 = NChannels
    <3>1. next' = NChannels /\ line' = line + 1 /\ c <= next
      BY <1>1, <2>1, <2>2 DEF ChannelDone
    <3>2. LinesHad(c)' = line + 1
      BY <1>1, <3>1 DEF LinesHad
    <3> QED
      BY <1>1, <2>1, <3>1, <3>2 DEF LinesHad
  <2>3. CASE next + 1 # NChannels
    <3>1. next' = next + 1 /\ next + 1 < NChannels /\ line' = line
      BY <1>1, <2>3 DEF ChannelDone
    <3>2. LinesHad(c)' = IF c < next + 1 THEN line + 1 ELSE line
      BY <1>1, <3>1 DEF LinesHad
    <3> QED
      BY <1>1, <2>1, <3>2 DEF LinesHad
  <2> QED
    BY <2>2, <2>3
<1> QED
  BY <1>2, <1>3

-----------------------------------------------------------------------------
(* Addresses wrap round. *)

(* The remainder is the only one. *)
LEMMA RemainderIs ==
  ASSUME NEW z \in Int, NEW n \in Nat, n > 0, NEW k \in Int, NEW r \in 0 .. n - 1, z = n * k + r
  PROVE  z % n = r
PROOF OBVIOUS

(* Division with remainder. *)
LEMMA Quotient ==
  ASSUME NEW z \in Int, NEW n \in Nat, n > 0
  PROVE  z = n * (z \div n) + (z % n) /\ z \div n \in Int /\ z % n \in 0 .. n - 1
PROOF OBVIOUS

(* The quotients of a sum add up. *)
LEMMA SumOfQuotients ==
  ASSUME NEW n \in Int, NEW p \in Int, NEW q \in Int, NEW r \in Int, NEW s \in Int,
         NEW a \in Int, NEW b \in Int, a = n * p + r, r + b = n * q + s
  PROVE  a + b = n * (p + q) + s
PROOF
<1>1. n * (p + q) = n * p + n * q
  OBVIOUS
<1>2. n * p \in Int /\ n * q \in Int
  OBVIOUS
<1> QED
  BY <1>1, <1>2

(* A sum wraps round whenever its parts do. *)
LEMMA WrapsTwice ==
  ASSUME NEW a \in Int, NEW b \in Int
  PROVE  ((a % BankSize) + b) % BankSize = (a + b) % BankSize
PROOF
<1> DEFINE n == BankSize
           r == a % n
           s == (r + b) % n
           p == a \div n
           q == (r + b) \div n
<1>1. n \in Nat /\ n > 0
  BY HdmaConstantsAssumption
<1>2. a = n * p + r /\ p \in Int /\ r \in Int
  BY <1>1, Quotient
<1>3. r + b = n * q + s /\ q \in Int /\ s \in 0 .. n - 1
  <2>1. r + b \in Int
    BY <1>2
  <2> HIDE DEF r
  <2> QED
    BY <1>1, <2>1, Quotient
<1> HIDE DEF n, p, q, r, s
<1>4. a + b = n * (p + q) + s
  BY <1>1, <1>2, <1>3, SumOfQuotients
<1>5. p + q \in Int /\ a + b \in Int
  BY <1>2, <1>3
<1>6. (a + b) % n = s
  BY <1>1, <1>3, <1>4, <1>5, RemainderIs
<1> QED
  BY <1>6 DEF n, r, s

-----------------------------------------------------------------------------
(* Lines and units. *)

(* How many units of d are behind the channel on line n. *)
UnitsBefore(d, n) ==
  IF mem[d.at] > Half THEN n - d.line ELSE IF n = d.line THEN 0 ELSE 1

(* The channel's next line is a line of d: what it has left, whether it    *)
(* transfers a unit, and where that unit is.                               *)
Reads(c, d) ==
  LET n    == LinesHad(c)
      sent == UnitsBefore(d, n) * Unit(c)
  IN  /\ mem[d.at] # 0 /\ d.line <= n /\ n < d.end
      /\ Current(c).left = d.end - n
      /\ Current(c).repeat = (mem[d.at] > Half)
      /\ Current(c).transfer = (mem[d.at] > Half \/ n = d.line)
      /\ IF control[c].indirect
           THEN /\ TableNow(c) = (d.at + 3) % BankSize
                /\ PointerNow(c) = (IndirectAddress(d.at) + sent) % BankSize
           ELSE TableNow(c) = (d.at + 1 + sent) % BankSize

(* A descriptor that is not zero and not $80 is counted as the table says. *)
LEMMA PlainCount ==
  ASSUME HdmaTypeOK, NEW at \in Addresses, mem[at] # 0, mem[at] # Half
  PROVE  /\ LineCount(mem[at]) = LinesAt(at)
         /\ mem[at] >= Half <=> mem[at] > Half
PROOF
<1>1. /\ mem[at] \in Int /\ mem[at] > 0 /\ mem[at] < 2 * Half /\ Half \in Nat /\ Half > 0
  BY HdmaConstantsAssumption DEF HdmaTypeOK, Bytes
<1>2. CASE mem[at] < Half
  <2>1. mem[at] % Half = mem[at]
    BY <1>1, <1>2
  <2> QED
    BY <1>1, <1>2, <2>1 DEF LineCount, LinesAt
<1>3. CASE mem[at] > Half
  <2>1. /\ mem[at] = Half * 1 + (mem[at] - Half)
        /\ mem[at] - Half \in 0 .. Half - 1
    BY <1>1, <1>3
  <2>2. mem[at] % Half = mem[at] - Half
    BY <1>1, <2>1, RemainderIs
  <2> QED
    BY <1>1, <1>3, <2>2 DEF LineCount, LinesAt
<1> QED
  BY <1>1, <1>2, <1>3

(* An indirect address is a number. *)
LEMMA IndirectTypes ==
  ASSUME HdmaTypeOK, NEW at \in Addresses
  PROVE  IndirectAddress(at) \in Int
PROOF
<1>1. \A n \in Int : mem[(at + n) % BankSize] \in Int
  <2>1. at \in Int
    BY DEF Addresses
  <2>2. \A n \in Int : (at + n) % BankSize \in Addresses
    BY <2>1, Wraps
  <2>3. \A a \in Addresses : mem[a] \in Int
    BY DEF HdmaTypeOK, Bytes
  <2> QED
    BY <2>2, <2>3
<1>2. mem[(at + 1) % BankSize] \in Int /\ 2 * Half * mem[(at + 2) % BankSize] \in Int
  BY <1>1, HdmaConstantsAssumption
<1> QED
  BY <1>2 DEF IndirectAddress

(* A channel the walk has reached reads a line of its table. *)
LEMMA NextReads ==
  ASSUME WalkInv, AtChannel, NEW c \in Channels, c = next, Walks(c),
         ~(Reloads(c) /\ Descriptor(c) = 0),
         c \in held \ touched, ~HasLongest(c)
  PROVE  \E k \in 0 .. VisibleLines : Reads(c, DescriptorOf(c)[k])
PROOF
<1>1. HdmaTypeOK /\ WalkInFrame /\ base[c] \in Addresses /\ OnTable(c) /\ ~barrier /\ c \in active
  BY DEF WalkInv, Enrolled, AtChannel, Walks
<1>2. PICK k \in 0 .. VisibleLines : AtDescriptor(c, DescriptorOf(c)[k])
  BY <1>1 DEF OnTable
<1> DEFINE d == DescriptorOf(c)[k]
           n == LinesHad(c)
<1>3. BeforeDescriptor(c, d) \/ InsideDescriptor(c, d)
  BY <1>1, <1>2 DEF AtDescriptor, Halted
<1>4. d \in Descriptors /\ DOMAIN DescriptorOf(c) = 0 .. VisibleLines
  BY <1>1, TableShape, TableSteps
<1>5. n = line /\ line < VisibleLines /\ line \in Nat
  <2>1. c \in Int /\ c < NChannels
    BY HdmaConstantsAssumption DEF Channels
  <2>2. line < VisibleLines
    BY <1>1, <2>1 DEF WalkInFrame
  <2> QED
    BY <1>1, <2>1, <2>2 DEF LinesHad, HdmaTypeOK
<1>6. d.line < VisibleLines => mem[d.at] # Half
  BY <1>4 DEF HasLongest
<1> HIDE DEF d, n
<1>7. /\ d.at \in Addresses /\ d.at \in Int /\ d.line \in Nat /\ d.end \in Nat
      /\ d.line < d.end /\ d.end = d.line + LinesAt(d.at) /\ mem[d.at] \in Int
      /\ LinesAt(d.at) \in Nat
  <2>1. d.at \in Addresses
    BY <1>4 DEF Descriptors
  <2>2. LinesAt(d.at) \in Nat
    BY <1>1, <2>1, LinesBounds
  <2> QED
    BY <1>1, <1>4, <2>1, <2>2 DEF Descriptors, Addresses, HdmaTypeOK, Bytes
<1>8. Unit(c) \in Nat
  BY <1>1, ChannelTypes
<1>9. CASE BeforeDescriptor(c, d)
  <2>1. hdma[c].left = 0 /\ n = d.line /\ table[c] = d.at
    BY <1>9 DEF BeforeDescriptor, n
  <2>2. mem[d.at] # 0 /\ mem[d.at] # Half
    BY <1>5, <1>6, <2>1 DEF Reloads, Descriptor
  <2>3. /\ LineCount(mem[d.at]) = LinesAt(d.at)
        /\ mem[d.at] >= Half <=> mem[d.at] > Half
    BY <1>1, <1>7, <2>2, PlainCount
  <2>4. Current(c) = [left |-> LineCount(mem[d.at]), repeat |-> mem[d.at] >= Half, transfer |-> TRUE]
    BY <2>1 DEF Current, Reloads, Reloaded, Descriptor
  <2>5. /\ Current(c).left = d.end - n
        /\ Current(c).repeat = (mem[d.at] > Half)
        /\ Current(c).transfer = (mem[d.at] > Half \/ n = d.line)
    <3>1. Current(c).left = d.end - n
      BY <1>7, <2>1, <2>3, <2>4
    <3>2. (mem[d.at] >= Half) = (mem[d.at] > Half)
      BY <1>7, <2>3, HdmaConstantsAssumption
    <3>3. Current(c).repeat = (mem[d.at] > Half)
      BY <2>4, <3>2
    <3>4. Current(c).transfer = TRUE /\ (mem[d.at] > Half \/ n = d.line) = TRUE
      BY <2>1, <2>4
    <3> QED
      BY <3>1, <3>3, <3>4
  <2>6. UnitsBefore(d, n) * Unit(c) = 0
    BY <1>7, <1>8, <2>1 DEF UnitsBefore
  <2>7. CASE control[c].indirect
    <3>1. TableNow(c) = (d.at + 3) % BankSize
      BY <2>1, <2>7 DEF TableNow, Reloads, After
    <3>2. PointerNow(c) = IndirectAddress(d.at) % BankSize
      BY <2>1, <2>7 DEF PointerNow, Reloads, After, IndirectAddress
    <3>3. IndirectAddress(d.at) \in Int
      BY <1>1, <1>7, IndirectTypes
    <3>4. IndirectAddress(d.at) + 0 = IndirectAddress(d.at)
      BY <3>3
    <3>5. Reads(c, d)
      BY <1>7, <2>1, <2>2, <2>5, <2>6, <2>7, <3>1, <3>2, <3>4 DEF Reads, n
    <3> QED
      BY <3>5 DEF d
  <2>8. CASE ~control[c].indirect
    <3>1. TableNow(c) = (d.at + 1) % BankSize
      BY <2>1, <2>8 DEF TableNow, Reloads, After
    <3>2. d.at + 1 + 0 = d.at + 1
      BY <1>7
    <3>3. Reads(c, d)
      BY <1>7, <2>1, <2>2, <2>5, <2>6, <2>8, <3>1, <3>2 DEF Reads, n
    <3> QED
      BY <3>3 DEF d
  <2> QED
    BY <2>7, <2>8
<1>10. CASE InsideDescriptor(c, d)
  <2>1. /\ mem[d.at] # 0 /\ d.line < n /\ n < d.end /\ hdma[c].left = d.end - n
        /\ hdma[c].repeat = (mem[d.at] > Half) /\ hdma[c].transfer = (mem[d.at] > Half)
    BY <1>10 DEF InsideDescriptor, n
  <2>2. ~Reloads(c)
    BY <1>5, <1>7, <2>1 DEF Reloads
  <2>3. Current(c) = hdma[c] /\ TableNow(c) = table[c] /\ PointerNow(c) = pointer[c]
    BY <2>2 DEF Current, TableNow, PointerNow
  <2>4. UnitsBefore(d, n) = UnitsSent(d, n) /\ n # d.line /\ d.line <= n
    BY <1>5, <1>7, <2>1 DEF UnitsBefore, UnitsSent
  <2>5. hdma[c].transfer = (mem[d.at] > Half \/ n = d.line)
    BY <2>1, <2>4
  <2>6. Reads(c, d)
    BY <1>10, <2>1, <2>3, <2>4, <2>5 DEF InsideDescriptor, Reads, n
  <2> QED
    BY <2>6 DEF d
<1> QED
  BY <1>3, <1>9, <1>10

(* A line of d that sends a unit leaves one unit more behind the channel.  *)
LEMMA UnitsAdd ==
  ASSUME NEW d, NEW n \in Nat, NEW u \in Nat, d.line \in Nat, d.line <= n
  PROVE  /\ UnitsBefore(d, n) * u \in Nat /\ UnitsSent(d, n + 1) * u \in Nat
         /\ UnitsBefore(d, n) * u + (IF mem[d.at] > Half \/ n = d.line THEN u ELSE 0)
              = UnitsSent(d, n + 1) * u
PROOF
<1>1. CASE mem[d.at] > Half
  <2>1. UnitsBefore(d, n) = n - d.line /\ UnitsSent(d, n + 1) = (n - d.line) + 1
    BY <1>1 DEF UnitsBefore, UnitsSent
  <2>2. n - d.line \in Nat
    OBVIOUS
  <2>3. \A m \in Nat : m * u \in Nat /\ m * u + u = (m + 1) * u /\ (m + 1) * u \in Nat
    OBVIOUS
  <2> QED
    BY <1>1, <2>1, <2>2, <2>3
<1>2. CASE ~(mem[d.at] > Half)
  <2>1. UnitsBefore(d, n) = (IF n = d.line THEN 0 ELSE 1) /\ UnitsSent(d, n + 1) = 1
    BY <1>2 DEF UnitsBefore, UnitsSent
  <2>2. 0 * u = 0 /\ 1 * u = u
    OBVIOUS
  <2> QED
    BY <1>2, <2>1, <2>2
<1> QED
  BY <1>1, <1>2

(* The next descriptor of the table is behind the units this one has sent. *)
LEMMA UnitsOfDescriptor ==
  ASSUME HdmaTypeOK, NEW d \in Descriptors, NEW n \in Nat, n + 1 = d.end, mem[d.at] # 0
  PROVE  UnitsSent(d, n + 1) = UnitsAt(d.at)
PROOF
<1>1. d.at \in Addresses /\ d.line \in Nat /\ d.end = d.line + LinesAt(d.at)
  BY DEF Descriptors
<1>2. LinesAt(d.at) \in Nat
  BY <1>1, LinesBounds
<1>3. n + 1 - d.line = LinesAt(d.at)
  BY <1>1, <1>2
<1>4. CASE mem[d.at] > Half
  <2>1. UnitsSent(d, n + 1) = LinesAt(d.at)
    BY <1>1, <1>2, <1>3, <1>4 DEF UnitsSent
  <2> QED
    BY <1>4, <2>1 DEF UnitsAt, LinesAt
<1>5. CASE ~(mem[d.at] > Half)
  BY <1>5 DEF UnitsSent, UnitsAt
<1> QED
  BY <1>4, <1>5

(* A line moves its channel on to the next line of the descriptor, or to   *)
(* the descriptor behind.                                                  *)
LEMMA LineMovesOn ==
  ASSUME WalkInv, WalkLine, NEW c \in Channels, c = next, SameTable(c), c \in held \ touched
  PROVE  OnTable(c)'
PROOF
<1>1. HasLongest(c)' <=> HasLongest(c)
  BY LongestStays
<1>2. /\ AtChannel /\ Walks(c) /\ ~(Reloads(c) /\ Descriptor(c) = 0) /\ ChannelDone
      /\ active' = active
  BY DEF WalkLine
<1>3. ASSUME ~HasLongest(c)
      PROVE  \E k \in 0 .. VisibleLines : AtDescriptor(c, DescriptorOf(c)[k])'
  <2>1. PICK k \in 0 .. VisibleLines : Reads(c, DescriptorOf(c)[k])
    BY <1>2, <1>3, NextReads
  <2> DEFINE D     == DescriptorOf(c)
             d     == D[k]
             n     == line
             now   == Current(c)
             left  == now.left - 1
             moved == IF now.transfer THEN Unit(c) ELSE 0
             after == UnitsSent(d, n + 1) * Unit(c)
             sent  == UnitsBefore(d, n) * Unit(c)
  <2>2. HdmaTypeOK /\ WalkInFrame /\ base[c] \in Addresses /\ c \in active
    BY <1>2 DEF WalkInv, Enrolled, Walks
  <2>3. /\ LinesHad(c) = n /\ LinesHad(c)' = n + 1 /\ n \in Nat /\ n < VisibleLines
    <3>1. c \in Int /\ c < NChannels
      BY HdmaConstantsAssumption DEF Channels
    <3>2. line \in Nat /\ line < VisibleLines
      BY <2>2, <3>1, HdmaConstantsAssumption DEF WalkInFrame, HdmaTypeOK
    <3> QED
      BY <1>2, <2>2, <3>2, LinesGoOn
  <2>4. d \in Descriptors /\ d.line >= k
    BY <2>2, TableShape
  <2>5. D' = D /\ d' = d /\ mem' = mem /\ control'[c] = control[c] /\ Unit(c)' = Unit(c)
    BY TableStays DEF SameTable, Unit
  <2>6. now \in ChannelStates /\ Unit(c) \in Nat /\ TableNow(c) \in Int /\ PointerNow(c) \in Int
    BY <2>2, ChannelTypes DEF Addresses
  <2>7. /\ mem[d.at] # 0 /\ d.line <= n /\ n < d.end
        /\ now.left = d.end - n
        /\ now.repeat = (mem[d.at] > Half)
        /\ now.transfer = (mem[d.at] > Half \/ n = d.line)
        /\ IF control[c].indirect
             THEN /\ TableNow(c) = (d.at + 3) % BankSize
                  /\ PointerNow(c) = (IndirectAddress(d.at) + sent) % BankSize
             ELSE TableNow(c) = (d.at + 1 + sent) % BankSize
    BY <2>1, <2>3 DEF Reads
  <2>8. hdma'[c] = [now EXCEPT !.left = left, !.transfer = TransfersNext(now, left)]
    BY <2>2 DEF WalkLine, HdmaTypeOK
  <2>9. /\ table'[c] = IF control[c].indirect THEN TableNow(c) ELSE (TableNow(c) + moved) % BankSize
        /\ control[c].indirect => pointer'[c] = (PointerNow(c) + moved) % BankSize
    BY <2>2 DEF WalkLine, AdvanceSource, HdmaTypeOK
  <2> HIDE DEF now, D, n
  <2>10. /\ d.line \in Nat /\ d.end \in Nat /\ d.at \in Addresses /\ d.at \in Int
    BY <2>4 DEF Descriptors, Addresses
  <2> HIDE DEF d
  <2>11. /\ sent \in Nat /\ after \in Nat /\ moved \in Nat /\ sent + moved = after
    <3>1. moved = IF mem[d.at] > Half \/ n = d.line THEN Unit(c) ELSE 0
      BY <2>7
    <3> QED
      BY <2>3, <2>6, <2>7, <2>10, <3>1, UnitsAdd
  <2>12. IndirectAddress(d.at) \in Int /\ IndirectAddress(d.at)' = IndirectAddress(d.at)
    BY <2>2, <2>5, <2>10, IndirectTypes DEF IndirectAddress
  <2> HIDE DEF sent, after, moved
  <2>13. IF control[c].indirect
           THEN /\ table'[c] = (d.at + 3) % BankSize
                /\ pointer'[c] = (IndirectAddress(d.at) + after) % BankSize
           ELSE table'[c] = (d.at + 1 + after) % BankSize
    <3>1. CASE control[c].indirect
      <4>1. (((IndirectAddress(d.at) + sent) % BankSize) + moved) % BankSize
              = (IndirectAddress(d.at) + sent + moved) % BankSize
        BY <2>11, <2>12, WrapsTwice
      <4>2. IndirectAddress(d.at) + sent + moved = IndirectAddress(d.at) + after
        BY <2>11, <2>12
      <4> QED
        BY <2>7, <2>9, <3>1, <4>1, <4>2
    <3>2. CASE ~control[c].indirect
      <4>1. (((d.at + 1 + sent) % BankSize) + moved) % BankSize = (d.at + 1 + sent + moved) % BankSize
        <5>1. d.at + 1 + sent \in Int /\ moved \in Int
          BY <2>10, <2>11
        <5> QED
          BY <5>1, WrapsTwice
      <4>2. d.at + 1 + sent + moved = d.at + 1 + after
        BY <2>10, <2>11
      <4> QED
        BY <2>7, <2>9, <3>2, <4>1, <4>2
    <3> QED
      BY <3>1, <3>2
  <2>14. left = d.end - (n + 1) /\ left \in Int
    BY <2>3, <2>7, <2>10
  <2>15. /\ hdma'[c].left = left /\ hdma'[c].repeat = (mem[d.at] > Half)
         /\ left # 0 => hdma'[c].transfer = (mem[d.at] > Half)
    <3> HIDE DEF left
    <3> QED
      BY <2>6, <2>7, <2>8 DEF ChannelStates, TransfersNext
  <2>16. CASE n + 1 = d.end
    <3>1. k \in 0 .. VisibleLines - 1 /\ k + 1 \in 0 .. VisibleLines
      BY <2>3, <2>4, <2>7, <2>10, <2>16, HdmaConstantsAssumption
    <3> DEFINE e == D[k + 1]
    <3>2. e = Behind(c, d)
      BY <3>1, TableSteps DEF d, D
    <3>3. e.line = n + 1 /\ e.at = (d.at + SizeAt(c, d.at)) % BankSize
      BY <2>16, <3>2 DEF Behind, DescriptorAt
    <3>4. UnitsSent(d, n + 1) = UnitsAt(d.at)
      BY <2>2, <2>3, <2>4, <2>7, <2>16, UnitsOfDescriptor
    <3>5. SizeAt(c, d.at) = IF control[c].indirect THEN 3 ELSE 1 + after
      <4>1. UnitsAt(d.at) \in Nat
        BY <2>2, <2>10, LinesBounds
      <4>2. Unit(c) * UnitsAt(d.at) = UnitsAt(d.at) * Unit(c)
        BY <2>6, <4>1
      <4> QED
        BY <3>4, <4>2 DEF SizeAt, after
    <3>6. d.at + (1 + after) = d.at + 1 + after
      BY <2>10, <2>11
    <3>7. table'[c] = e.at
      BY <2>13, <3>3, <3>5, <3>6
    <3>8. hdma'[c].left = 0
      <4> HIDE DEF left
      <4>1. left = 0
        BY <2>3, <2>10, <2>14, <2>16
      <4> QED
        BY <2>15, <4>1
    <3>9. e' = e
      BY <2>5
    <3> HIDE DEF e
    <3>10. BeforeDescriptor(c, e)'
      BY <2>3, <3>3, <3>7, <3>8, <3>9 DEF BeforeDescriptor
    <3>11. AtDescriptor(c, e)'
      BY <1>2, <2>2, <3>10 DEF AtDescriptor
    <3> QED
      BY <3>1, <3>11 DEF e, D
  <2>17. CASE n + 1 # d.end
    <3>1. d.line < n + 1 /\ n + 1 < d.end /\ left # 0
      BY <2>3, <2>7, <2>10, <2>14, <2>17
    <3>2. (UnitsSent(d, LinesHad(c)) * Unit(c))' = after
      BY <2>3, <2>5 DEF UnitsSent, after
    <3>3. InsideDescriptor(c, d)'
      BY <2>3, <2>5, <2>7, <2>12, <2>13, <2>14, <2>15, <3>1, <3>2 DEF InsideDescriptor
    <3>4. AtDescriptor(c, d)'
      BY <1>2, <2>2, <3>3 DEF AtDescriptor
    <3> QED
      BY <3>4 DEF d, D
  <2> QED
    BY <2>16, <2>17
<1> QED
  BY <1>1, <1>3 DEF OnTable

-----------------------------------------------------------------------------
(* Every step keeps the invariant. *)

(* A line that cannot be transferred halts its channel on that line. *)
LEMMA LineHalts ==
  ASSUME WalkInv, BlockedLine, NEW c \in Channels, c = next, SameTable(c), c \in held \ touched
  PROVE  OnTable(c)'
PROOF
<1>1. HasLongest(c)' <=> HasLongest(c)
  BY LongestStays
<1>2. /\ AtChannel /\ Walks(c) /\ ~(Reloads(c) /\ Descriptor(c) = 0)
      /\ UNCHANGED <<active, next, line>> /\ barrier'
  BY DEF BlockedLine
<1>3. ASSUME ~HasLongest(c)
      PROVE  \E k \in 0 .. VisibleLines : AtDescriptor(c, DescriptorOf(c)[k])'
  <2>1. PICK k \in 0 .. VisibleLines : Reads(c, DescriptorOf(c)[k])
    BY <1>2, <1>3, NextReads
  <2> DEFINE d == DescriptorOf(c)[k]
  <2>2. d' = d
    BY TableStays
  <2>3. LinesHad(c)' = LinesHad(c)
    BY <1>2 DEF LinesHad
  <2>4. hdma'[c].left = Current(c).left
    BY DEF BlockedLine, WalkInv, HdmaTypeOK
  <2> HIDE DEF d
  <2>5. Halted(c, d)'
    BY <1>2, <2>1, <2>2, <2>3, <2>4 DEF Reads, Halted, d
  <2>6. AtDescriptor(c, d)'
    BY <1>2, <2>5 DEF AtDescriptor, Walks
  <2> QED
    BY <2>6 DEF d
<1> QED
  BY <1>1, <1>3 DEF OnTable

(* A zero descriptor ends the table of a channel for good. *)
LEMMA TableEnds ==
  ASSUME WalkInv, EndChannel \/ SkipChannel, NEW c \in Channels, c = next, SameTable(c),
         c \in held \ touched
  PROVE  /\ OnTable(c)'
         /\ ~HasLongest(c) =>
              \E k \in 0 .. VisibleLines :
                /\ mem[DescriptorOf(c)[k].at] = 0
                /\ DescriptorOf(c)[k].line <= line
PROOF
<1>1. HasLongest(c)' <=> HasLongest(c)
  BY LongestStays
<1>2. /\ AtChannel /\ ChannelDone /\ HdmaTypeOK /\ OnTable(c) /\ c \in enabled
      /\ base[c] \in Addresses
  BY DEF EndChannel, SkipChannel, WalkInv, Enrolled
<1>3. LinesHad(c) = line /\ LinesHad(c)' = line + 1 /\ line \in Int
  BY <1>2, LinesGoOn DEF HdmaTypeOK
<1>4. ASSUME ~HasLongest(c)
      PROVE  \E k \in 0 .. VisibleLines :
               /\ mem[DescriptorOf(c)[k].at] = 0
               /\ DescriptorOf(c)[k].line <= line
               /\ AtDescriptor(c, DescriptorOf(c)[k])'
  <2>1. PICK k \in 0 .. VisibleLines : AtDescriptor(c, DescriptorOf(c)[k])
    BY <1>2, <1>4 DEF OnTable
  <2> DEFINE d == DescriptorOf(c)[k]
  <2>2. d' = d /\ mem' = mem
    BY TableStays DEF SameTable
  <2>3. d.line \in Int /\ d.end \in Int
    BY <1>2, TableShape DEF Descriptors
  <2> HIDE DEF d
  <2>4. c \notin active' /\ mem[d.at] = 0 /\ d.line <= line
    <3>1. CASE EndChannel
      <4>1. c \in active /\ ~barrier /\ Reloads(c) /\ Descriptor(c) = 0 /\ active' = active \ {c}
        BY <3>1 DEF EndChannel, Walks, AtChannel
      <4>2. BeforeDescriptor(c, d)
        <5>1. BeforeDescriptor(c, d) \/ InsideDescriptor(c, d)
          BY <2>1, <4>1 DEF AtDescriptor, Halted, d
        <5>2. ~InsideDescriptor(c, d)
          BY <1>3, <2>3, <4>1 DEF InsideDescriptor, Reloads
        <5> QED
          BY <5>1, <5>2
      <4> QED
        BY <1>3, <2>3, <4>1, <4>2 DEF BeforeDescriptor, Descriptor
    <3>2. CASE SkipChannel
      <4>1. c \notin active /\ active' = active
        BY <1>2, <3>2 DEF SkipChannel, Walks, hdmaVars
      <4>2. Ended(c, d)
        BY <2>1, <4>1 DEF AtDescriptor, d
      <4> QED
        BY <1>3, <2>3, <4>1, <4>2 DEF Ended
    <3> QED
      BY <3>1, <3>2
  <2>5. Ended(c, d)'
    BY <1>3, <2>2, <2>3, <2>4 DEF Ended
  <2>6. AtDescriptor(c, d)'
    BY <2>4, <2>5 DEF AtDescriptor
  <2> QED
    BY <2>4, <2>6 DEF d
<1>5. ~HasLongest(c) => OnTable(c)'
  BY <1>4 DEF OnTable
<1>6. HasLongest(c) => OnTable(c)'
  BY <1>1 DEF OnTable
<1> QED
  BY <1>4, <1>5, <1>6

(* A step of the walk keeps every channel on its table. *)
LEMMA ScanKeepsTables ==
  ASSUME WalkInv, Scanline, UNCHANGED history
  PROVE  \A c \in held' \ touched' : OnTable(c)'
PROOF
<1> SUFFICES ASSUME NEW c \in held' \ touched'
             PROVE  OnTable(c)'
  OBVIOUS
<1>1. /\ c \in held \ touched /\ c \in Channels /\ HdmaTypeOK /\ OnTable(c)
      /\ next \in Channels /\ ~barrier /\ base' = base
  BY DEF history, WalkInv, Enrolled, HdmaTypeOK, Scanline, SkipChannel, EndChannel, BlockedLine,
         WalkLine, AtChannel
<1>2. mem' = mem /\ control' = control
  BY DEF Scanline, SkipChannel, EndChannel, BlockedLine, WalkLine, setupVars
<1>3. SameTable(c)
  BY <1>1, <1>2 DEF SameTable
<1>4. CASE c = next
  BY <1>1, <1>3, <1>4, LineHalts, TableEnds, LineMovesOn DEF Scanline
<1>5. CASE c # next
  <2>1. hdma'[c] = hdma[c] /\ table'[c] = table[c] /\ pointer'[c] = pointer[c]
    BY <1>1, <1>5 DEF Scanline, SkipChannel, EndChannel, BlockedLine, WalkLine, setupVars, hdmaVars,
                      AdvanceSource, HdmaTypeOK
  <2>2. c \in active' <=> c \in active
    BY <1>5 DEF Scanline, SkipChannel, EndChannel, BlockedLine, WalkLine, hdmaVars
  <2>3. LinesHad(c)' = LinesHad(c)
    <3>1. CASE BlockedLine
      BY <3>1 DEF BlockedLine, LinesHad
    <3>2. CASE ChannelDone
      BY <1>1, <1>5, <3>2, LinesGoOn
    <3> QED
      BY <3>1, <3>2 DEF Scanline, SkipChannel, EndChannel, WalkLine
  <2> QED
    BY <1>1, <1>3, <2>1, <2>2, <2>3, ChannelStays
<1> QED
  BY <1>4, <1>5

(* A table begins where the channel starts, *)
LEMMA TableBegins ==
  \A c : DescriptorOf(c)[0] = DescriptorAt(base[c], 0)
PROOF BY TableSteps

(* also in the state a step leads to. *)
LEMMA NextTableBegins ==
  \A c : DescriptorOf(c)'[0] = DescriptorAt(base[c], 0)'
PROOF
<1>1. (\A c : DescriptorOf(c)[0] = DescriptorAt(base[c], 0))'
  BY TableBegins, PTL
<1> QED
  BY <1>1

(* When a frame begins every enabled channel is before the first           *)
(* descriptor of its table.                                                *)
LEMMA FrameSetsTables ==
  ASSUME WalkInv, FrameBegins
  PROVE  \A c \in held' \ touched' : OnTable(c)'
PROOF
<1> SUFFICES ASSUME NEW c \in held' \ touched'
             PROVE  OnTable(c)'
  OBVIOUS
<1>1. /\ c \in enabled /\ c \in Channels /\ HdmaTypeOK /\ next' = NChannels
      /\ active' = enabled /\ line' = 0 /\ base' = start
  BY DEF FrameBegins, BeginFrame, Idle, setupVars, WalkInv, HdmaTypeOK
<1>2. hdma'[c].left = 0 /\ table'[c] = start[c]
  BY <1>1 DEF FrameBegins, BeginFrame, Cleared
<1> DEFINE d == DescriptorOf(c)[0]
<1>3. (d.at)' = start[c] /\ (d.line)' = 0
  <2>1. d' = DescriptorAt(base[c], 0)'
    BY NextTableBegins
  <2>2. DescriptorAt(base[c], 0)'.at = start[c] /\ DescriptorAt(base[c], 0)'.line = 0
    BY <1>1 DEF DescriptorAt
  <2> QED
    BY <2>1, <2>2
<1>4. LinesHad(c)' = 0
  BY <1>1, HdmaConstantsAssumption DEF LinesHad
<1> HIDE DEF d
<1>5. BeforeDescriptor(c, d)'
  BY <1>2, <1>3, <1>4 DEF BeforeDescriptor
<1>6. AtDescriptor(c, d)'
  BY <1>1, <1>5 DEF AtDescriptor
<1>7. 0 \in 0 .. VisibleLines
  BY HdmaConstantsAssumption
<1> QED
  BY <1>6, <1>7 DEF OnTable, d

(* Writes of the program and general DMA leave alone the channels they do  *)
(* not touch.                                                              *)
LEMMA ProgramKeepsTables ==
  ASSUME WalkInv, ProgramWrites \/ DmaRuns
  PROVE  \A c \in held' \ touched' : OnTable(c)'
PROOF
<1> SUFFICES ASSUME NEW c \in held' \ touched'
             PROVE  OnTable(c)'
  OBVIOUS
<1>1. Program \/ RunDma
  BY DEF ProgramWrites, DmaRuns
<1>2. /\ mem' = mem /\ hdma' = hdma /\ line' = line /\ next' = next
      /\ ~barrier
  BY <1>1 DEF Program, RunDma, WriteEnable, WriteControl, WriteStart, WriteSize, WriteTable, WriteCounter, StartDma, Idle,
              setupVars, hdmaVars
<1>3. /\ c \in held \ touched /\ c \in Channels /\ base' = base
      /\ control'[c] = control[c] /\ table'[c] = table[c]
      /\ control[c].indirect => pointer'[c] = pointer[c]
  <2>1. CASE ProgramWrites
    BY <2>1 DEF ProgramWrites, WalkInv, Enrolled, HdmaTypeOK
  <2>2. CASE DmaRuns
    BY <2>2 DEF DmaRuns, RunDma, hdmaVars, WalkInv, Enrolled, HdmaTypeOK
  <2> QED
    BY <2>1, <2>2
<1>4. c \in active' <=> c \in active
  <2>1. CASE \E channels \in SUBSET Channels : WriteEnable(channels)
    <3>1. active' = active \cap enabled'
      BY <2>1 DEF WriteEnable, StillActive
    <3>2. c \in enabled'
      <4>1. ~RunDma \/ enabled' = enabled
        BY DEF RunDma
      <4>2. held \subseteq enabled
        BY DEF WalkInv, Enrolled
      <4> QED
        BY <1>3, <4>1, <4>2 DEF ProgramWrites, DmaRuns
    <3> QED
      BY <3>1, <3>2
  <2>2. CASE active' = active
    BY <2>2
  <2> QED
    BY <1>1, <2>1, <2>2 DEF Program, RunDma, WriteControl, WriteStart, WriteSize, WriteTable, WriteCounter, StartDma, hdmaVars
<1>5. LinesHad(c)' = LinesHad(c)
  BY <1>2 DEF LinesHad
<1> QED
  BY <1>2, <1>3, <1>4, <1>5, ChannelStays DEF SameTable, WalkInv

(* The walk begins at the first channel of a line. *)
LEMMA BlankingKeepsTables ==
  ASSUME WalkInv, BeginHBlank, UNCHANGED history
  PROVE  \A c \in held' \ touched' : OnTable(c)'
PROOF
<1> SUFFICES ASSUME NEW c \in held' \ touched'
             PROVE  OnTable(c)'
  OBVIOUS
<1>1. /\ next = NChannels /\ next' = 0
      /\ UNCHANGED <<mem, control, pointer, table, active, hdma, line, barrier, base>>
  BY DEF BeginHBlank, Idle, setupVars, hdmaVars, history
<1>2. c \in held \ touched /\ c \in Channels
  BY DEF history, WalkInv, Enrolled, HdmaTypeOK
<1>3. LinesHad(c)' = LinesHad(c)
  <2>1. ~(c < 0) /\ ~(NChannels < NChannels)
    BY <1>2, HdmaConstantsAssumption DEF Channels
  <2> QED
    BY <1>1, <2>1 DEF LinesHad
<1> QED
  BY <1>1, <1>2, <1>3, ChannelStays DEF SameTable, WalkInv

(* Nothing happens to anyone in a stuttering step. *)
LEMMA StutterKeepsTables ==
  ASSUME WalkInv, UNCHANGED <<vars, history>>
  PROVE  \A c \in held' \ touched' : OnTable(c)'
PROOF
<1> SUFFICES ASSUME NEW c \in held' \ touched'
             PROVE  OnTable(c)'
  OBVIOUS
<1>1. UNCHANGED <<mem, control, pointer, table, active, hdma, line, next, barrier, base, held, touched>>
  BY DEF vars, setupVars, hdmaVars, history
<1>2. LinesHad(c)' = LinesHad(c)
  BY <1>1 DEF LinesHad
<1> QED
  BY <1>1, <1>2, ChannelStays DEF SameTable, WalkInv

(* A channel walks only when it was enabled as the frame began. *)
LEMMA StepKeepsEnrolled ==
  ASSUME WalkInv, MCNext \/ UNCHANGED <<vars, history>>
  PROVE  Enrolled'
PROOF
<1>1. HdmaTypeOK /\ Enrolled
  BY DEF WalkInv
<1>2. CASE FrameBegins
  BY <1>1, <1>2 DEF FrameBegins, BeginFrame, setupVars, Idle, HdmaTypeOK, Enrolled
<1>3. CASE (BeginHBlank \/ Scanline) /\ UNCHANGED history
  <2>1. UNCHANGED <<enabled, pending, held, base>> /\ active' \subseteq active
    BY <1>3 DEF BeginHBlank, Scanline, SkipChannel, EndChannel, BlockedLine, WalkLine, hdmaVars, history
  <2>2. pending = {}
    <3>1. CASE BeginHBlank
      BY <3>1 DEF BeginHBlank, Idle
    <3>2. CASE Scanline
      <4>1. next \in Channels
        BY <3>2 DEF Scanline, SkipChannel, EndChannel, BlockedLine, WalkLine, AtChannel
      <4>2. next < NChannels
        BY <4>1, HdmaConstantsAssumption DEF Channels
      <4> QED
        BY <1>1, <4>2 DEF Enrolled
    <3> QED
      BY <1>3, <3>1, <3>2
  <2> QED
    BY <1>1, <2>1, <2>2 DEF Enrolled
<1>4. CASE ProgramWrites
  <2>1. /\ next' = next /\ next = NChannels /\ base' = base /\ held' = held \cap enabled'
        /\ active' = active \cap enabled' \/ (active' = active /\ enabled' = enabled)
    BY <1>4 DEF ProgramWrites, Program, WriteEnable, WriteControl, WriteStart, WriteSize, WriteTable, WriteCounter, StartDma,
                StillActive, Idle, setupVars, hdmaVars
  <2> QED
    BY <1>1, <2>1, HdmaConstantsAssumption DEF Enrolled
<1>5. CASE DmaRuns
  <2>1. /\ UNCHANGED <<next, base, held, enabled, active>> /\ pending # {}
    BY <1>5 DEF DmaRuns, RunDma, hdmaVars
  <2>2. ~(next < NChannels)
    BY <1>1, <2>1 DEF Enrolled
  <2> QED
    BY <1>1, <2>1, <2>2 DEF Enrolled
<1>6. CASE UNCHANGED <<vars, history>>
  BY <1>1, <1>6 DEF vars, hdmaVars, history, Enrolled
<1> QED
  BY <1>2, <1>3, <1>4, <1>5, <1>6 DEF MCNext

(* Every step keeps the invariant, *)
LEMMA WalkInvKept ==
  ASSUME WalkInv, [MCNext]_<<vars, history>>
  PROVE  WalkInv'
PROOF
<1>1. HdmaTypeOK' /\ WalkInFrame'
  BY StepKeepsTypes, PictureSteps DEF WalkInv
<1>2. Enrolled'
  BY StepKeepsEnrolled
<1>3. (\A c \in held \ touched : OnTable(c))'
  BY FrameSetsTables, ScanKeepsTables, BlankingKeepsTables, ProgramKeepsTables, StutterKeepsTables
     DEF MCNext
<1> QED
  BY <1>1, <1>2, <1>3 DEF WalkInv

(* which holds before the first frame. *)
LEMMA WalkInvInit ==
  ASSUME MCInit
  PROVE  WalkInv
PROOF
<1>1. HdmaTypeOK /\ WalkInFrame
  BY InitIsTyped DEF MCInit
<1>2. active = {} /\ held = {} /\ pending = {} /\ base = start
  BY DEF MCInit, HdmaInit
<1> QED
  BY <1>1, <1>2 DEF WalkInv, Enrolled, HdmaTypeOK

(* So it always holds. *)
LEMMA WalkInvAlways ==
  MCSpec => []WalkInv
PROOF BY WalkInvInit, WalkInvKept, PTL DEF MCSpec

-----------------------------------------------------------------------------
(* The properties. *)

(* A channel on a table has counted what the table says. *)
LEMMA TableCounts ==
  ASSUME WalkInv
  PROVE  CountersTrackBeam
PROOF
<1> SUFFICES ASSUME NEW c \in (held \cap active) \ touched, ~HasLongest(c)
             PROVE  LET d == Covering(c, LinesHad(c))
                    IN  /\ hdma[c].left \in {d.end - LinesHad(c), 0}
                        /\ hdma[c].left = 0 => LinesHad(c) = d.line
  BY DEF CountersTrackBeam
<1>1. c \in Channels /\ HdmaTypeOK /\ base[c] \in Addresses /\ OnTable(c)
  BY DEF WalkInv, Enrolled, HdmaTypeOK
<1>2. PICK k \in 0 .. VisibleLines : AtDescriptor(c, DescriptorOf(c)[k])
  BY <1>1 DEF OnTable
<1> DEFINE d == DescriptorOf(c)[k]
           n == LinesHad(c)
<1>3. BeforeDescriptor(c, d) \/ InsideDescriptor(c, d) \/ Halted(c, d)
  BY <1>2 DEF AtDescriptor
<1>4. d \in Descriptors /\ n \in Nat
  <2>1. n \in Nat
    BY <1>1 DEF LinesHad, HdmaTypeOK
  <2> QED
    BY <1>1, <2>1, TableShape
<1> HIDE DEF d, n
<1>5. d.line \in Nat /\ d.end \in Nat /\ d.line < d.end
  BY <1>4 DEF Descriptors
<1>6. /\ d.line <= n /\ n < d.end
      /\ hdma[c].left \in {d.end - n, 0} /\ (hdma[c].left = 0 => n = d.line)
  BY <1>3, <1>4, <1>5 DEF BeforeDescriptor, InsideDescriptor, Halted, n
<1>7. Covering(c, n) = d
  BY <1>1, <1>4, <1>6, CoveringIs DEF d
<1> QED
  BY <1>6, <1>7 DEF n

(* A line of the walk sends what the table says. *)
LEMMA LineFollowsTable ==
  ASSUME WalkInv, WalkLine, NEW c \in Channels, c = next, c \in held \ touched, ~HasLongest(c)
  PROVE  ppu' = IF Transfers(c, line) THEN Written(c, UnitAddress(c, line), Unit(c), 1) ELSE ppu
PROOF
<1>1. /\ AtChannel /\ Walks(c) /\ ~(Reloads(c) /\ Descriptor(c) = 0)
      /\ HdmaTypeOK /\ base[c] \in Addresses /\ ChannelDone
      /\ ppu' = IF Current(c).transfer THEN Written(c, Source(c), Unit(c), 1) ELSE ppu
  BY DEF WalkLine, WalkInv, Enrolled
<1>2. PICK k \in 0 .. VisibleLines : Reads(c, DescriptorOf(c)[k])
  BY <1>1, NextReads
<1> DEFINE d == DescriptorOf(c)[k]
<1>3. LinesHad(c) = line /\ line \in Nat
  BY <1>1, LinesGoOn DEF HdmaTypeOK
<1>4. d \in Descriptors
  BY <1>1, TableShape
<1> HIDE DEF d
<1>5. d.line \in Nat /\ d.at \in Addresses /\ d.at \in Int
  BY <1>4 DEF Descriptors, Addresses
<1>6. mem[d.at] # 0 /\ d.line <= line /\ line < d.end
  BY <1>2, <1>3 DEF Reads, d
<1>7. Covering(c, line) = d
  BY <1>1, <1>3, <1>6, CoveringIs DEF d
<1>8. Transfers(c, line) <=> Current(c).transfer
  <2>1. Current(c).transfer = (mem[d.at] > Half \/ line = d.line)
    BY <1>2, <1>3 DEF Reads, d
  <2> QED
    BY <1>6, <1>7, <2>1 DEF Transfers
<1>9. ASSUME Current(c).transfer
      PROVE  Source(c) = UnitAddress(c, line)
  <2> DEFINE sent == (line - d.line) * Unit(c)
  <2>1. UnitsBefore(d, line) = line - d.line
    <3>1. mem[d.at] > Half \/ line = d.line
      BY <1>2, <1>3, <1>9 DEF Reads, d
    <3> QED
      BY <1>3, <1>5, <3>1 DEF UnitsBefore
  <2>2. Unit(c) \in Nat /\ IndirectAddress(d.at) \in Int
    BY <1>1, <1>5, ChannelTypes, IndirectTypes
  <2>3. sent \in Int
    BY <1>3, <1>5, <2>2
  <2>4. Source(c) = IF control[c].indirect THEN (IndirectAddress(d.at) + sent) % BankSize
                    ELSE (d.at + 1 + sent) % BankSize
    BY <1>2, <1>3, <2>1 DEF Reads, Source, d
  <2>5. UnitAddress(c, line) = (sent + IF control[c].indirect THEN IndirectAddress(d.at)
                                       ELSE d.at + 1) % BankSize
    BY <1>7 DEF UnitAddress, IndirectAddress
  <2> HIDE DEF sent
  <2>6. /\ IndirectAddress(d.at) + sent = sent + IndirectAddress(d.at)
        /\ d.at + 1 + sent = sent + (d.at + 1)
    BY <1>5, <2>2, <2>3
  <2> QED
    BY <2>4, <2>5, <2>6
<1> QED
  BY <1>1, <1>8, <1>9

(* A channel past its table has nothing to send. *)
LEMMA EndedIsSilent ==
  ASSUME WalkInv, EndChannel \/ SkipChannel, NEW c \in Channels, c = next, SameTable(c),
         c \in held \ touched, ~HasLongest(c)
  PROVE  ~Transfers(c, line)
PROOF
<1>1. PICK k \in 0 .. VisibleLines :
        mem[DescriptorOf(c)[k].at] = 0 /\ DescriptorOf(c)[k].line <= line
  BY TableEnds
<1>2. HdmaTypeOK /\ base[c] \in Addresses /\ line \in 0 .. VisibleLines /\ VisibleLines \in Nat
  BY HdmaConstantsAssumption DEF WalkInv, Enrolled, HdmaTypeOK
<1> DEFINE d == DescriptorOf(c)[k]
<1>3. d.line \in Nat /\ d.end = d.line + LinesAt(d.at)
  BY <1>2, TableShape DEF Descriptors
<1>4. LinesAt(d.at) = VisibleLines + 1
  BY <1>1 DEF LinesAt
<1>5. d.line <= line /\ line < d.end
  <2> HIDE DEF d
  <2>1. d.line <= line
    BY <1>1 DEF d
  <2> QED
    BY <1>2, <1>3, <1>4, <2>1
<1>6. Covering(c, line) = d
  BY <1>2, <1>5, CoveringIs
<1> QED
  BY <1>1, <1>6 DEF Transfers

(* A channel's turn, whichever step it takes. *)
LEMMA ChannelFollowsTable ==
  ASSUME WalkInv, MCNext, NEW c \in Channels, AtChannel, next = c, ~barrier'
  PROVE  IF c \notin held THEN ppu' = ppu
         ELSE c \notin touched =>
                \/ ppu' = IF Transfers(c, line)
                            THEN Written(c, UnitAddress(c, line), Unit(c), 1)
                            ELSE ppu
                \/ HasLongest(c)
PROOF
<1>1. next \in Channels /\ next < NChannels /\ ~barrier /\ pending = {} /\ active \subseteq held
  BY HdmaConstantsAssumption DEF AtChannel, Channels, WalkInv, Enrolled
<1>2. (EndChannel \/ SkipChannel \/ WalkLine) /\ UNCHANGED history
  <2>1. ~Idle /\ ~RunDma /\ ~BlockedLine
    BY <1>1, HdmaConstantsAssumption DEF Idle, RunDma, BlockedLine
  <2>2. ~BeginFrame /\ ~BeginHBlank /\ ~Program
    BY <2>1 DEF BeginFrame, BeginHBlank, Program, WriteEnable, WriteControl, WriteStart, WriteSize,
                WriteTable, WriteCounter, StartDma
  <2> QED
    BY <2>1, <2>2 DEF MCNext, FrameBegins, ProgramWrites, DmaRuns, Scanline
<1>3. SameTable(c)
  BY <1>2 DEF EndChannel, SkipChannel, WalkLine, SameTable, history, setupVars
<1>4. CASE c \notin held
  BY <1>1, <1>2, <1>4 DEF EndChannel, SkipChannel, WalkLine, Walks
<1>5. CASE c \in held \ touched /\ ~HasLongest(c)
  <2>1. CASE WalkLine
    BY <1>5, <2>1, LineFollowsTable
  <2>2. CASE EndChannel \/ SkipChannel
    <3>1. ppu' = ppu
      BY <2>2 DEF EndChannel, SkipChannel
    <3> QED
      BY <1>3, <1>5, <2>2, <3>1, EndedIsSilent
  <2> QED
    BY <1>2, <2>1, <2>2
<1> QED
  BY <1>4, <1>5

(* The line counters and the beam agree, for every table, every number of  *)
(* channels, and whatever the program and general DMA do in between to     *)
(* other channels: a channel has left what its table has left for it.      *)
THEOREM CountersAgreeWithBeam ==
  MCSpec => []CountersTrackBeam
PROOF
<1>1. WalkInv => CountersTrackBeam
  BY TableCounts
<1> QED
  BY <1>1, WalkInvAlways, PTL

(* Line by line a channel sends the units its table lists, from the table  *)
(* it had when the frame began; a channel not enabled then, or switched    *)
(* off since, sends nothing.                                               *)
THEOREM TablesAreFollowed ==
  MCSpec => LinesFollowTable
PROOF
<1>1. WalkInv /\ [MCNext]_<<vars, history>> =>
        [\A c \in Channels : AtChannel /\ next = c /\ ~barrier' =>
           IF c \notin held THEN ppu' = ppu
           ELSE c \notin touched =>
                  \/ ppu' = IF Transfers(c, line)
                              THEN Written(c, UnitAddress(c, line), Unit(c), 1)
                              ELSE ppu
                  \/ HasLongest(c)]_<<vars, history>>
  BY ChannelFollowsTable
<1> QED
  BY <1>1, WalkInvAlways, PTL DEF MCSpec, LinesFollowTable
-----------------------------------------------------------------------------
(* The scan of a frame, line by line and channel by channel. *)

(* W lists the walk of a line before each of the channels up to n. *)
WalkLists(W, m, configs, walk, n) ==
  W = [k \in 0 .. n |->
         IF k = 0 THEN walk
         ELSE Scan!StepChannel(m, configs[k - 1], k - 1, W[k - 1])]

(* The recursive definition of a line's walk has a solution, *)
LEMMA WalkExists ==
  ASSUME NEW m, NEW configs, NEW walk, NEW n \in Nat
  PROVE  \E W : WalkLists(W, m, configs, walk, n)
PROOF
<1> DEFINE first == walk
           After1(scan, k) == Scan!StepChannel(m, configs[k], k, scan)
           Lists1(W, j) == W = [k \in 0 .. j |-> IF k = 0 THEN first ELSE After1(W[k - 1], k - 1)]
           With == { j \in Nat : \E W : Lists1(W, j) }
<1>0. \A W, j : WalkLists(W, m, configs, walk, j) <=> Lists1(W, j)
  BY DEF WalkLists
<1> HIDE DEF first, After1
<1>1. 0 \in With
  <2>1. Lists1([k \in 0 .. 0 |-> first], 0)
    OBVIOUS
  <2> QED
    BY <2>1
<1>2. ASSUME NEW j \in 0 .. n - 1, j \in With
      PROVE  j + 1 \in With
  <2>1. PICK W : Lists1(W, j)
    BY <1>2
  <2> DEFINE E == [k \in 0 .. j + 1 |-> IF k = j + 1 THEN After1(W[j], j) ELSE W[k]]
  <2>2. \A k \in 0 .. j + 1 : E[k] = IF k = 0 THEN first ELSE After1(E[k - 1], k - 1)
    <3>1. \A k \in 0 .. j : W[k] = IF k = 0 THEN first ELSE After1(W[k - 1], k - 1)
      BY <2>1
    <3>2. \A k \in 0 .. j : E[k] = W[k]
      OBVIOUS
    <3>3. E[j + 1] = After1(W[j], j)
      OBVIOUS
    <3> HIDE DEF E
    <3> QED
      BY <3>1, <3>2, <3>3
  <2>3. Lists1(E, j + 1)
    <3>1. E = [k \in 0 .. j + 1 |-> E[k]]
      OBVIOUS
    <3> HIDE DEF E
    <3> QED
      BY <2>2, <3>1
  <2>4. j + 1 \in Nat
    OBVIOUS
  <2> HIDE DEF E
  <2> QED
    BY <2>3, <2>4
<1>3. 0 .. n \subseteq With
  <2> HIDE DEF With
  <2> QED
    BY <1>1, <1>2, Counting
<1>4. \E W : Lists1(W, n)
  BY <1>3
<1> QED
  BY <1>0, <1>4

(* so that LineWalk is one: *)
LEMMA WalkSteps ==
  ASSUME NEW m, NEW configs, NEW walk
  PROVE  LET W == Scan!LineWalk(m, configs, walk)
         IN  /\ W[0] = walk
             /\ \A n \in 0 .. NChannels - 1 : W[n + 1] = Scan!StepChannel(m, configs[n], n, W[n])
PROOF
<1> DEFINE W == Scan!LineWalk(m, configs, walk)
           first == walk
           After1(scan, k) == Scan!StepChannel(m, configs[k], k, scan)
<1>1. NChannels \in Nat
  BY HdmaConstantsAssumption
<1>2. W = CHOOSE T : WalkLists(T, m, configs, walk, NChannels)
  BY DEF Scan!LineWalk, WalkLists
<1>3. WalkLists(W, m, configs, walk, NChannels)
  <2>1. \E T : WalkLists(T, m, configs, walk, NChannels)
    BY <1>1, WalkExists
  <2> HIDE DEF W
  <2> QED
    BY <1>1, <1>2, <2>1
<1> HIDE DEF W
<1>4. W = [k \in 0 .. NChannels |-> IF k = 0 THEN first ELSE After1(W[k - 1], k - 1)]
  BY <1>3 DEF WalkLists
<1> HIDE DEF first, After1
<1>5. W[0] = first
  BY <1>1, <1>4
<1>6. ASSUME NEW n \in 0 .. NChannels - 1
      PROVE  W[n + 1] = After1(W[n], n)
  <2>1. n + 1 \in 0 .. NChannels /\ n + 1 # 0 /\ n + 1 - 1 = n
    BY <1>1
  <2> DEFINE E(j) == IF j = 0 THEN first ELSE After1(W[j - 1], j - 1)
  <2>2. W[n + 1] = E(n + 1)
    <3>1. W = [k \in 0 .. NChannels |-> E(k)]
      BY <1>4
    <3> HIDE DEF E
    <3> QED
      BY <2>1, <3>1
  <2> QED
    BY <2>1, <2>2
<1> QED
  BY <1>5, <1>6 DEF W, first, After1

(* S lists the scan of a frame before each of the lines up to n. *)
ScanLists(S, m, configs, regs, n) ==
  S = [k \in 0 .. n |->
         IF k = 0 THEN [walk |-> Scan!StartOfWalk(configs, regs), bands |-> <<>>]
         ELSE Scan!ScanLine(m, configs, S[k - 1], k - 1)]

(* The recursive definition of the scan has a solution, *)
LEMMA ScanExists ==
  ASSUME NEW m, NEW configs, NEW regs, NEW n \in Nat
  PROVE  \E S : ScanLists(S, m, configs, regs, n)
PROOF
<1> DEFINE first == [walk |-> Scan!StartOfWalk(configs, regs), bands |-> <<>>]
           After1(scan, k) == Scan!ScanLine(m, configs, scan, k)
           Lists1(S, j) == S = [k \in 0 .. j |-> IF k = 0 THEN first ELSE After1(S[k - 1], k - 1)]
           With == { j \in Nat : \E S : Lists1(S, j) }
<1>0. \A S, j : ScanLists(S, m, configs, regs, j) <=> Lists1(S, j)
  BY DEF ScanLists
<1> HIDE DEF first, After1
<1>1. 0 \in With
  <2>1. Lists1([k \in 0 .. 0 |-> first], 0)
    OBVIOUS
  <2> QED
    BY <2>1
<1>2. ASSUME NEW j \in 0 .. n - 1, j \in With
      PROVE  j + 1 \in With
  <2>1. PICK S : Lists1(S, j)
    BY <1>2
  <2> DEFINE E == [k \in 0 .. j + 1 |-> IF k = j + 1 THEN After1(S[j], j) ELSE S[k]]
  <2>2. \A k \in 0 .. j + 1 : E[k] = IF k = 0 THEN first ELSE After1(E[k - 1], k - 1)
    <3>1. \A k \in 0 .. j : S[k] = IF k = 0 THEN first ELSE After1(S[k - 1], k - 1)
      BY <2>1
    <3>2. \A k \in 0 .. j : E[k] = S[k]
      OBVIOUS
    <3>3. E[j + 1] = After1(S[j], j)
      OBVIOUS
    <3> HIDE DEF E
    <3> QED
      BY <3>1, <3>2, <3>3
  <2>3. Lists1(E, j + 1)
    <3>1. E = [k \in 0 .. j + 1 |-> E[k]]
      OBVIOUS
    <3> HIDE DEF E
    <3> QED
      BY <2>2, <3>1
  <2>4. j + 1 \in Nat
    OBVIOUS
  <2> HIDE DEF E
  <2> QED
    BY <2>3, <2>4
<1>3. 0 .. n \subseteq With
  <2> HIDE DEF With
  <2> QED
    BY <1>1, <1>2, Counting
<1>4. \E S : Lists1(S, n)
  BY <1>3
<1> QED
  BY <1>0, <1>4

(* so that FrameScan is one: *)
LEMMA ScanSteps ==
  ASSUME NEW m, NEW configs, NEW regs
  PROVE  LET S == Scan!FrameScan(m, configs, regs)
         IN  /\ S[0] = [walk |-> Scan!StartOfWalk(configs, regs), bands |-> <<>>]
             /\ \A n \in 0 .. VisibleLines - 1 : S[n + 1] = Scan!ScanLine(m, configs, S[n], n)
PROOF
<1> DEFINE S == Scan!FrameScan(m, configs, regs)
           first == [walk |-> Scan!StartOfWalk(configs, regs), bands |-> <<>>]
           After1(scan, k) == Scan!ScanLine(m, configs, scan, k)
<1>1. VisibleLines \in Nat /\ VisibleLines - 1 + 1 = VisibleLines
  BY HdmaConstantsAssumption
<1>2. S = CHOOSE T : ScanLists(T, m, configs, regs, VisibleLines - 1 + 1)
  BY DEF Scan!FrameScan, ScanLists
<1>3. ScanLists(S, m, configs, regs, VisibleLines)
  <2>1. \E T : ScanLists(T, m, configs, regs, VisibleLines)
    BY <1>1, ScanExists
  <2> HIDE DEF S
  <2> QED
    BY <1>1, <1>2, <2>1
<1> HIDE DEF S
<1>4. S = [k \in 0 .. VisibleLines |-> IF k = 0 THEN first ELSE After1(S[k - 1], k - 1)]
  BY <1>3 DEF ScanLists
<1> HIDE DEF first, After1
<1>5. S[0] = first
  BY <1>1, <1>4
<1>6. ASSUME NEW n \in 0 .. VisibleLines - 1
      PROVE  S[n + 1] = After1(S[n], n)
  <2>1. n + 1 \in 0 .. VisibleLines /\ n + 1 # 0 /\ n + 1 - 1 = n
    BY <1>1
  <2> DEFINE E(j) == IF j = 0 THEN first ELSE After1(S[j - 1], j - 1)
  <2>2. S[n + 1] = E(n + 1)
    <3>1. S = [k \in 0 .. VisibleLines |-> E(k)]
      BY <1>4
    <3> HIDE DEF E
    <3> QED
      BY <2>1, <3>1
  <2> QED
    BY <2>1, <2>2
<1> QED
  BY <1>5, <1>6 DEF S, first, After1

(* The bands of the lines before n have the registers the scan has in      *)
(* front of these lines.                                                   *)
RegsBefore(S) == { S[l].walk.regs : l \in 0 .. VisibleLines }
BandsBefore(S, b, n) ==
  /\ b \in Seq([first : Nat, last : Nat, regs : RegsBefore(S)])
  /\ \A i \in 1 .. Len(b) :
       \A l \in b[i].first .. b[i].last : b[i].regs = S[l].walk.regs
  /\ \A l \in 1 .. n - 1 : \E i \in 1 .. Len(b) : l \in b[i].first .. b[i].last
  /\ b # <<>> => b[Len(b)].last = n - 1 /\ b[Len(b)].first <= n - 1

(* A line more is in a band of its registers. *)
LEMMA LineJoinsBand ==
  ASSUME NEW S, NEW n \in 1 .. VisibleLines - 1, NEW a, BandsBefore(S, a, n)
  PROVE  BandsBefore(S, Scan!AddLine(a, n, S[n].walk.regs), n + 1)
PROOF
<1> DEFINE Band == [first : Nat, last : Nat, regs : RegsBefore(S)]
           regs == S[n].walk.regs
           m    == Len(a)
           b    == Scan!AddLine(a, n, regs)
<1>1. /\ a \in Seq(Band)
      /\ \A i \in 1 .. m : \A l \in a[i].first .. a[i].last : a[i].regs = S[l].walk.regs
      /\ \A l \in 1 .. n - 1 : \E i \in 1 .. m : l \in a[i].first .. a[i].last
      /\ a # <<>> => a[m].last = n - 1 /\ a[m].first <= n - 1
  BY DEF BandsBefore
<1>2. n \in Nat /\ regs \in RegsBefore(S) /\ m \in Nat
  <2>1. n \in Nat /\ n \in 0 .. VisibleLines
    BY HdmaConstantsAssumption
  <2> QED
    BY <1>1, <2>1 DEF RegsBefore
<1>3. regs = S[n].walk.regs
  OBVIOUS
<1>4. b = IF a # <<>> /\ a[m].regs = regs THEN [a EXCEPT ![m].last = n]
          ELSE Append(a, [first |-> n, last |-> n, regs |-> regs])
  BY DEF Scan!AddLine, Scan!BandMatches, Scan!Last
<1> HIDE DEF b, regs
<1>5. ASSUME a # <<>> /\ a[m].regs = regs
      PROVE  /\ b \in Seq(Band)
             /\ \A i \in 1 .. Len(b) :
                  \A l \in b[i].first .. b[i].last : b[i].regs = S[l].walk.regs
             /\ \A l \in 1 .. n : \E i \in 1 .. Len(b) : l \in b[i].first .. b[i].last
             /\ b # <<>> => b[Len(b)].last = n /\ b[Len(b)].first <= n
  <2>1. m \in 1 .. m /\ a[m] \in Band
    <3> HIDE DEF Band
    <3>1. Len(a) # 0
      BY <1>1, <1>5
    <3> QED
      BY <1>1, <1>2, <3>1
  <2>2. b = [a EXCEPT ![m] = [a[m] EXCEPT !.last = n]]
    BY <1>4, <1>5
  <2> DEFINE e == [a[m] EXCEPT !.last = n]
  <2>3. e \in Band /\ e.first = a[m].first /\ e.last = n /\ e.regs = regs
    BY <1>2, <1>5, <2>1
  <2>e. b = [a EXCEPT ![m] = e]
    BY <2>2
  <2> HIDE DEF e, m, Band
  <2>4. b \in Seq(Band) /\ Len(b) = m /\ b[m] = e /\ \A i \in 1 .. m : i # m => b[i] = a[i]
    BY <1>1, <1>2, <2>1, <2>3, <2>e DEF m
  <2>5. ASSUME NEW i \in 1 .. m, NEW l \in b[i].first .. b[i].last
        PROVE  b[i].regs = S[l].walk.regs
    <3>1. CASE i # m
      BY <1>1, <2>4, <3>1
    <3>2. CASE i = m
      <4>1. a[m].first \in Nat /\ a[m].last = n - 1
        BY <1>1, <1>5, <2>1 DEF Band
      <4>2. l \in a[m].first .. n
        BY <2>3, <2>4, <3>2
      <4>3. l = n \/ l \in a[m].first .. a[m].last
        BY <1>2, <4>1, <4>2
      <4>4. a[m].regs = S[l].walk.regs
        BY <1>1, <1>3, <1>5, <2>1, <4>3
      <4> QED
        BY <1>5, <2>3, <2>4, <3>2, <4>4
    <3> QED
      BY <3>1, <3>2
  <2>6. ASSUME NEW l \in 1 .. n
        PROVE  \E i \in 1 .. m : l \in b[i].first .. b[i].last
    <3>1. CASE l = n
      <4>1. a[m].first \in Nat /\ a[m].first <= n
        BY <1>1, <1>2, <1>5, <2>1 DEF Band
      <4> QED
        BY <1>2, <2>1, <2>3, <2>4, <3>1, <4>1
    <3>2. CASE l # n
      <4>0. l \in 1 .. n - 1
        BY <1>2, <3>2
      <4>1. PICK i \in 1 .. m : l \in a[i].first .. a[i].last
        BY <1>1, <4>0
      <4>2. CASE i # m
        BY <2>4, <4>1, <4>2
      <4>3. CASE i = m
        <5>1. a[m].first \in Nat /\ a[m].last = n - 1
          BY <1>1, <1>5, <2>1 DEF Band
        <5>2. l \in b[m].first .. b[m].last
          BY <1>2, <2>3, <2>4, <4>1, <4>3, <5>1
        <5> QED
          BY <2>1, <5>2
      <4> QED
        BY <4>2, <4>3
    <3> QED
      BY <3>1, <3>2
  <2>7. b[m].last = n /\ b[m].first <= n
    BY <1>1, <1>2, <1>5, <2>1, <2>3, <2>4 DEF Band
  <2> QED
    BY <2>4, <2>5, <2>6, <2>7 DEF Band
<1>6. ASSUME ~(a # <<>> /\ a[m].regs = regs)
      PROVE  /\ b \in Seq(Band)
             /\ \A i \in 1 .. Len(b) :
                  \A l \in b[i].first .. b[i].last : b[i].regs = S[l].walk.regs
             /\ \A l \in 1 .. n : \E i \in 1 .. Len(b) : l \in b[i].first .. b[i].last
             /\ b # <<>> => b[Len(b)].last = n /\ b[Len(b)].first <= n
  <2> DEFINE e == [first |-> n, last |-> n, regs |-> regs]
  <2>1. b = Append(a, e) /\ e \in Band /\ e.first = n /\ e.last = n /\ e.regs = regs
    BY <1>2, <1>4, <1>6
  <2> HIDE DEF e, m, Band
  <2>2. /\ b \in Seq(Band) /\ Len(b) = m + 1 /\ b[m + 1] = e
        /\ \A i \in 1 .. m : b[i] = a[i]
    BY <1>1, <1>2, <2>1 DEF m
  <2>3. ASSUME NEW i \in 1 .. m + 1, NEW l \in b[i].first .. b[i].last
        PROVE  b[i].regs = S[l].walk.regs
    <3>1. CASE i \in 1 .. m
      BY <1>1, <2>2, <3>1
    <3>2. CASE i = m + 1
      <4>1. l = n
        BY <1>2, <2>1, <2>2, <3>2
      <4> QED
        BY <1>3, <2>1, <2>2, <3>2, <4>1
    <3> QED
      BY <1>2, <3>1, <3>2
  <2>4. ASSUME NEW l \in 1 .. n
        PROVE  \E i \in 1 .. m + 1 : l \in b[i].first .. b[i].last
    <3>1. CASE l = n
      <4>1. m + 1 \in 1 .. m + 1 /\ l \in b[m + 1].first .. b[m + 1].last
        BY <1>2, <2>1, <2>2, <3>1
      <4> QED
        BY <4>1
    <3>2. CASE l # n
      <4>0. l \in 1 .. n - 1
        BY <1>2, <3>2
      <4>1. PICK i \in 1 .. m : l \in a[i].first .. a[i].last
        BY <1>1, <4>0
      <4>2. i \in 1 .. m + 1
        BY <1>2
      <4> QED
        BY <2>2, <4>1, <4>2
    <3> QED
      BY <3>1, <3>2
  <2>5. b[m + 1].last = n /\ b[m + 1].first <= n
    BY <1>2, <2>1, <2>2
  <2> QED
    BY <2>2, <2>3, <2>4, <2>5 DEF Band
<1>7. BandsBefore(S, b, n + 1)
  <2>1. n + 1 - 1 = n
    BY <1>2
  <2> HIDE DEF m
  <2>2. /\ b \in Seq(Band)
        /\ \A i \in 1 .. Len(b) :
             \A l \in b[i].first .. b[i].last : b[i].regs = S[l].walk.regs
        /\ \A l \in 1 .. n : \E i \in 1 .. Len(b) : l \in b[i].first .. b[i].last
        /\ b # <<>> => b[Len(b)].last = n /\ b[Len(b)].first <= n
    BY <1>5, <1>6
  <2> QED
    BY <2>1, <2>2 DEF BandsBefore
<1> QED
  BY <1>3, <1>7 DEF b

(* So the bands of a frame have the registers of its lines. *)
LEMMA BandsFollowScan ==
  ASSUME NEW m, NEW configs, NEW regs
  PROVE  LET S == Scan!FrameScan(m, configs, regs)
         IN  BandsBefore(S, S[VisibleLines].bands, VisibleLines)
PROOF
<1> DEFINE S == Scan!FrameScan(m, configs, regs)
           Good == { k \in 0 .. VisibleLines : BandsBefore(S, S[k].bands, k) }
<1>1. VisibleLines \in Nat /\ VisibleLines > 0
  BY HdmaConstantsAssumption
<1>2. /\ S[0] = [walk |-> Scan!StartOfWalk(configs, regs), bands |-> <<>>]
      /\ \A k \in 0 .. VisibleLines - 1 : S[k + 1] = Scan!ScanLine(m, configs, S[k], k)
  BY ScanSteps
<1> HIDE DEF S
<1>3. ASSUME NEW k \in 0 .. VisibleLines - 1
      PROVE  S[k + 1].bands = IF k < 1 THEN S[k].bands
                              ELSE Scan!AddLine(S[k].bands, k, S[k].walk.regs)
  <2> DEFINE scan == S[k]
  <2>1. S[k + 1] = Scan!ScanLine(m, configs, scan, k)
    BY <1>2
  <2> HIDE DEF scan
  <2>2. S[k + 1].bands = IF k < Scan!FirstLine THEN scan.bands
                         ELSE Scan!AddLine(scan.bands, k, scan.walk.regs)
    BY <2>1 DEF Scan!ScanLine
  <2> QED
    BY <2>2 DEF scan, Scan!FirstLine
<1>4. S[0].bands = <<>>
  BY <1>2
<1>5. 0 \in Good
  <2>1. BandsBefore(S, S[0].bands, 0)
    BY <1>4 DEF BandsBefore
  <2> QED
    BY <1>1, <2>1
<1>6. ASSUME NEW k \in 0 .. VisibleLines - 1, k \in Good
      PROVE  k + 1 \in Good
  <2>1. BandsBefore(S, S[k].bands, k) /\ k \in Nat /\ k + 1 \in 0 .. VisibleLines
    BY <1>1, <1>6
  <2>2. BandsBefore(S, S[k + 1].bands, k + 1)
    <3>1. CASE k < 1
      <4>1. k = 0
        BY <2>1, <3>1
      <4>2. 0 \in 0 .. VisibleLines - 1
        BY <1>1
      <4>3. S[0 + 1].bands = <<>>
        BY <1>3, <1>4, <4>2
      <4>4. BandsBefore(S, S[0 + 1].bands, 0 + 1)
        BY <4>3 DEF BandsBefore
      <4> QED
        BY <4>1, <4>4
    <3>2. CASE ~(k < 1)
      <4>1. k \in 1 .. VisibleLines - 1
        BY <1>1, <3>2
      <4>2. BandsBefore(S, Scan!AddLine(S[k].bands, k, S[k].walk.regs), k + 1)
        BY <2>1, <4>1, LineJoinsBand
      <4>3. S[k + 1].bands = Scan!AddLine(S[k].bands, k, S[k].walk.regs)
        BY <1>3, <3>2
      <4> QED
        BY <4>2, <4>3
    <3> QED
      BY <3>1, <3>2
  <2> QED
    BY <2>1, <2>2
<1> HIDE DEF Good
<1>7. 0 .. VisibleLines \subseteq Good
  BY <1>1, <1>5, <1>6, Counting
<1>8. VisibleLines \in Good
  BY <1>1, <1>7
<1> QED
  BY <1>8 DEF Good, S

(* A line that is drawn is its own in the clamp of BandForLine. *)
LEMMA DrawnLineIs ==
  ASSUME NEW l \in 1 .. VisibleLines - 1
  PROVE  Scan!Max({1, Scan!Min({VisibleLines - 1, l})}) = l
PROOF
<1>1. VisibleLines - 1 \in Int /\ l \in Int /\ 1 <= l /\ l <= VisibleLines - 1
  BY HdmaConstantsAssumption
<1>2. Scan!Min({VisibleLines - 1, l}) = l
  <2> DEFINE x == CHOOSE x \in {VisibleLines - 1, l} : \A y \in {VisibleLines - 1, l} : x <= y
  <2>1. l \in {VisibleLines - 1, l} /\ \A y \in {VisibleLines - 1, l} : l <= y
    BY <1>1
  <2>2. x \in {VisibleLines - 1, l} /\ \A y \in {VisibleLines - 1, l} : x <= y
    BY <2>1
  <2> HIDE DEF x
  <2>3. x = l
    BY <1>1, <2>2
  <2> QED
    BY <2>3 DEF x, Scan!Min
<1>3. Scan!Max({1, l}) = l
  <2> DEFINE x == CHOOSE x \in {1, l} : \A y \in {1, l} : x >= y
  <2>1. l \in {1, l} /\ \A y \in {1, l} : l >= y
    BY <1>1
  <2>2. x \in {1, l} /\ \A y \in {1, l} : x >= y
    BY <2>1
  <2> HIDE DEF x
  <2>3. x = l
    BY <1>1, <2>2
  <2> QED
    BY <2>3 DEF x, Scan!Max
<1> QED
  BY <1>2, <1>3

(* The band of a drawn line has the registers the scan had in front of it. *)
LEMMA BandOfLine ==
  ASSUME NEW m, NEW configs, NEW regs, NEW l \in 1 .. VisibleLines - 1
  PROVE  Scan!BandForLine(Scan!ScanBands(m, configs, regs), l).regs
           = Scan!FrameScan(m, configs, regs)[l].walk.regs
PROOF
<1> DEFINE S == Scan!FrameScan(m, configs, regs)
           b == S[VisibleLines].bands
<1>1. VisibleLines \in Nat /\ VisibleLines - 1 + 1 = VisibleLines /\ VisibleLines \in 0 .. VisibleLines
  BY HdmaConstantsAssumption
<1>2. Scan!ScanBands(m, configs, regs) = b
  BY <1>1 DEF Scan!ScanBands
<1>3. BandsBefore(S, b, VisibleLines)
  BY BandsFollowScan
<1> HIDE DEF S
<1>4. /\ b \in Seq([first : Nat, last : Nat, regs : RegsBefore(S)])
      /\ \A i \in 1 .. Len(b) :
           \A k \in b[i].first .. b[i].last : b[i].regs = S[k].walk.regs
      /\ \E i \in 1 .. Len(b) : l \in b[i].first .. b[i].last
  BY <1>3 DEF BandsBefore
<1> HIDE DEF b
<1> DEFINE band == CHOOSE band \in Scan!ToSet(b) : l \in band.first .. band.last
<1>5. Scan!BandForLine(b, l) = band
  BY DrawnLineIs DEF Scan!BandForLine, Scan!FirstLine
<1>6. Scan!ToSet(b) = { b[i] : i \in 1 .. Len(b) }
  BY <1>4 DEF Scan!ToSet
<1>7. \E x \in Scan!ToSet(b) : l \in x.first .. x.last
  BY <1>4, <1>6
<1>8. band \in Scan!ToSet(b) /\ l \in band.first .. band.last
  BY <1>7
<1> HIDE DEF band
<1>9. PICK i \in 1 .. Len(b) : band = b[i]
  BY <1>6, <1>8
<1>10. band.regs = S[l].walk.regs
  BY <1>4, <1>8, <1>9
<1> QED
  BY <1>2, <1>5, <1>10 DEF S
-----------------------------------------------------------------------------
(* The scan's walk and the interpreter's. *)

(* Every indirect unit the table of the frame asks for lies in the bank.   *)
UnitsInBank(c) ==
  control[c].indirect =>
    LET D == DescriptorOf(c)
    IN  \A k \in DOMAIN D : D[k].line < VisibleLines /\ mem[D[k].at] # 0 =>
          IndirectAddress(D[k].at) + Unit(c) * UnitsAt(D[k].at) <= BankSize

(* The tables both walks read alike: none has the descriptor $80, none     *)
(* points over the end of the bank.                                        *)
PlainTables == \A c \in held : ~HasLongest(c) /\ UnitsInBank(c)

(* The channels the frame was scanned with. *)
FrameConfigs ==
  [ c \in Channels |->
      [ active |-> c \in held, table |-> base[c],
        indirect |-> control[c].indirect, mode |-> control[c].mode,
        register |-> control[c].register ] ]

(* The scan in front of a channel of a line. *)
ScanAt(m, configs, regs, n, c) ==
  Scan!LineWalk(m, configs, Scan!FrameScan(m, configs, regs)[n].walk)
    [IF c < NChannels THEN c ELSE 0]

ScanChannels == [table : Int, source : Int, count : Bytes]
ScanStates   == [channels : [Channels -> ScanChannels], regs : [Registers -> Bytes]]

(* A channel of the scan is where the interpreter's is: at the same place  *)
(* of the table, with as many lines and units left.                        *)
InStep(c, ch) ==
  IF c \notin active THEN ch.table = Scan!NoTable
  ELSE /\ ch.table = table[c]
       /\ base[c] <= table[c] /\ table[c] <= base[c] + 5 * LinesHad(c)
       /\ hdma[c].left = ch.count % Half
       /\ hdma[c].left > 0 =>
            /\ hdma[c].repeat = (ch.count >= Half)
            /\ hdma[c].transfer = (ch.count >= Half)
            /\ control[c].indirect /\ ch.count >= Half =>
                 ch.source = pointer[c] /\ pointer[c] + hdma[c].left * Unit(c) <= BankSize

(* The channel's table has run over the end of the bank. *)
Far(c) ==
  \E t \in 0 .. 5 * LinesHad(c) :
    BankSize <= base[c] + t /\ table[c] = base[c] + t - BankSize

(* The invariant: the bands are those of the frame's tables, and as long   *)
(* as no table has run over the end of the bank the interpreter is where   *)
(* the scan was.                                                           *)
InStepWith(w) ==
  w \in ScanStates /\ w.regs = ppu /\ \A c \in Channels : InStep(c, w.channels[c])

FrameScanned(r) ==
  /\ bands = Scan!ScanBands(mem, FrameConfigs, r)
  /\ PlainTables =>
       \/ \E c \in held : Far(c)
       \/ InStepWith(ScanAt(mem, FrameConfigs, r, line, next))

DrawnInv ==
  drawnAhead =>
    /\ enabled = held /\ touched = {}
    /\ \A c \in held : ~control[c].toCpu
    /\ \E r : FrameScanned(r)

(* A unit that lies in the bank sends the bytes the interpreter sends. *)
LEMMA UnitIsWritten ==
  ASSUME HdmaTypeOK, NEW c \in Channels, NEW config, config.mode = control[c].mode,
         config.register = control[c].register,
         NEW from \in Nat, from + Unit(c) <= BankSize
  PROVE  Scan!ApplyUnit(mem, config, from, ppu) = Written(c, from, Unit(c), 1)
PROOF
<1> DEFINE mode == control[c].mode
           n    == Unit(c)
           Hits(r) == { i \in 0 .. n - 1 : control[c].register + Pattern(mode, i) = r }
           Sent(r) == { j \in 0 .. Scan!TransferLengths[mode + 1] - 1 :
                          /\ control[c].register + Scan!RegisterOffsets[mode + 1][j + 1] = r
                          /\ \A i \in 0 .. j : Scan!Readable(from + i, 1) }
<1>1. mode \in 0 .. 7
  BY DEF HdmaTypeOK, ControlWords
<1>2. n = Scan!TransferLengths[mode + 1] /\ n \in 1 .. 4
  BY <1>1 DEF Scan!TransferLengths, Unit, Length, Lengths
<1>3. ASSUME NEW i \in 0 .. n - 1
      PROVE  Pattern(mode, i) = Scan!RegisterOffsets[mode + 1][i + 1]
  <2>1. i \in 0 .. 3 /\ n = Lengths[mode + 1] /\ i < n
    BY <1>2 DEF Unit, Length
  <2>2. i % n = i
    BY <1>2, <2>1
  <2>3. Pattern(mode, i) = Patterns[mode + 1][i + 1]
    BY <2>2 DEF Pattern, Unit
  <2> HIDE DEF mode, n
  <2> QED
    BY <1>1, <2>1, <2>3 DEF Lengths, Patterns, Scan!RegisterOffsets
<1>4. ASSUME NEW i \in 0 .. n - 1, NEW l \in 0 .. i
      PROVE  Scan!Readable(from + l, 1)
  <2>1. BankSize \in Nat
    BY HdmaConstantsAssumption
  <2> HIDE DEF n
  <2>2. from + n <= BankSize
    BY DEF n
  <2> QED
    BY <1>2, <2>1, <2>2 DEF Scan!Readable
<1> HIDE DEF n
<1>5. ASSUME NEW r
      PROVE  Hits(r) = Sent(r)
  <2> HIDE DEF mode
  <2> QED
    BY <1>2, <1>3, <1>4
<1>6. ASSUME NEW r \in Registers, Hits(r) # {}
      PROVE  mem[from + Scan!Max(Hits(r))] = mem[(from + 1 * Max(Hits(r))) % BankSize]
  <2> DEFINE last == Max(Hits(r))
  <2>1. last \in Hits(r)
    <3>1. Hits(r) \subseteq 0 .. n - 1 /\ n \in Nat
      BY <1>2
    <3> HIDE DEF Hits
    <3> QED
      BY <1>6, <3>1, MaxIsLargest
  <2>2. last \in 0 .. n - 1
    BY <2>1
  <2>3. Scan!Max(Hits(r)) = last
    BY DEF Max, Scan!Max
  <2> HIDE DEF last
  <2>4. BankSize \in Nat /\ from + n <= BankSize
    BY HdmaConstantsAssumption DEF n
  <2>5. 1 * last = last /\ from + last \in 0 .. BankSize - 1
    BY <1>2, <2>2, <2>4
  <2>6. (from + last) % BankSize = from + last
    BY <2>4, <2>5
  <2> QED
    BY <2>3, <2>5, <2>6 DEF last
<1>7. DOMAIN ppu = Registers
  BY DEF HdmaTypeOK
<1>8. Scan!ApplyUnit(mem, config, from, ppu)
        = [r \in Registers |-> IF Sent(r) = {} THEN ppu[r] ELSE mem[from + Scan!Max(Sent(r))]]
  BY <1>7 DEF Scan!ApplyUnit
<1>9. Written(c, from, Unit(c), 1)
        = [r \in Registers |-> IF Hits(r) = {} THEN ppu[r]
                               ELSE mem[(from + 1 * Max(Hits(r))) % BankSize]]
  BY DEF Written, n
<1> HIDE DEF Hits, Sent
<1> QED
  BY <1>5, <1>6, <1>8, <1>9

(* The scan moves from a channel to the next, from a line to the next. *)
LEMMA ScanGoesOn ==
  ASSUME NEW m, NEW configs, NEW regs, NEW n \in 0 .. VisibleLines - 1, NEW c \in Channels
  PROVE  ScanAt(m, configs, regs, IF c + 1 = NChannels THEN n + 1 ELSE n, c + 1)
           = Scan!StepChannel(m, configs[c], c, ScanAt(m, configs, regs, n, c))
PROOF
<1> DEFINE S == Scan!FrameScan(m, configs, regs)
           before == S[n].walk
           W == Scan!LineWalk(m, configs, before)
<1>1. NChannels \in Nat /\ NChannels > 0 /\ c \in 0 .. NChannels - 1
  BY HdmaConstantsAssumption DEF Channels
<1>2. S[n + 1] = Scan!ScanLine(m, configs, S[n], n)
  BY ScanSteps
<1>3. W[c + 1] = Scan!StepChannel(m, configs[c], c, W[c])
  BY <1>1, WalkSteps
<1>4. ScanAt(m, configs, regs, n, c) = W[c]
  BY <1>1 DEF ScanAt
<1>5. CASE c + 1 = NChannels
  <2> DEFINE after == S[n + 1].walk
  <2>1. after = W[NChannels]
    <3>1. after = Scan!ScanLine(m, configs, S[n], n).walk
      BY <1>2
    <3> HIDE DEF S, after
    <3> QED
      BY <3>1 DEF Scan!ScanLine
  <2>2. Scan!LineWalk(m, configs, after)[0] = after
    <3> HIDE DEF after
    <3> QED
      BY WalkSteps
  <2>3. ScanAt(m, configs, regs, n + 1, c + 1) = Scan!LineWalk(m, configs, after)[0]
    BY <1>1, <1>5 DEF ScanAt
  <2> HIDE DEF W, after
  <2> QED
    BY <1>3, <1>4, <1>5, <2>1, <2>2, <2>3
<1>6. CASE c + 1 # NChannels
  <2>1. c + 1 < NChannels
    BY <1>1, <1>6
  <2>2. ScanAt(m, configs, regs, n, c + 1) = W[c + 1]
    BY <2>1 DEF ScanAt
  <2> HIDE DEF W
  <2> QED
    BY <1>3, <1>4, <1>6, <2>2
<1> QED
  BY <1>5, <1>6

(* The walk with a channel's state and the registers replaced. *)
WalkWith(w, c, x, regs) == [channels |-> [w.channels EXCEPT ![c] = x], regs |-> regs]

(* The descriptor the scan has when its channel has a line. *)
ScanReads(m, config, ch) == IF Scan!NeedsEntry(ch) THEN Scan!Entry(m, config, ch) ELSE ch

(* A channel without a table has no line. *)
LEMMA ScanEnds ==
  ASSUME NEW m, NEW config, NEW c, NEW w \in ScanStates, NEW ch, ch = w.channels[c],
         ch.table = Scan!NoTable \/ ScanReads(m, config, ch).table = Scan!NoTable
  PROVE  Scan!StepChannel(m, config, c, w)
           = WalkWith(w, c, IF ch.table = Scan!NoTable THEN ch ELSE ScanReads(m, config, ch), w.regs)
PROOF
<1> DEFINE now == IF ch.table # Scan!NoTable /\ Scan!NeedsEntry(ch)
                    THEN Scan!Entry(m, config, ch) ELSE ch
<1>1. now = IF ch.table = Scan!NoTable THEN ch ELSE ScanReads(m, config, ch)
  BY DEF ScanReads
<1>2. now.table = Scan!NoTable
  BY <1>1
<1> HIDE DEF now
<1>3. Scan!StepChannel(m, config, c, w) = [w EXCEPT !.channels[c] = now]
  BY <1>2 DEF Scan!StepChannel, now
<1>4. [w EXCEPT !.channels[c] = now] = WalkWith(w, c, now, w.regs)
  BY DEF WalkWith, ScanStates
<1> QED
  BY <1>1, <1>3, <1>4

(* A line without a unit is counted. *)
LEMMA ScanCounts ==
  ASSUME NEW m, NEW config, NEW c, NEW w \in ScanStates, NEW ch \in ScanChannels,
         ch = w.channels[c], ch.table # Scan!NoTable, ~Scan!NeedsEntry(ch), ch.count < Half
  PROVE  Scan!StepChannel(m, config, c, w)
           = WalkWith(w, c, [ch EXCEPT !.count = (@ - 1) % (2 * Half)], w.regs)
PROOF
<1>1. ~(ch.count >= Half)
  BY HdmaConstantsAssumption DEF ScanChannels, Bytes
<1> QED
  BY <1>1 DEF Scan!StepChannel, WalkWith

(* A line with a unit the scan can read sends it. *)
LEMMA ScanSends ==
  ASSUME NEW m, NEW config, NEW c, NEW w \in ScanStates, NEW ch, ch = w.channels[c],
         NEW now \in ScanChannels, now = ScanReads(m, config, ch),
         ch.table # Scan!NoTable, now.table # Scan!NoTable,
         Scan!NeedsEntry(ch) \/ now.count >= Half,
         NEW length \in Nat, length = Scan!TransferLengths[config.mode + 1],
         NEW from, from = IF config.indirect THEN now.source ELSE now.table,
         Scan!Readable(from, length)
  PROVE  Scan!StepChannel(m, config, c, w)
           = WalkWith(w, c, [ table  |-> IF config.indirect THEN now.table ELSE now.table + length,
                              source |-> IF config.indirect THEN now.source + length ELSE now.source,
                              count  |-> (now.count - 1) % (2 * Half) ],
                      Scan!ApplyUnit(m, config, from, w.regs))
PROOF
<1> DEFINE fresh == ch.table # Scan!NoTable /\ Scan!NeedsEntry(ch)
           sent == IF config.indirect THEN [now EXCEPT !.source = @ + length]
                   ELSE [now EXCEPT !.table = @ + length]
<1>1. now = IF fresh THEN Scan!Entry(m, config, ch) ELSE ch
  BY DEF ScanReads
<1>2. fresh \/ now.count >= Half
  OBVIOUS
<1>3. Scan!StepChannel(m, config, c, w)
        = WalkWith(w, c, [sent EXCEPT !.count = (@ - 1) % (2 * Half)],
                   Scan!ApplyUnit(m, config, from, w.regs))
  <2> HIDE DEF sent
  <2> QED
    BY <1>1, <1>2 DEF Scan!StepChannel, WalkWith, sent
<1>4. [sent EXCEPT !.count = (@ - 1) % (2 * Half)]
        = [ table  |-> IF config.indirect THEN now.table ELSE now.table + length,
            source |-> IF config.indirect THEN now.source + length ELSE now.source,
            count  |-> (now.count - 1) % (2 * Half) ]
  BY DEF ScanChannels
<1> QED
  BY <1>3, <1>4

(* How far a line takes a channel along its table. *)
MovedBy(c) ==
  (IF ~Reloads(c) THEN 0 ELSE IF control[c].indirect THEN 3 ELSE 1)
    + (IF ~control[c].indirect /\ Current(c).transfer THEN Unit(c) ELSE 0)

(* It takes it so far, round the bank if need be. *)
LEMMA LineMovesTable ==
  ASSUME HdmaTypeOK, NEW c \in Channels, c = next, WalkLine
  PROVE  MovedBy(c) \in 0 .. 5 /\ table'[c] = (table[c] + MovedBy(c)) % BankSize
PROOF
<1> DEFINE step  == IF ~Reloads(c) THEN 0 ELSE IF control[c].indirect THEN 3 ELSE 1
           moved == IF Current(c).transfer THEN Unit(c) ELSE 0
<1>1. /\ BankSize \in Nat /\ BankSize > 0 /\ table[c] \in 0 .. BankSize - 1
      /\ Unit(c) \in 1 .. 4 /\ DOMAIN table = Channels
  <2>1. control[c] \in ControlWords
    BY DEF HdmaTypeOK
  <2>2. Unit(c) \in 1 .. 4
    BY <2>1, UnitBounds DEF Unit
  <2> QED
    BY <2>2, HdmaConstantsAssumption DEF HdmaTypeOK, Addresses
<1>2. step \in 0 .. 3 /\ moved \in 0 .. 4
  BY <1>1
<1>3. TableNow(c) = (table[c] + step) % BankSize
  <2>1. ~Reloads(c) => TableNow(c) = table[c] /\ step = 0 /\ table[c] + 0 = table[c]
    BY <1>1 DEF TableNow
  <2>2. table[c] % BankSize = table[c]
    BY <1>1
  <2>3. Reloads(c) => TableNow(c) = (table[c] + step) % BankSize
    BY DEF TableNow, After
  <2> HIDE DEF step
  <2> QED
    BY <2>1, <2>2, <2>3
<1>4. AdvanceSource(c, moved)
  BY DEF WalkLine
<1>5. table'[c] = IF control[c].indirect THEN TableNow(c) ELSE (TableNow(c) + moved) % BankSize
  <2> HIDE DEF moved
  <2> QED
    BY <1>1, <1>4 DEF AdvanceSource
<1>6. MovedBy(c) = step + (IF control[c].indirect THEN 0 ELSE moved)
  BY <1>1 DEF MovedBy
<1>7. MovedBy(c) \in 0 .. 5
  BY <1>1 DEF MovedBy
<1> HIDE DEF step, moved
<1>8. CASE control[c].indirect
  <2>1. MovedBy(c) = step
    BY <1>2, <1>6, <1>8
  <2> QED
    BY <1>3, <1>5, <1>7, <1>8, <2>1
<1>9. CASE ~control[c].indirect
  <2>1. table[c] + step \in Int /\ moved \in Int
    BY <1>1, <1>2
  <2>2. (((table[c] + step) % BankSize) + moved) % BankSize = (table[c] + step + moved) % BankSize
    BY <2>1, WrapsTwice
  <2>3. table[c] + step + moved = table[c] + MovedBy(c)
    BY <1>1, <1>2, <1>6, <1>9
  <2> QED
    BY <1>3, <1>5, <1>7, <1>9, <2>2, <2>3
<1> QED
  BY <1>8, <1>9

(* A table that ran over the end of the bank stays there for the frame: a  *)
(* frame's lines do not take it round the bank.                            *)
LEMMA FarGoesOn ==
  ASSUME HdmaTypeOK, Enrolled, base' = base, NEW c \in Channels, Far(c),
         NEW m \in 0 .. 5, table'[c] = (table[c] + m) % BankSize,
         LinesHad(c) \in 0 .. VisibleLines - 1, LinesHad(c)' = LinesHad(c) + 1
  PROVE  Far(c)'
PROOF
<1>1. PICK n \in 0 .. VisibleLines - 1 : n = LinesHad(c)
  OBVIOUS
<1>2. PICK t \in 0 .. 5 * n : BankSize <= base[c] + t /\ table[c] = base[c] + t - BankSize
  BY <1>1 DEF Far
<1>3. PICK b \in Addresses : b = base[c]
  BY DEF Enrolled
<1>4. /\ VisibleLines \in Nat /\ BankSize \in Nat /\ BankSize > 0 /\ 5 * VisibleLines < BankSize
      /\ b \in 0 .. BankSize - 1 /\ n \in Nat /\ n + 1 <= VisibleLines
  BY <1>1, <1>3, HdmaConstantsAssumption, FrameFitsBankAssumption DEF Addresses
<1>5. 5 * (n + 1) <= 5 * VisibleLines
  BY <1>4
<1>6. t + m \in 0 .. 5 * (n + 1)
  BY <1>2, <1>4
<1>7. BankSize <= b + (t + m) /\ table[c] + m = b + (t + m) - BankSize
  BY <1>2, <1>3, <1>4
<1>8. b + (t + m) - BankSize \in 0 .. BankSize - 1
  BY <1>4, <1>5, <1>6, <1>7
<1>9. table'[c] = b + (t + m) - BankSize
  BY <1>4, <1>7, <1>8
<1>10. base'[c] = b /\ LinesHad(c)' = n + 1
  BY <1>1, <1>3
<1> QED
  BY <1>6, <1>7, <1>9, <1>10 DEF Far

(* A table runs over the end of the bank or is ahead of where it was. *)
LEMMA TableMovesOn ==
  ASSUME HdmaTypeOK, Enrolled, base' = base, NEW c \in Channels,
         base[c] <= table[c], table[c] <= base[c] + 5 * LinesHad(c),
         NEW m \in 0 .. 5, table'[c] = (table[c] + m) % BankSize,
         LinesHad(c) \in 0 .. VisibleLines - 1, LinesHad(c)' = LinesHad(c) + 1
  PROVE  \/ Far(c)'
         \/ /\ table[c] + m < BankSize /\ table'[c] = table[c] + m
            /\ base'[c] <= table'[c] /\ table'[c] <= base'[c] + 5 * LinesHad(c)'
PROOF
<1>1. PICK n \in 0 .. VisibleLines - 1 : n = LinesHad(c)
  OBVIOUS
<1>2. PICK b \in Addresses : b = base[c]
  BY DEF Enrolled
<1>3. PICK a \in Addresses : a = table[c]
  BY DEF HdmaTypeOK
<1>4. /\ VisibleLines \in Nat /\ BankSize \in Nat /\ BankSize > 0 /\ 5 * VisibleLines < BankSize
      /\ b \in 0 .. BankSize - 1 /\ a \in 0 .. BankSize - 1 /\ n \in Nat /\ n + 1 <= VisibleLines
  BY <1>1, <1>2, <1>3, HdmaConstantsAssumption, FrameFitsBankAssumption DEF Addresses
<1>5. base'[c] = b /\ LinesHad(c)' = n + 1 /\ b <= a /\ a <= b + 5 * n
  BY <1>1, <1>2, <1>3
<1>6. CASE a + m < BankSize
  <2>1. table'[c] = a + m
    BY <1>3, <1>4, <1>6
  <2> QED
    BY <1>3, <1>4, <1>5, <1>6, <2>1
<1>7. CASE ~(a + m < BankSize)
  <2> DEFINE t == a + m - b
  <2>1. t \in 0 .. 5 * (n + 1) /\ BankSize <= b + t
    BY <1>4, <1>5, <1>7
  <2>2. a + m - BankSize \in 0 .. BankSize - 1 /\ a + m = BankSize * 1 + (a + m - BankSize)
    BY <1>4, <1>7
  <2>3. (a + m) % BankSize = a + m - BankSize
    BY <1>4, <2>2, RemainderIs
  <2>4. table'[c] = b + t - BankSize
    BY <1>3, <1>4, <2>3
  <2> HIDE DEF t
  <2>5. Far(c)'
    BY <1>5, <2>1, <2>4 DEF Far
  <2> QED
    BY <2>5
<1> QED
  BY <1>6, <1>7

(* A line less, as long as there is one. *)
LEMMA CountDown ==
  ASSUME NEW q \in Bytes, q % Half # 0
  PROVE  /\ (q - 1) % (2 * Half) = q - 1 /\ q - 1 \in Bytes
         /\ (q - 1) % Half = (q % Half) - 1 /\ q % Half \in 1 .. Half - 1
         /\ q - 1 >= Half <=> q >= Half
         /\ q >= Half => q % Half = q - Half
PROOF
<1>1. /\ Half \in Nat /\ Half > 0 /\ q \in Nat /\ q < 2 * Half /\ 2 * Half \in Nat
  BY HdmaConstantsAssumption DEF Bytes
<1>2. q # 0 /\ q # Half
  BY <1>1
<1>3. (q - 1) % (2 * Half) = q - 1 /\ q - 1 \in 0 .. 2 * Half - 1
  BY <1>1, <1>2
<1>4. CASE q < Half
  <2>1. q % Half = q /\ (q - 1) % Half = q - 1
    BY <1>1, <1>2, <1>4
  <2> QED
    BY <1>1, <1>2, <1>3, <1>4, <2>1 DEF Bytes
<1>5. CASE ~(q < Half)
  <2>1. q - Half \in 1 .. Half - 1 /\ q = Half * 1 + (q - Half)
    BY <1>1, <1>2, <1>5
  <2>2. q % Half = q - Half
    BY <1>1, <2>1, RemainderIs
  <2>3. q - 1 - Half \in 0 .. Half - 1 /\ q - 1 = Half * 1 + (q - 1 - Half)
    BY <1>1, <1>2, <1>5
  <2>4. (q - 1) % Half = q - 1 - Half
    BY <1>1, <2>3, RemainderIs
  <2> QED
    BY <1>1, <1>2, <1>3, <1>5, <2>1, <2>2, <2>4 DEF Bytes
<1> QED
  BY <1>4, <1>5

(* A unit more. *)
LEMMA UnitMore ==
  ASSUME NEW u \in 1 .. 4, NEW n \in Nat
  PROVE  /\ u * (n + 1) = u + n * u /\ (n + 1) * u = u + n * u
         /\ n * u \in Nat
         /\ n > 0 => n * u > 0
PROOF
<1>1. u = 1 \/ u = 2 \/ u = 3 \/ u = 4
  OBVIOUS
<1> QED
  BY <1>1

(* What a line does to its channel. *)
LEMMA LineIsCounted ==
  ASSUME HdmaTypeOK, NEW c \in Channels, c = next, WalkLine
  PROVE  /\ active' = active /\ mem' = mem /\ control' = control /\ enabled' = enabled
         /\ hdma'[c].left = Current(c).left - 1
         /\ hdma'[c].repeat = Current(c).repeat
         /\ hdma'[c].transfer = TransfersNext(Current(c), Current(c).left - 1)
         /\ control[c].indirect =>
              pointer'[c] = (PointerNow(c) + IF Current(c).transfer THEN Unit(c) ELSE 0) % BankSize
         /\ ppu' = IF Current(c).transfer THEN Written(c, Source(c), Unit(c), 1) ELSE ppu
         /\ ChannelDone
PROOF
<1>1. /\ active' = active /\ mem' = mem /\ control' = control /\ enabled' = enabled /\ ChannelDone
      /\ ppu' = IF Current(c).transfer THEN Written(c, Source(c), Unit(c), 1) ELSE ppu
      /\ AdvanceSource(c, IF Current(c).transfer THEN Unit(c) ELSE 0)
      /\ hdma' = [hdma EXCEPT ![c] =
           [Current(c) EXCEPT !.left = Current(c).left - 1,
                              !.transfer = TransfersNext(Current(c), Current(c).left - 1)]]
  BY DEF WalkLine
<1>2. DOMAIN hdma = Channels /\ DOMAIN pointer = Channels
  BY DEF HdmaTypeOK
<1>3. control[c].indirect =>
        pointer'[c] = (PointerNow(c) + IF Current(c).transfer THEN Unit(c) ELSE 0) % BankSize
  BY <1>1, <1>2 DEF AdvanceSource
<1>4. DOMAIN Current(c) = {"left", "repeat", "transfer"}
  BY DEF Current, Reloaded, HdmaTypeOK
<1> DEFINE now == Current(c)
           left == now.left - 1
           more == TransfersNext(now, left)
<1>5. hdma'[c] = [now EXCEPT !.left = left, !.transfer = more]
  BY <1>1, <1>2
<1> HIDE DEF now, left, more
<1>6. hdma'[c].left = left /\ hdma'[c].repeat = now.repeat /\ hdma'[c].transfer = more
  BY <1>4, <1>5 DEF now
<1> QED
  BY <1>1, <1>3, <1>6 DEF now, left, more

(* A descriptor a plain table is read at. *)
LEMMA PlainDescriptor ==
  ASSUME WalkInv, PlainTables, NEW c \in Channels, c = next, c \in held \ touched, c \in active,
         ~barrier, Reloads(c)
  PROVE  /\ mem[table[c]] # Half
         /\ control[c].indirect /\ mem[table[c]] # 0 =>
              IndirectAddress(table[c]) + Unit(c) * UnitsAt(table[c]) <= BankSize
PROOF
<1>1. ~HasLongest(c) /\ UnitsInBank(c) /\ OnTable(c) /\ HdmaTypeOK
  BY DEF WalkInv, PlainTables
<1>2. PICK k \in 0 .. VisibleLines : AtDescriptor(c, DescriptorOf(c)[k])
  BY <1>1 DEF OnTable
<1> DEFINE D == DescriptorOf(c)
           d == D[k]
<1>3. BeforeDescriptor(c, d)
  <2>1. ~Halted(c, d)
    BY DEF Halted
  <2>2. ~InsideDescriptor(c, d)
    <3>1. base[c] \in Addresses
      BY DEF WalkInv, Enrolled
    <3>2. d \in Descriptors
      BY <1>1, <3>1, TableShape
    <3> HIDE DEF d
    <3>3. d.end \in Int
      BY <3>2 DEF Descriptors
    <3>4. LinesHad(c) \in Int
      BY <1>1 DEF LinesHad, HdmaTypeOK
    <3>5. hdma[c].left = 0
      BY DEF Reloads
    <3> QED
      BY <3>3, <3>4, <3>5 DEF InsideDescriptor
  <2> QED
    BY <1>2, <2>1, <2>2 DEF AtDescriptor
<1>4. table[c] = d.at /\ d.line = LinesHad(c)
  BY <1>3 DEF BeforeDescriptor
<1>5. LinesHad(c) = line /\ line < VisibleLines
  <2>1. c < NChannels /\ c \in Int
    BY HdmaConstantsAssumption DEF Channels
  <2> QED
    BY <2>1 DEF LinesHad, WalkInv, WalkInFrame
<1>6. k \in DOMAIN D
  BY TableSteps
<1> HIDE DEF D
<1>7. mem[D[k].at] # Half
  BY <1>1, <1>4, <1>5, <1>6 DEF HasLongest, D
<1>8. control[c].indirect /\ mem[D[k].at] # 0 =>
        IndirectAddress(D[k].at) + Unit(c) * UnitsAt(D[k].at) <= BankSize
  BY <1>1, <1>4, <1>5, <1>6 DEF UnitsInBank, D
<1> QED
  BY <1>4, <1>7, <1>8

(* The turn of a channel in a frame that was scanned, *)
ScannedTurn(c, w) ==
  /\ WalkInv /\ PlainTables /\ enabled = held /\ touched = {}
  /\ \A i \in held : ~control[i].toCpu
  /\ c \in Channels /\ c = next /\ ~barrier /\ UNCHANGED history
  /\ InStepWith(w)

(* after which the scan and the interpreter are again in step, unless the  *)
(* table has run over the end of the bank.                                 *)
Follows(c, w) ==
  \E x \in ScanChannels :
    /\ Scan!StepChannel(mem, FrameConfigs[c], c, w) = WalkWith(w, c, x, ppu')
    /\ InStep(c, x)'

(* A turn without a line changes neither. *)
LEMMA TurnIsSilent ==
  ASSUME NEW c, NEW w, ScannedTurn(c, w), SkipChannel \/ EndChannel
  PROVE  Follows(c, w)
PROOF
<1> DEFINE ch == w.channels[c]
           config == FrameConfigs[c]
<1>1. /\ HdmaTypeOK /\ c \in Channels /\ c = next /\ w \in ScanStates /\ w.regs = ppu
      /\ ch \in ScanChannels /\ InStep(c, ch) /\ ppu' = ppu /\ active \subseteq enabled
  BY DEF ScannedTurn, WalkInv, InStepWith, ScanStates, SkipChannel, EndChannel, HdmaTypeOK
<1> HIDE DEF ch, config
<1>2. CASE SkipChannel
  <2>1. c \notin active /\ active' = active
    BY <1>1, <1>2 DEF SkipChannel, Walks, hdmaVars
  <2>2. ch.table = Scan!NoTable
    BY <1>1, <2>1 DEF InStep
  <2>3. Scan!StepChannel(mem, config, c, w) = WalkWith(w, c, ch, ppu')
    BY <1>1, <2>2, ScanEnds DEF ch
  <2>4. InStep(c, ch)'
    BY <2>1, <2>2 DEF InStep
  <2> QED
    BY <1>1, <2>3, <2>4 DEF Follows, config
<1>3. CASE EndChannel
  <2>1. /\ c \in active /\ active' = active \ {c} /\ hdma[c].left = 0 /\ mem[table[c]] = 0
    BY <1>1, <1>3 DEF EndChannel, Walks, Reloads, Descriptor
  <2>2. ch.table = table[c] /\ ch.count % Half = 0 /\ table[c] \in Addresses
    BY <1>1, <2>1 DEF InStep, HdmaTypeOK
  <2>3. ch.table # Scan!NoTable
    BY <2>2, HdmaConstantsAssumption DEF Addresses, Scan!NoTable
  <2> DEFINE x == [ch EXCEPT !.table = Scan!NoTable]
  <2>4. ScanReads(mem, config, ch) = x
    <3>1. Scan!NeedsEntry(ch)
      BY <2>2 DEF Scan!NeedsEntry
    <3> QED
      BY <2>1, <2>2, <3>1 DEF ScanReads, Scan!Entry
  <2>5. x \in ScanChannels /\ x.table = Scan!NoTable
    BY <1>1 DEF ScanChannels, Scan!NoTable
  <2> HIDE DEF x
  <2>6. Scan!StepChannel(mem, config, c, w) = WalkWith(w, c, x, ppu')
    BY <1>1, <2>3, <2>4, <2>5, ScanEnds DEF ch
  <2>7. InStep(c, x)'
    BY <2>1, <2>5 DEF InStep
  <2> QED
    BY <2>5, <2>6, <2>7 DEF Follows, config
<1> QED
  BY <1>2, <1>3

(* The facts every line of a channel has. *)
LEMMA LineInFrame ==
  ASSUME NEW c, NEW w, ScannedTurn(c, w), WalkLine
  PROVE  /\ HdmaTypeOK /\ Enrolled /\ c \in Channels /\ c = next /\ base' = base
         /\ c \in active /\ c \in active' /\ c \in held /\ ~control[c].toCpu
         /\ w \in ScanStates /\ w.regs = ppu /\ w.channels[c] \in ScanChannels
         /\ w.channels[c].table = table[c] /\ table[c] \in Addresses
         /\ w.channels[c].table # Scan!NoTable
         /\ hdma[c].left = w.channels[c].count % Half
         /\ InStep(c, w.channels[c])
         /\ FrameConfigs[c].indirect = control[c].indirect
         /\ FrameConfigs[c].mode = control[c].mode
         /\ FrameConfigs[c].register = control[c].register
         /\ Unit(c) \in 1 .. 4 /\ Unit(c) = Scan!TransferLengths[control[c].mode + 1]
         /\ control'[c] = control[c]
         /\ \/ Far(c)'
            \/ /\ table[c] + MovedBy(c) < BankSize /\ table'[c] = table[c] + MovedBy(c)
               /\ base'[c] <= table'[c] /\ table'[c] <= base'[c] + 5 * LinesHad(c)'
PROOF
<1> DEFINE ch == w.channels[c]
<1>1. /\ WalkInv /\ HdmaTypeOK /\ Enrolled /\ c \in Channels /\ c = next /\ base' = base
      /\ w \in ScanStates /\ w.regs = ppu /\ ch \in ScanChannels /\ InStep(c, ch)
      /\ c \in enabled /\ c \in active /\ enabled = held
  BY DEF ScannedTurn, WalkInv, InStepWith, ScanStates, WalkLine, Walks, history
<1>2. ~control[c].toCpu
  BY <1>1 DEF ScannedTurn
<1> HIDE DEF ch
<1>3. /\ ch.table = table[c] /\ hdma[c].left = ch.count % Half
      /\ base[c] <= table[c] /\ table[c] <= base[c] + 5 * LinesHad(c)
  BY <1>1 DEF InStep
<1>4. table[c] \in Addresses
  BY <1>1 DEF HdmaTypeOK
<1>5. ch.table # Scan!NoTable
  BY <1>3, <1>4, HdmaConstantsAssumption DEF Addresses, Scan!NoTable
<1>6. /\ FrameConfigs[c].indirect = control[c].indirect
      /\ FrameConfigs[c].mode = control[c].mode
      /\ FrameConfigs[c].register = control[c].register
  BY <1>1 DEF FrameConfigs
<1>7. control[c] \in ControlWords
  BY <1>1 DEF HdmaTypeOK
<1>8. Unit(c) \in 1 .. 4 /\ Unit(c) = Scan!TransferLengths[control[c].mode + 1]
  BY <1>7, UnitBounds DEF Unit, Length, Lengths, Scan!TransferLengths
<1>9. active' = active /\ control' = control /\ ChannelDone
  BY <1>1, LineIsCounted
<1>10. LinesHad(c) \in 0 .. VisibleLines - 1 /\ LinesHad(c)' = LinesHad(c) + 1
  <2>1. LinesHad(c) = line /\ LinesHad(c)' = line + 1
    BY <1>1, <1>9, LinesGoOn
  <2>2. line < VisibleLines /\ line \in 0 .. VisibleLines
    BY <1>1, HdmaConstantsAssumption DEF WalkInv, WalkInFrame, HdmaTypeOK, Channels
  <2> QED
    BY <2>1, <2>2, HdmaConstantsAssumption
<1>11. MovedBy(c) \in 0 .. 5 /\ table'[c] = (table[c] + MovedBy(c)) % BankSize
  BY <1>1, LineMovesTable
<1>12. \/ Far(c)'
       \/ /\ table[c] + MovedBy(c) < BankSize /\ table'[c] = table[c] + MovedBy(c)
          /\ base'[c] <= table'[c] /\ table'[c] <= base'[c] + 5 * LinesHad(c)'
  BY <1>1, <1>3, <1>10, <1>11, TableMovesOn
<1> QED
  BY <1>1, <1>2, <1>3, <1>4, <1>5, <1>6, <1>8, <1>9, <1>12 DEF ch

(* On a line of a descriptor that has been read, without a unit *)
LEMMA TurnCounts ==
  ASSUME NEW c, NEW w, ScannedTurn(c, w), WalkLine, ~Reloads(c), ~(w.channels[c].count >= Half)
  PROVE  Far(c)' \/ Follows(c, w)
PROOF
<1> DEFINE ch == w.channels[c]
           config == FrameConfigs[c]
           x == [ch EXCEPT !.count = (ch.count - 1) % (2 * Half)]
<1>1. /\ HdmaTypeOK /\ c \in Channels /\ c = next /\ c \in active' /\ w \in ScanStates /\ w.regs = ppu
      /\ ch \in ScanChannels /\ ch.table = table[c] /\ ch.table # Scan!NoTable
      /\ hdma[c].left = ch.count % Half /\ InStep(c, ch) /\ c \in active
  BY LineInFrame
<1>2. \/ Far(c)'
      \/ /\ table[c] + MovedBy(c) < BankSize /\ table'[c] = table[c] + MovedBy(c)
         /\ base'[c] <= table'[c] /\ table'[c] <= base'[c] + 5 * LinesHad(c)'
  BY LineInFrame
<1> HIDE DEF ch, config
<1>3. /\ Half \in Nat /\ Half > 0 /\ ch.count \in Bytes /\ ch.count \in Int
      /\ ch.count < Half /\ ch.count % Half # 0
  BY <1>1, HdmaConstantsAssumption DEF ScanChannels, Bytes, Reloads, ch
<1>4. /\ (ch.count - 1) % (2 * Half) = ch.count - 1 /\ ch.count - 1 \in Bytes
      /\ (ch.count - 1) % Half = (ch.count % Half) - 1 /\ ch.count % Half \in 1 .. Half - 1
  BY <1>3, CountDown
<1>5. Current(c) = hdma[c] /\ hdma[c].repeat = FALSE /\ hdma[c].transfer = FALSE
  <2>1. hdma[c].left > 0
    BY <1>1, <1>4
  <2>2. hdma[c].repeat = (ch.count >= Half) /\ hdma[c].transfer = (ch.count >= Half)
    BY <1>1, <2>1 DEF InStep
  <2>3. ~(ch.count >= Half)
    BY <1>3
  <2>4. (ch.count >= Half) = FALSE
    BY <2>3
  <2>5. Current(c) = hdma[c]
    BY DEF Current
  <2> QED
    BY <2>2, <2>4, <2>5, Zenon
<1>6. MovedBy(c) = 0
  BY <1>5 DEF MovedBy
<1>7. /\ hdma'[c].left = (ch.count % Half) - 1 /\ hdma'[c].repeat = FALSE
      /\ hdma'[c].transfer = FALSE /\ ppu' = ppu
  <2>1. /\ hdma'[c].left = Current(c).left - 1 /\ hdma'[c].repeat = Current(c).repeat
        /\ hdma'[c].transfer = TransfersNext(Current(c), Current(c).left - 1)
        /\ ppu' = IF Current(c).transfer THEN Written(c, Source(c), Unit(c), 1) ELSE ppu
    BY <1>1, LineIsCounted
  <2>2. hdma'[c].transfer = FALSE
    BY <1>5, <2>1 DEF TransfersNext
  <2> QED
    BY <1>1, <1>5, <2>1, <2>2
<1>8. x \in ScanChannels /\ x.table = table[c] /\ x.count = ch.count - 1
  BY <1>1, <1>4 DEF ScanChannels
<1> HIDE DEF x
<1>9. Scan!StepChannel(mem, config, c, w) = WalkWith(w, c, x, ppu')
  <2>1. ~Scan!NeedsEntry(ch)
    BY <1>3 DEF Scan!NeedsEntry
  <2>2. Scan!StepChannel(mem, config, c, w)
          = WalkWith(w, c, [ch EXCEPT !.count = (@ - 1) % (2 * Half)], w.regs)
    BY <1>1, <1>3, <2>1, ScanCounts DEF ch
  <2> QED
    BY <1>1, <1>7, <2>2 DEF x
<1>10. ASSUME ~Far(c)'
       PROVE  InStep(c, x)'
  <2>1. /\ table'[c] = table[c]
        /\ base'[c] <= table'[c] /\ table'[c] <= base'[c] + 5 * LinesHad(c)'
    <3>1. table[c] \in Int
      BY <1>1, HdmaConstantsAssumption DEF HdmaTypeOK, Addresses
    <3> QED
      BY <1>2, <1>6, <1>10, <3>1
  <2>2. ~(x.count >= Half) /\ x.count % Half = hdma'[c].left
    BY <1>3, <1>4, <1>7, <1>8
  <2>3. (x.count >= Half) = FALSE
    BY <2>2
  <2>4. hdma'[c].repeat = (x.count >= Half) /\ hdma'[c].transfer = (x.count >= Half)
    BY <1>7, <2>3, Zenon
  <2>5. hdma'[c].left = x.count % Half /\ x.table = table'[c]
    BY <1>8, <2>1, <2>2
  <2> QED
    BY <1>1, <2>1, <2>2, <2>4, <2>5, Zenon DEF InStep
<1> QED
  BY <1>8, <1>9, <1>10 DEF Follows, config

(* or with one, the scan counts like the interpreter. *)
LEMMA TurnRepeats ==
  ASSUME NEW c, NEW w, ScannedTurn(c, w), WalkLine, ~Reloads(c), w.channels[c].count >= Half
  PROVE  Far(c)' \/ Follows(c, w)
PROOF
<1> DEFINE ch == w.channels[c]
           config == FrameConfigs[c]
           n == Unit(c)
           from == IF config.indirect THEN ch.source ELSE ch.table
           y == [ table  |-> IF config.indirect THEN ch.table ELSE ch.table + n,
                  source |-> IF config.indirect THEN ch.source + n ELSE ch.source,
                  count  |-> (ch.count - 1) % (2 * Half) ]
<1>1. /\ HdmaTypeOK /\ c \in Channels /\ c = next /\ c \in active' /\ w \in ScanStates /\ w.regs = ppu
      /\ ch \in ScanChannels /\ ch.table = table[c] /\ ch.table # Scan!NoTable
      /\ hdma[c].left = ch.count % Half /\ InStep(c, ch) /\ c \in active
      /\ control'[c] = control[c] /\ table[c] \in Addresses
  BY LineInFrame
<1>2. /\ config.indirect = control[c].indirect /\ config.mode = control[c].mode
      /\ config.register = control[c].register
      /\ n \in 1 .. 4 /\ n = Scan!TransferLengths[config.mode + 1]
  BY LineInFrame
<1>3. SUFFICES ASSUME ~Far(c)'
               PROVE  Follows(c, w)
  OBVIOUS
<1>4. /\ table[c] + MovedBy(c) < BankSize /\ table'[c] = table[c] + MovedBy(c)
      /\ base'[c] <= table'[c] /\ table'[c] <= base'[c] + 5 * LinesHad(c)'
  BY <1>3, LineInFrame
<1> HIDE DEF ch, config, n
<1>5. /\ Half \in Nat /\ Half > 0 /\ ch.count \in Bytes /\ ch.count \in Int
      /\ ch.count >= Half /\ ch.count % Half # 0 /\ BankSize \in Nat /\ table[c] \in 0 .. BankSize - 1
      /\ ch.source \in Int
  BY <1>1, HdmaConstantsAssumption DEF ScanChannels, Bytes, Reloads, Addresses, ch
<1>6. /\ (ch.count - 1) % (2 * Half) = ch.count - 1 /\ ch.count - 1 \in Bytes
      /\ (ch.count - 1) % Half = (ch.count % Half) - 1 /\ ch.count % Half \in 1 .. Half - 1
      /\ ch.count - 1 >= Half
  BY <1>5, CountDown
<1>7. /\ hdma[c].repeat = TRUE /\ hdma[c].transfer = TRUE
      /\ control[c].indirect =>
           ch.source = pointer[c] /\ pointer[c] + hdma[c].left * n <= BankSize
  <2>1. hdma[c].left > 0
    BY <1>1, <1>6
  <2>2. /\ hdma[c].repeat = (ch.count >= Half) /\ hdma[c].transfer = (ch.count >= Half)
        /\ control[c].indirect /\ ch.count >= Half =>
             ch.source = pointer[c] /\ pointer[c] + hdma[c].left * n <= BankSize
    BY <1>1, <2>1 DEF InStep, n
  <2> QED
    BY <1>5, <2>2
<1>8. Current(c) = hdma[c]
  BY DEF Current
<1>9. MovedBy(c) = IF control[c].indirect THEN 0 ELSE n
  BY <1>2, <1>7, <1>8 DEF MovedBy, n
<1>10. PICK left \in Nat : left + 1 = hdma[c].left
  <2>1. hdma[c].left - 1 \in Nat /\ hdma[c].left - 1 + 1 = hdma[c].left
    BY <1>1, <1>6
  <2> QED
    BY <2>1
<1>11. /\ hdma[c].left * n = n + left * n /\ left * n \in Nat
       /\ left > 0 => left * n > 0
  BY <1>2, <1>10, UnitMore
<1>12. control[c].indirect => pointer[c] \in Nat /\ pointer[c] + (n + left * n) <= BankSize
  <2>1. pointer[c] \in Nat
    BY <1>1, HdmaConstantsAssumption DEF HdmaTypeOK, Addresses
  <2> DEFINE p == left * n
             q == hdma[c].left * n
  <2>2. q = n + p /\ (control[c].indirect => pointer[c] + q <= BankSize)
    BY <1>7, <1>11
  <2> HIDE DEF p, q
  <2>3. control[c].indirect => pointer[c] \in Nat /\ pointer[c] + (n + p) <= BankSize
    BY <2>1, <2>2
  <2> QED
    BY <2>3 DEF p
<1>13. from \in Nat /\ from + n <= BankSize
       /\ from = IF control[c].indirect THEN pointer[c] ELSE table[c]
  <2>1. CASE control[c].indirect
    <3>1. from = pointer[c]
      BY <1>2, <1>7, <2>1
    <3> DEFINE p == left * n
    <3>a. p \in Nat
      BY <1>11
    <3>b. control[c].indirect => pointer[c] \in Nat /\ pointer[c] + (n + p) <= BankSize
      BY <1>12
    <3> HIDE DEF p
    <3>2. p \in Nat /\ pointer[c] \in Nat /\ pointer[c] + (n + p) <= BankSize
      BY <2>1, <3>a, <3>b
    <3> QED
      BY <1>2, <1>5, <2>1, <3>1, <3>2
  <2>2. CASE ~control[c].indirect
    BY <1>1, <1>2, <1>4, <1>5, <1>9, <2>2
  <2> QED
    BY <2>1, <2>2
<1>14. /\ hdma'[c].left = left /\ hdma'[c].repeat = TRUE
       /\ hdma'[c].transfer = (left > 0)
       /\ control[c].indirect => pointer'[c] = (pointer[c] + n) % BankSize
       /\ ppu' = Written(c, from, n, 1)
  <2>1. /\ hdma'[c].left = Current(c).left - 1 /\ hdma'[c].repeat = Current(c).repeat
        /\ hdma'[c].transfer = TransfersNext(Current(c), Current(c).left - 1)
        /\ control[c].indirect =>
             pointer'[c] = (PointerNow(c) + IF Current(c).transfer THEN Unit(c) ELSE 0) % BankSize
        /\ ppu' = IF Current(c).transfer THEN Written(c, Source(c), Unit(c), 1) ELSE ppu
    BY <1>1, LineIsCounted
  <2>2. PointerNow(c) = pointer[c] /\ TableNow(c) = table[c]
    BY DEF PointerNow, TableNow
  <2>3. Source(c) = from
    BY <1>13, <2>2 DEF Source
  <2>4. Current(c).left - 1 = left
    BY <1>8, <1>10
  <2>5. hdma'[c].transfer = (left > 0)
    <3>1. left # 0 <=> left > 0
      BY <1>10
    <3>2. TransfersNext(Current(c), left) = (left > 0)
      BY <1>7, <1>8, <3>1 DEF TransfersNext
    <3> QED
      BY <2>1, <2>4, <3>2
  <2> QED
    BY <1>7, <1>8, <2>1, <2>2, <2>3, <2>4, <2>5 DEF n
<1>15. Scan!StepChannel(mem, config, c, w) = WalkWith(w, c, y, ppu')
  <2>1. ScanReads(mem, config, ch) = ch
    BY <1>5 DEF ScanReads, Scan!NeedsEntry
  <2>2. Scan!Readable(from, n)
    BY <1>13 DEF Scan!Readable
  <2> HIDE DEF from
  <2>3. Scan!ApplyUnit(mem, config, from, ppu) = Written(c, from, Unit(c), 1)
    BY <1>1, <1>2, <1>13, UnitIsWritten DEF n
  <2>4. n \in Nat /\ from = IF config.indirect THEN ch.source ELSE ch.table
    BY <1>2 DEF from
  <2>5. Scan!StepChannel(mem, config, c, w) = WalkWith(w, c, y, Scan!ApplyUnit(mem, config, from, w.regs))
    BY <1>1, <1>2, <1>5, <2>1, <2>2, <2>4, ScanSends DEF ch
  <2> QED
    BY <1>1, <1>14, <2>3, <2>5 DEF n
<1>16. /\ y \in ScanChannels /\ y.count = ch.count - 1
       /\ y.table = table'[c]
       /\ control[c].indirect => y.source = pointer[c] + n
  <2>1. /\ y.table = IF config.indirect THEN ch.table ELSE ch.table + n
        /\ y.source = IF config.indirect THEN ch.source + n ELSE ch.source
        /\ y.count = (ch.count - 1) % (2 * Half)
    OBVIOUS
  <2>2. y \in ScanChannels
    BY <1>1, <1>2, <1>5, <1>6 DEF ScanChannels
  <2> HIDE DEF y
  <2> QED
    BY <1>1, <1>2, <1>4, <1>5, <1>6, <1>7, <1>9, <2>1, <2>2
<1> HIDE DEF y
<1>18. PICK x : x = y
  OBVIOUS
<1>17. InStep(c, x)'
  <2>0. /\ x.count = ch.count - 1 /\ x.table = table'[c]
        /\ control[c].indirect => x.source = pointer[c] + n
    BY <1>16, <1>18
  <2>1. hdma'[c].left = x.count % Half
    BY <1>1, <1>6, <1>10, <1>14, <2>0
  <2>2. ASSUME hdma'[c].left > 0
        PROVE  /\ hdma'[c].repeat = (x.count >= Half) /\ hdma'[c].transfer = (x.count >= Half)
               /\ control'[c].indirect /\ x.count >= Half =>
                    x.source = pointer'[c] /\ pointer'[c] + hdma'[c].left * Unit(c)' <= BankSize
    <3>1. left > 0 /\ x.count >= Half
      BY <1>6, <1>14, <2>0, <2>2
    <3>2. hdma'[c].repeat = (x.count >= Half) /\ hdma'[c].transfer = (x.count >= Half)
      <4>1. (left > 0) = TRUE /\ (x.count >= Half) = TRUE
        BY <3>1, Zenon
      <4> QED
        BY <1>14, <4>1, Zenon
    <3>3. Unit(c)' = n
      BY <1>1 DEF Unit, n
    <3>4. ASSUME control[c].indirect
          PROVE  x.source = pointer'[c] /\ pointer'[c] + hdma'[c].left * n <= BankSize
      <4> DEFINE p == left * n
                 q == pointer[c]
      <4>a. p \in Nat /\ (left > 0 => p > 0)
        BY <1>11
      <4>b. control[c].indirect => q \in Nat /\ q + (n + p) <= BankSize
        BY <1>12
      <4>2. x.source = q + n /\ pointer'[c] = (q + n) % BankSize
        BY <1>14, <2>0, <3>4
      <4>3. hdma'[c].left * n = p
        BY <1>14
      <4> HIDE DEF p, q
      <4>1. p \in Nat /\ p > 0 /\ q \in Nat /\ q + (n + p) <= BankSize
        BY <3>1, <3>4, <4>a, <4>b
      <4>4. (q + n) % BankSize = q + n
        BY <1>2, <1>5, <4>1
      <4> QED
        BY <1>2, <1>5, <4>1, <4>2, <4>3, <4>4
    <3> QED
      BY <1>1, <3>2, <3>3, <3>4
  <2> QED
    BY <1>1, <1>4, <2>0, <2>1, <2>2, Zenon DEF InStep
<1>19. Scan!StepChannel(mem, config, c, w) = WalkWith(w, c, x, ppu') /\ x \in ScanChannels
  BY <1>15, <1>16, <1>18
<1> QED
  BY <1>17, <1>19 DEF Follows, config

(* The entry the scan reads is the descriptor the interpreter reads. *)
LEMMA EntryIsDescriptor ==
  ASSUME HdmaTypeOK, NEW c \in Channels, NEW config, config.indirect = control[c].indirect,
         NEW ch \in ScanChannels, ch.table = table[c], mem[table[c]] # 0,
         table[c] + (IF control[c].indirect THEN 3 ELSE 1) <= BankSize
  PROVE  Scan!Entry(mem, config, ch)
           = [ table  |-> table[c] + (IF control[c].indirect THEN 3 ELSE 1),
               source |-> IF control[c].indirect THEN IndirectAddress(table[c]) ELSE ch.source,
               count  |-> mem[table[c]] ]
PROOF
<1> DEFINE a == table[c]
           size == IF control[c].indirect THEN 3 ELSE 1
<1>1. a \in 0 .. BankSize - 1 /\ BankSize \in Nat /\ ch.table = a /\ a + size <= BankSize /\ size \in {1, 3}
  BY HdmaConstantsAssumption DEF HdmaTypeOK, Addresses
<1>2. mem[a] # 0 /\ size = IF config.indirect THEN 3 ELSE 1
  OBVIOUS
<1> HIDE DEF a, size
<1>3. Scan!Readable(a, 1) /\ Scan!Readable(a, size)
  BY <1>1 DEF Scan!Readable
<1>4. Scan!Entry(mem, config, ch)
        = Scan!Channel(a + size,
                       IF config.indirect THEN mem[a + 1] + 2 * Half * mem[a + 2] ELSE ch.source,
                       mem[a])
  BY <1>1, <1>2, <1>3 DEF Scan!Entry
<1>5. control[c].indirect => IndirectAddress(a) = mem[a + 1] + 2 * Half * mem[a + 2]
  <2> SUFFICES ASSUME control[c].indirect
               PROVE  IndirectAddress(a) = mem[a + 1] + 2 * Half * mem[a + 2]
    OBVIOUS
  <2>1. size = 3
    BY DEF size
  <2>2. a + 1 \in 0 .. BankSize - 1 /\ a + 2 \in 0 .. BankSize - 1
    BY <1>1, <2>1
  <2>3. (a + 1) % BankSize = a + 1 /\ (a + 2) % BankSize = a + 2
    BY <1>1, <2>2
  <2> QED
    BY <2>3 DEF IndirectAddress
<1> QED
  BY <1>4, <1>5 DEF Scan!Channel, a, size

(* On the line a descriptor is read on, the scan reads the same descriptor *)
(* and sends the same unit.                                                *)
LEMMA TurnReloads ==
  ASSUME NEW c, NEW w, ScannedTurn(c, w), WalkLine, Reloads(c)
  PROVE  Far(c)' \/ Follows(c, w)
PROOF
<1> DEFINE ch == w.channels[c]
           config == FrameConfigs[c]
           n == Unit(c)
           a == table[c]
           d == mem[a]
           address == IndirectAddress(a)
           now == [ table  |-> a + (IF control[c].indirect THEN 3 ELSE 1),
                    source |-> IF control[c].indirect THEN address ELSE ch.source,
                    count  |-> d ]
           from == IF config.indirect THEN now.source ELSE now.table
           y == [ table  |-> IF config.indirect THEN now.table ELSE now.table + n,
                  source |-> IF config.indirect THEN now.source + n ELSE now.source,
                  count  |-> (now.count - 1) % (2 * Half) ]
<1>1. /\ HdmaTypeOK /\ c \in Channels /\ c = next /\ c \in active' /\ w \in ScanStates /\ w.regs = ppu
      /\ ch \in ScanChannels /\ ch.table = a /\ ch.table # Scan!NoTable
      /\ hdma[c].left = ch.count % Half /\ c \in active /\ c \in held
      /\ control'[c] = control[c] /\ a \in Addresses
  BY LineInFrame
<1>2. /\ config.indirect = control[c].indirect /\ config.mode = control[c].mode
      /\ config.register = control[c].register
      /\ n \in 1 .. 4 /\ n = Scan!TransferLengths[config.mode + 1]
  BY LineInFrame
<1>3. SUFFICES ASSUME ~Far(c)'
               PROVE  Follows(c, w)
  OBVIOUS
<1>4. /\ a + MovedBy(c) < BankSize /\ table'[c] = a + MovedBy(c)
      /\ base'[c] <= table'[c] /\ table'[c] <= base'[c] + 5 * LinesHad(c)'
  BY <1>3, LineInFrame
<1>5. /\ d # Half /\ d # 0
      /\ control[c].indirect => address + n * UnitsAt(a) <= BankSize
  <2>1. /\ WalkInv /\ PlainTables /\ touched = {} /\ ~barrier
    BY DEF ScannedTurn
  <2>2. d # 0
    BY <1>1 DEF WalkLine, Descriptor
  <2>3. /\ mem[table[c]] # Half
        /\ control[c].indirect /\ mem[table[c]] # 0 =>
             IndirectAddress(table[c]) + Unit(c) * UnitsAt(table[c]) <= BankSize
    BY <1>1, <2>1, PlainDescriptor
  <2> QED
    BY <2>2, <2>3
<1>6. /\ Current(c) = [left |-> LineCount(d), repeat |-> d >= Half, transfer |-> TRUE]
      /\ MovedBy(c) = IF control[c].indirect THEN 3 ELSE 1 + n
  <2>1. Current(c) = [left |-> LineCount(d), repeat |-> d >= Half, transfer |-> TRUE]
    BY DEF Current, Reloaded, Descriptor
  <2>2. Current(c).transfer = TRUE
    BY <2>1
  <2> HIDE DEF n
  <2>3. MovedBy(c) = IF control[c].indirect THEN 3 + 0 ELSE 1 + n
    BY <2>2 DEF MovedBy, n
  <2> QED
    BY <2>1, <2>3
<1>7. /\ Half \in Nat /\ Half > 0 /\ BankSize \in Nat /\ a \in 0 .. BankSize - 1
      /\ d \in Bytes /\ d \in Int /\ d < 2 * Half /\ d >= 0 /\ d % Half # 0
      /\ ch.source \in Int
  <2>1. /\ Half \in Nat /\ Half > 0 /\ BankSize \in Nat /\ a \in 0 .. BankSize - 1
        /\ ch.source \in Int
    BY <1>1, HdmaConstantsAssumption DEF ScanChannels, Addresses
  <2>2. d \in Bytes
    BY <1>1 DEF HdmaTypeOK
  <2> HIDE DEF d
  <2>3. d \in Int /\ d < 2 * Half /\ d >= 0
    BY <2>1, <2>2 DEF Bytes
  <2>4. d % Half # 0
    <3>1. CASE d < Half
      BY <1>5, <2>1, <2>3, <3>1
    <3>2. CASE ~(d < Half)
      <4>1. d - Half \in 1 .. Half - 1 /\ d = Half * 1 + (d - Half)
        BY <1>5, <2>1, <2>3, <3>2
      <4>2. d % Half = d - Half
        BY <2>1, <2>3, <4>1, RemainderIs
      <4> QED
        BY <4>1, <4>2
    <3> QED
      BY <3>1, <3>2
  <2> QED
    BY <2>1, <2>2, <2>3, <2>4
<1>8. /\ (d - 1) % (2 * Half) = d - 1 /\ d - 1 \in Bytes
      /\ (d - 1) % Half = (d % Half) - 1 /\ d % Half \in 1 .. Half - 1
      /\ (d - 1 >= Half) <=> (d >= Half)
      /\ d >= Half => d % Half = d - Half
  <2> HIDE DEF d
  <2> QED
    BY <1>7, CountDown
<1>9. LineCount(d) = d % Half
  BY <1>7 DEF LineCount
<1>10. PICK left \in Nat : left + 1 = d % Half
  <2>1. (d % Half) - 1 \in Nat /\ (d % Half) - 1 + 1 = d % Half
    BY <1>8
  <2> QED
    BY <2>1
<1>11. /\ UnitsAt(a) \in Nat /\ UnitsAt(a) >= 1
       /\ d >= Half => UnitsAt(a) = left + 1
  BY <1>5, <1>7, <1>8, <1>10 DEF UnitsAt
<1>12. control[c].indirect => address \in Nat
  <2>1. mem[(a + 1) % BankSize] \in Bytes /\ mem[(a + 2) % BankSize] \in Bytes
    <3>1. (a + 1) % BankSize \in Addresses /\ (a + 2) % BankSize \in Addresses
      BY <1>7, Wraps
    <3> QED
      BY <1>1, <3>1 DEF HdmaTypeOK
  <2> DEFINE low == mem[(a + 1) % BankSize]
             high == mem[(a + 2) % BankSize]
  <2>2. address = low + 2 * Half * high
    BY DEF IndirectAddress
  <2>3. low \in Nat /\ high \in Nat
    BY <1>7, <2>1 DEF Bytes
  <2> HIDE DEF low, high, address
  <2>4. 2 * Half * high \in Nat
    BY <1>7, <2>3
  <2> QED
    BY <2>2, <2>3, <2>4
<1>13. control[c].indirect => address + n <= BankSize /\ address < BankSize
  <2> SUFFICES ASSUME control[c].indirect
               PROVE  address + n <= BankSize /\ address < BankSize
    OBVIOUS
  <2>1. PICK more \in Nat : UnitsAt(a) = more + 1
    <3>1. UnitsAt(a) - 1 \in Nat /\ UnitsAt(a) = UnitsAt(a) - 1 + 1
      BY <1>11
    <3> QED
      BY <3>1
  <2>2. n * UnitsAt(a) = n + more * n /\ more * n \in Nat
    BY <1>2, <2>1, UnitMore
  <2> DEFINE p == more * n
  <2>3. address + (n + p) <= BankSize /\ p \in Nat
    BY <1>5, <2>2
  <2> HIDE DEF p, address, n
  <2> QED
    BY <1>2, <1>7, <1>12, <2>3
<1> HIDE DEF d, address, n
<1>14. now \in ScanChannels
  BY <1>7, <1>12 DEF ScanChannels
<1>15. ScanReads(mem, config, ch) = now
  <2>1. Scan!NeedsEntry(ch)
    BY <1>1 DEF Scan!NeedsEntry, Reloads
  <2>2. a + (IF control[c].indirect THEN 3 ELSE 1) <= BankSize
    BY <1>2, <1>4, <1>6, <1>7
  <2>3. Scan!Entry(mem, config, ch) = now
    <3> HIDE DEF ch, config
    <3>1. Scan!Entry(mem, config, ch)
            = [ table  |-> table[c] + (IF control[c].indirect THEN 3 ELSE 1),
                source |-> IF control[c].indirect THEN IndirectAddress(table[c]) ELSE ch.source,
                count  |-> mem[table[c]] ]
      BY <1>1, <1>2, <1>5, <2>2, EntryIsDescriptor DEF d
    <3> QED
      BY <3>1 DEF d, address
  <2> QED
    BY <2>1, <2>3 DEF ScanReads
<1>16. /\ now.table = a + (IF control[c].indirect THEN 3 ELSE 1)
       /\ now.source = IF control[c].indirect THEN address ELSE ch.source
       /\ now.count = d
  OBVIOUS
<1> HIDE DEF ch, config, now
<1>17. from \in Nat /\ from + n <= BankSize
       /\ from = IF control[c].indirect THEN address ELSE a + 1
  <2>1. CASE control[c].indirect
    BY <1>2, <1>12, <1>13, <1>16, <2>1
  <2>2. CASE ~control[c].indirect
    BY <1>2, <1>4, <1>6, <1>7, <1>16, <2>2
  <2> QED
    BY <2>1, <2>2
<1> HIDE DEF a
<1>18. Source(c) = from
  <2>1. CASE control[c].indirect
    <3>1. PointerNow(c) = address % BankSize
      BY <2>1 DEF PointerNow, After, IndirectAddress, address, a
    <3>2. address % BankSize = address
      BY <1>7, <1>12, <1>13, <2>1
    <3> QED
      BY <1>17, <2>1, <3>1, <3>2 DEF Source
  <2>2. CASE ~control[c].indirect
    <3>1. TableNow(c) = (a + 1) % BankSize
      BY <2>2 DEF TableNow, After, a
    <3>2. a + 1 \in 0 .. BankSize - 1
      BY <1>2, <1>7, <1>17, <2>2
    <3>3. (a + 1) % BankSize = a + 1
      BY <1>7, <3>2
    <3> QED
      BY <1>17, <2>2, <3>1, <3>3 DEF Source
  <2> QED
    BY <2>1, <2>2
<1>19. /\ hdma'[c].left = left /\ hdma'[c].repeat = (d >= Half)
       /\ hdma'[c].transfer = (left > 0 /\ d >= Half)
       /\ control[c].indirect => pointer'[c] = (address + n) % BankSize
       /\ ppu' = Written(c, from, n, 1)
  <2>1. /\ hdma'[c].left = Current(c).left - 1 /\ hdma'[c].repeat = Current(c).repeat
        /\ hdma'[c].transfer = TransfersNext(Current(c), Current(c).left - 1)
        /\ control[c].indirect =>
             pointer'[c] = (PointerNow(c) + IF Current(c).transfer THEN Unit(c) ELSE 0) % BankSize
        /\ ppu' = IF Current(c).transfer THEN Written(c, Source(c), Unit(c), 1) ELSE ppu
    BY <1>1, LineIsCounted
  <2>2. Current(c).left = d % Half /\ Current(c).repeat = (d >= Half) /\ Current(c).transfer = TRUE
    BY <1>6, <1>9
  <2>3. Current(c).left - 1 = left
    BY <1>8, <1>10, <2>2
  <2>4. hdma'[c].transfer = (left > 0 /\ d >= Half)
    <3>1. left # 0 <=> left > 0
      BY <1>10
    <3>2. TransfersNext(Current(c), left) = (left # 0 /\ d >= Half)
      BY <2>2 DEF TransfersNext
    <3>3. (left # 0 /\ d >= Half) = (left > 0 /\ d >= Half)
      BY <3>1
    <3> QED
      BY <2>1, <2>3, <3>2, <3>3
  <2>5. control[c].indirect => PointerNow(c) = address
    BY <1>17, <1>18 DEF Source
  <2> QED
    BY <1>18, <2>1, <2>2, <2>3, <2>4, <2>5 DEF n
<1>20. Scan!StepChannel(mem, config, c, w) = WalkWith(w, c, y, ppu')
  <2>1. Scan!Readable(from, n)
    BY <1>17 DEF Scan!Readable
  <2>2. Scan!NeedsEntry(ch)
    BY <1>1 DEF Scan!NeedsEntry, Reloads
  <2>3. now.table # Scan!NoTable
    BY <1>7, <1>16 DEF Scan!NoTable
  <2>4. n \in Nat /\ from = IF config.indirect THEN now.source ELSE now.table
    BY <1>2
  <2> HIDE DEF from
  <2>5. Scan!ApplyUnit(mem, config, from, ppu) = Written(c, from, Unit(c), 1)
    BY <1>1, <1>2, <1>17, UnitIsWritten DEF n
  <2>6. Scan!StepChannel(mem, config, c, w) = WalkWith(w, c, y, Scan!ApplyUnit(mem, config, from, w.regs))
    BY <1>1, <1>2, <1>14, <1>15, <2>1, <2>2, <2>3, <2>4, ScanSends DEF ch
  <2> QED
    BY <1>1, <1>19, <2>5, <2>6 DEF n
<1>21. /\ y \in ScanChannels /\ y.count = d - 1
       /\ y.table = table'[c]
       /\ control[c].indirect => y.source = address + n
  <2>1. /\ y.table = IF config.indirect THEN now.table ELSE now.table + n
        /\ y.source = IF config.indirect THEN now.source + n ELSE now.source
        /\ y.count = (now.count - 1) % (2 * Half)
    OBVIOUS
  <2>2. y.count = d - 1
    BY <1>8, <1>16, <2>1
  <2>3. y \in ScanChannels
    BY <1>2, <1>8, <1>14, <1>16 DEF ScanChannels
  <2> HIDE DEF y
  <2>4. y.table = table'[c]
    BY <1>2, <1>4, <1>6, <1>7, <1>16, <2>1 DEF a
  <2> QED
    BY <1>2, <1>16, <2>1, <2>2, <2>3, <2>4
<1>22. PICK x : x = y
  OBVIOUS
<1> HIDE DEF y, from
<1>23. InStep(c, x)'
  <2>0. /\ x.count = d - 1 /\ x.table = table'[c]
        /\ control[c].indirect => x.source = address + n
    BY <1>21, <1>22
  <2>1. hdma'[c].left = x.count % Half
    BY <1>8, <1>10, <1>19, <2>0
  <2>2. ASSUME hdma'[c].left > 0
        PROVE  /\ hdma'[c].repeat = (x.count >= Half) /\ hdma'[c].transfer = (x.count >= Half)
               /\ control'[c].indirect /\ x.count >= Half =>
                    x.source = pointer'[c] /\ pointer'[c] + hdma'[c].left * Unit(c)' <= BankSize
    <3>1. left > 0
      BY <1>19, <2>2
    <3>2. (x.count >= Half) = (d >= Half)
      BY <1>8, <2>0
    <3>3. (left > 0 /\ d >= Half) = (d >= Half)
      BY <3>1
    <3>4. hdma'[c].repeat = (x.count >= Half) /\ hdma'[c].transfer = (x.count >= Half)
      BY <1>19, <3>2, <3>3, Zenon
    <3>5. Unit(c)' = n
      BY <1>1 DEF Unit, n
    <3>6. ASSUME control[c].indirect, x.count >= Half
          PROVE  x.source = pointer'[c] /\ pointer'[c] + hdma'[c].left * n <= BankSize
      <4> DEFINE p == left * n
      <4>1. n * (left + 1) = n + p /\ p \in Nat /\ (left > 0 => p > 0)
        BY <1>2, <1>10, UnitMore
      <4>2. d >= Half
        BY <3>2, <3>6
      <4>3. UnitsAt(a) = left + 1
        BY <1>11, <4>2
      <4>4. address + n * (left + 1) <= BankSize /\ address \in Nat
        BY <1>5, <1>12, <3>6, <4>3
      <4>5. hdma'[c].left * n = p
        BY <1>19
      <4> HIDE DEF p
      <4>6. address + (n + p) <= BankSize /\ p > 0
        BY <3>1, <4>1, <4>4
      <4>7. (address + n) % BankSize = address + n
        BY <1>2, <1>7, <4>1, <4>4, <4>6
      <4>8. x.source = address + n /\ pointer'[c] = address + n
        BY <1>19, <2>0, <3>6, <4>7
      <4> QED
        BY <1>2, <1>7, <4>1, <4>4, <4>5, <4>6, <4>8
    <3> QED
      BY <1>1, <3>4, <3>5, <3>6
  <2> QED
    BY <1>1, <1>4, <2>0, <2>1, <2>2, Zenon DEF InStep
<1>24. Scan!StepChannel(mem, config, c, w) = WalkWith(w, c, x, ppu') /\ x \in ScanChannels
  BY <1>20, <1>21, <1>22
<1> QED
  BY <1>23, <1>24 DEF Follows, config

(* The other channels stay where they are. *)
LEMMA OthersStay ==
  ASSUME HdmaTypeOK, next \in Channels, SkipChannel \/ EndChannel \/ WalkLine,
         UNCHANGED history, NEW i \in Channels, i # next
  PROVE  /\ hdma'[i] = hdma[i] /\ table'[i] = table[i] /\ pointer'[i] = pointer[i]
         /\ base'[i] = base[i] /\ control'[i] = control[i]
         /\ i \in active' <=> i \in active
         /\ LinesHad(i)' = LinesHad(i)
PROOF
<1>1. ChannelDone
  BY DEF SkipChannel, EndChannel, WalkLine
<1>2. LinesHad(i)' = LinesHad(i)
  BY <1>1, LinesGoOn
<1>3. hdma'[i] = hdma[i] /\ table'[i] = table[i] /\ pointer'[i] = pointer[i]
  BY DEF SkipChannel, EndChannel, WalkLine, setupVars, hdmaVars, AdvanceSource, HdmaTypeOK
<1>4. control' = control /\ base' = base
  BY DEF SkipChannel, EndChannel, WalkLine, setupVars, history
<1>5. i \in active' <=> i \in active
  BY DEF SkipChannel, EndChannel, WalkLine, hdmaVars
<1> QED
  BY <1>2, <1>3, <1>4, <1>5

(* Whatever a channel's turn is, the scan has taken it too. *)
LEMMA TurnFollows ==
  ASSUME NEW c, NEW w, ScannedTurn(c, w), Scanline,
         NEW v, v = Scan!StepChannel(mem, FrameConfigs[c], c, w)
  PROVE  (c \in held /\ Far(c)') \/ InStepWith(v)'
PROOF
<1>1. /\ WalkInv /\ HdmaTypeOK /\ c \in Channels /\ c = next /\ UNCHANGED history
      /\ w \in ScanStates /\ w.regs = ppu /\ \A i \in Channels : InStep(i, w.channels[i])
  BY DEF ScannedTurn, WalkInv, InStepWith
<1>2. SkipChannel \/ EndChannel \/ WalkLine
  <2>1. ~BlockedLine
    <3>1. enabled = held /\ \A i \in held : ~control[i].toCpu
      BY DEF ScannedTurn
    <3> QED
      BY <3>1, <1>1 DEF BlockedLine, Walks
  <2> QED
    BY <2>1 DEF Scanline
<1>3. (c \in held /\ Far(c)') \/ Follows(c, w)
  <2>1. CASE SkipChannel \/ EndChannel
    BY <2>1, TurnIsSilent
  <2>2. CASE WalkLine
    BY <2>2, TurnCounts, TurnRepeats, TurnReloads, LineInFrame
  <2> QED
    BY <1>2, <2>1, <2>2
<1>4. SUFFICES ASSUME Follows(c, w)
               PROVE  InStepWith(v)'
  BY <1>3
<1>5. PICK x \in ScanChannels : v = WalkWith(w, c, x, ppu') /\ InStep(c, x)'
  BY <1>4 DEF Follows
<1>6. ppu' \in [Registers -> Bytes]
  <2>1. HdmaTypeOK'
    BY <1>1, StepKeepsTypes DEF HdmaNext, WalkInv
  <2> QED
    BY <2>1 DEF HdmaTypeOK
<1>7. /\ v = [channels |-> [w.channels EXCEPT ![c] = x], regs |-> ppu']
      /\ w.channels \in [Channels -> ScanChannels]
  BY <1>1, <1>5 DEF WalkWith, ScanStates
<1>8. v \in ScanStates /\ v.regs = ppu'
  <2> DEFINE channels == [w.channels EXCEPT ![c] = x]
  <2>1. channels \in [Channels -> ScanChannels]
    BY <1>1, <1>7
  <2>2. v = [channels |-> channels, regs |-> ppu']
    BY <1>7
  <2> HIDE DEF channels
  <2> QED
    BY <1>6, <2>1, <2>2 DEF ScanStates
<1>9. v.channels[c] = x /\ \A i \in Channels : i # c => v.channels[i] = w.channels[i]
  BY <1>1, <1>7
<1>10. ASSUME NEW i \in Channels
       PROVE  InStep(i, v.channels[i])'
  <2>1. CASE i = c
    BY <1>5, <1>9, <2>1
  <2>2. CASE i # c
    <3> DEFINE y == w.channels[i]
    <3>1. InStep(i, y) /\ v.channels[i] = y
      BY <1>1, <1>9, <2>2
    <3>2. /\ hdma'[i] = hdma[i] /\ table'[i] = table[i] /\ pointer'[i] = pointer[i]
          /\ base'[i] = base[i] /\ control'[i] = control[i]
          /\ i \in active' <=> i \in active
          /\ LinesHad(i)' = LinesHad(i)
      BY <1>1, <1>2, <2>2, OthersStay
    <3> HIDE DEF y
    <3>3. Unit(i)' = Unit(i)
      BY <3>2 DEF Unit
    <3>4. InStep(i, y)'
      BY <3>1, <3>2, <3>3 DEF InStep
    <3> QED
      BY <3>1, <3>4
  <2> QED
    BY <2>1, <2>2
<1> QED
  BY <1>8, <1>10 DEF InStepWith

(* A table that ran over the end of the bank has done so for the frame. *)
LEMMA FarStays ==
  ASSUME WalkInv, enabled = held, \A i \in held : ~control[i].toCpu, Scanline, UNCHANGED history,
         NEW c \in held, Far(c)
  PROVE  Far(c)'
PROOF
<1>1. /\ HdmaTypeOK /\ Enrolled /\ c \in Channels /\ next \in Channels /\ base' = base
      /\ line < VisibleLines /\ line \in 0 .. VisibleLines
  <2>1. next \in Channels
    BY DEF Scanline, SkipChannel, EndChannel, BlockedLine, WalkLine, AtChannel
  <2> QED
    BY <2>1, HdmaConstantsAssumption
       DEF WalkInv, WalkInFrame, Enrolled, HdmaTypeOK, Channels, history
<1>2. SkipChannel \/ EndChannel \/ WalkLine
  <2>1. ~BlockedLine
    BY DEF BlockedLine, Walks
  <2> QED
    BY <2>1 DEF Scanline
<1>3. CASE c # next
  <2>1. table'[c] = table[c] /\ LinesHad(c)' = LinesHad(c) /\ base'[c] = base[c]
    BY <1>1, <1>2, <1>3, OthersStay
  <2> QED
    BY <2>1 DEF Far
<1>4. CASE c = next
  <2>1. ChannelDone
    BY <1>2 DEF SkipChannel, EndChannel, WalkLine
  <2>2. LinesHad(c) \in 0 .. VisibleLines - 1 /\ LinesHad(c)' = LinesHad(c) + 1
    <3>1. LinesHad(c) = line /\ LinesHad(c)' = line + 1
      BY <1>1, <1>4, <2>1, LinesGoOn
    <3> QED
      BY <1>1, <3>1, HdmaConstantsAssumption
  <2>3. table[c] \in 0 .. BankSize - 1 /\ BankSize \in Nat
    BY <1>1, HdmaConstantsAssumption DEF HdmaTypeOK, Addresses
  <2>4. PICK m \in 0 .. 5 : table'[c] = (table[c] + m) % BankSize
    <3>1. CASE SkipChannel
      <4>1. table'[c] = table[c]
        BY <3>1 DEF SkipChannel, hdmaVars
      <4>2. table[c] + 0 = table[c] /\ table[c] % BankSize = table[c]
        BY <2>3
      <4>3. table'[c] = (table[c] + 0) % BankSize /\ 0 \in 0 .. 5
        BY <4>1, <4>2
      <4> QED
        BY <4>3
    <3>2. CASE EndChannel
      <4>1. table'[c] = (table[c] + 1) % BankSize /\ 1 \in 0 .. 5
        BY <1>1, <1>4, <3>2 DEF EndChannel, After, HdmaTypeOK
      <4> QED
        BY <4>1
    <3>3. CASE WalkLine
      BY <1>1, <1>4, <3>3, LineMovesTable
    <3> QED
      BY <1>2, <3>1, <3>2, <3>3
  <2> QED
    BY <1>1, <2>2, <2>4, FarGoesOn
<1> QED
  BY <1>3, <1>4
-----------------------------------------------------------------------------
(* The invariant of the scanned frame. *)

(* The tables of the frame stay plain. *)
LEMMA PlainStays ==
  ASSUME UNCHANGED <<mem, control, base, held>>
  PROVE  PlainTables' <=> PlainTables
PROOF
<1>1. ASSUME NEW c
      PROVE  (HasLongest(c)' <=> HasLongest(c)) /\ (UnitsInBank(c)' <=> UnitsInBank(c))
  <2>1. SameTable(c)
    BY DEF SameTable
  <2>2. DescriptorOf(c)' = DescriptorOf(c)
    BY <2>1, TableStays
  <2> QED
    BY <2>1, <2>2, LongestStays DEF UnitsInBank, IndirectAddress, UnitsAt, Unit
<1> QED
  BY <1>1 DEF PlainTables

(* What the scan read is as it was. *)
LEMMA ConfigsStay ==
  ASSUME UNCHANGED <<control, base, held>>
  PROVE  FrameConfigs' = FrameConfigs
PROOF BY DEF FrameConfigs

(* A step of the walk keeps the frame in step with the scan. *)
LEMMA WalkKeepsFrame ==
  ASSUME WalkInv, DrawnInv, Scanline, UNCHANGED history
  PROVE  DrawnInv'
PROOF
<1> SUFFICES ASSUME drawnAhead
             PROVE  DrawnInv'
  BY DEF DrawnInv, history
<1>1. /\ enabled = held /\ touched = {} /\ \A c \in held : ~control[c].toCpu
      /\ \E r : FrameScanned(r)
  BY DEF DrawnInv
<1>2. /\ UNCHANGED <<mem, control, enabled, bands, base, held, touched>>
      /\ next \in Channels /\ ~barrier
  BY DEF Scanline, SkipChannel, EndChannel, BlockedLine, WalkLine, setupVars, history, AtChannel
<1>3. ChannelDone
  <2>1. ~BlockedLine
    BY <1>1 DEF BlockedLine, Walks
  <2> QED
    BY <2>1 DEF Scanline, SkipChannel, EndChannel, WalkLine
<1>4. PICK r : FrameScanned(r)
  BY <1>1
<1>5. PICK m, k, n, c : m = mem /\ k = FrameConfigs /\ n = line /\ c = next
  OBVIOUS
<1>6. FrameConfigs' = k /\ mem' = m /\ (PlainTables' <=> PlainTables)
  BY <1>2, <1>5, ConfigsStay, PlainStays
<1>7. /\ c \in Channels /\ n \in 0 .. VisibleLines - 1
      /\ next' = c + 1 /\ line' = IF c + 1 = NChannels THEN n + 1 ELSE n
  <2>1. line \in 0 .. VisibleLines /\ line < VisibleLines
    BY <1>2, HdmaConstantsAssumption DEF WalkInv, WalkInFrame, HdmaTypeOK, Channels
  <2> QED
    BY <1>2, <1>3, <1>5, <2>1, HdmaConstantsAssumption DEF ChannelDone
<1>8. PICK w, v : /\ w = ScanAt(m, k, r, n, c)
                  /\ v = ScanAt(m, k, r, IF c + 1 = NChannels THEN n + 1 ELSE n, c + 1)
  OBVIOUS
<1>9. v = Scan!StepChannel(m, k[c], c, w)
  BY <1>7, <1>8, ScanGoesOn
<1>10. ASSUME PlainTables'
       PROVE  (\E i \in held : Far(i)') \/ InStepWith(v)'
  <2>1. (\E i \in held : Far(i)) \/ InStepWith(w)
    BY <1>4, <1>5, <1>6, <1>8, <1>10 DEF FrameScanned
  <2>2. CASE \E i \in held : Far(i)
    BY <1>1, <2>2, FarStays
  <2>3. CASE InStepWith(w)
    <3>1. ScannedTurn(c, w)
      BY <1>1, <1>2, <1>5, <1>6, <1>7, <1>10, <2>3 DEF ScannedTurn
    <3>2. (c \in held /\ Far(c)') \/ InStepWith(v)'
      BY <1>5, <1>9, <3>1, TurnFollows
    <3> QED
      BY <3>2
  <2> QED
    BY <2>1, <2>2, <2>3
<1>11. bands' = Scan!ScanBands(m, k, r)
  BY <1>2, <1>4, <1>5 DEF FrameScanned
<1>12. FrameScanned(r)'
  BY <1>2, <1>6, <1>7, <1>8, <1>10, <1>11 DEF FrameScanned
<1> QED
  BY <1>1, <1>2, <1>12 DEF DrawnInv

(* A step that moves no channel keeps it, too. *)
LEMMA RestKeepsFrame ==
  ASSUME DrawnInv, drawnAhead,
         UNCHANGED <<mem, control, enabled, bands, base, held, touched, table, active, hdma, ppu, line>>,
         \A c \in held : control[c].indirect => pointer'[c] = pointer[c],
         (IF next < NChannels THEN next ELSE 0) = (IF next' < NChannels THEN next' ELSE 0),
         \A c \in Channels : LinesHad(c)' = LinesHad(c),
         Enrolled, HdmaTypeOK
  PROVE  DrawnInv'
PROOF
<1>1. /\ enabled = held /\ touched = {} /\ \A c \in held : ~control[c].toCpu
      /\ \E r : FrameScanned(r)
  BY DEF DrawnInv
<1>2. PICK r : FrameScanned(r)
  BY <1>1
<1>3. FrameConfigs' = FrameConfigs /\ (PlainTables' <=> PlainTables)
  BY ConfigsStay, PlainStays
<1>4. PICK m, k, w : m = mem /\ k = FrameConfigs /\ w = ScanAt(m, k, r, line, next)
  OBVIOUS
<1>5. ScanAt(m, k, r, line', next') = w
  BY <1>4 DEF ScanAt
<1>6. held \subseteq Channels /\ active \subseteq held
  BY DEF Enrolled, HdmaTypeOK
<1>7. ASSUME PlainTables'
      PROVE  (\E i \in held : Far(i)') \/ InStepWith(w)'
  <2>1. (\E i \in held : Far(i)) \/ InStepWith(w)
    BY <1>2, <1>3, <1>4, <1>7 DEF FrameScanned
  <2>2. ASSUME NEW i \in held, Far(i)
        PROVE  Far(i)'
    <3>1. LinesHad(i)' = LinesHad(i)
      BY <1>6
    <3> QED
      BY <2>2, <3>1 DEF Far
  <2>3. ASSUME NEW i \in Channels, NEW x, InStep(i, x)
        PROVE  InStep(i, x)'
    <3>1. LinesHad(i)' = LinesHad(i) /\ Unit(i)' = Unit(i)
      BY DEF Unit
    <3>2. i \in active /\ control[i].indirect => pointer'[i] = pointer[i]
      BY <1>6
    <3> QED
      BY <2>3, <3>1, <3>2 DEF InStep
  <2>4. InStepWith(w) => InStepWith(w)'
    BY <2>3 DEF InStepWith
  <2> QED
    BY <2>1, <2>2, <2>4
<1>8. bands' = Scan!ScanBands(m, k, r)
  BY <1>2, <1>4 DEF FrameScanned
<1>9. FrameScanned(r)'
  BY <1>3, <1>4, <1>5, <1>7, <1>8 DEF FrameScanned
<1> QED
  BY <1>1, <1>9 DEF DrawnInv

(* Writes of the program to other channels and to start addresses do. *)
LEMMA ProgramKeepsFrame ==
  ASSUME WalkInv, DrawnInv, ProgramWrites
  PROVE  DrawnInv'
PROOF
<1> SUFFICES ASSUME drawnAhead'
             PROVE  DrawnInv'
  BY DEF DrawnInv
<1>1. /\ drawnAhead /\ enabled' = enabled /\ control' = control /\ touched' = {}
      /\ bands' = bands /\ base' = base /\ held' = held \cap enabled'
  BY DEF ProgramWrites
<1>2. enabled = held /\ touched = {} /\ active \subseteq enabled /\ held \subseteq Channels
      /\ Enrolled /\ HdmaTypeOK
  BY <1>1 DEF DrawnInv, WalkInv, HdmaTypeOK
<1>3. UNCHANGED <<mem, hdma, ppu, line, next>>
  BY DEF ProgramWrites, Program, WriteEnable, WriteControl, WriteStart, WriteSize, WriteTable, WriteCounter, StartDma,
         setupVars, hdmaVars
<1>4. active' = active
  <2>1. active' = active \cap enabled' \/ active' = active
    BY DEF ProgramWrites, Program, WriteEnable, WriteControl, WriteStart, WriteSize, WriteTable, WriteCounter, StartDma,
           StillActive, hdmaVars
  <2> QED
    BY <1>1, <1>2, <2>1
<1>5. /\ \A c \in held : control[c].indirect => pointer'[c] = pointer[c]
      /\ \A c \in Channels : table'[c] = table[c]
  <2>1. touched' = touched \cup
          { c \in Channels : \/ control'[c] # control[c]
                             \/ control[c].indirect /\ pointer'[c] # pointer[c]
                             \/ table'[c] # table[c] }
    BY DEF ProgramWrites
  <2> QED
    BY <1>1, <1>2, <2>1
<1>6. \A c \in Channels : LinesHad(c)' = LinesHad(c)
  BY <1>3 DEF LinesHad
<1>7. table' = table
  <2>1. table' \in [Channels -> Addresses] /\ table \in [Channels -> Addresses]
    BY <1>2, ProgramKeepsTypes DEF ProgramWrites, WalkInv, HdmaTypeOK
  <2> QED
    BY <1>5, <2>1
<1> QED
  BY <1>1, <1>2, <1>3, <1>4, <1>5, <1>6, <1>7, RestKeepsFrame

(* The walk of a line begins where the scan's does. *)
LEMMA BlankingKeepsFrame ==
  ASSUME WalkInv, DrawnInv, BeginHBlank, UNCHANGED history
  PROVE  DrawnInv'
PROOF
<1> SUFFICES ASSUME drawnAhead
             PROVE  DrawnInv'
  BY DEF DrawnInv, history
<1>1. /\ next = NChannels /\ next' = 0
      /\ UNCHANGED <<mem, control, pointer, enabled, bands, base, held, touched, table, active, hdma,
                     ppu, line>>
  BY DEF BeginHBlank, Idle, setupVars, hdmaVars, history
<1>2. (IF next < NChannels THEN next ELSE 0) = (IF next' < NChannels THEN next' ELSE 0)
  BY <1>1, HdmaConstantsAssumption
<1>3. ASSUME NEW c \in Channels
      PROVE  LinesHad(c)' = LinesHad(c)
  <2>1. ~(c < 0) /\ ~(NChannels < NChannels)
    BY HdmaConstantsAssumption DEF Channels
  <2> QED
    BY <1>1, <2>1 DEF LinesHad
<1>4. Enrolled /\ HdmaTypeOK
  BY DEF WalkInv
<1> QED
  BY <1>1, <1>2, <1>3, <1>4, RestKeepsFrame

(* When a frame begins its tables are scanned from its registers. *)
LEMMA FrameIsScanned ==
  ASSUME WalkInv, FrameBegins
  PROVE  DrawnInv'
PROOF
<1> SUFFICES ASSUME drawnAhead'
             PROVE  DrawnInv'
  BY DEF DrawnInv
<1>1. /\ HdmaTypeOK /\ UNCHANGED <<mem, control, start, enabled, ppu, next>> /\ next = NChannels
      /\ line' = 0 /\ active' = enabled /\ held' = enabled /\ touched' = {} /\ base' = start
      /\ hdma' = [c \in Channels |-> [Cleared EXCEPT !.transfer = c \in enabled]]
      /\ table' = [c \in Channels |-> IF c \in enabled THEN start[c] ELSE table[c]]
      /\ bands' = Scan!ScanBands(mem, Configs, ppu)
      /\ \A c \in enabled : ~control[c].toCpu
      /\ start \in [Channels -> Addresses] /\ ppu \in [Registers -> Bytes]
      /\ NChannels \in Nat /\ VisibleLines \in Nat /\ BankSize \in Nat /\ Half \in Nat /\ Half > 0
  <2>1. BeginFrame /\ bands' = Scan!ScanBands(mem, Configs, ppu) /\ held' = enabled
        /\ touched' = {} /\ base' = start /\ drawnAhead' = (\A c \in enabled : ~control[c].toCpu)
    BY DEF FrameBegins
  <2>2. \A c \in enabled : ~control[c].toCpu
    BY <2>1
  <2>3. /\ UNCHANGED <<mem, control, start, enabled, ppu, next>> /\ next = NChannels
        /\ line' = 0 /\ active' = enabled
        /\ hdma' = [c \in Channels |-> [Cleared EXCEPT !.transfer = c \in enabled]]
        /\ table' = [c \in Channels |-> IF c \in enabled THEN start[c] ELSE table[c]]
    BY <2>1 DEF BeginFrame, Idle, setupVars
  <2>4. HdmaTypeOK /\ start \in [Channels -> Addresses] /\ ppu \in [Registers -> Bytes]
    BY DEF WalkInv, HdmaTypeOK
  <2> QED
    BY <2>1, <2>2, <2>3, <2>4, HdmaConstantsAssumption
<1>2. PICK m, k, r : m = mem /\ k = Configs /\ r = ppu
  OBVIOUS
<1>3. FrameConfigs' = k /\ mem' = m /\ ppu' = r
  BY <1>1, <1>2 DEF FrameConfigs, Configs
<1>4. PICK w : w = ScanAt(m, k, r, 0, NChannels)
  OBVIOUS
<1>5. w = Scan!StartOfWalk(k, r)
  <2> DEFINE S == Scan!FrameScan(m, k, r)
  <2>1. w = Scan!LineWalk(m, k, S[0].walk)[0]
    BY <1>1, <1>4 DEF ScanAt
  <2>2. S[0] = [walk |-> Scan!StartOfWalk(k, r), bands |-> <<>>]
    BY ScanSteps
  <2> HIDE DEF S
  <2>3. S[0].walk = Scan!StartOfWalk(k, r)
    BY <2>2
  <2> QED
    BY <2>1, <2>3, WalkSteps DEF S
<1>6. w = [ channels |-> [ c \in Channels |->
              [ table |-> IF c \in enabled THEN start[c] ELSE Scan!NoTable,
                source |-> Scan!NoTable, count |-> 0 ] ],
            regs |-> r ]
  BY <1>2, <1>5 DEF Scan!StartOfWalk, Scan!Channel, Configs, Channels
<1>7. w \in ScanStates /\ w.regs = r
  <2>1. ASSUME NEW c \in Channels
        PROVE  [ table |-> IF c \in enabled THEN start[c] ELSE Scan!NoTable,
                 source |-> Scan!NoTable, count |-> 0 ] \in ScanChannels
    BY <1>1 DEF ScanChannels, Scan!NoTable, Addresses, Bytes
  <2> QED
    BY <1>1, <1>2, <1>6, <2>1 DEF ScanStates
<1>8. ASSUME NEW c \in Channels
      PROVE  InStep(c, w.channels[c])'
  <2>1. PICK x : x = w.channels[c]
    OBVIOUS
  <2>2. /\ x.table = (IF c \in enabled THEN start[c] ELSE Scan!NoTable) /\ x.count = 0
        /\ start[c] \in Int
    BY <1>1, <1>6, <2>1 DEF Addresses
  <2>3. LinesHad(c)' = 0
    BY <1>1 DEF LinesHad
  <2>4. hdma'[c].left = 0
    BY <1>1 DEF Cleared
  <2>5. 0 % Half = 0
    BY <1>1
  <2>6. InStep(c, x)'
    BY <1>1, <2>2, <2>3, <2>4, <2>5 DEF InStep
  <2> QED
    BY <2>1, <2>6
<1>9. InStepWith(w)'
  BY <1>3, <1>7, <1>8 DEF InStepWith
<1>10. bands' = Scan!ScanBands(m, k, r)
  BY <1>1, <1>2
<1>11. ScanAt(m, k, r, line', next') = w
  BY <1>1, <1>4
<1>12. FrameScanned(r)'
  BY <1>3, <1>9, <1>10, <1>11 DEF FrameScanned
<1> QED
  BY <1>1, <1>12 DEF DrawnInv

(* So the invariant always holds. *)
LEMMA DrawnInvAlways ==
  MCSpec => []DrawnInv
PROOF
<1>1. MCInit => DrawnInv
  BY DEF MCInit, DrawnInv
<1>2. ASSUME WalkInv, DrawnInv, [MCNext]_<<vars, history>>
      PROVE  DrawnInv'
  <2>1. CASE FrameBegins
    BY <1>2, <2>1, FrameIsScanned
  <2>2. CASE BeginHBlank /\ UNCHANGED history
    BY <1>2, <2>2, BlankingKeepsFrame
  <2>3. CASE Scanline /\ UNCHANGED history
    BY <1>2, <2>3, WalkKeepsFrame
  <2>4. CASE ProgramWrites
    BY <1>2, <2>4, ProgramKeepsFrame
  <2>5. CASE DmaRuns
    BY <2>5 DEF DmaRuns, DrawnInv
  <2>6. CASE UNCHANGED <<vars, history>>
    <3> SUFFICES ASSUME drawnAhead
                 PROVE  DrawnInv'
      BY <2>6 DEF DrawnInv, history
    <3>1. UNCHANGED <<mem, control, pointer, enabled, bands, base, held, touched, table, active, hdma,
                      ppu, line, next>>
      BY <2>6 DEF vars, setupVars, hdmaVars, history
    <3>2. \A c \in Channels : LinesHad(c)' = LinesHad(c)
      BY <3>1 DEF LinesHad
    <3>3. Enrolled /\ HdmaTypeOK
      BY <1>2 DEF WalkInv
    <3> QED
      BY <1>2, <3>1, <3>2, <3>3, RestKeepsFrame
  <2> QED
    BY <1>2, <2>1, <2>2, <2>3, <2>4, <2>5, <2>6 DEF MCNext
<1> QED
  BY <1>1, <1>2, WalkInvAlways, PTL DEF MCSpec

(* A channel whose table has run over the end of the bank is not InBank. *)
LEMMA FarIsNotInBank ==
  ASSUME WalkInv, Idle, NEW c \in held, Far(c)
  PROVE  ~InBank
PROOF
<1>1. c \in Channels /\ base[c] \in Addresses /\ line \in 0 .. VisibleLines /\ next = NChannels
  BY DEF WalkInv, Enrolled, HdmaTypeOK, Idle
<1>2. LinesHad(c) = line
  BY <1>1, HdmaConstantsAssumption DEF LinesHad
<1>3. PICK t \in 0 .. 5 * line : table[c] = base[c] + t - BankSize
  BY <1>2 DEF Far
<1>4. t < BankSize /\ base[c] \in Int /\ BankSize \in Int /\ t \in Int
  <2>1. /\ 5 * VisibleLines < BankSize /\ VisibleLines \in Nat /\ BankSize \in Nat
        /\ base[c] \in Int
    BY <1>1, HdmaConstantsAssumption, FrameFitsBankAssumption DEF Addresses
  <2> QED
    BY <1>1, <1>3, <2>1
<1>5. ~(table[c] >= base[c])
  BY <1>3, <1>4
<1> QED
  BY <1>5 DEF InBank

(* The bands of the scan have the registers the lines are drawn with, for  *)
(* every number of channels and lines, and every table without the         *)
(* descriptor $80 whose indirect units lie in the bank: nothing the        *)
(* program may do in the frame without touching what the scan has read     *)
(* takes the line by line walk away from it.                               *)
THEOREM PlainBandsMatchLines ==
  MCSpec => [](PlainTables => BandsMatchLines)
PROOF
<1>1. ASSUME WalkInv, DrawnInv
      PROVE  PlainTables => BandsMatchLines
  <2> SUFFICES ASSUME PlainTables, drawnAhead, Idle, InBank, line \in 1 .. VisibleLines - 1
               PROVE  Scan!BandForLine(bands, line).regs = ppu
    BY DEF BandsMatchLines
  <2>1. PICK r : FrameScanned(r)
    BY <1>1 DEF DrawnInv
  <2>2. PICK m, k, n : m = mem /\ k = FrameConfigs /\ n = line
    OBVIOUS
  <2>3. ~(\E c \in held : Far(c))
    BY <1>1, FarIsNotInBank
  <2>4. bands = Scan!ScanBands(m, k, r) /\ InStepWith(ScanAt(m, k, r, n, next))
    BY <2>1, <2>2, <2>3 DEF FrameScanned
  <2>5. next = NChannels /\ ~(NChannels < NChannels)
    BY HdmaConstantsAssumption DEF Idle
  <2>6. ScanAt(m, k, r, n, next) = Scan!FrameScan(m, k, r)[n].walk
    <3> DEFINE before == Scan!FrameScan(m, k, r)[n].walk
    <3>1. ScanAt(m, k, r, n, next) = Scan!LineWalk(m, k, before)[0]
      BY <2>5 DEF ScanAt
    <3> HIDE DEF before
    <3>2. Scan!LineWalk(m, k, before)[0] = before
      BY WalkSteps
    <3> QED
      BY <3>1, <3>2 DEF before
  <2>7. Scan!BandForLine(bands, n).regs = Scan!FrameScan(m, k, r)[n].walk.regs
    BY <2>2, <2>4, BandOfLine
  <2> QED
    BY <2>2, <2>4, <2>6, <2>7 DEF InStepWith
<1>2. MCSpec => [](WalkInv /\ DrawnInv)
  BY WalkInvAlways, DrawnInvAlways, PTL
<1> QED
  BY <1>1, <1>2, PTL
=============================================================================
