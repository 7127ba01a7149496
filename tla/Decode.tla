------------------------------- MODULE Decode -------------------------------
(***************************************************************************)
(* The static decoder (src/src/decode.c) and the processor flags it needs  *)
(* to know (src/src/cpu.c): how long each of the 256 opcodes is, where     *)
(* control goes after it, and what it does to the four bits E, M, X and C, *)
(* each of which the analyser knows or does not.  M and X choose between   *)
(* one and two bytes of an immediate operand, E forces both, and C is      *)
(* tracked because XCE exchanges it with E.                                *)
(***************************************************************************)
EXTENDS Integers, Sequences, FiniteSets

Byte == 0..255
BankSize == 65536
Word == 0..(BankSize - 1)
Address == 0..(256 * BankSize - 1)    \* bank * BankSize + program counter

Known == {0, 1}                       \* a bit of the processor
Unknown == 2
Bit == Known \cup {Unknown}           \* dkc2_known_bit

DecodeState == [e : Bit, m : Bit, x : Bit, c : Bit]

(***************************************************************************)
(* Addressing modes and flow, the columns of opcode_table.                 *)
(***************************************************************************)
ImmediateM == {op \in Byte : op % 32 = 9}
ImmediateX == {160, 162, 192, 224}

FixedLength(op) ==
  CASE op \in {34, 92} \/ op % 16 = 15                         -> 4
    [] \/ op \in {32, 68, 84, 98, 130, 244}
       \/ op % 16 \in {12, 13, 14} /\ op # 92
       \/ op % 32 = 25                                         -> 3
    [] op \in {64, 96} \/ op % 16 \in {8, 10, 11}              -> 1
    [] OTHER                                                   -> 2

\* The length with known widths; with an unknown width the decoder refuses.
LengthIn(op, s) == CASE op \in ImmediateM -> 3 - s.m
                     [] op \in ImmediateX -> 3 - s.x
                     [] OTHER             -> FixedLength(op)

Ambiguous(op, s) == \/ op \in ImmediateM /\ s.m = Unknown
                    \/ op \in ImmediateX /\ s.x = Unknown

Flow(op) == CASE op % 32 = 16           -> "conditional"
              [] op \in {128, 130}      -> "branch"
              [] op \in {32, 34}        -> "call"
              [] op = 252               -> "indirect_call"
              [] op \in {76, 92}        -> "jump"
              [] op \in {108, 124, 220} -> "indirect_jump"
              [] op \in {64, 96, 107}   -> "return"
              [] op \in {0, 2}          -> "trap"
              [] op = 219               -> "stop"
              [] OTHER                  -> "next"

(***************************************************************************)
(* Reading an instruction.  mem is a function from the addresses of the    *)
(* image to bytes; an address outside it cannot be read.                   *)
(***************************************************************************)
Bank(a) == a - (a % BankSize)

\* The program counter wraps within its bank.
InBank(a, offset) == Bank(a) + ((a + offset) % BankSize)

Signed(value, width) == IF value < width \div 2 THEN value ELSE value - width

Operand(mem, a, length) ==
  LET Part(i) == IF i < length THEN mem[InBank(a, i)] ELSE 0
  IN  Part(1) + 256 * Part(2) + BankSize * Part(3)

Readable(mem, a, length) == \A i \in 0..(length - 1) : InBank(a, i) \in DOMAIN mem

Decodes(mem, a, s) == /\ a \in DOMAIN mem
                      /\ ~Ambiguous(mem[a], s)
                      /\ Readable(mem, a, LengthIn(mem[a], s))

NextAddress(mem, a, s) == InBank(a, LengthIn(mem[a], s))

TargetAddress(mem, a, s) ==
  LET op == mem[a]
      operand == Operand(mem, a, LengthIn(op, s))
      next == NextAddress(mem, a, s)
  IN  CASE Flow(op) = "conditional" \/ op = 128 -> InBank(next, Signed(operand, 256))
        [] op = 130                             -> InBank(next, Signed(operand, BankSize))
        [] op \in {34, 92}                      -> operand
        [] OTHER                                -> Bank(a) + (operand % BankSize)

(***************************************************************************)
(* dkc2_decode_state_apply: what an instruction does to the four bits.     *)
(***************************************************************************)
ResetState == [e |-> 1, m |-> 1, x |-> 1, c |-> Unknown]

\* The native interrupt vectors imply E = 0, nothing else.
InterruptState == [e |-> 0, m |-> Unknown, x |-> Unknown, c |-> Unknown]

UnderEmulation(s) ==
  LET Width(w) == CASE s.e = 1               -> 1
                    [] s.e = Unknown /\ w # 1 -> Unknown
                    [] OTHER                 -> w
  IN  [s EXCEPT !.m = Width(@), !.x = Width(@)]

ShiftsOfMemory == {op \in Byte : op < 128 /\ op % 32 \in {6, 10, 14, 22, 30}}
ArithmeticColumns == {1, 3, 5, 7, 9, 13, 15, 17, 18, 19, 21, 23, 25, 29, 31}
ArithmeticRows == {3, 6, 7}           \* ADC, CMP and SBC
IndexCompares == {192, 196, 204, 224, 228, 236}

\* Mutant: CPX and CPY are forgotten.
ChangesCarryOfA(op) == \/ op \in ShiftsOfMemory
                       \/ op % 32 \in ArithmeticColumns /\ op \div 32 \in ArithmeticRows

ChangesCarry(op) == \/ op \in ShiftsOfMemory \cup IndexCompares
                    \/ op % 32 \in ArithmeticColumns /\ op \div 32 \in ArithmeticRows

\* REP and SEP name the bits to clear or to set in their operand.
Names(operand, mask) == (operand \div mask) % 2 = 1

RepState(s, operand) ==
  [s EXCEPT !.c = IF Names(operand, 1)  THEN 0   ELSE @,
            !.m = IF Names(operand, 32) THEN s.e ELSE @,
            !.x = IF Names(operand, 16) THEN s.e ELSE @]

SepState(s, operand) ==
  [s EXCEPT !.c = IF Names(operand, 1)  THEN 1 ELSE @,
            !.m = IF Names(operand, 32) THEN 1 ELSE @,
            !.x = IF Names(operand, 16) THEN 1 ELSE @]

Apply(s, op, operand) ==
  CASE op = 24  -> [s EXCEPT !.c = 0]
    [] op = 56  -> [s EXCEPT !.c = 1]
    [] op = 40  -> UnderEmulation([s EXCEPT !.c = Unknown, !.m = Unknown, !.x = Unknown])
    [] op = 194 -> RepState(s, operand)
    [] op = 226 -> SepState(s, operand)
    [] op = 251 -> UnderEmulation([s EXCEPT !.e = s.c, !.c = s.e])
    [] OTHER    -> IF ChangesCarry(op) THEN [s EXCEPT !.c = Unknown] ELSE s
=============================================================================
