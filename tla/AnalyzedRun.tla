----------------------------- MODULE AnalyzedRun -----------------------------
(***************************************************************************)
(* The analysed program run by the processor (src/src/execute.c), once the *)
(* analyser has finished: the flags E, M, X and C, the program counter and *)
(* the known top of the stack, with whatever the code computes left open.  *)
(* The run goes as far as the analyser claims to follow it: up to an       *)
(* instruction it reported as blocked, or a return or jump it does not     *)
(* resolve.  A call it assumes to return to the next instruction with the  *)
(* flags unchanged, so a run where a callee changes them stops there too.  *)
(* It stops as well where a return takes an address of which a byte was    *)
(* not seen pushed, or has been stored over since.                         *)
(***************************************************************************)
EXTENDS Analyzer, SequencesExt

CONSTANTS MaxStack,     \* bound: bytes the run keeps on its stack
          MaxFrames     \* bound: nested calls

VARIABLES cpu,          \* [pc, e, m, x, c] of the processor, or NoCpu before the run
          stack,        \* the bytes known to lie on the stack, the top one last
          page1,        \* S is in page 1, where emulation keeps it
          frames        \* the calls not yet returned from: return address, flags, stack

cpuVars == <<cpu, stack, page1, frames>>
vars == <<analyzerVars, cpuVars>>

NoCpu == [pc |-> -1]
Started == cpu # NoCpu

flags == [e |-> cpu.e, m |-> cpu.m, x |-> cpu.x, c |-> cpu.c]
WithFlags(pc, f) == [pc |-> pc, e |-> f.e, m |-> f.m, x |-> f.x, c |-> f.c]

(***************************************************************************)
(* What a visited point says of the processor.                             *)
(***************************************************************************)
Agrees(s, f) == \A b \in {"e", "m", "x", "c"} : s[b] \in {f[b], Unknown}

WordBytes(w) == <<<<"high", w>>, <<"low", w>>>>

\* A byte that an instruction has stored over.
Stored == <<"stored">>

\* The return words lie where they were pushed, on top of these bytes and the last
\* uppermost, but for what has been stored over them: the analyser knows nothing of
\* where a store goes, and keeps the words.
OnTop(words, bytes) ==
  /\ 2 * Len(words) <= Len(bytes)
  /\ \A i \in DOMAIN words :
       LET low == Len(bytes) - 2 * (Len(words) - i)
       IN  /\ bytes[low - 1] \in {<<"high", words[i]>>, Stored}
           /\ bytes[low] \in {<<"low", words[i]>>, Stored}

Covers(p) == /\ p.address = cpu.pc
             /\ Agrees(p.state, flags)
             /\ p.known => OnTop(p.words, stack)

Resolved(p) == /\ Decodes(mem, p.address, p.state)
               /\ Flow(mem[p.address]) = "return" => KnowsReturn(p)

\* Inside a callee that was only recorded the analyser claims nothing.
Claimed == follow \/ frames = <<>>
FollowedHere == \E i \in DOMAIN visited : Covers(visited[i]) /\ Resolved(visited[i])

-----------------------------------------------------------------------------
(***************************************************************************)
(* Fetching.                                                               *)
(***************************************************************************)
op == mem[cpu.pc]
accumulator8 == cpu.e = 1 \/ cpu.m = 1
index8 == cpu.e = 1 \/ cpu.x = 1

Fetched == CASE op \in ImmediateM -> IF accumulator8 THEN 2 ELSE 3
             [] op \in ImmediateX -> IF index8 THEN 2 ELSE 3
             [] OTHER             -> FixedLength(op)

Fetch(i) == mem[InBank(cpu.pc, i)]
operand8 == Fetch(1)
operand16 == Fetch(1) + 256 * Fetch(2)
next == InBank(cpu.pc, Fetched)

\* An instruction of these opcodes, all of it in the image.
Executes(ops) == /\ Started
                 /\ cpu.pc \in DOMAIN mem
                 /\ op \in ops
                 /\ Readable(mem, cpu.pc, Fetched)
                 /\ Len(stack) <= MaxStack
                 /\ UNCHANGED analyzerVars

Continues(ops) == Executes(ops) /\ (Claimed => FollowedHere)

(***************************************************************************)
(* Flags and stack.                                                        *)
(***************************************************************************)
AllFlags == [e : Known, m : Known, x : Known, c : Known]

\* normalize_emulation_state and replace_status: emulation forces both widths.
Normalized(f) == IF f.e = 1 THEN [f EXCEPT !.m = 1, !.x = 1] ELSE f

\* ASL, ROL, LSR and ROR; ADC, CMP and SBC; CPY and CPX (operation_for).
WritesCarry == \/ op \div 32 < 4 /\ op % 32 \in {6, 10, 14, 22, 30}
               \/ op \div 32 \in {3, 6, 7} /\ op % 32 \in ArithmeticColumns
               \/ op \in {192, 196, 204} \cup {224, 228, 236}

Cleared(bit, mask) == IF Names(operand8, mask) THEN 0 ELSE bit
Raised(bit, mask) == IF Names(operand8, mask) THEN 1 ELSE bit

Pull(n) == SubSeq(stack, 1, IF n < Len(stack) THEN Len(stack) - n ELSE 0)
Data(n) == [i \in 1..n |-> <<"data">>]

\* PBR, as PHK and JSL push it.
BankByte == <<"bank", Bank(cpu.pc)>>

Pushes ==
  CASE op = 8             -> <<<<"status", flags>>>>
    [] op = 72            -> Data(IF accumulator8 THEN 1 ELSE 2)
    [] op \in {90, 218}   -> Data(IF index8 THEN 1 ELSE 2)
    [] op = 75            -> <<BankByte>>
    [] op = 139           -> Data(1)
    [] op \in {11, 212}   -> Data(2)
    [] op = 244           -> WordBytes(operand16)
    [] op = 98            -> WordBytes((next + operand16) % BankSize)
    [] OTHER              -> <<>>

Pulls == CASE op = 104           -> IF accumulator8 THEN 1 ELSE 2
           [] op \in {122, 250}  -> IF index8 THEN 1 ELSE 2
           [] op \in {40, 171}   -> 1
           [] op = 43            -> 2
           [] OTHER              -> 0

\* Stores: STA and STZ; STX and STY; TSB, TRB, and INC, DEC and the shifts of memory;
\* MVP and MVN, which store any number of bytes.
BlockMoves == {68, 84}
StoresM == {4, 12, 20, 28, 100, 116, 156, 158}
             \cup {o \in Byte : o \div 32 = 4 /\ o % 32 \in ArithmeticColumns \ {9}}
             \cup {o \in Byte : o \div 32 \in {0, 1, 2, 3, 6, 7} /\ o % 32 \in {6, 14, 22, 30}}
StoresX == {132, 134, 140, 142, 148, 150}

StoreSizes == CASE op \in BlockMoves -> 0..Len(stack)
                [] op \in StoresM    -> {IF accumulator8 THEN 1 ELSE 2}
                [] op \in StoresX    -> {IF index8 THEN 1 ELSE 2}
                [] OTHER             -> {0}

\* The bytes of the stack that a store may fall on, wherever it goes.
Hits == {(first..(first + n - 1)) \cap DOMAIN stack :
           first \in 0..(Len(stack) + 1), n \in StoreSizes}

StoredOver(bytes, hit) == [i \in DOMAIN bytes |-> IF i \in hit THEN Stored ELSE bytes[i]]

\* The status byte PLP takes: the one PHP pushed, or any.
PulledStatus ==
  IF stack # <<>> /\ Last(stack)[1] = "status"
  THEN {Normalized([Last(stack)[2] EXCEPT !.e = cpu.e])}
  ELSE {Normalized(f) : f \in {g \in AllFlags : g.e = cpu.e}}

FlagsAfter ==
  CASE op = 24  -> {[flags EXCEPT !.c = 0]}
    [] op = 56  -> {[flags EXCEPT !.c = 1]}
    [] op = 40  -> PulledStatus
    [] op = 194 -> {Normalized([flags EXCEPT !.c = Cleared(@, 1), !.m = Cleared(@, 32),
                                             !.x = Cleared(@, 16)])}
    [] op = 226 -> {Normalized([flags EXCEPT !.c = Raised(@, 1), !.m = Raised(@, 32),
                                             !.x = Raised(@, 16)])}
    [] OTHER    -> IF WritesCarry THEN {[flags EXCEPT !.c = b] : b \in Known} ELSE {flags}

-----------------------------------------------------------------------------
CpuInit == cpu = NoCpu /\ stack = <<>> /\ page1 = TRUE /\ frames = <<>>

\* Reset, or a native interrupt out of any code.
Start ==
  /\ Complete
  /\ ~Started
  /\ IF kind = "reset"
     THEN /\ cpu' = WithFlags(program.entry, [e |-> 1, m |-> 1, x |-> 1, c |-> 0])
          /\ page1' = TRUE
     ELSE /\ \E f \in AllFlags : f.e = 0 /\ cpu' = WithFlags(program.entry, f)
          /\ page1' \in BOOLEAN
  /\ UNCHANGED <<analyzerVars, stack, frames>>

PlainOpcodes == {o \in Byte : Flow(o) = "next"} \ {27, 154, 251}   \* all but TCS, TXS, XCE
Branches == {o \in Byte : Flow(o) \in {"conditional", "branch"}}

\* Every instruction that only goes on to the next one.
Plain ==
  /\ Continues(PlainOpcodes)
  /\ \E f \in FlagsAfter : cpu' = WithFlags(next, f)
  /\ \E hit \in Hits :
       stack' = IF Pulls > 0 THEN Pull(Pulls) ELSE StoredOver(stack, hit) \o Pushes
  /\ UNCHANGED <<page1, frames>>

\* In emulation the new S is in page 1; otherwise it is anywhere.
MoveStack ==
  /\ Continues({27, 154})
  /\ cpu' = WithFlags(next, flags)
  /\ stack' = <<>>
  /\ page1' \in {TRUE, cpu.e = 1}
  /\ UNCHANGED frames

\* Entering emulation moves S to page 1, away from what was pushed elsewhere.  The
\* analyser keeps the return words it knows there; the run stops before that case.
ExchangeCarry ==
  /\ Continues({251})
  /\ cpu' = WithFlags(next, Normalized([flags EXCEPT !.e = cpu.c, !.c = cpu.e]))
  /\ page1' = (page1 \/ cpu.c = 1)
  /\ cpu.c = 1 => page1 \/ stack = <<>>
  /\ UNCHANGED <<stack, frames>>

Branch ==
  /\ Continues(Branches)
  /\ LET to == InBank(next, IF op = 130 THEN Signed(operand16, BankSize)
                                        ELSE Signed(operand8, 256))
     IN  cpu' \in {WithFlags(to, flags)} \cup
                  (IF Flow(op) = "conditional" THEN {WithFlags(next, flags)} ELSE {})
  /\ UNCHANGED <<stack, page1, frames>>

Jump ==
  /\ Continues({76, 92})
  /\ cpu' = WithFlags(IF op = 92 THEN operand16 + BankSize * Fetch(3)
                                 ELSE Bank(cpu.pc) + operand16, flags)
  /\ UNCHANGED <<stack, page1, frames>>

\* JSR and JSL push the address of their last byte, JSL the bank before it.
CallDirect ==
  /\ Continues({32, 34})
  /\ Len(frames) < MaxFrames
  /\ frames' = <<[next |-> next, flags |-> flags, stack |-> stack]>> \o frames
  /\ stack' = stack \o (IF op = 34 THEN <<BankByte>> ELSE <<>>)
                    \o WordBytes((next + BankSize - 1) % BankSize)
  /\ cpu' = WithFlags(IF op = 34 THEN operand16 + BankSize * Fetch(3)
                                 ELSE Bank(cpu.pc) + operand16, flags)
  /\ UNCHANGED page1

\* A callee elsewhere, which returns as the analyser assumes.
CallIndirect ==
  /\ Continues({252})
  /\ cpu' = WithFlags(next, flags)
  /\ UNCHANGED <<stack, page1, frames>>

\* RTS and RTL take the address below their word from the stack, when both bytes of
\* it are there; RTS stays in the bank, RTL takes the one below the word.
ReturnWords == LET n == Len(stack)
               IN  {stack[i][2] : i \in {j \in {n} : /\ n >= 2
                                                     /\ stack[n][1] = "low"
                                                     /\ stack[n - 1] = <<"high", stack[n][2]>>}}

ReturnBanks == LET n == Len(stack)
               IN  IF op = 96 THEN {Bank(cpu.pc)}
                   ELSE {stack[i][2] : i \in {j \in {n - 2} : n >= 3 /\ stack[j][1] = "bank"}}

\* The caller's stack again, though the callee may have stored into it.
StoredInto(before, after) ==
  Len(after) = Len(before) /\ \A i \in DOMAIN after : after[i] \in {before[i], Stored}

Return ==
  /\ Executes({96, 107})
  /\ stack # <<>>
  /\ \E w \in ReturnWords, b \in ReturnBanks :
       LET to == b + ((w + 1) % BankSize)
           rest == Pull(IF op = 107 THEN 3 ELSE 2)
           resumes == /\ frames # <<>>
                      /\ to = frames[1].next
                      /\ StoredInto(frames[1].stack, rest)
                      /\ flags = frames[1].flags
       IN  /\ resumes \/ (Claimed /\ FollowedHere)
           /\ frames' = IF resumes THEN Tail(frames) ELSE frames
           /\ stack' = rest
           /\ cpu' = WithFlags(to, flags)
  /\ UNCHANGED page1

CpuNext == \/ Start \/ Plain \/ MoveStack \/ ExchangeCarry \/ Branch \/ Jump
           \/ CallDirect \/ CallIndirect \/ Return

Init == AnalyzerInit /\ CpuInit
Next == (AnalyzerNext /\ UNCHANGED cpuVars) \/ CpuNext
Spec == Init /\ [][Next]_vars
=============================================================================
