----------------------------- MODULE MCAnalyzer -----------------------------
(***************************************************************************)
(* The analyser and the processor on every program of three instructions   *)
(* taken from a list, behind one of a few beginnings and before a common   *)
(* end that holds a callee.                                                *)
(***************************************************************************)
EXTENDS AnalyzedRun

\* Operands that are instructions when the widths are taken wrongly.
LdaImmediate == <<169, 24, 251>>      \* LDA #: a CLC and an XCE, if only one is fetched
CpxImmediate == <<224, 16, 251>>      \* CPX #
Callee == 24                          \* the address of the subroutine behind the program
FarCallee == BankSize                 \* and of one in the next bank

Pieces == {
  <<24>>, <<56>>, <<251>>,            \* CLC, SEC, XCE
  <<194, 48>>, <<226, 32>>,           \* REP #$30, SEP #$20
  <<8>>, <<40>>,                      \* PHP, PLP
  LdaImmediate, CpxImmediate,
  <<208, 1>>,                         \* BNE over one byte
  <<128, 252>>,                       \* BRA back to two bytes before it
  <<32, Callee, 0>>, <<34, 0, 0, 1>>, \* JSR, JSL
  <<244, Callee - 1, 0>>, <<98, 3, 0>>, \* PEA, PER
  <<131, 1>>,                         \* STA 1,S
  <<154>>, <<72>>, <<96>>}            \* TXS, PHA, RTS

\* Nothing, or native mode with long registers and a stack of its own.
Beginnings == {<<>>, <<24, 251, 194, 48, 154>>}

\* JSR (abs,X), then a jump to the STP behind the callee.
End == <<252, 0, 0, 76, Callee + 6, 0>>

\* The callee sets the carry on one of its two ways; the far one stores and returns.
CalleeCode == <<72, 104, 208, 1, 56, 96, 219>>
FarCode == <<131, 1, 107>>

Image(code) ==
  [mem   |-> [a \in 0..(Len(code) - 1) \cup Callee..(Callee + 6)
                                       \cup FarCallee..(FarCallee + 2) |->
                CASE a >= FarCallee -> FarCode[a - FarCallee + 1]
                  [] a < Callee     -> code[a + 1]
                  [] OTHER          -> CalleeCode[a - Callee + 1]],
   entry |-> 0]

SmallPrograms ==
  {Image(b \o p[1] \o p[2] \o p[3] \o End) : b \in Beginnings, p \in [1..3 -> Pieces]}

-----------------------------------------------------------------------------
(***************************************************************************)
(* Properties                                                              *)
(***************************************************************************)

\* Wherever the program gets before the run stops, the analyser has been: some point
\* it decoded has the processor's address, says nothing false of E, M, X and C, and
\* holds only return words that lie on the stack where they were pushed, unless a
\* store has hit them.  It fails if an instruction's effect on a flag or on the stack
\* pointer is forgotten, or a path is dropped, the one behind a call included.
RunIsCovered ==
  Started /\ Claimed => \E i \in DOMAIN visited : Covers(visited[i])

\* Every step of the run but a return from a call is an edge of the graph, between
\* endpoints that say nothing false of the flags before and after it.
StepsAreEdges ==
  [][Started /\ Claimed /\ Len(frames') >= Len(frames) =>
       \E i \in DOMAIN edges :
          /\ edges[i].from.address = cpu.pc /\ Agrees(edges[i].from.state, flags)
          /\ edges[i].to.address = cpu'.pc /\ Agrees(edges[i].to.state, flags')]_cpuVars
=============================================================================
