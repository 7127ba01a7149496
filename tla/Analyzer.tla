------------------------------ MODULE Analyzer ------------------------------
(***************************************************************************)
(* The static control-flow analyser, analyze_entry in                      *)
(* src/app/analyze_main.c: from one vector of the cartridge it walks every *)
(* path of code it can follow, with what it knows of E, M, X and C and of  *)
(* the return words on the stack, and records each point and each edge     *)
(* once.  A path ends where the next address or an instruction's length    *)
(* is not known.                                                           *)
(***************************************************************************)
EXTENDS Decode

CONSTANTS Programs,     \* the images: [mem : addresses -> bytes, entry : address]
          Limit,        \* the instruction limit of the command line
          WordCapacity, \* return_words[8]: return words one point can hold
          Garbage       \* what return_depth of the start point may hold: it is not set

\* An image of ROM: bytes at addresses, and a vector into bank 0.
IsImage(p) == /\ p.entry \in Word
              /\ DOMAIN p.mem \subseteq Address
              /\ \A a \in DOMAIN p.mem : p.mem[a] \in Byte

ASSUME AnalyzerAssumption == /\ \A p \in Programs : IsImage(p)
                             /\ Limit \in Nat \ {0}
                             /\ WordCapacity \in Nat \ {0}
                             /\ Garbage \subseteq Nat

VARIABLES program,      \* the image under analysis
          kind,         \* the vector: "reset" or "interrupt"
          follow,       \* --follow-calls
          queue, head,  \* the points still to be walked are those after head
          visited,      \* the points decoded, in order
          point,        \* the point being walked, or NoPoint between paths
          edges,        \* the edges of the graph
          calls         \* the direct call sites

analyzerVars == <<program, kind, follow, queue, head, visited, point, edges, calls>>
inputVars == <<program, kind, follow>>

NoPoint == [address |-> -1]

\* An analysis_point.  words are the return words below depth, which only mean
\* something while the stack is known.
Point(a, s, words, depth, known) ==
  [address |-> a, state |-> s, words |-> words, depth |-> depth, known |-> known]

QueueCapacity == 4 * Limit + 16
\* Mutant: one edge for each instruction, and a little.
EdgePerInstruction == Limit + 2

EdgeCapacity == 2 * Limit + 16

mem == program.mem
Opcode == mem[point.address]
Following(p) == NextAddress(mem, p.address, p.state)
Target(p) == TargetAddress(mem, p.address, p.state)
OperandOf(p) == Operand(mem, p.address, LengthIn(mem[p.address], p.state))

AlreadyVisited(p) == \E i \in DOMAIN visited : visited[i] = p

(***************************************************************************)
(* What one instruction does to the point: track_stack_effect and the new  *)
(* bits.  Anything else that moves the stack makes it unknown.             *)
(***************************************************************************)
SetsStack == {27, 154}                                 \* TCS, TXS
MovesStack == {8, 11, 40, 43, 72, 75, 90, 104, 122, 139, 171, 212, 218, 250}

Forget(p) == [p EXCEPT !.known = FALSE, !.words = <<>>]

\* Mutant: a word too many is written behind the array.
PushWordBeyond(p, w) == IF p.known
                        THEN [p EXCEPT !.words = Append(@, w), !.depth = @ + 1]
                        ELSE Forget(p)

PushWord(p, w) == IF p.known /\ p.depth < WordCapacity
                  THEN [p EXCEPT !.words = Append(@, w), !.depth = @ + 1]
                  ELSE Forget(p)

TrackStackEffect(p) ==
  LET op == mem[p.address]
      operand == OperandOf(p) % BankSize
  IN  CASE op \in SetsStack  -> [p EXCEPT !.known = TRUE, !.words = <<>>, !.depth = 0]
        [] op = 244          -> PushWord(p, operand)
        [] op = 98           -> PushWord(p, (Following(p) + operand) % BankSize)
        [] op \in MovesStack -> Forget(p)
        [] OTHER             -> p

StateAfter(p) == Apply(p.state, mem[p.address], OperandOf(p) % 256)

After(p) == [TrackStackEffect(p) EXCEPT !.state = StateAfter(p)]

At(p, a) == [p EXCEPT !.address = a]

\* Mutant: the source is copied after the instruction was applied to it.
EdgeFromAfter(to, label) ==
  [from |-> [address |-> point.address, state |-> StateAfter(point)],
   to   |-> [address |-> to.address, state |-> to.state],
   kind |-> label]

Edge(to, label) == [from |-> [address |-> point.address, state |-> point.state],
                    to   |-> [address |-> to.address, state |-> to.state],
                    kind |-> label]

\* record_edge and the queue drop what does not fit.
Recorded(new) == SubSeq(edges \o new, 1, IF Len(edges) + Len(new) <= EdgeCapacity
                                         THEN Len(edges) + Len(new) ELSE EdgeCapacity)

Queued(p) == IF Len(queue) < QueueCapacity THEN Append(queue, p) ELSE queue

CallsWith(site) ==
  IF (\E i \in DOMAIN calls : calls[i] = site) \/ Len(calls) >= Limit
  THEN calls ELSE Append(calls, site)

-----------------------------------------------------------------------------

AnalyzerInit ==
  /\ program \in Programs
  /\ kind \in {"reset", "interrupt"}
  /\ follow \in BOOLEAN
  /\ \E d \in Garbage :
       queue = <<Point(program.entry,
                       IF kind = "reset" THEN ResetState ELSE InterruptState,
                       <<>>, d, FALSE)>>
  /\ head = 0
  /\ visited = <<>>
  /\ point = NoPoint
  /\ edges = <<>>
  /\ calls = <<>>

WithinLimit == Len(visited) < Limit

\* The outer loop: the next path.
TakePath ==
  /\ point = NoPoint
  /\ head < Len(queue)
  /\ WithinLimit
  /\ point' = queue[head + 1]
  /\ head' = head + 1
  /\ UNCHANGED <<inputVars, queue, visited, edges, calls>>

\* The inner loop ends at the limit, or where the walk has been before.
LeavePath ==
  /\ point # NoPoint
  /\ ~WithinLimit \/ AlreadyVisited(point)
  /\ point' = NoPoint
  /\ UNCHANGED <<inputVars, queue, head, visited, edges, calls>>

Visit ==
  /\ point # NoPoint
  /\ WithinLimit
  /\ ~AlreadyVisited(point)
  /\ visited' = Append(visited, point)
  /\ UNCHANGED <<inputVars, head>>

VisitDecoded(flows) ==
  /\ Visit
  /\ Decodes(mem, point.address, point.state)
  /\ Flow(Opcode) \in flows

\* An unreadable byte, or an immediate operand of unknown width.
Blocked ==
  /\ Visit
  /\ ~Decodes(mem, point.address, point.state)
  /\ point' = NoPoint
  /\ UNCHANGED <<queue, edges, calls>>

\* The taken path waits in the queue and the walk goes on with the other.
Conditional ==
  /\ VisitDecoded({"conditional"})
  /\ LET taken == At(After(point), Target(point))
         other == At(After(point), Following(point))
     IN  /\ edges' = Recorded(<<Edge(taken, "taken"), Edge(other, "next")>>)
         /\ queue' = Queued(taken)
         /\ point' = other
  /\ UNCHANGED calls

Direct ==
  /\ VisitDecoded({"branch", "jump"})
  /\ LET to == At(After(point), Target(point))
     IN  /\ edges' = Recorded(<<Edge(to, IF Flow(Opcode) = "jump" THEN "jump" ELSE "taken")>>)
         /\ point' = to
  /\ UNCHANGED <<queue, calls>>

\* The walk goes on behind the call, as if it changed no bit and no return word.
Call ==
  /\ VisitDecoded({"call"})
  /\ LET behind == At(After(point), Following(point))
         callee == At(After(point), Target(point))
     IN  /\ calls' = CallsWith(<<point.address, Target(point)>>)
         /\ edges' = Recorded(<<Edge(callee, "call"), Edge(behind, "next")>>)
         /\ queue' = IF follow THEN Queued([Forget(callee) EXCEPT !.depth = 0])
                               ELSE queue
         /\ point' = behind

Sequential ==
  /\ VisitDecoded({"next", "indirect_call"})
  /\ LET to == At(After(point), Following(point))
     IN  /\ edges' = Recorded(<<Edge(to, "next")>>)
         /\ point' = to
  /\ UNCHANGED <<queue, calls>>

\* The return word an RTS takes, when the walk saw it pushed.
KnowsReturn(p) == mem[p.address] = 96 /\ p.known /\ p.depth > 0

StackReturn ==
  /\ VisitDecoded({"return"})
  /\ KnowsReturn(point)
  /\ LET word == point.words[point.depth]
         to == [At(After(point), Bank(point.address) + ((word + 1) % BankSize))
                  EXCEPT !.words = SubSeq(@, 1, point.depth - 1), !.depth = @ - 1]
     IN  /\ edges' = Recorded(<<Edge(to, "stack return")>>)
         /\ point' = to
  /\ UNCHANGED <<queue, calls>>

EndPath ==
  /\ VisitDecoded({"return", "indirect_jump", "trap", "stop"})
  /\ ~KnowsReturn(point)
  /\ point' = NoPoint
  /\ UNCHANGED <<queue, edges, calls>>

AnalyzerNext == \/ TakePath \/ LeavePath \/ Blocked \/ Conditional \/ Direct
                \/ Call \/ Sequential \/ StackReturn \/ EndPath

AnalyzerSpec == AnalyzerInit /\ [][AnalyzerNext]_analyzerVars

\* The walk has ended; Complete when the limit did not cut it short.
Finished == point = NoPoint /\ (head = Len(queue) \/ ~WithinLimit)
Complete == Finished /\ WithinLimit

-----------------------------------------------------------------------------
(***************************************************************************)
(* Properties                                                              *)
(***************************************************************************)

\* The type of the analyser's state.  The return words of a point are those
\* below its depth while the stack is known (track_stack_effect).
PointType == [address : Address, state : DecodeState, words : Seq(Word),
              depth : Nat, known : BOOLEAN]

WordsWithinDepth(p) == p.known => Len(p.words) = p.depth /\ p.depth <= WordCapacity

AnalyzerTypeOK ==
  /\ kind \in {"reset", "interrupt"}
  /\ follow \in BOOLEAN
  /\ queue \in Seq(PointType)
  /\ head \in 0..Len(queue)
  /\ visited \in Seq(PointType)
  /\ point \in PointType \cup {NoPoint}
  /\ point # NoPoint => WordsWithinDepth(point)
  /\ \A i \in DOMAIN queue : WordsWithinDepth(queue[i])

\* No path, edge or call of the walk is lost for want of room: the results of
\* record_edge and record_call and the test of the queue's room are ignored,
\* which is only right while the arrays, sized from the limit, cannot fill
\* (analyze_main.c 407-408, 508, 522, 542).
NothingDropped ==
  /\ Len(queue) < QueueCapacity
  /\ Len(edges) + 2 <= EdgeCapacity
  /\ WithinLimit => Len(calls) < Limit
=============================================================================
