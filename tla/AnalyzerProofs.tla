--------------------------- MODULE AnalyzerProofs ---------------------------
(***************************************************************************)
(* Proofs about the analyser for every image, limit and size of the return *)
(* word array: the type invariant; from it that the arrays never fill, so  *)
(* that no path, edge or call of the walk is dropped; from both that the   *)
(* walk is closed and the graph has an edge for each of its steps; and     *)
(* with that, that the analysis is sound: until the run stops, whatever it *)
(* does is among the points visited and the edges drawn.                   *)
(***************************************************************************)
EXTENDS MCAnalyzer, TLAPS

-----------------------------------------------------------------------------
(* The decoder. *)

LEMMA BankSizeType == BankSize \in Nat \ {0}
  BY DEF BankSize

(* The product of two factors grows with either of them. *)
LEMMA ProductGrows ==
  ASSUME NEW b \in Nat, NEW q \in Int, NEW k \in Int, q >= k
  PROVE  b * q >= b * k
  <1>1. q - k \in Nat
    OBVIOUS
  <1>2. b * (q - k) \in Nat
    BY <1>1
  <1>3. b * (q - k) = b * q - b * k
    OBVIOUS
  <1> QED
    BY <1>2, <1>3

(* Wrapping within a bank of size b stays below the k banks there are. *)
LEMMA WrappingStaysBelow ==
  ASSUME NEW b \in Nat \ {0}, NEW k \in Nat \ {0}, NEW a \in Nat, a < k * b,
         NEW n \in Int
  PROVE  a - (a % b) + (n % b) \in 0..(k * b - 1)
  <1> DEFINE q == a \div b
  <1>1. a = b * q + (a % b)
    OBVIOUS
  <1>2. a % b \in 0..(b - 1) /\ n % b \in 0..(b - 1)
    OBVIOUS
  <1>3. q \in Nat /\ q < k
    OBVIOUS
  <1> HIDE DEF q
  <1>4. b * (k - 1) >= b * q /\ b * q >= b * 0
    BY <1>3, ProductGrows
  <1>5. b * (k - 1) = k * b - b
    OBVIOUS
  <1>6. b * q \in Int
    BY <1>3
  <1> QED
    BY <1>1, <1>2, <1>4, <1>5, <1>6

LEMMA InBankOfWord ==
  ASSUME NEW a \in Address, NEW n \in Int
  PROVE  Bank(a) + (n % BankSize) \in Address
  <1>1. a \in Nat /\ a < 256 * BankSize
    BY BankSizeType DEF Address
  <1> QED
    BY <1>1, BankSizeType, WrappingStaysBelow DEF Bank, Address

LEMMA InBankType ==
  ASSUME NEW a \in Address, NEW n \in Int
  PROVE  InBank(a, n) \in Address
  <1>1. a + n \in Int
    BY BankSizeType DEF Address
  <1> QED
    BY <1>1, InBankOfWord DEF InBank

LEMMA LengthBounds ==
  ASSUME NEW code \in Byte, NEW s \in DecodeState, ~Ambiguous(code, s)
  PROVE  LengthIn(code, s) \in 1..4
  <1>1. FixedLength(code) \in 1..4
    BY DEF FixedLength
  <1>2. CASE code \in ImmediateM
    BY <1>2 DEF Ambiguous, LengthIn, DecodeState, Bit, Known, Unknown
  <1>3. CASE code \notin ImmediateM /\ code \in ImmediateX
    BY <1>3 DEF Ambiguous, LengthIn, DecodeState, Bit, Known, Unknown
  <1> QED
    BY <1>1, <1>2, <1>3 DEF LengthIn

LEMMA TwoBytes ==
  ASSUME NEW p \in Byte, NEW q \in Byte
  PROVE  p + 256 * q \in Int /\ 0 <= p + 256 * q /\ p + 256 * q <= 65535
  BY DEF Byte

LEMMA OperandBounds ==
  ASSUME NEW m, DOMAIN m \subseteq Address, \A a \in DOMAIN m : m[a] \in Byte,
         NEW a \in Address, NEW length \in 1..4, Readable(m, a, length)
  PROVE  Operand(m, a, length) \in Address
  <1> DEFINE Part(i) == IF i < length THEN m[InBank(a, i)] ELSE 0
  <1>1. \A i \in 1..3 : Part(i) \in Byte
    BY DEF Readable, Byte
  <1>2. Part(1) \in Byte /\ Part(2) \in Byte /\ Part(3) \in Byte
    BY <1>1
  <1>3. Operand(m, a, length) = Part(1) + 256 * Part(2) + BankSize * Part(3)
    BY DEF Operand
  <1> HIDE DEF Part
  <1> DEFINE low == Part(1) + 256 * Part(2)
             high == BankSize * Part(3)
  <1>4. low \in Int /\ 0 <= low /\ low <= 65535
    BY <1>2, TwoBytes
  <1>5. high \in Int /\ high >= BankSize * 0 /\ BankSize * 255 >= high
    BY <1>2, BankSizeType, ProductGrows DEF Byte
  <1>6. Operand(m, a, length) = low + high
    BY <1>3
  <1> HIDE DEF low, high
  <1>7. 65535 + BankSize * 255 = 256 * BankSize - 1 /\ BankSize * 0 = 0
    BY DEF BankSize
  <1> QED
    BY <1>4, <1>5, <1>6, <1>7, BankSizeType DEF Address

LEMMA BitsType ==
  ASSUME NEW s \in DecodeState, NEW e \in Bit, NEW m \in Bit, NEW x \in Bit, NEW c \in Bit
  PROVE  /\ [s EXCEPT !.c = c] \in DecodeState
         /\ [s EXCEPT !.m = m, !.x = x] \in DecodeState
         /\ [s EXCEPT !.e = e, !.c = c] \in DecodeState
         /\ [s EXCEPT !.c = c, !.m = m, !.x = x] \in DecodeState
  BY DEF DecodeState

LEMMA ApplyType ==
  ASSUME NEW s \in DecodeState, NEW code, NEW operand
  PROVE  Apply(s, code, operand) \in DecodeState
  <1>1. 0 \in Bit /\ 1 \in Bit /\ Unknown \in Bit
    BY DEF Bit, Known, Unknown
  <1>2. \A t \in DecodeState : t.e \in Bit /\ t.m \in Bit /\ t.x \in Bit /\ t.c \in Bit
    BY DEF DecodeState
  <1>3. ASSUME NEW t \in DecodeState PROVE UnderEmulation(t) \in DecodeState
    <2> DEFINE Width(w) == CASE t.e = 1                -> 1
                             [] t.e = Unknown /\ w # 1 -> Unknown
                             [] OTHER                  -> w
    <2>1. \A w \in Bit : Width(w) \in Bit
      BY <1>1
    <2>2. UnderEmulation(t) = [t EXCEPT !.m = Width(t.m), !.x = Width(t.x)]
      BY DEF UnderEmulation
    <2>3. Width(t.m) \in Bit /\ Width(t.x) \in Bit
      BY <1>2, <2>1
    <2> HIDE DEF Width
    <2>4. \A a, b \in Bit : [t EXCEPT !.m = a, !.x = b] \in DecodeState
      BY DEF DecodeState
    <2> QED
      BY <2>2, <2>3, <2>4
  <1>4. RepState(s, operand) \in DecodeState
    BY <1>1, <1>2, BitsType DEF RepState
  <1>5. SepState(s, operand) \in DecodeState
    BY <1>1, <1>2, BitsType DEF SepState
  <1>6. \A b \in Bit : [s EXCEPT !.c = b] \in DecodeState
    BY <1>1, BitsType
  <1>7. UnderEmulation([s EXCEPT !.e = s.c, !.c = s.e]) \in DecodeState
    BY <1>2, <1>3, BitsType
  <1>8. UnderEmulation([s EXCEPT !.c = Unknown, !.m = Unknown, !.x = Unknown]) \in DecodeState
    BY <1>1, <1>3, BitsType
  <1> QED
    BY <1>1, <1>4, <1>5, <1>6, <1>7, <1>8 DEF Apply
-----------------------------------------------------------------------------
(* What one instruction does to a point. *)

(* A point whose words are typed and end at its depth. *)
GoodPoint(p) == p \in PointType /\ WordsWithinDepth(p)

(* The image is one of the programs. *)
TypeInv == AnalyzerTypeOK /\ program \in Programs

LEMMA MoveType ==
  ASSUME NEW p, GoodPoint(p), NEW a \in Address
  PROVE  GoodPoint(At(p, a))
  BY DEF GoodPoint, At, PointType, WordsWithinDepth

LEMMA ForgottenWords ==
  ASSUME NEW p \in PointType, NEW e \in Seq(Word), NEW d \in Nat
  PROVE  /\ [p EXCEPT !.known = FALSE, !.words = e] \in PointType
         /\ ~[p EXCEPT !.known = FALSE, !.words = e].known
         /\ [p EXCEPT !.depth = d] \in PointType
         /\ [p EXCEPT !.depth = d].known = p.known
  BY DEF PointType

LEMMA ForgetType ==
  ASSUME NEW p, GoodPoint(p)
  PROVE  GoodPoint(Forget(p)) /\ GoodPoint([Forget(p) EXCEPT !.depth = 0])
  <1>1. <<>> \in Seq(Word) /\ 0 \in Nat
    OBVIOUS
  <1>2. Forget(p) \in PointType /\ ~Forget(p).known
    BY <1>1, ForgottenWords DEF GoodPoint, Forget
  <1>3. [Forget(p) EXCEPT !.depth = 0] \in PointType /\ ~[Forget(p) EXCEPT !.depth = 0].known
    BY <1>1, <1>2, ForgottenWords
  <1> QED
    BY <1>2, <1>3 DEF GoodPoint, WordsWithinDepth

LEMMA NewStackType ==
  ASSUME NEW p, GoodPoint(p), NEW e \in Seq(Word), Len(e) = 0
  PROVE  GoodPoint([p EXCEPT !.known = TRUE, !.words = e, !.depth = 0])
  <1> DEFINE q == [p EXCEPT !.known = TRUE, !.words = e, !.depth = 0]
  <1>1. q \in PointType
    BY DEF GoodPoint, PointType
  <1>2. q.words = e /\ q.depth = 0
    BY DEF GoodPoint, PointType
  <1> HIDE DEF q
  <1>3. Len(q.words) = q.depth /\ q.depth <= WordCapacity
    BY <1>2, AnalyzerAssumption
  <1>4. GoodPoint(q)
    BY <1>1, <1>3 DEF GoodPoint, WordsWithinDepth
  <1> QED
    BY <1>4 DEF q

LEMMA PushType ==
  ASSUME NEW p, GoodPoint(p), NEW w \in Word
  PROVE  GoodPoint(PushWord(p, w))
  <1>1. CASE p.known /\ p.depth < WordCapacity
    <2>1. p.words \in Seq(Word) /\ p.depth \in Nat /\ Len(p.words) = p.depth
      BY <1>1 DEF GoodPoint, PointType, WordsWithinDepth
    <2>2. /\ Append(p.words, w) \in Seq(Word) /\ Len(Append(p.words, w)) = p.depth + 1
          /\ p.depth + 1 \in Nat /\ p.depth + 1 <= WordCapacity
      BY <1>1, <2>1, AnalyzerAssumption
    <2>3. PushWord(p, w) = [p EXCEPT !.words = Append(p.words, w), !.depth = p.depth + 1]
      BY <1>1 DEF PushWord
    <2> QED
      BY <2>2, <2>3 DEF GoodPoint, PointType, WordsWithinDepth
  <1>2. CASE ~(p.known /\ p.depth < WordCapacity)
    BY <1>2, ForgetType DEF PushWord
  <1> QED
    BY <1>1, <1>2

(* A decoded instruction: its bytes, its length and where it leads. *)
LEMMA DecodedTypes ==
  ASSUME TypeInv, NEW p \in PointType, Decodes(mem, p.address, p.state)
  PROVE  /\ mem[p.address] \in Byte
         /\ OperandOf(p) \in Address
         /\ Following(p) \in Address
         /\ Target(p) \in Address
  <1>1. p.address \in Address /\ p.state \in DecodeState
    BY DEF PointType
  <1>2. /\ DOMAIN mem \subseteq Address
        /\ \A a \in DOMAIN mem : mem[a] \in Byte
    BY AnalyzerAssumption DEF TypeInv, IsImage, mem
  <1>3. mem[p.address] \in Byte
    BY <1>2 DEF Decodes
  <1> DEFINE length == LengthIn(mem[p.address], p.state)
  <1>4. length \in 1..4
    BY <1>1, <1>3, LengthBounds DEF Decodes
  <1>5. OperandOf(p) \in Address
    BY <1>1, <1>2, <1>4, OperandBounds DEF Decodes, OperandOf
  <1> HIDE DEF length
  <1>6. Following(p) \in Address
    BY <1>1, <1>4, InBankType DEF Following, NextAddress, length
  <1>7. Target(p) \in Address
    <2>1. \A n \in {256, BankSize} : Signed(OperandOf(p), n) \in Int
      BY <1>5, BankSizeType DEF Signed, Address
    <2>2. OperandOf(p) \in Int
      BY <1>5, BankSizeType DEF Address
    <2>3. /\ InBank(Following(p), Signed(OperandOf(p), 256)) \in Address
          /\ InBank(Following(p), Signed(OperandOf(p), BankSize)) \in Address
          /\ Bank(p.address) + (OperandOf(p) % BankSize) \in Address
      BY <1>1, <1>6, <2>1, <2>2, InBankType, InBankOfWord
    <2> QED
      BY <1>5, <2>3 DEF Target, TargetAddress, OperandOf, Following
  <1> QED
    BY <1>3, <1>5, <1>6, <1>7

LEMMA AfterType ==
  ASSUME TypeInv, NEW p, GoodPoint(p), Decodes(mem, p.address, p.state)
  PROVE  GoodPoint(After(p))
  <1>1. /\ p \in PointType /\ OperandOf(p) \in Address /\ Following(p) \in Address
    BY DecodedTypes DEF GoodPoint
  <1>2. /\ OperandOf(p) % BankSize \in Word
        /\ (Following(p) + (OperandOf(p) % BankSize)) % BankSize \in Word
    BY <1>1, BankSizeType DEF Word, Address
  <1>3. GoodPoint([p EXCEPT !.known = TRUE, !.words = <<>>, !.depth = 0])
    <2>1. <<>> \in Seq(Word) /\ Len(<<>>) = 0
      OBVIOUS
    <2> QED
      BY <2>1, NewStackType
  <1>4. GoodPoint(TrackStackEffect(p))
    BY <1>2, <1>3, PushType, ForgetType DEF TrackStackEffect
  <1>5. StateAfter(p) \in DecodeState
    BY <1>1, ApplyType DEF StateAfter, PointType
  <1> QED
    BY <1>4, <1>5 DEF After, GoodPoint, PointType, WordsWithinDepth

(* The point behind an RTS whose return word is known. *)
LEMMA StackReturnType ==
  ASSUME TypeInv, NEW p, GoodPoint(p), p.known, p.depth > 0,
         NEW q, GoodPoint(q), q.words = p.words, q.depth = p.depth, q.known
  PROVE  GoodPoint([At(q, Bank(p.address) + ((p.words[p.depth] + 1) % BankSize))
                      EXCEPT !.words = SubSeq(@, 1, p.depth - 1), !.depth = @ - 1])
  <1>1. p.words \in Seq(Word) /\ p.depth \in Nat /\ Len(p.words) = p.depth
    BY DEF GoodPoint, PointType, WordsWithinDepth
  <1>2. p.words[p.depth] \in Word
    BY <1>1
  <1>3. p.words[p.depth] + 1 \in Int /\ p.address \in Address
    BY <1>2, BankSizeType DEF Word, GoodPoint, PointType
  <1>4. Bank(p.address) + ((p.words[p.depth] + 1) % BankSize) \in Address
    BY <1>3, InBankOfWord
  <1>5. /\ SubSeq(p.words, 1, p.depth - 1) \in Seq(Word)
        /\ Len(SubSeq(p.words, 1, p.depth - 1)) = p.depth - 1
        /\ p.depth - 1 \in Nat
    BY <1>1
  <1> DEFINE to == At(q, Bank(p.address) + ((p.words[p.depth] + 1) % BankSize))
  <1>6. GoodPoint(to) /\ to.words = p.words /\ to.depth = p.depth /\ to.known
    BY <1>4, MoveType DEF At, GoodPoint, PointType
  <1> HIDE DEF to
  <1>7. /\ [to EXCEPT !.words = SubSeq(@, 1, p.depth - 1), !.depth = @ - 1]
             = [to EXCEPT !.words = SubSeq(p.words, 1, p.depth - 1), !.depth = p.depth - 1]
    BY <1>6
  <1>8. p.depth - 1 <= WordCapacity
    BY <1>1, AnalyzerAssumption DEF GoodPoint, WordsWithinDepth
  <1>9. GoodPoint([to EXCEPT !.words = SubSeq(p.words, 1, p.depth - 1), !.depth = p.depth - 1])
    BY <1>5, <1>6, <1>8 DEF GoodPoint, PointType, WordsWithinDepth
  <1> QED
    BY <1>7, <1>9 DEF to
-----------------------------------------------------------------------------
(* The type invariant. *)

(* A queue of good points stays one when a good point is put behind it. *)
GoodQueue == queue \in Seq(PointType) /\ \A i \in DOMAIN queue : WordsWithinDepth(queue[i])

LEMMA QueuedType ==
  ASSUME TypeInv, NEW p, GoodPoint(p)
  PROVE  /\ Queued(p) \in Seq(PointType)
         /\ \A i \in DOMAIN Queued(p) : WordsWithinDepth(Queued(p)[i])
         /\ head \in 0..Len(Queued(p))
  <1>1. /\ queue \in Seq(PointType) /\ head \in 0..Len(queue)
        /\ \A i \in DOMAIN queue : WordsWithinDepth(queue[i])
    BY DEF TypeInv, AnalyzerTypeOK
  <1>2. p \in PointType /\ WordsWithinDepth(p)
    BY DEF GoodPoint
  <1>3. /\ Append(queue, p) \in Seq(PointType)
        /\ Len(Append(queue, p)) = Len(queue) + 1
        /\ \A i \in DOMAIN Append(queue, p) :
             Append(queue, p)[i] = IF i <= Len(queue) THEN queue[i] ELSE p
        /\ \A i \in DOMAIN Append(queue, p) : i <= Len(queue) => i \in DOMAIN queue
    BY <1>1, <1>2
  <1>4. \A i \in DOMAIN Append(queue, p) : WordsWithinDepth(Append(queue, p)[i])
    <2> SUFFICES ASSUME NEW i \in DOMAIN Append(queue, p)
                 PROVE  WordsWithinDepth(Append(queue, p)[i])
      OBVIOUS
    <2>1. CASE i <= Len(queue)
      BY <1>1, <1>3, <2>1
    <2>2. CASE ~(i <= Len(queue))
      BY <1>2, <1>3, <2>2
    <2> QED
      BY <2>1, <2>2
  <1> QED
    BY <1>1, <1>3, <1>4 DEF Queued

LEMMA InitTypeInv == AnalyzerInit => TypeInv
  <1> SUFFICES ASSUME AnalyzerInit PROVE TypeInv
    OBVIOUS
  <1>1. PICK d \in Garbage :
          queue = <<Point(program.entry,
                          IF kind = "reset" THEN ResetState ELSE InterruptState,
                          <<>>, d, FALSE)>>
    BY DEF AnalyzerInit
  <1> DEFINE p == Point(program.entry,
                        IF kind = "reset" THEN ResetState ELSE InterruptState,
                        <<>>, d, FALSE)
  <1>2. program \in Programs /\ program.entry \in Address /\ d \in Nat
    BY AnalyzerAssumption, BankSizeType DEF AnalyzerInit, IsImage, Address, Word
  <1>3. /\ (IF kind = "reset" THEN ResetState ELSE InterruptState) \in DecodeState
        /\ <<>> \in Seq(Word)
    BY DEF ResetState, InterruptState, DecodeState, Bit, Known, Unknown
  <1>4. p \in PointType /\ ~p.known
    BY <1>2, <1>3 DEF Point, PointType
  <1> HIDE DEF p
  <1>5. /\ <<p>> \in Seq(PointType) /\ Len(<<p>>) = 1
        /\ \A i \in DOMAIN <<p>> : <<p>>[i] = p
    BY <1>4
  <1>6. queue = <<p>>
    BY <1>1 DEF p
  <1>7. \A i \in DOMAIN queue : WordsWithinDepth(queue[i])
    BY <1>4, <1>5, <1>6 DEF WordsWithinDepth
  <1>8. visited \in Seq(PointType) /\ head \in 0..Len(queue)
    BY <1>5, <1>6 DEF AnalyzerInit
  <1> QED
    BY <1>2, <1>5, <1>6, <1>7, <1>8 DEF AnalyzerInit, TypeInv, AnalyzerTypeOK

LEMMA TakeTypeInv ==
  ASSUME TypeInv, TakePath
  PROVE  TypeInv'
  <1>1. head + 1 \in DOMAIN queue /\ head + 1 \in 0..Len(queue)
    BY DEF TakePath, TypeInv, AnalyzerTypeOK
  <1>2. queue[head + 1] \in PointType /\ WordsWithinDepth(queue[head + 1])
    BY <1>1 DEF TypeInv, AnalyzerTypeOK
  <1> QED
    BY <1>1, <1>2 DEF TakePath, TypeInv, AnalyzerTypeOK, inputVars, WordsWithinDepth

LEMMA LeaveTypeInv ==
  ASSUME TypeInv, LeavePath
  PROVE  TypeInv'
  BY DEF LeavePath, TypeInv, AnalyzerTypeOK, inputVars, WordsWithinDepth

(* Every visit: the point visited is typed, and so is what follows it. *)
LEMMA VisitFacts ==
  ASSUME TypeInv, Visit
  PROVE  /\ GoodPoint(point)
         /\ visited' \in Seq(PointType)
         /\ Len(visited') = Len(visited) + 1
         /\ UNCHANGED <<program, kind, follow, head>>
  <1>1. point \in PointType /\ WordsWithinDepth(point)
    BY DEF Visit, TypeInv, AnalyzerTypeOK
  <1>2. visited \in Seq(PointType)
    BY DEF TypeInv, AnalyzerTypeOK
  <1> QED
    BY <1>1, <1>2 DEF Visit, inputVars, GoodPoint

(* A visit keeps the type when the point and the queue it leaves are good. *)
LEMMA VisitTypeInv ==
  ASSUME TypeInv, Visit,
         point' = NoPoint \/ GoodPoint(point'),
         queue' = queue \/ \E p : GoodPoint(p) /\ queue' = Queued(p)
  PROVE  TypeInv'
  <1>1. point' \in PointType \cup {NoPoint} /\ (point' # NoPoint => WordsWithinDepth(point'))
    BY DEF GoodPoint
  <1>2. /\ queue' \in Seq(PointType) /\ head \in 0..Len(queue')
        /\ \A i \in DOMAIN queue' : WordsWithinDepth(queue'[i])
    <2>1. CASE queue' = queue
      BY <2>1 DEF TypeInv, AnalyzerTypeOK
    <2>2. CASE \E p : GoodPoint(p) /\ queue' = Queued(p)
      BY <2>2, QueuedType
    <2> QED
      BY <2>1, <2>2
  <1> QED
    BY <1>1, <1>2, VisitFacts DEF TypeInv, AnalyzerTypeOK, WordsWithinDepth

LEMMA DecodedFacts ==
  ASSUME TypeInv, NEW flows, VisitDecoded(flows)
  PROVE  /\ Visit
         /\ GoodPoint(point) /\ GoodPoint(After(point))
         /\ GoodPoint(At(After(point), Following(point)))
         /\ GoodPoint(At(After(point), Target(point)))
  <1>1. Visit /\ Decodes(mem, point.address, point.state)
    BY DEF VisitDecoded
  <1>2. GoodPoint(point)
    BY <1>1, VisitFacts
  <1>3. Following(point) \in Address /\ Target(point) \in Address
    BY <1>1, <1>2, DecodedTypes DEF GoodPoint
  <1>4. GoodPoint(After(point))
    BY <1>1, <1>2, AfterType
  <1> QED
    BY <1>1, <1>2, <1>3, <1>4, MoveType

LEMMA NextTypeInv ==
  ASSUME TypeInv, AnalyzerNext
  PROVE  TypeInv'
  <1>1. CASE TakePath
    BY <1>1, TakeTypeInv
  <1>2. CASE LeavePath
    BY <1>2, LeaveTypeInv
  <1>3. CASE Blocked
    BY <1>3, VisitTypeInv DEF Blocked
  <1>4. CASE Conditional
    <2>1. /\ point' = At(After(point), Following(point))
          /\ queue' = Queued(At(After(point), Target(point)))
          /\ VisitDecoded({"conditional"})
      BY <1>4 DEF Conditional
    <2> QED
      BY <2>1, DecodedFacts, VisitTypeInv
  <1>5. CASE Direct
    <2>1. /\ point' = At(After(point), Target(point))
          /\ queue' = queue
          /\ VisitDecoded({"branch", "jump"})
      BY <1>5 DEF Direct
    <2> QED
      BY <2>1, DecodedFacts, VisitTypeInv
  <1>6. CASE Call
    <2> DEFINE callee == At(After(point), Target(point))
    <2>1. /\ point' = At(After(point), Following(point))
          /\ queue' = queue \/ queue' = Queued([Forget(callee) EXCEPT !.depth = 0])
          /\ VisitDecoded({"call"})
      BY <1>6 DEF Call
    <2>2. GoodPoint(callee) /\ GoodPoint(At(After(point), Following(point))) /\ Visit
      BY <2>1, DecodedFacts
    <2> HIDE DEF callee
    <2>3. GoodPoint([Forget(callee) EXCEPT !.depth = 0])
      BY <2>2, ForgetType
    <2> QED
      BY <2>1, <2>2, <2>3, VisitTypeInv
  <1>7. CASE Sequential
    <2>1. /\ point' = At(After(point), Following(point))
          /\ queue' = queue
          /\ VisitDecoded({"next", "indirect_call"})
      BY <1>7 DEF Sequential
    <2> QED
      BY <2>1, DecodedFacts, VisitTypeInv
  <1>8. CASE StackReturn
    <2>1. /\ VisitDecoded({"return"}) /\ queue' = queue
          /\ mem[point.address] = 96 /\ point.known /\ point.depth > 0
          /\ point' = [At(After(point), Bank(point.address)
                                           + ((point.words[point.depth] + 1) % BankSize))
                         EXCEPT !.words = SubSeq(@, 1, point.depth - 1), !.depth = @ - 1]
      BY <1>8 DEF StackReturn, KnowsReturn
    <2>2. GoodPoint(point) /\ GoodPoint(After(point)) /\ Visit
      BY <2>1, DecodedFacts
    <2>3. TrackStackEffect(point) = point
      BY <2>1 DEF TrackStackEffect, SetsStack, MovesStack
    <2>4. /\ After(point).words = point.words /\ After(point).depth = point.depth
          /\ After(point).known
      BY <2>1, <2>2, <2>3 DEF After, GoodPoint, PointType
    <2>5. GoodPoint(point')
      BY <2>1, <2>2, <2>4, StackReturnType
    <2> QED
      BY <2>1, <2>2, <2>5, VisitTypeInv
  <1>9. CASE EndPath
    BY <1>9, DecodedFacts, VisitTypeInv DEF EndPath
  <1> QED
    BY <1>1, <1>2, <1>3, <1>4, <1>5, <1>6, <1>7, <1>8, <1>9 DEF AnalyzerNext

LEMMA StutterTypeInv ==
  ASSUME TypeInv, UNCHANGED analyzerVars
  PROVE  TypeInv'
  BY DEF analyzerVars, TypeInv, AnalyzerTypeOK, WordsWithinDepth

LEMMA TypeInvariant == AnalyzerSpec => []TypeInv
  <1>1. TypeInv /\ [AnalyzerNext]_analyzerVars => TypeInv'
    BY NextTypeInv, StutterTypeInv
  <1> QED
    BY InitTypeInv, <1>1, PTL DEF AnalyzerSpec

(* For every image, limit and array size: the analyser's state is well     *)
(* typed, and return_words is never written past its end (analyze_entry,   *)
(* track_stack_effect).                                                    *)
THEOREM AnalyzerTypeInvariant == AnalyzerSpec => []AnalyzerTypeOK
  <1>1. TypeInv => AnalyzerTypeOK
    BY DEF TypeInv
  <1> QED
    BY <1>1, TypeInvariant, PTL

-----------------------------------------------------------------------------
(* The arrays never fill. *)

Endpoint == [address : Address, state : DecodeState]
EdgeKinds == {"next", "taken", "jump", "call", "stack return"}
EdgeType == [from : Endpoint, to : Endpoint, kind : EdgeKinds]

(* A visit queues at most one point and records at most two edges and one  *)
(* call, and there are no more visits than the limit.                      *)
Counted ==
  /\ edges \in Seq(EdgeType)
  /\ calls \in Seq(Address \X Address)
  /\ Len(visited) <= Limit
  /\ Len(queue) <= Len(visited) + 1
  /\ Len(edges) <= 2 * Len(visited)
  /\ Len(calls) <= Len(visited)

LEMMA RecordedCounts ==
  ASSUME edges \in Seq(EdgeType), NEW new \in Seq(EdgeType)
  PROVE  Recorded(new) \in Seq(EdgeType) /\ Len(Recorded(new)) <= Len(edges) + Len(new)
  <1> DEFINE all == edges \o new
             n == IF Len(edges) + Len(new) <= EdgeCapacity
                  THEN Len(edges) + Len(new) ELSE EdgeCapacity
  <1>1. all \in Seq(EdgeType) /\ Len(all) = Len(edges) + Len(new)
    OBVIOUS
  <1>2. n \in Nat /\ n <= Len(edges) + Len(new)
    BY AnalyzerAssumption DEF EdgeCapacity
  <1>3. Recorded(new) = SubSeq(all, 1, n)
    BY DEF Recorded
  <1> HIDE DEF all, n
  <1> QED
    BY <1>1, <1>2, <1>3

LEMMA EdgeTypes ==
  ASSUME NEW from \in PointType, from = point, NEW p, GoodPoint(p), NEW label \in EdgeKinds
  PROVE  Edge(p, label) \in EdgeType
  BY DEF Edge, EdgeType, Endpoint, GoodPoint, PointType

LEMMA OneEdge ==
  ASSUME NEW a \in EdgeType
  PROVE  <<a>> \in Seq(EdgeType) /\ Len(<<a>>) <= 2
  OBVIOUS

LEMMA TwoEdges ==
  ASSUME NEW a \in EdgeType, NEW b \in EdgeType
  PROVE  <<a, b>> \in Seq(EdgeType) /\ Len(<<a, b>>) <= 2
  OBVIOUS

LEMMA QueuedCounts ==
  ASSUME TypeInv, NEW p, GoodPoint(p)
  PROVE  Len(Queued(p)) <= Len(queue) + 1 /\ Len(queue) \in Nat
  <1>1. queue \in Seq(PointType) /\ p \in PointType
    BY DEF TypeInv, AnalyzerTypeOK, GoodPoint
  <1>2. Len(Append(queue, p)) = Len(queue) + 1 /\ Len(queue) \in Nat
    BY <1>1
  <1> QED
    BY <1>2 DEF Queued

LEMMA CallsCount ==
  ASSUME calls \in Seq(Address \X Address), NEW site \in Address \X Address
  PROVE  /\ CallsWith(site) \in Seq(Address \X Address)
         /\ Len(CallsWith(site)) <= Len(calls) + 1
  <1>1. /\ Append(calls, site) \in Seq(Address \X Address)
        /\ Len(Append(calls, site)) = Len(calls) + 1 /\ Len(calls) \in Nat
    OBVIOUS
  <1> QED
    BY <1>1 DEF CallsWith

(* What is left to show of a visit. *)
LEMMA VisitCounts ==
  ASSUME TypeInv, Counted, Visit,
         edges' = edges \/ \E new \in Seq(EdgeType) : Len(new) <= 2 /\ edges' = Recorded(new),
         queue' = queue \/ \E p : GoodPoint(p) /\ queue' = Queued(p),
         calls' = calls \/ \E site \in Address \X Address : calls' = CallsWith(site)
  PROVE  Counted'
  <1>1. /\ Len(visited') = Len(visited) + 1 /\ Len(visited) \in Nat
        /\ Len(visited) < Limit
    BY VisitFacts DEF Visit, WithinLimit, TypeInv, AnalyzerTypeOK
  <1>2. edges' \in Seq(EdgeType) /\ Len(edges') <= Len(edges) + 2 /\ Len(edges) \in Nat
    <2>1. edges \in Seq(EdgeType) /\ Len(edges) \in Nat
      BY DEF Counted
    <2>2. CASE edges' = edges
      BY <2>1, <2>2
    <2>3. CASE \E new \in Seq(EdgeType) : Len(new) <= 2 /\ edges' = Recorded(new)
      <3>1. PICK new \in Seq(EdgeType) : Len(new) <= 2 /\ edges' = Recorded(new)
        BY <2>3
      <3>2. edges' \in Seq(EdgeType) /\ Len(edges') <= Len(edges) + Len(new)
        BY <2>1, <3>1, RecordedCounts
      <3>3. Len(edges') \in Nat /\ Len(new) \in Nat
        BY <3>1, <3>2
      <3> QED
        BY <2>1, <3>1, <3>2, <3>3
    <2> QED
      BY <2>2, <2>3
  <1>3. Len(queue') <= Len(queue) + 1 /\ Len(queue) \in Nat /\ Len(queue') \in Nat
    <2>1. queue \in Seq(PointType) /\ Len(queue) \in Nat
      BY DEF TypeInv, AnalyzerTypeOK
    <2> QED
      BY <2>1, QueuedCounts, QueuedType
  <1>4. calls' \in Seq(Address \X Address) /\ Len(calls') <= Len(calls) + 1 /\ Len(calls) \in Nat
    <2>1. calls \in Seq(Address \X Address) /\ Len(calls) \in Nat
      BY DEF Counted
    <2> QED
      BY <2>1, CallsCount
  <1>5. Len(edges') \in Nat /\ Len(calls') \in Nat /\ Limit \in Nat
    BY <1>2, <1>4, AnalyzerAssumption
  <1> QED
    BY <1>1, <1>2, <1>3, <1>4, <1>5 DEF Counted

LEMMA VisitEdge ==
  ASSUME TypeInv, NEW flows, VisitDecoded(flows), NEW p, GoodPoint(p), NEW label \in EdgeKinds
  PROVE  Edge(p, label) \in EdgeType
  <1>1. point \in PointType
    BY DecodedFacts DEF GoodPoint
  <1> QED
    BY <1>1, EdgeTypes

LEMMA NextCounted ==
  ASSUME TypeInv, Counted, AnalyzerNext
  PROVE  Counted'
  <1> DEFINE behind == At(After(point), Following(point))
             target == At(After(point), Target(point))
  <1>0. ASSUME NEW flows, VisitDecoded(flows)
        PROVE  /\ Visit /\ GoodPoint(behind) /\ GoodPoint(target) /\ GoodPoint(point)
               /\ <<point.address, Target(point)>> \in Address \X Address
    <2>1. Visit /\ GoodPoint(behind) /\ GoodPoint(target) /\ GoodPoint(point)
      BY <1>0, DecodedFacts
    <2>2. point \in PointType
      BY <2>1 DEF GoodPoint
    <2>3. Target(point) \in Address /\ point.address \in Address
      BY <1>0, <2>2, DecodedTypes DEF VisitDecoded, PointType
    <2> QED
      BY <2>1, <2>2, <2>3
  <1>1. CASE TakePath
    BY <1>1 DEF TakePath, Counted
  <1>2. CASE LeavePath
    BY <1>2 DEF LeavePath, Counted
  <1>3. CASE Blocked
    BY <1>3, VisitCounts DEF Blocked
  <1> HIDE DEF behind, target
  <1>a. "taken" \in EdgeKinds /\ "next" \in EdgeKinds /\ "call" \in EdgeKinds
        /\ "stack return" \in EdgeKinds
    BY DEF EdgeKinds
  <1>4. CASE Conditional
    <2>1. /\ VisitDecoded({"conditional"})
          /\ edges' = Recorded(<<Edge(target, "taken"), Edge(behind, "next")>>)
          /\ queue' = Queued(target) /\ calls' = calls
      BY <1>4 DEF Conditional, behind, target
    <2>2. /\ <<Edge(target, "taken"), Edge(behind, "next")>> \in Seq(EdgeType)
          /\ Len(<<Edge(target, "taken"), Edge(behind, "next")>>) <= 2
      <3>1. GoodPoint(target) /\ GoodPoint(behind)
        BY <1>0, <2>1
      <3>2. Edge(target, "taken") \in EdgeType
        BY <1>a, <2>1, <3>1, VisitEdge
      <3>3. Edge(behind, "next") \in EdgeType
        BY <1>a, <2>1, <3>1, VisitEdge
      <3> QED
        BY <3>2, <3>3, TwoEdges
    <2>3. \E new \in Seq(EdgeType) : Len(new) <= 2 /\ edges' = Recorded(new)
      BY <2>1, <2>2
    <2>4. Visit /\ GoodPoint(target)
      BY <1>0, <2>1
    <2> QED
      BY <2>1, <2>3, <2>4, VisitCounts
  <1>5. CASE Direct
    <2> DEFINE label == IF Flow(Opcode) = "jump" THEN "jump" ELSE "taken"
    <2>1. /\ VisitDecoded({"branch", "jump"})
          /\ edges' = Recorded(<<Edge(target, label)>>)
          /\ queue' = queue /\ calls' = calls
      BY <1>5 DEF Direct, target
    <2>2. label \in EdgeKinds
      BY DEF EdgeKinds
    <2> HIDE DEF label
    <2>3. <<Edge(target, label)>> \in Seq(EdgeType) /\ Len(<<Edge(target, label)>>) <= 2
      <3>1. GoodPoint(target)
        BY <1>0, <2>1
      <3>2. Edge(target, label) \in EdgeType
        BY <2>1, <2>2, <3>1, VisitEdge
      <3> QED
        BY <3>2, OneEdge
    <2>4. \E new \in Seq(EdgeType) : Len(new) <= 2 /\ edges' = Recorded(new)
      BY <2>1, <2>3
    <2>5. Visit
      BY <1>0, <2>1
    <2> QED
      BY <2>1, <2>4, <2>5, VisitCounts
  <1>6. CASE Call
    <2>1. /\ VisitDecoded({"call"})
          /\ edges' = Recorded(<<Edge(target, "call"), Edge(behind, "next")>>)
          /\ queue' = queue \/ queue' = Queued([Forget(target) EXCEPT !.depth = 0])
          /\ calls' = CallsWith(<<point.address, Target(point)>>)
      BY <1>6 DEF Call, behind, target
    <2>2. /\ <<Edge(target, "call"), Edge(behind, "next")>> \in Seq(EdgeType)
          /\ Len(<<Edge(target, "call"), Edge(behind, "next")>>) <= 2
      <3>1. GoodPoint(target) /\ GoodPoint(behind)
        BY <1>0, <2>1
      <3>2. Edge(target, "call") \in EdgeType
        BY <1>a, <2>1, <3>1, VisitEdge
      <3>3. Edge(behind, "next") \in EdgeType
        BY <1>a, <2>1, <3>1, VisitEdge
      <3> QED
        BY <3>2, <3>3, TwoEdges
    <2>3. GoodPoint([Forget(target) EXCEPT !.depth = 0])
      BY <1>0, <2>1, ForgetType
    <2>4. Visit /\ <<point.address, Target(point)>> \in Address \X Address
      BY <1>0, <2>1
    <2>5. \E new \in Seq(EdgeType) : Len(new) <= 2 /\ edges' = Recorded(new)
      BY <2>1, <2>2
    <2> QED
      BY <2>1, <2>3, <2>4, <2>5, VisitCounts
  <1>7. CASE Sequential
    <2>1. /\ VisitDecoded({"next", "indirect_call"})
          /\ edges' = Recorded(<<Edge(behind, "next")>>)
          /\ queue' = queue /\ calls' = calls
      BY <1>7 DEF Sequential, behind
    <2>2. <<Edge(behind, "next")>> \in Seq(EdgeType) /\ Len(<<Edge(behind, "next")>>) <= 2
      <3>1. GoodPoint(behind)
        BY <1>0, <2>1
      <3>2. Edge(behind, "next") \in EdgeType
        BY <1>a, <2>1, <3>1, VisitEdge
      <3> QED
        BY <3>2, OneEdge
    <2>3. \E new \in Seq(EdgeType) : Len(new) <= 2 /\ edges' = Recorded(new)
      BY <2>1, <2>2
    <2>4. Visit
      BY <1>0, <2>1
    <2> QED
      BY <2>1, <2>3, <2>4, VisitCounts
  <1>8. CASE StackReturn
    <2>1. /\ VisitDecoded({"return"}) /\ queue' = queue /\ calls' = calls
          /\ edges' = Recorded(<<Edge(point', "stack return")>>)
          /\ point' # NoPoint => GoodPoint(point')
      <3>1. TypeInv'
        BY NextTypeInv
      <3> QED
        BY <1>8, <3>1 DEF StackReturn, TypeInv, AnalyzerTypeOK, GoodPoint, WordsWithinDepth
    <2>2. point' # NoPoint
      <3>1. /\ mem[point.address] = 96 /\ point.known /\ point.depth > 0
            /\ point' = [At(After(point), Bank(point.address)
                                             + ((point.words[point.depth] + 1) % BankSize))
                           EXCEPT !.words = SubSeq(@, 1, point.depth - 1), !.depth = @ - 1]
        BY <1>8 DEF StackReturn, KnowsReturn
      <3>2. GoodPoint(point) /\ GoodPoint(After(point))
        BY <2>1, DecodedFacts
      <3>3. TrackStackEffect(point) = point
        BY <3>1 DEF TrackStackEffect, SetsStack, MovesStack
      <3>4. /\ After(point).words = point.words /\ After(point).depth = point.depth
            /\ After(point).known
        BY <3>1, <3>2, <3>3 DEF After, GoodPoint, PointType
      <3>5. GoodPoint(point')
        BY <3>1, <3>2, <3>4, StackReturnType
      <3>6. point'.address \in Nat
        BY <3>5, BankSizeType DEF GoodPoint, PointType, Address
      <3>7. NoPoint.address = -1
        BY DEF NoPoint
      <3> QED
        BY <3>6, <3>7
    <2>3. <<Edge(point', "stack return")>> \in Seq(EdgeType)
          /\ Len(<<Edge(point', "stack return")>>) <= 2
      <3>1. GoodPoint(point')
        BY <2>1, <2>2
      <3>2. Edge(point', "stack return") \in EdgeType
        BY <1>a, <2>1, <3>1, VisitEdge
      <3> QED
        BY <3>2, OneEdge
    <2>4. Visit
      BY <1>0, <2>1
    <2> QED
      BY <2>1, <2>3, <2>4, VisitCounts
  <1>9. CASE EndPath
    BY <1>0, <1>9, VisitCounts DEF EndPath
  <1> QED
    BY <1>1, <1>2, <1>3, <1>4, <1>5, <1>6, <1>7, <1>8, <1>9 DEF AnalyzerNext

LEMMA InitCounted == AnalyzerInit => Counted
  <1> SUFFICES ASSUME AnalyzerInit PROVE Counted
    OBVIOUS
  <1>1. edges = <<>> /\ calls = <<>> /\ visited = <<>> /\ Len(queue) = 1
    BY DEF AnalyzerInit
  <1>2. <<>> \in Seq(EdgeType) /\ <<>> \in Seq(Address \X Address) /\ Len(<<>>) = 0
    OBVIOUS
  <1> QED
    BY <1>1, <1>2, AnalyzerAssumption DEF Counted

(* For every image and limit: the room made for paths, edges and calls is  *)
(* enough, so the ignored failures of record_edge and record_call and the  *)
(* test of the queue's room never cost the graph anything (analyze_entry). *)
THEOREM AnalyzerDropsNothing == AnalyzerSpec => []NothingDropped
  <1>1. TypeInv /\ Counted /\ [AnalyzerNext]_analyzerVars => Counted'
    <2>1. CASE AnalyzerNext
      BY <2>1, NextCounted
    <2>2. CASE UNCHANGED analyzerVars
      BY <2>2 DEF analyzerVars, Counted
    <2> QED
      BY <2>1, <2>2
  <1>2. TypeInv /\ Counted => NothingDropped
    <2> SUFFICES ASSUME TypeInv, Counted PROVE NothingDropped
      OBVIOUS
    <2>1. /\ Len(visited) \in Nat /\ Len(queue) \in Nat
          /\ Len(edges) \in Nat /\ Len(calls) \in Nat /\ Limit \in Nat
      BY AnalyzerAssumption DEF TypeInv, AnalyzerTypeOK, Counted
    <2> QED
      BY <2>1 DEF Counted, NothingDropped, QueueCapacity, EdgeCapacity, WithinLimit
  <1> QED
    BY <1>1, <1>2, InitCounted, TypeInvariant, PTL DEF AnalyzerSpec

-----------------------------------------------------------------------------
(* The walk is closed. *)

(* A point the walk has visited, is at, or has still to take. *)
Reached(q) == \/ AlreadyVisited(q)
              \/ point # NoPoint /\ point = q
              \/ \E i \in (head + 1)..Len(queue) : queue[i] = q

(* The points that a visit of p leads the walk to. *)
Returned(p) == [At(After(p), Bank(p.address) + ((p.words[p.depth] + 1) % BankSize))
                  EXCEPT !.words = SubSeq(@, 1, p.depth - 1), !.depth = @ - 1]

Entered(p) == [Forget(At(After(p), Target(p))) EXCEPT !.depth = 0]

LeadsTo(p, q) ==
  /\ Decodes(mem, p.address, p.state)
  /\ \/ /\ Flow(mem[p.address]) \in {"conditional", "call", "next", "indirect_call"}
        /\ q = At(After(p), Following(p))
     \/ /\ Flow(mem[p.address]) \in {"conditional", "branch", "jump"}
        /\ q = At(After(p), Target(p))
     \/ Flow(mem[p.address]) = "call" /\ follow /\ q = Entered(p)
     \/ Flow(mem[p.address]) = "return" /\ KnowsReturn(p) /\ q = Returned(p)

(* The walk begins where the vector points, with what a reset or an        *)
(* interrupt says of the bits.                                             *)
IsEntry(q) ==
  /\ q.address = program.entry /\ ~q.known
  /\ q.state = IF kind = "reset" THEN ResetState ELSE InterruptState

(* Until the limit cuts it short, the walk goes on to each of them. *)
Closed ==
  /\ \A p : AlreadyVisited(p) => GoodPoint(p)
  /\ WithinLimit => \A p, q : AlreadyVisited(p) /\ LeadsTo(p, q) => Reached(q)
  /\ WithinLimit => \E q : IsEntry(q) /\ Reached(q)

LEMMA GoodIsPoint ==
  ASSUME NEW p, GoodPoint(p)
  PROVE  p # NoPoint
  <1>1. p.address \in Nat
    BY BankSizeType DEF GoodPoint, PointType, Address
  <1>2. NoPoint.address = -1
    BY DEF NoPoint
  <1> QED
    BY <1>1, <1>2

(* A point put into the queue is there, and the others stay. *)
LEMMA QueuedReaches ==
  ASSUME TypeInv, Counted, WithinLimit, NEW p, GoodPoint(p), queue' = Queued(p), head' = head
  PROVE  /\ \E i \in (head' + 1)..Len(queue') : queue'[i] = p
         /\ \A i \in (head + 1)..Len(queue) : /\ i \in (head' + 1)..Len(queue')
                                              /\ queue'[i] = queue[i]
  <1>1. /\ queue \in Seq(PointType) /\ head \in 0..Len(queue) /\ Len(queue) \in Nat
        /\ Len(visited) \in Nat /\ p \in PointType /\ Limit \in Nat
    BY AnalyzerAssumption DEF TypeInv, AnalyzerTypeOK, GoodPoint
  <1>2. Len(queue) < QueueCapacity
    BY <1>1 DEF Counted, QueueCapacity
  <1>3. queue' = Append(queue, p)
    BY <1>2 DEF Queued
  <1>4. /\ Len(queue') = Len(queue) + 1 /\ queue'[Len(queue) + 1] = p
        /\ \A i \in 1..Len(queue) : queue'[i] = queue[i]
    BY <1>1, <1>3
  <1> QED
    BY <1>1, <1>4

(* What was reached stays so in a visit. *)
LEMMA VisitReaches ==
  ASSUME TypeInv, Counted, Visit,
         queue' = queue \/ \E p : GoodPoint(p) /\ queue' = Queued(p),
         NEW q, Reached(q) \/ q = point
  PROVE  Reached(q)'
  <1>1. /\ visited \in Seq(PointType) /\ point \in PointType /\ WithinLimit
        /\ visited' = Append(visited, point) /\ head' = head
    BY VisitFacts DEF Visit, TypeInv, AnalyzerTypeOK, GoodPoint
  <1>2. /\ DOMAIN visited' = 1..(Len(visited) + 1) /\ Len(visited) \in Nat
        /\ visited'[Len(visited) + 1] = point
        /\ \A i \in DOMAIN visited : i \in DOMAIN visited' /\ visited'[i] = visited[i]
    BY <1>1
  <1>3. \A i \in (head + 1)..Len(queue) : i \in (head' + 1)..Len(queue') /\ queue'[i] = queue[i]
    <2>1. CASE queue' = queue
      BY <1>1, <2>1
    <2>2. CASE \E p : GoodPoint(p) /\ queue' = Queued(p)
      BY <1>1, <2>2, QueuedReaches
    <2> QED
      BY <2>1, <2>2
  <1>4. CASE q = point
    BY <1>2, <1>4 DEF Reached, AlreadyVisited
  <1>5. CASE AlreadyVisited(q)
    BY <1>2, <1>5 DEF Reached, AlreadyVisited
  <1>6. CASE \E i \in (head + 1)..Len(queue) : queue[i] = q
    BY <1>3, <1>6 DEF Reached
  <1> QED
    BY <1>4, <1>5, <1>6 DEF Reached

LEMMA PointIsReached ==
  ASSUME NEW q, GoodPoint(q), point' = q
  PROVE  Reached(q)'
  BY GoodIsPoint DEF Reached

LEMMA LeadsToStays ==
  ASSUME program' = program, follow' = follow, NEW p, NEW q
  PROVE  LeadsTo(p, q)' <=> LeadsTo(p, q)
  BY DEF LeadsTo, mem, KnowsReturn, Returned, Entered, After, TrackStackEffect, StateAfter,
         Following, Target, OperandOf, At, Forget, PushWord

(* A visit keeps the walk closed when it goes on to what it leads to. *)
LEMMA VisitCloses ==
  ASSUME TypeInv, Counted, Closed, Visit,
         queue' = queue \/ \E p : GoodPoint(p) /\ queue' = Queued(p),
         \A q : LeadsTo(point, q) => Reached(q)'
  PROVE  Closed'
  <1>1. /\ visited \in Seq(PointType) /\ point \in PointType /\ GoodPoint(point) /\ WithinLimit
        /\ visited' = Append(visited, point) /\ UNCHANGED <<program, kind, follow>>
    BY VisitFacts DEF Visit, TypeInv, AnalyzerTypeOK, GoodPoint, inputVars
  <1>2. \A p : AlreadyVisited(p)' => AlreadyVisited(p) \/ p = point
    BY <1>1 DEF AlreadyVisited
  <1>3. \A p : AlreadyVisited(p)' => GoodPoint(p)
    BY <1>1, <1>2 DEF Closed
  <1>4. ASSUME NEW p, NEW q, AlreadyVisited(p)', LeadsTo(p, q)'
        PROVE  Reached(q)'
    <2>1. LeadsTo(p, q)
      BY <1>1, <1>4, LeadsToStays
    <2>2. CASE p = point
      BY <2>1, <2>2
    <2>3. CASE AlreadyVisited(p)
      <3>1. Reached(q)
        BY <1>1, <2>1, <2>3 DEF Closed
      <3> QED
        BY <3>1, VisitReaches
    <2> QED
      BY <1>2, <1>4, <2>2, <2>3
  <1>5. (\E q : IsEntry(q) /\ Reached(q))'
    BY <1>1, VisitReaches DEF Closed, IsEntry
  <1> QED
    BY <1>3, <1>4, <1>5 DEF Closed, GoodPoint, WordsWithinDepth

(* What the point's instruction leads to depends on its flow. *)
LEMMA FlowLeads ==
  ASSUME NEW flows, VisitDecoded(flows), NEW q, LeadsTo(point, q)
  PROVE  /\ Flow(Opcode) \in flows
         /\ \/ /\ Flow(Opcode) \in {"conditional", "call", "next", "indirect_call"}
               /\ q = At(After(point), Following(point))
            \/ /\ Flow(Opcode) \in {"conditional", "branch", "jump"}
               /\ q = At(After(point), Target(point))
            \/ Flow(Opcode) = "call" /\ follow /\ q = Entered(point)
            \/ Flow(Opcode) = "return" /\ KnowsReturn(point) /\ q = Returned(point)
  BY DEF VisitDecoded, LeadsTo, Opcode

LEMMA ReturnedIsGood ==
  ASSUME TypeInv, VisitDecoded({"return"}), KnowsReturn(point)
  PROVE  GoodPoint(Returned(point))
  <1>1. GoodPoint(point) /\ GoodPoint(After(point))
    BY DecodedFacts
  <1>2. TrackStackEffect(point) = point
    BY DEF KnowsReturn, TrackStackEffect, SetsStack, MovesStack
  <1>3. /\ After(point).words = point.words /\ After(point).depth = point.depth
        /\ After(point).known
    BY <1>1, <1>2 DEF After, GoodPoint, PointType, KnowsReturn
  <1> QED
    BY <1>1, <1>3, StackReturnType DEF Returned, KnowsReturn

LEMMA NextCloses ==
  ASSUME TypeInv, Counted, Closed, AnalyzerNext
  PROVE  Closed'
  <1> DEFINE behind == At(After(point), Following(point))
             target == At(After(point), Target(point))
  <1>0. ASSUME NEW flows, VisitDecoded(flows)
        PROVE  /\ Visit /\ GoodPoint(behind) /\ GoodPoint(target) /\ GoodPoint(Entered(point))
               /\ WithinLimit /\ head' = head
    <2>1. Visit /\ GoodPoint(behind) /\ GoodPoint(target)
      BY <1>0, DecodedFacts
    <2>2. GoodPoint(Entered(point))
      BY <2>1, ForgetType DEF Entered
    <2> QED
      BY <2>1, <2>2 DEF Visit
  <1>1. CASE TakePath
    <2>1. /\ point = NoPoint /\ head < Len(queue) /\ point' = queue[head + 1]
          /\ head' = head + 1 /\ UNCHANGED <<program, kind, follow, queue, visited>>
      BY <1>1 DEF TakePath, inputVars
    <2>2. head \in Nat /\ Len(queue) \in Nat /\ head + 1 \in DOMAIN queue
          /\ GoodPoint(queue[head + 1])
      BY <2>1 DEF TypeInv, AnalyzerTypeOK, GoodPoint
    <2>3. ASSUME NEW q, Reached(q) PROVE Reached(q)'
      BY <2>1, <2>2, <2>3, GoodIsPoint DEF Reached, AlreadyVisited
    <2>4. \A p, q : LeadsTo(p, q)' <=> LeadsTo(p, q)
      BY <2>1, LeadsToStays
    <2> QED
      BY <2>1, <2>3, <2>4 DEF Closed, IsEntry, WithinLimit, AlreadyVisited, GoodPoint, WordsWithinDepth
  <1>2. CASE LeavePath
    <2>1. /\ ~WithinLimit \/ AlreadyVisited(point)
          /\ UNCHANGED <<program, kind, follow, queue, head, visited>>
      BY <1>2 DEF LeavePath, inputVars
    <2>2. ASSUME NEW q, Reached(q), WithinLimit PROVE Reached(q)'
      BY <2>1, <2>2 DEF Reached, AlreadyVisited
    <2>3. \A p, q : LeadsTo(p, q)' <=> LeadsTo(p, q)
      BY <2>1, LeadsToStays
    <2> QED
      BY <2>1, <2>2, <2>3 DEF Closed, IsEntry, WithinLimit, AlreadyVisited, GoodPoint, WordsWithinDepth
  <1>3. CASE Blocked
    <2>1. Visit /\ queue' = queue /\ \A q : ~LeadsTo(point, q)
      BY <1>3 DEF Blocked, LeadsTo
    <2> QED
      BY <2>1, VisitCloses
  <1> HIDE DEF behind, target
  <1>4. CASE Conditional
    <2>1. /\ VisitDecoded({"conditional"}) /\ queue' = Queued(target) /\ point' = behind
      BY <1>4 DEF Conditional, behind, target
    <2>2. Visit /\ GoodPoint(target) /\ GoodPoint(behind) /\ WithinLimit /\ head' = head
      BY <1>0, <2>1
    <2>3. ASSUME NEW q, q = behind PROVE Reached(q)'
      BY <2>1, <2>2, <2>3, GoodIsPoint DEF Reached
    <2>4. ASSUME NEW q, q = target PROVE Reached(q)'
      BY <2>1, <2>2, <2>4, QueuedReaches DEF Reached
    <2>5. ASSUME NEW q, LeadsTo(point, q) PROVE q = behind \/ q = target
      BY <2>1, <2>5, FlowLeads DEF behind, target
    <2>6. ASSUME NEW q, LeadsTo(point, q) PROVE Reached(q)'
      BY <2>3, <2>4, <2>5, <2>6
    <2> QED
      BY <2>1, <2>2, <2>6, VisitCloses
  <1>5. CASE Direct
    <2>1. /\ VisitDecoded({"branch", "jump"}) /\ queue' = queue /\ point' = target
      BY <1>5 DEF Direct, target
    <2>2. Visit /\ GoodPoint(target)
      BY <1>0, <2>1
    <2>3. ASSUME NEW q, q = target PROVE Reached(q)'
      BY <2>1, <2>2, <2>3, GoodIsPoint DEF Reached
    <2>4. ASSUME NEW q, LeadsTo(point, q) PROVE q = target
      BY <2>1, <2>4, FlowLeads DEF target
    <2> QED
      BY <2>1, <2>2, <2>3, <2>4, VisitCloses
  <1>6. CASE Call
    <2>1. /\ VisitDecoded({"call"}) /\ point' = behind
          /\ queue' = IF follow THEN Queued(Entered(point)) ELSE queue
      BY <1>6 DEF Call, behind, Entered
    <2>2. Visit /\ GoodPoint(behind) /\ GoodPoint(Entered(point)) /\ WithinLimit /\ head' = head
      BY <1>0, <2>1
    <2>3. ASSUME NEW q, q = behind PROVE Reached(q)'
      BY <2>1, <2>2, <2>3, GoodIsPoint DEF Reached
    <2>4. follow => \E i \in (head' + 1)..Len(queue') : queue'[i] = Entered(point)
      BY <2>1, <2>2, QueuedReaches
    <2>5. ASSUME NEW q, LeadsTo(point, q) PROVE q = behind \/ (follow /\ q = Entered(point))
      BY <2>1, <2>5, FlowLeads DEF behind
    <2>6. ASSUME NEW q, LeadsTo(point, q) PROVE Reached(q)'
      <3>1. CASE q = behind
        BY <2>3, <3>1
      <3>2. CASE follow /\ q = Entered(point)
        BY <2>4, <3>2 DEF Reached
      <3> QED
        BY <2>5, <2>6, <3>1, <3>2
    <2> QED
      BY <2>1, <2>2, <2>6, VisitCloses
  <1>7. CASE Sequential
    <2>1. /\ VisitDecoded({"next", "indirect_call"}) /\ queue' = queue /\ point' = behind
      BY <1>7 DEF Sequential, behind
    <2>2. Visit /\ GoodPoint(behind)
      BY <1>0, <2>1
    <2>3. ASSUME NEW q, q = behind PROVE Reached(q)'
      BY <2>1, <2>2, <2>3, GoodIsPoint DEF Reached
    <2>4. ASSUME NEW q, LeadsTo(point, q) PROVE q = behind
      BY <2>1, <2>4, FlowLeads DEF behind
    <2> QED
      BY <2>1, <2>2, <2>3, <2>4, VisitCloses
  <1>8. CASE StackReturn
    <2>1. /\ VisitDecoded({"return"}) /\ KnowsReturn(point) /\ queue' = queue
          /\ point' = Returned(point)
      BY <1>8 DEF StackReturn, Returned
    <2>2. Visit /\ GoodPoint(Returned(point))
      BY <1>0, <2>1, ReturnedIsGood
    <2>3. ASSUME NEW q, LeadsTo(point, q) PROVE point' = q
      BY <2>1, <2>3, FlowLeads
    <2>4. ASSUME NEW q, LeadsTo(point, q) PROVE Reached(q)'
      BY <2>1, <2>2, <2>3, <2>4, GoodIsPoint DEF Reached
    <2> QED
      BY <2>1, <2>2, <2>4, VisitCloses
  <1>9. CASE EndPath
    <2>1. /\ VisitDecoded({"return", "indirect_jump", "trap", "stop"}) /\ ~KnowsReturn(point)
          /\ queue' = queue
      BY <1>9 DEF EndPath
    <2>2. Visit
      BY <1>0, <2>1
    <2>3. \A q : ~LeadsTo(point, q)
      BY <2>1, FlowLeads
    <2> QED
      BY <2>1, <2>2, <2>3, VisitCloses
  <1> QED
    BY <1>1, <1>2, <1>3, <1>4, <1>5, <1>6, <1>7, <1>8, <1>9 DEF AnalyzerNext

LEMMA InitCloses == AnalyzerInit => Closed
  <1> SUFFICES ASSUME AnalyzerInit PROVE Closed
    OBVIOUS
  <1>1. visited = <<>> /\ \A p : ~AlreadyVisited(p)
    BY DEF AnalyzerInit, AlreadyVisited
  <1>2. PICK d \in Garbage :
          queue = <<Point(program.entry,
                          IF kind = "reset" THEN ResetState ELSE InterruptState,
                          <<>>, d, FALSE)>>
    BY DEF AnalyzerInit
  <1> DEFINE p == Point(program.entry,
                        IF kind = "reset" THEN ResetState ELSE InterruptState, <<>>, d, FALSE)
  <1>3. /\ p.address = program.entry /\ ~p.known
        /\ p.state = IF kind = "reset" THEN ResetState ELSE InterruptState
    BY DEF Point
  <1>4. queue = <<p>> /\ head = 0
    BY <1>2 DEF AnalyzerInit
  <1> HIDE DEF p
  <1>5. 1 \in (head + 1)..Len(queue) /\ queue[1] = p
    BY <1>4
  <1>6. Reached(p)
    BY <1>5 DEF Reached
  <1> QED
    BY <1>1, <1>3, <1>6 DEF Closed, IsEntry

LEMMA StutterCloses ==
  ASSUME Closed, UNCHANGED analyzerVars
  PROVE  Closed'
  <1>1. UNCHANGED <<program, kind, follow, queue, head, visited, point>>
    BY DEF analyzerVars
  <1>2. \A p, q : LeadsTo(p, q)' <=> LeadsTo(p, q)
    BY <1>1, LeadsToStays
  <1>3. \A q : Reached(q)' <=> Reached(q)
    BY <1>1 DEF Reached, AlreadyVisited
  <1> QED
    BY <1>1, <1>2, <1>3 DEF Closed, IsEntry, WithinLimit, AlreadyVisited, GoodPoint, WordsWithinDepth

-----------------------------------------------------------------------------
(* The graph has the edges of every visit. *)

(* There is an edge from the state s at a to the state t at b. *)
Linked(a, s, b, t) ==
  \E i \in DOMAIN edges : /\ edges[i].from.address = a /\ edges[i].from.state = s
                           /\ edges[i].to.address = b /\ edges[i].to.state = t

(* ... also into a callee that is not walked. *)
CallsInto(p) == Decodes(mem, p.address, p.state) /\ Flow(mem[p.address]) = "call"

Drawn ==
  /\ \A p, q : AlreadyVisited(p) /\ LeadsTo(p, q) =>
                 Linked(p.address, p.state, q.address, q.state)
  /\ \A p : AlreadyVisited(p) /\ CallsInto(p) =>
              Linked(p.address, p.state, Target(p), StateAfter(p))

(* There is room for every edge, and what was recorded stays. *)
LEMMA RecordedKeeps ==
  ASSUME Counted, WithinLimit, Len(visited) \in Nat,
         NEW new \in Seq(EdgeType), Len(new) <= 2, edges' = Recorded(new)
  PROVE  /\ \A i \in DOMAIN edges : i \in DOMAIN edges' /\ edges'[i] = edges[i]
         /\ \A j \in DOMAIN new : \E i \in DOMAIN edges' : edges'[i] = new[j]
  <1>1. /\ edges \in Seq(EdgeType) /\ Len(edges) \in Nat /\ Len(new) \in Nat
        /\ Len(edges) + Len(new) <= EdgeCapacity
    BY AnalyzerAssumption DEF Counted, WithinLimit, EdgeCapacity
  <1> DEFINE all == edges \o new
  <1>2. /\ all \in Seq(EdgeType) /\ Len(all) = Len(edges) + Len(new)
        /\ \A i \in 1..Len(edges) : all[i] = edges[i]
        /\ \A j \in 1..Len(new) : all[Len(edges) + j] = new[j]
    BY <1>1
  <1>3. edges' = SubSeq(all, 1, Len(all))
    BY <1>1, <1>2 DEF Recorded
  <1> HIDE DEF all
  <1>4. DOMAIN edges' = 1..Len(all) /\ \A i \in 1..Len(all) : edges'[i] = all[i]
    BY <1>2, <1>3
  <1>5. DOMAIN edges = 1..Len(edges) /\ DOMAIN new = 1..Len(new)
    BY <1>1
  <1>6. ASSUME NEW j \in DOMAIN new PROVE \E i \in DOMAIN edges' : edges'[i] = new[j]
    <2>1. Len(edges) + j \in 1..Len(all)
      BY <1>1, <1>2, <1>5
    <2> QED
      BY <1>2, <1>4, <1>5, <2>1
  <1> QED
    BY <1>1, <1>2, <1>4, <1>5, <1>6

LEMMA LinkedStays ==
  ASSUME \A i \in DOMAIN edges : i \in DOMAIN edges' /\ edges'[i] = edges[i],
         NEW a, NEW s, NEW b, NEW t, Linked(a, s, b, t)
  PROVE  Linked(a, s, b, t)'
  BY DEF Linked

LEMMA CallsIntoStays ==
  ASSUME program' = program, NEW p
  PROVE  /\ CallsInto(p)' <=> CallsInto(p)
         /\ Target(p)' = Target(p) /\ StateAfter(p)' = StateAfter(p)
  BY DEF CallsInto, mem, StateAfter, Target, OperandOf

(* A visit that records an edge to everything it leads to. *)
LEMMA VisitDraws ==
  ASSUME TypeInv, Counted, Drawn, Visit, NEW new \in Seq(EdgeType), Len(new) <= 2,
         edges' = Recorded(new),
         \A q : LeadsTo(point, q) => \E j \in DOMAIN new :
                  /\ new[j].from.address = point.address /\ new[j].from.state = point.state
                  /\ new[j].to.address = q.address /\ new[j].to.state = q.state,
         CallsInto(point) => \E j \in DOMAIN new :
                  /\ new[j].from.address = point.address /\ new[j].from.state = point.state
                  /\ new[j].to.address = Target(point) /\ new[j].to.state = StateAfter(point)
  PROVE  Drawn'
  <1>1. /\ visited \in Seq(PointType) /\ point \in PointType /\ WithinLimit
        /\ visited' = Append(visited, point) /\ UNCHANGED <<program, kind, follow>>
        /\ Len(visited) \in Nat
    BY VisitFacts DEF Visit, TypeInv, AnalyzerTypeOK, GoodPoint, inputVars
  <1>2. \A p : AlreadyVisited(p)' => AlreadyVisited(p) \/ p = point
    BY <1>1 DEF AlreadyVisited
  <1>3. /\ \A i \in DOMAIN edges : i \in DOMAIN edges' /\ edges'[i] = edges[i]
        /\ \A j \in DOMAIN new : \E i \in DOMAIN edges' : edges'[i] = new[j]
    BY <1>1, RecordedKeeps
  <1>4. ASSUME NEW p, NEW q, AlreadyVisited(p)', LeadsTo(p, q)'
        PROVE  Linked(p.address, p.state, q.address, q.state)'
    <2>1. LeadsTo(p, q)
      BY <1>1, <1>4, LeadsToStays
    <2>2. CASE p = point
      BY <1>3, <2>1, <2>2 DEF Linked
    <2>3. CASE AlreadyVisited(p)
      <3>1. Linked(p.address, p.state, q.address, q.state)
        BY <2>1, <2>3 DEF Drawn
      <3> QED
        BY <1>3, <3>1, LinkedStays
    <2> QED
      BY <1>2, <1>4, <2>2, <2>3
  <1>5. ASSUME NEW p, AlreadyVisited(p)', CallsInto(p)'
        PROVE  Linked(p.address, p.state, Target(p), StateAfter(p))'
    <2>1. CallsInto(p) /\ Target(p)' = Target(p) /\ StateAfter(p)' = StateAfter(p)
      BY <1>1, <1>5, CallsIntoStays
    <2>2. CASE p = point
      BY <1>3, <2>1, <2>2 DEF Linked
    <2>3. CASE AlreadyVisited(p)
      <3>1. Linked(p.address, p.state, Target(p), StateAfter(p))
        BY <2>1, <2>3 DEF Drawn
      <3> QED
        BY <1>3, <2>1, <3>1 DEF Linked
    <2> QED
      BY <1>2, <1>5, <2>2, <2>3
  <1> QED
    BY <1>4, <1>5 DEF Drawn

(* A visit that records nothing, or no visit. *)
LEMMA NothingDrawn ==
  ASSUME Drawn, edges' = edges, program' = program, follow' = follow,
         \A p : AlreadyVisited(p)' => \/ AlreadyVisited(p)
                                      \/ ~CallsInto(p) /\ \A q : ~LeadsTo(p, q)
  PROVE  Drawn'
  <1>1. \A p, q : LeadsTo(p, q)' <=> LeadsTo(p, q)
    BY LeadsToStays
  <1>2. \A a, s, b, t : Linked(a, s, b, t)' <=> Linked(a, s, b, t)
    BY DEF Linked
  <1>3. \A p : /\ CallsInto(p)' <=> CallsInto(p)
               /\ Target(p)' = Target(p) /\ StateAfter(p)' = StateAfter(p)
    BY CallsIntoStays
  <1>4. ASSUME NEW p, AlreadyVisited(p)', CallsInto(p)'
        PROVE  Linked(p.address, p.state, Target(p), StateAfter(p))'
    <2>1. Linked(p.address, p.state, Target(p), StateAfter(p))
      BY <1>3, <1>4 DEF Drawn
    <2> QED
      BY <1>3, <2>1 DEF Linked
  <1> QED
    BY <1>1, <1>2, <1>4 DEF Drawn

(* What an instruction does to the stack keeps a point good. *)
LEMMA TrackType ==
  ASSUME TypeInv, NEW p, GoodPoint(p), Decodes(mem, p.address, p.state)
  PROVE  GoodPoint(TrackStackEffect(p))
  <1>1. /\ p \in PointType /\ OperandOf(p) \in Address /\ Following(p) \in Address
    BY DecodedTypes DEF GoodPoint
  <1>2. /\ OperandOf(p) % BankSize \in Word
        /\ (Following(p) + (OperandOf(p) % BankSize)) % BankSize \in Word
    BY <1>1, BankSizeType DEF Word, Address
  <1>3. GoodPoint([p EXCEPT !.known = TRUE, !.words = <<>>, !.depth = 0])
    <2>1. <<>> \in Seq(Word) /\ Len(<<>>) = 0
      OBVIOUS
    <2> QED
      BY <2>1, NewStackType
  <1> QED
    BY <1>2, <1>3, PushType, ForgetType DEF TrackStackEffect

(* What an edge of a visit has at its ends. *)
LEMMA EdgeEnds ==
  ASSUME NEW p, NEW label
  PROVE  /\ Edge(p, label).from.address = point.address
         /\ Edge(p, label).from.state = point.state
         /\ Edge(p, label).to.address = p.address /\ Edge(p, label).to.state = p.state
  BY DEF Edge

LEMMA NextDraws ==
  ASSUME TypeInv, Counted, Drawn, AnalyzerNext
  PROVE  Drawn'
  <1> DEFINE behind == At(After(point), Following(point))
             target == At(After(point), Target(point))
  <1>0. ASSUME NEW flows, VisitDecoded(flows)
        PROVE  /\ Visit /\ GoodPoint(behind) /\ GoodPoint(target)
               /\ target.address = Target(point) /\ target.state = StateAfter(point)
               /\ Entered(point).address = Target(point)
               /\ Entered(point).state = StateAfter(point)
               /\ CallsInto(point) => Flow(Opcode) = "call" /\ Flow(Opcode) \in flows
    <2>1. Visit /\ GoodPoint(behind) /\ GoodPoint(target) /\ GoodPoint(After(point))
      BY <1>0, DecodedFacts
    <2>2. target.address = Target(point) /\ target.state = StateAfter(point)
      <3>1. After(point).state = StateAfter(point)
        <4>1. After(point) = [TrackStackEffect(point) EXCEPT !.state = StateAfter(point)]
          BY DEF After
        <4>2. TrackStackEffect(point) \in PointType
          BY <1>0, TrackType, <2>1, VisitFacts DEF VisitDecoded, GoodPoint
        <4> QED
          BY <4>1, <4>2 DEF PointType
      <3> QED
        BY <2>1, <3>1 DEF At, GoodPoint, PointType
    <2>3. Entered(point).address = target.address /\ Entered(point).state = target.state
      BY <2>1 DEF Entered, Forget, GoodPoint, PointType
    <2>4. CallsInto(point) => Flow(Opcode) = "call" /\ Flow(Opcode) \in flows
      BY <1>0 DEF CallsInto, VisitDecoded, Opcode
    <2> QED
      BY <2>1, <2>2, <2>3, <2>4
  <1>k. "taken" \in EdgeKinds /\ "next" \in EdgeKinds /\ "call" \in EdgeKinds
        /\ "stack return" \in EdgeKinds /\ "jump" \in EdgeKinds
    BY DEF EdgeKinds
  <1>1. CASE TakePath
    BY <1>1, NothingDrawn DEF TakePath, inputVars, AlreadyVisited
  <1>2. CASE LeavePath
    BY <1>2, NothingDrawn DEF LeavePath, inputVars, AlreadyVisited
  <1> HIDE DEF behind, target
  <1>v. ASSUME Visit
        PROVE  \A p : AlreadyVisited(p)' => AlreadyVisited(p) \/ p = point
    BY <1>v DEF Visit, TypeInv, AnalyzerTypeOK, AlreadyVisited
  <1>3. CASE Blocked
    <2>1. Visit /\ edges' = edges /\ ~Decodes(mem, point.address, point.state)
      BY <1>3 DEF Blocked
    <2> QED
      BY <1>v, <2>1, NothingDrawn DEF Visit, inputVars, LeadsTo, CallsInto
  <1>4. CASE Conditional
    <2>1. /\ VisitDecoded({"conditional"})
          /\ edges' = Recorded(<<Edge(target, "taken"), Edge(behind, "next")>>)
      BY <1>4 DEF Conditional, behind, target
    <2> DEFINE new == <<Edge(target, "taken"), Edge(behind, "next")>>
    <2>2. Edge(target, "taken") \in EdgeType /\ Edge(behind, "next") \in EdgeType
      BY <1>0, <1>k, <2>1, VisitEdge
    <2>3. new \in Seq(EdgeType) /\ Len(new) <= 2 /\ 1 \in DOMAIN new /\ 2 \in DOMAIN new
          /\ new[1] = Edge(target, "taken") /\ new[2] = Edge(behind, "next")
      BY <2>2
    <2> HIDE DEF new
    <2>4. ASSUME NEW q, LeadsTo(point, q) PROVE q = behind \/ q = target
      BY <2>1, <2>4, FlowLeads DEF behind, target
    <2>5. Visit /\ ~CallsInto(point) /\ edges' = Recorded(new)
      BY <1>0, <2>1 DEF new
    <2>6. Drawn'
      BY <2>3, <2>4, <2>5, EdgeEnds, VisitDraws
    <2> QED
      BY <2>6
  <1>5. CASE Direct
    <2> DEFINE label == IF Flow(Opcode) = "jump" THEN "jump" ELSE "taken"
    <2>1. /\ VisitDecoded({"branch", "jump"}) /\ edges' = Recorded(<<Edge(target, label)>>)
      BY <1>5 DEF Direct, target
    <2>2. label \in EdgeKinds
      BY <1>k
    <2> HIDE DEF label
    <2> DEFINE new == <<Edge(target, label)>>
    <2>3. Edge(target, label) \in EdgeType
      BY <1>0, <2>1, <2>2, VisitEdge
    <2>4. new \in Seq(EdgeType) /\ Len(new) <= 2 /\ 1 \in DOMAIN new /\ new[1] = Edge(target, label)
      BY <2>3
    <2> HIDE DEF new
    <2>5. ASSUME NEW q, LeadsTo(point, q) PROVE q = target
      BY <2>1, <2>5, FlowLeads DEF target
    <2>6. Visit /\ ~CallsInto(point) /\ edges' = Recorded(new)
      BY <1>0, <2>1 DEF new
    <2> QED
      BY <2>4, <2>5, <2>6, EdgeEnds, VisitDraws
  <1>6. CASE Call
    <2>1. /\ VisitDecoded({"call"})
          /\ edges' = Recorded(<<Edge(target, "call"), Edge(behind, "next")>>)
      BY <1>6 DEF Call, behind, target
    <2> DEFINE new == <<Edge(target, "call"), Edge(behind, "next")>>
    <2>2. Edge(target, "call") \in EdgeType /\ Edge(behind, "next") \in EdgeType
      BY <1>0, <1>k, <2>1, VisitEdge
    <2>3. new \in Seq(EdgeType) /\ Len(new) <= 2 /\ 1 \in DOMAIN new /\ 2 \in DOMAIN new
          /\ new[1] = Edge(target, "call") /\ new[2] = Edge(behind, "next")
      BY <2>2
    <2> HIDE DEF new
    <2>4. ASSUME NEW q, LeadsTo(point, q)
          PROVE  \/ q = behind
                 \/ q.address = target.address /\ q.state = target.state
      BY <1>0, <2>1, <2>4, FlowLeads DEF behind
    <2>5. /\ Visit /\ target.address = Target(point) /\ target.state = StateAfter(point)
          /\ edges' = Recorded(new)
      BY <1>0, <2>1 DEF new
    <2> QED
      BY <2>3, <2>4, <2>5, EdgeEnds, VisitDraws
  <1>7. CASE Sequential
    <2>1. /\ VisitDecoded({"next", "indirect_call"})
          /\ edges' = Recorded(<<Edge(behind, "next")>>)
      BY <1>7 DEF Sequential, behind
    <2> DEFINE new == <<Edge(behind, "next")>>
    <2>2. Edge(behind, "next") \in EdgeType
      BY <1>0, <1>k, <2>1, VisitEdge
    <2>3. new \in Seq(EdgeType) /\ Len(new) <= 2 /\ 1 \in DOMAIN new
          /\ new[1] = Edge(behind, "next")
      BY <2>2
    <2> HIDE DEF new
    <2>4. ASSUME NEW q, LeadsTo(point, q) PROVE q = behind
      BY <2>1, <2>4, FlowLeads DEF behind
    <2>5. Visit /\ ~CallsInto(point) /\ edges' = Recorded(new)
      BY <1>0, <2>1 DEF new
    <2>6. Drawn'
      BY <2>3, <2>4, <2>5, EdgeEnds, VisitDraws
    <2> QED
      BY <2>6
  <1>8. CASE StackReturn
    <2>1. /\ VisitDecoded({"return"}) /\ KnowsReturn(point)
      BY <1>8 DEF StackReturn
    <2>2. PICK label \in EdgeKinds : edges' = Recorded(<<Edge(Returned(point), label)>>)
      BY <1>k, <1>8, Zenon DEF StackReturn, Returned
    <2>3. GoodPoint(Returned(point))
      BY <2>1, ReturnedIsGood
    <2>4. Edge(Returned(point), label) \in EdgeType
      BY <2>1, <2>3, VisitEdge
    <2> DEFINE new == <<Edge(Returned(point), label)>>
    <2>5. new \in Seq(EdgeType) /\ Len(new) <= 2 /\ 1 \in DOMAIN new
          /\ new[1] = Edge(Returned(point), label)
      BY <2>4
    <2> HIDE DEF new
    <2>6. ASSUME NEW q, LeadsTo(point, q) PROVE q = Returned(point)
      BY <2>1, <2>6, FlowLeads
    <2>7. Visit /\ ~CallsInto(point) /\ edges' = Recorded(new)
      BY <1>0, <2>1, <2>2 DEF new
    <2> QED
      BY <2>5, <2>6, <2>7, EdgeEnds, VisitDraws
  <1>9. CASE EndPath
    <2>1. /\ VisitDecoded({"return", "indirect_jump", "trap", "stop"}) /\ ~KnowsReturn(point)
          /\ edges' = edges
      BY <1>9 DEF EndPath
    <2>2. Visit /\ ~CallsInto(point)
      BY <1>0, <2>1
    <2>3. \A q : ~LeadsTo(point, q)
      BY <2>1, FlowLeads
    <2> QED
      BY <1>v, <2>1, <2>2, <2>3, NothingDrawn DEF Visit, inputVars
  <1> QED
    BY <1>1, <1>2, <1>3, <1>4, <1>5, <1>6, <1>7, <1>8, <1>9 DEF AnalyzerNext

LEMMA InitDraws == AnalyzerInit => Drawn
  BY DEF AnalyzerInit, Drawn, AlreadyVisited

LEMMA StutterDraws ==
  ASSUME Drawn, UNCHANGED analyzerVars
  PROVE  Drawn'
  BY NothingDrawn DEF analyzerVars, AlreadyVisited

-----------------------------------------------------------------------------
(* What is known once the walk is complete. *)

WalkInv == TypeInv /\ Counted /\ Closed /\ Drawn

LEMMA WalkStaysInv ==
  ASSUME WalkInv, [AnalyzerNext]_analyzerVars
  PROVE  WalkInv'
  <1>1. CASE AnalyzerNext
    BY <1>1, NextTypeInv, NextCounted, NextCloses, NextDraws DEF WalkInv
  <1>2. CASE UNCHANGED analyzerVars
    <2>1. Counted'
      BY <1>2 DEF WalkInv, analyzerVars, Counted
    <2> QED
      BY <1>2, <2>1, StutterTypeInv, StutterCloses, StutterDraws DEF WalkInv
  <1> QED
    BY <1>1, <1>2

LEMMA InitWalkInv == AnalyzerInit => WalkInv
  BY InitTypeInv, InitCounted, InitCloses, InitDraws DEF WalkInv

(* A completed walk has visited everything that it leads to. *)
LEMMA CompleteIsClosed ==
  ASSUME WalkInv, Complete
  PROVE  /\ \A p, q : AlreadyVisited(p) /\ LeadsTo(p, q) => AlreadyVisited(q)
         /\ \E q : IsEntry(q) /\ AlreadyVisited(q)
         /\ \A p : AlreadyVisited(p) => GoodPoint(p)
  <1>1. point = NoPoint /\ head = Len(queue) /\ WithinLimit /\ Len(queue) \in Nat
    BY DEF Complete, Finished, WalkInv, TypeInv, AnalyzerTypeOK
  <1>2. \A q : Reached(q) => AlreadyVisited(q)
    BY <1>1 DEF Reached
  <1>3. \A p, q : AlreadyVisited(p) /\ LeadsTo(p, q) => AlreadyVisited(q)
    BY <1>1, <1>2, Zenon DEF WalkInv, Closed
  <1>4. \E q : IsEntry(q) /\ AlreadyVisited(q)
    BY <1>1, <1>2, Zenon DEF WalkInv, Closed
  <1>5. \A p : AlreadyVisited(p) => GoodPoint(p)
    BY DEF WalkInv, Closed
  <1> QED
    BY <1>3, <1>4, <1>5

(* ... and does not go on. *)
LEMMA CompleteIsOver ==
  ASSUME WalkInv, Complete
  PROVE  ~AnalyzerNext
  BY DEF WalkInv, TypeInv, AnalyzerTypeOK, Complete, Finished, AnalyzerNext, TakePath, LeavePath,
         Blocked, Conditional, Direct, Call, Sequential, StackReturn, EndPath, VisitDecoded, Visit
-----------------------------------------------------------------------------
(* The bits. *)

Normal(f) == f.e = 1 => f.m = 1 /\ f.x = 1

LEMMA AgreesIs ==
  ASSUME NEW s, NEW f
  PROVE  Agrees(s, f) <=> /\ s.e \in {f.e, Unknown} /\ s.m \in {f.m, Unknown}
                          /\ s.x \in {f.x, Unknown} /\ s.c \in {f.c, Unknown}
  BY DEF Agrees

LEMMA NormalizedIs ==
  ASSUME NEW f \in AllFlags
  PROVE  /\ Normalized(f) \in AllFlags /\ Normal(Normalized(f))
         /\ Normalized(f).e = f.e /\ Normalized(f).c = f.c
         /\ Normalized(f).m = (IF f.e = 1 THEN 1 ELSE f.m)
         /\ Normalized(f).x = (IF f.e = 1 THEN 1 ELSE f.x)
  BY DEF Normalized, AllFlags, Known, Normal

(* Under emulation both widths are known; if it is not known whether there *)
(* is emulation, a width is only known when it is 1 anyway.                *)
LEMMA EmulationAgrees ==
  ASSUME NEW s \in DecodeState, NEW f \in AllFlags, Agrees(s, f)
  PROVE  Agrees(UnderEmulation(s), Normalized(f))
  <1> DEFINE Width(w) == CASE s.e = 1                -> 1
                           [] s.e = Unknown /\ w # 1 -> Unknown
                           [] OTHER                  -> w
  <1>1. UnderEmulation(s) = [s EXCEPT !.m = Width(s.m), !.x = Width(s.x)]
    BY DEF UnderEmulation
  <1>2. /\ s.e \in {f.e, Unknown} /\ s.m \in {f.m, Unknown}
        /\ s.x \in {f.x, Unknown} /\ s.c \in {f.c, Unknown}
    BY AgreesIs
  <1>3. f.e \in Known /\ f.m \in Known /\ f.x \in Known
    BY DEF AllFlags
  <1>4. /\ Width(s.m) \in {IF f.e = 1 THEN 1 ELSE f.m, Unknown}
        /\ Width(s.x) \in {IF f.e = 1 THEN 1 ELSE f.x, Unknown}
    BY <1>2, <1>3 DEF Known, Unknown
  <1> HIDE DEF Width
  <1>5. /\ UnderEmulation(s).e = s.e /\ UnderEmulation(s).c = s.c
        /\ UnderEmulation(s).m = Width(s.m) /\ UnderEmulation(s).x = Width(s.x)
    BY <1>1 DEF DecodeState
  <1> QED
    BY <1>2, <1>4, <1>5, AgreesIs, NormalizedIs

(* The bits that REP and SEP name take a value, the others stay. *)
LEMMA NamedBits ==
  ASSUME NEW s \in DecodeState, NEW c, NEW m, NEW x, NEW u, NEW v, NEW w
  PROVE  LET t == [s EXCEPT !.c = IF c THEN u ELSE @, !.m = IF m THEN v ELSE @,
                            !.x = IF x THEN w ELSE @]
         IN  /\ t.e = s.e /\ t.c = (IF c THEN u ELSE s.c)
             /\ t.m = (IF m THEN v ELSE s.m) /\ t.x = (IF x THEN w ELSE s.x)
  BY DEF DecodeState

LEMMA RepAgrees ==
  ASSUME NEW s \in DecodeState, NEW f \in AllFlags, Normal(f), Agrees(s, f), NEW o
  PROVE  Agrees(RepState(s, o),
                Normalized([f EXCEPT !.c = IF Names(o, 1) THEN 0 ELSE @,
                                     !.m = IF Names(o, 32) THEN 0 ELSE @,
                                     !.x = IF Names(o, 16) THEN 0 ELSE @]))
  <1> DEFINE g == [f EXCEPT !.c = IF Names(o, 1) THEN 0 ELSE @,
                            !.m = IF Names(o, 32) THEN 0 ELSE @,
                            !.x = IF Names(o, 16) THEN 0 ELSE @]
             t == RepState(s, o)
  <1>1. /\ s.e \in {f.e, Unknown} /\ s.m \in {f.m, Unknown}
        /\ s.x \in {f.x, Unknown} /\ s.c \in {f.c, Unknown}
    BY AgreesIs
  <1>2. f.e \in Known /\ f.m \in Known /\ f.x \in Known /\ f.c \in Known
    BY DEF AllFlags
  <1>3. /\ g \in AllFlags
        /\ g.e = f.e /\ g.c = (IF Names(o, 1) THEN 0 ELSE f.c)
        /\ g.m = (IF Names(o, 32) THEN 0 ELSE f.m)
        /\ g.x = (IF Names(o, 16) THEN 0 ELSE f.x)
    <2> DEFINE c == IF Names(o, 1) THEN 0 ELSE f.c
               m == IF Names(o, 32) THEN 0 ELSE f.m
               x == IF Names(o, 16) THEN 0 ELSE f.x
    <2>1. c \in Known /\ m \in Known /\ x \in Known
      BY <1>2 DEF Known
    <2>2. g = [f EXCEPT !.c = c, !.m = m, !.x = x]
      OBVIOUS
    <2> HIDE DEF g, c, m, x
    <2>3. g \in AllFlags /\ g.e = f.e /\ g.c = c /\ g.m = m /\ g.x = x
      BY <2>1, <2>2 DEF AllFlags
    <2> QED
      BY <2>3 DEF c, m, x
  <1>4. /\ t.e = s.e /\ t.c = (IF Names(o, 1) THEN 0 ELSE s.c)
        /\ t.m = (IF Names(o, 32) THEN s.e ELSE s.m)
        /\ t.x = (IF Names(o, 16) THEN s.e ELSE s.x)
    BY NamedBits DEF RepState
  <1> HIDE DEF g, t
  <1>5. /\ Normalized(g).e = g.e /\ Normalized(g).c = g.c
        /\ Normalized(g).m = (IF g.e = 1 THEN 1 ELSE g.m)
        /\ Normalized(g).x = (IF g.e = 1 THEN 1 ELSE g.x)
    BY <1>3, NormalizedIs
  <1>6. /\ t.e \in {Normalized(g).e, Unknown} /\ t.c \in {Normalized(g).c, Unknown}
    BY <1>1, <1>3, <1>4, <1>5
  <1>7. /\ t.m \in {Normalized(g).m, Unknown} /\ t.x \in {Normalized(g).x, Unknown}
    BY <1>1, <1>2, <1>3, <1>4, <1>5 DEF Normal, Known, Unknown
  <1>8. Agrees(t, Normalized(g))
    BY <1>6, <1>7, AgreesIs
  <1> QED
    BY <1>8 DEF g, t

LEMMA SepAgrees ==
  ASSUME NEW s \in DecodeState, NEW f \in AllFlags, Normal(f), Agrees(s, f), NEW o
  PROVE  Agrees(SepState(s, o),
                Normalized([f EXCEPT !.c = IF Names(o, 1) THEN 1 ELSE @,
                                     !.m = IF Names(o, 32) THEN 1 ELSE @,
                                     !.x = IF Names(o, 16) THEN 1 ELSE @]))
  <1> DEFINE g == [f EXCEPT !.c = IF Names(o, 1) THEN 1 ELSE @,
                            !.m = IF Names(o, 32) THEN 1 ELSE @,
                            !.x = IF Names(o, 16) THEN 1 ELSE @]
             t == SepState(s, o)
  <1>1. /\ s.e \in {f.e, Unknown} /\ s.m \in {f.m, Unknown}
        /\ s.x \in {f.x, Unknown} /\ s.c \in {f.c, Unknown}
    BY AgreesIs
  <1>2. f.e \in Known /\ f.m \in Known /\ f.x \in Known /\ f.c \in Known
    BY DEF AllFlags
  <1>3. /\ g \in AllFlags
        /\ g.e = f.e /\ g.c = (IF Names(o, 1) THEN 1 ELSE f.c)
        /\ g.m = (IF Names(o, 32) THEN 1 ELSE f.m)
        /\ g.x = (IF Names(o, 16) THEN 1 ELSE f.x)
    <2> DEFINE c == IF Names(o, 1) THEN 1 ELSE f.c
               m == IF Names(o, 32) THEN 1 ELSE f.m
               x == IF Names(o, 16) THEN 1 ELSE f.x
    <2>1. c \in Known /\ m \in Known /\ x \in Known
      BY <1>2 DEF Known
    <2>2. g = [f EXCEPT !.c = c, !.m = m, !.x = x]
      OBVIOUS
    <2> HIDE DEF g, c, m, x
    <2>3. g \in AllFlags /\ g.e = f.e /\ g.c = c /\ g.m = m /\ g.x = x
      BY <2>1, <2>2 DEF AllFlags
    <2> QED
      BY <2>3 DEF c, m, x
  <1>4. /\ t.e = s.e /\ t.c = (IF Names(o, 1) THEN 1 ELSE s.c)
        /\ t.m = (IF Names(o, 32) THEN 1 ELSE s.m)
        /\ t.x = (IF Names(o, 16) THEN 1 ELSE s.x)
    BY NamedBits DEF SepState
  <1> HIDE DEF g, t
  <1>5. /\ Normalized(g).e = g.e /\ Normalized(g).c = g.c
        /\ Normalized(g).m = (IF g.e = 1 THEN 1 ELSE g.m)
        /\ Normalized(g).x = (IF g.e = 1 THEN 1 ELSE g.x)
    BY <1>3, NormalizedIs
  <1>6. /\ t.e \in {Normalized(g).e, Unknown} /\ t.c \in {Normalized(g).c, Unknown}
    BY <1>1, <1>3, <1>4, <1>5
  <1>7. /\ t.m \in {Normalized(g).m, Unknown} /\ t.x \in {Normalized(g).x, Unknown}
    BY <1>1, <1>2, <1>3, <1>4, <1>5 DEF Normal, Known, Unknown
  <1>8. Agrees(t, Normalized(g))
    BY <1>6, <1>7, AgreesIs
  <1> QED
    BY <1>8 DEF g, t

-----------------------------------------------------------------------------
(* The return words. *)

Items == {<<"data">>, Stored} \cup ({"status"} \X AllFlags) \cup ({"bank"} \X Address)
           \cup ({"high", "low"} \X Word)

LEMMA PushedOnTop ==
  ASSUME NEW words \in Seq(Word), NEW bytes \in Seq(Items), OnTop(words, bytes), NEW w \in Word
  PROVE  OnTop(Append(words, w), bytes \o WordBytes(w))
  <1> DEFINE more == bytes \o WordBytes(w)
             longer == Append(words, w)
  <1>1. /\ Len(words) \in Nat /\ Len(bytes) \in Nat /\ Len(longer) = Len(words) + 1
        /\ longer[Len(words) + 1] = w /\ \A i \in 1..Len(words) : longer[i] = words[i]
        /\ DOMAIN longer = 1..(Len(words) + 1) /\ DOMAIN words = 1..Len(words)
    OBVIOUS
  <1>2. /\ Len(more) = Len(bytes) + 2 /\ \A i \in 1..Len(bytes) : more[i] = bytes[i]
        /\ more[Len(bytes) + 1] = <<"high", w>> /\ more[Len(bytes) + 2] = <<"low", w>>
    BY DEF WordBytes
  <1> HIDE DEF more, longer
  <1>3. 2 * Len(longer) <= Len(more)
    BY <1>1, <1>2 DEF OnTop
  <1>4. ASSUME NEW i \in DOMAIN longer
        PROVE  LET low == Len(more) - 2 * (Len(longer) - i)
               IN  /\ more[low - 1] \in {<<"high", longer[i]>>, Stored}
                   /\ more[low] \in {<<"low", longer[i]>>, Stored}
    <2>1. CASE i = Len(words) + 1
      <3>1. Len(more) - 2 * (Len(longer) - i) = Len(bytes) + 2
        BY <1>1, <1>2, <2>1
      <3>2. (Len(bytes) + 2) - 1 = Len(bytes) + 1 /\ longer[i] = w
        BY <1>1, <2>1
      <3> QED
        BY <1>2, <3>1, <3>2
    <2>2. CASE i \in DOMAIN words
      <3> DEFINE low == Len(bytes) - 2 * (Len(words) - i)
      <3>1. /\ bytes[low - 1] \in {<<"high", words[i]>>, Stored}
            /\ bytes[low] \in {<<"low", words[i]>>, Stored}
        BY <2>2 DEF OnTop
      <3>2. low = Len(more) - 2 * (Len(longer) - i) /\ low \in 1..Len(bytes)
            /\ low - 1 \in 1..Len(bytes)
        <4>1. 2 * Len(words) <= Len(bytes)
          BY DEF OnTop
        <4> QED
          BY <1>1, <1>2, <2>2, <4>1
      <3> HIDE DEF low
      <3>3. more[low - 1] = bytes[low - 1] /\ more[low] = bytes[low] /\ longer[i] = words[i]
        BY <1>1, <1>2, <2>2, <3>2
      <3>4. /\ more[low - 1] \in {<<"high", longer[i]>>, Stored}
            /\ more[low] \in {<<"low", longer[i]>>, Stored}
        BY <3>1, <3>3
      <3> QED
        BY <3>2, <3>4
    <2> QED
      BY <1>1, <2>1, <2>2
  <1> QED
    BY <1>3, <1>4 DEF OnTop, more, longer

LEMMA PoppedFromTop ==
  ASSUME NEW words \in Seq(Word), NEW bytes \in Seq(Items), OnTop(words, bytes), words # <<>>
  PROVE  /\ Len(bytes) >= 2
         /\ bytes[Len(bytes) - 1] \in {<<"high", words[Len(words)]>>, Stored}
         /\ bytes[Len(bytes)] \in {<<"low", words[Len(words)]>>, Stored}
         /\ OnTop(SubSeq(words, 1, Len(words) - 1), SubSeq(bytes, 1, Len(bytes) - 2))
  <1> DEFINE less == SubSeq(bytes, 1, Len(bytes) - 2)
             fewer == SubSeq(words, 1, Len(words) - 1)
  <1>1. /\ Len(words) \in Nat \ {0} /\ Len(bytes) \in Nat /\ DOMAIN words = 1..Len(words)
        /\ 2 * Len(words) <= Len(bytes)
    BY DEF OnTop
  <1>2. /\ Len(bytes) >= 2 /\ bytes[Len(bytes) - 1] \in {<<"high", words[Len(words)]>>, Stored}
        /\ bytes[Len(bytes)] \in {<<"low", words[Len(words)]>>, Stored}
    <2>1. /\ Len(words) \in DOMAIN words /\ Len(words) - Len(words) = 0
          /\ Len(bytes) - 2 * 0 = Len(bytes)
      BY <1>1
    <2>2. /\ bytes[Len(bytes) - 2 * (Len(words) - Len(words)) - 1]
               \in {<<"high", words[Len(words)]>>, Stored}
          /\ bytes[Len(bytes) - 2 * (Len(words) - Len(words))]
               \in {<<"low", words[Len(words)]>>, Stored}
      BY <2>1 DEF OnTop
    <2> QED
      BY <1>1, <2>1, <2>2
  <1>3. /\ Len(fewer) = Len(words) - 1 /\ \A i \in 1..(Len(words) - 1) : fewer[i] = words[i]
        /\ DOMAIN fewer = 1..(Len(words) - 1)
    BY <1>1
  <1>4. Len(less) = Len(bytes) - 2 /\ \A i \in 1..(Len(bytes) - 2) : less[i] = bytes[i]
    <2> DEFINE n == Len(bytes) - 2
    <2>1. n \in Nat /\ n <= Len(bytes)
      BY <1>1, <1>2
    <2> HIDE DEF n
    <2>2. \A i \in 1..n : i \in 1..Len(bytes)
      BY <1>1, <2>1
    <2>3. Len(SubSeq(bytes, 1, n)) = n /\ \A i \in 1..n : SubSeq(bytes, 1, n)[i] = bytes[i]
      BY <2>1, <2>2
    <2> QED
      BY <2>3 DEF n
  <1> HIDE DEF less, fewer
  <1>5. 2 * Len(fewer) <= Len(less)
    BY <1>1, <1>3, <1>4
  <1>6. ASSUME NEW i \in DOMAIN fewer
        PROVE  LET low == Len(less) - 2 * (Len(fewer) - i)
               IN  /\ less[low - 1] \in {<<"high", fewer[i]>>, Stored}
                   /\ less[low] \in {<<"low", fewer[i]>>, Stored}
    <2> DEFINE low == Len(bytes) - 2 * (Len(words) - i)
    <2>1. i \in DOMAIN words
      BY <1>1, <1>3
    <2>2. /\ bytes[low - 1] \in {<<"high", words[i]>>, Stored}
          /\ bytes[low] \in {<<"low", words[i]>>, Stored}
      BY <2>1 DEF OnTop
    <2>3. low = Len(less) - 2 * (Len(fewer) - i) /\ low \in 1..(Len(bytes) - 2)
          /\ low - 1 \in 1..(Len(bytes) - 2)
      BY <1>1, <1>3, <1>4
    <2> HIDE DEF low
    <2> QED
      BY <1>3, <1>4, <2>2, <2>3
  <1> QED
    BY <1>2, <1>5, <1>6 DEF OnTop, less, fewer

LEMMA NothingOnTop ==
  ASSUME NEW bytes, Len(bytes) \in Nat
  PROVE  OnTop(<<>>, bytes)
  BY DEF OnTop

(* Stores leave the words where they are, each byte as it was or stored    *)
(* over.                                                                   *)
LEMMA StoredOnTop ==
  ASSUME NEW words \in Seq(Word), NEW before \in Seq(Items), NEW after \in Seq(Items),
         OnTop(words, before), StoredInto(before, after)
  PROVE  OnTop(words, after)
  <1>1. /\ Len(words) \in Nat /\ Len(before) \in Nat /\ DOMAIN words = 1..Len(words)
        /\ DOMAIN after = 1..Len(after) /\ Len(after) = Len(before)
        /\ 2 * Len(words) <= Len(before)
        /\ \A i \in 1..Len(after) : after[i] \in {before[i], Stored}
    BY DEF OnTop, StoredInto
  <1>2. ASSUME NEW i \in DOMAIN words
        PROVE  LET low == Len(after) - 2 * (Len(words) - i)
               IN  /\ after[low - 1] \in {<<"high", words[i]>>, Stored}
                   /\ after[low] \in {<<"low", words[i]>>, Stored}
    <2> DEFINE low == Len(before) - 2 * (Len(words) - i)
    <2>1. /\ before[low - 1] \in {<<"high", words[i]>>, Stored}
          /\ before[low] \in {<<"low", words[i]>>, Stored}
      BY DEF OnTop
    <2>2. low \in 1..Len(after) /\ low - 1 \in 1..Len(after)
      BY <1>1
    <2>3. low = Len(after) - 2 * (Len(words) - i)
      BY <1>1
    <2> HIDE DEF low
    <2>4. /\ after[low - 1] \in {before[low - 1], Stored}
          /\ after[low] \in {before[low], Stored}
      BY <1>1, <2>2
    <2> QED
      BY <2>1, <2>3, <2>4
  <1> QED
    BY <1>1, <1>2 DEF OnTop

LEMMA StoredOverIs ==
  ASSUME NEW bytes \in Seq(Items), NEW hit
  PROVE  StoredOver(bytes, hit) \in Seq(Items) /\ StoredInto(bytes, StoredOver(bytes, hit))
  <1> DEFINE after == [i \in 1..Len(bytes) |-> IF i \in hit THEN Stored ELSE bytes[i]]
  <1>1. DOMAIN bytes = 1..Len(bytes) /\ Len(bytes) \in Nat /\ Stored \in Items
    BY DEF Items
  <1>2. \A i \in 1..Len(bytes) : (IF i \in hit THEN Stored ELSE bytes[i]) \in Items
    BY <1>1
  <1>3. after \in Seq(Items) /\ Len(after) = Len(bytes) /\ DOMAIN after = 1..Len(bytes)
    BY <1>1, <1>2
  <1>4. \A i \in DOMAIN after : after[i] \in {bytes[i], Stored}
    BY <1>3
  <1>5. StoredOver(bytes, hit) = after
    BY <1>1 DEF StoredOver
  <1> HIDE DEF after
  <1> QED
    BY <1>3, <1>4, <1>5 DEF StoredInto
-----------------------------------------------------------------------------
(* Fetching. *)

Frame == [next : Address, flags : AllFlags, stack : Seq(Items)]

CpuOK ==
  /\ stack \in Seq(Items)
  /\ frames \in Seq(Frame)
  /\ ~Started => stack = <<>> /\ frames = <<>>
  /\ Started => flags \in AllFlags /\ Normal(flags)

Fetches == cpu.pc \in DOMAIN mem /\ Readable(mem, cpu.pc, Fetched)

LEMMA ImageFacts ==
  ASSUME TypeInv
  PROVE  DOMAIN mem \subseteq Address /\ \A a \in DOMAIN mem : mem[a] \in Byte
  BY AnalyzerAssumption DEF TypeInv, mem, IsImage

LEMMA WordOfBytes ==
  ASSUME NEW p \in Byte, NEW q \in Byte
  PROVE  p + 256 * q \in Word
  <1>1. p + 256 * q \in Int /\ 0 <= p + 256 * q /\ p + 256 * q <= 65535
    BY TwoBytes
  <1>2. BankSize - 1 = 65535
    BY DEF BankSize
  <1> QED
    BY <1>1, <1>2, BankSizeType DEF Word

LEMMA ThreeBytes ==
  ASSUME NEW w \in Word, NEW b \in Byte
  PROVE  w + BankSize * b \in Address
  <1> DEFINE high == BankSize * b
  <1>1. w \in Int /\ 0 <= w /\ w <= BankSize - 1
    BY BankSizeType DEF Word
  <1>2. high \in Int /\ high >= BankSize * 0 /\ BankSize * 255 >= high
    BY BankSizeType, ProductGrows DEF Byte
  <1>3. BankSize - 1 + BankSize * 255 = 256 * BankSize - 1 /\ BankSize * 0 = 0
    BY DEF BankSize
  <1> HIDE DEF high
  <1>4. w + high \in Address
    BY <1>1, <1>2, <1>3, BankSizeType DEF Address
  <1> QED
    BY <1>4 DEF high

(* What the processor fetches. *)
LEMMA FetchTypes ==
  ASSUME TypeInv, Fetches
  PROVE  /\ cpu.pc \in Address /\ op \in Byte /\ Fetched \in 1..4 /\ next \in Address
         /\ Fetched >= 2 => operand8 \in Byte
         /\ Fetched >= 3 => operand16 \in Word
         /\ Fetched = 4 => operand16 + BankSize * Fetch(3) \in Address
  <1>1. cpu.pc \in Address /\ op \in Byte
    BY ImageFacts DEF Fetches, op
  <1>2. FixedLength(op) \in 1..4
    BY <1>1 DEF FixedLength
  <1>3. Fetched \in 1..4
    BY <1>2 DEF Fetched
  <1>4. next \in Address
    BY <1>1, <1>3, InBankType DEF next
  <1>5. \A i \in 0..(Fetched - 1) : Fetch(i) \in Byte
    BY ImageFacts DEF Fetches, Readable, Fetch
  <1>6. /\ Fetched >= 2 => Fetch(1) \in Byte
        /\ Fetched >= 3 => Fetch(2) \in Byte
        /\ Fetched = 4 => Fetch(3) \in Byte
    BY <1>3, <1>5
  <1>7. Fetched >= 3 => operand16 \in Word
    BY <1>3, <1>6, WordOfBytes DEF operand16
  <1>8. Fetched = 4 => operand16 + BankSize * Fetch(3) \in Address
    BY <1>3, <1>6, <1>7, ThreeBytes
  <1> QED
    BY <1>1, <1>3, <1>4, <1>6, <1>7, <1>8 DEF operand8

(* The decoder and the processor agree on the length and on the operand,   *)
(* when what the decoder knows of the bits is right.                       *)
LEMMA DecodedAlike ==
  ASSUME TypeInv, flags \in AllFlags, Normal(flags),
         NEW p, GoodPoint(p), Decodes(mem, p.address, p.state),
         p.address = cpu.pc, Agrees(p.state, flags)
  PROVE  /\ Fetches /\ mem[p.address] = op
         /\ Following(p) = next
         /\ Fetched = 2 => OperandOf(p) = operand8
         /\ Fetched = 3 => OperandOf(p) = operand16
         /\ Fetched = 4 => OperandOf(p) = operand16 + BankSize * Fetch(3)
  <1>1. mem[p.address] = op /\ cpu.pc \in DOMAIN mem /\ ~Ambiguous(op, p.state)
    BY DEF Decodes, op
  <1>2. p.state.m \in {flags.m, Unknown} /\ p.state.x \in {flags.x, Unknown}
    BY AgreesIs
  <1>3. /\ accumulator8 <=> flags.m = 1
        /\ index8 <=> flags.x = 1
        /\ flags.m \in Known /\ flags.x \in Known
    BY DEF accumulator8, index8, flags, Normal, AllFlags
  <1>4. LengthIn(op, p.state) = Fetched
    <2>1. CASE op \in ImmediateM
      BY <1>1, <1>2, <1>3, <2>1 DEF LengthIn, Fetched, Ambiguous, Known
    <2>2. CASE op \notin ImmediateM /\ op \in ImmediateX
      BY <1>1, <1>2, <1>3, <2>2 DEF LengthIn, Fetched, Ambiguous, Known
    <2>3. CASE op \notin ImmediateM /\ op \notin ImmediateX
      BY <2>3 DEF LengthIn, Fetched
    <2> QED
      BY <2>1, <2>2, <2>3
  <1>5. Fetches
    BY <1>1, <1>4 DEF Fetches, Decodes
  <1>6. Following(p) = next
    BY <1>1, <1>4 DEF Following, NextAddress, next
  <1>7. OperandOf(p) = Operand(mem, cpu.pc, Fetched)
    BY <1>1, <1>4 DEF OperandOf
  <1>8. \A i \in 0..(Fetched - 1) : Fetch(i) \in Byte
    BY <1>5, ImageFacts DEF Fetches, Readable, Fetch
  <1>9. Fetched = 2 => OperandOf(p) = operand8
    <2>1. Fetched = 2 => Fetch(1) \in Byte
      BY <1>8
    <2> QED
      BY <1>7, <2>1 DEF Operand, operand8, Fetch, Byte, BankSize
  <1>10. Fetched = 3 => OperandOf(p) = operand16
    <2>1. Fetched = 3 => Fetch(1) \in Byte /\ Fetch(2) \in Byte
      BY <1>8
    <2>2. Fetched = 3 => OperandOf(p) = operand16 + BankSize * 0
      BY <1>7 DEF Operand, operand16, Fetch
    <2>3. Fetched = 3 => operand16 + BankSize * 0 = operand16
      BY <2>1, TwoBytes, BankSizeType DEF operand16
    <2> QED
      BY <2>2, <2>3
  <1>11. Fetched = 4 => OperandOf(p) = operand16 + BankSize * Fetch(3)
    BY <1>7 DEF Operand, operand16, Fetch
  <1> QED
    BY <1>1, <1>5, <1>6, <1>9, <1>10, <1>11

(* The operand's low byte and word. *)
LEMMA LowParts ==
  /\ \A b \in Byte : b % 256 = b
  /\ \A w \in Word : w % BankSize = w
  BY DEF Byte, Word, BankSize

-----------------------------------------------------------------------------
(* Flags. *)

LEMMA FlagBits ==
  ASSUME NEW f \in AllFlags, NEW b \in Known, NEW d \in Known
  PROVE  /\ [f EXCEPT !.c = b] \in AllFlags
         /\ [f EXCEPT !.e = b] \in AllFlags
         /\ [f EXCEPT !.e = b, !.c = d] \in AllFlags
         /\ [f EXCEPT !.e = b].e = b
         /\ [f EXCEPT !.c = b].e = f.e /\ [f EXCEPT !.c = b].m = f.m
         /\ [f EXCEPT !.c = b].x = f.x /\ [f EXCEPT !.c = b].c = b
  BY DEF AllFlags

LEMMA StateBits ==
  ASSUME NEW s \in DecodeState, NEW b
  PROVE  /\ [s EXCEPT !.c = b].e = s.e /\ [s EXCEPT !.c = b].m = s.m
         /\ [s EXCEPT !.c = b].x = s.x /\ [s EXCEPT !.c = b].c = b
  BY DEF DecodeState

LEMMA CarryStays ==
  ASSUME NEW f \in AllFlags, Normal(f), NEW b \in Known
  PROVE  [f EXCEPT !.c = b] \in AllFlags /\ Normal([f EXCEPT !.c = b])
  BY FlagBits DEF Normal

LEMMA CarryAgrees ==
  ASSUME NEW s \in DecodeState, NEW f \in AllFlags, Agrees(s, f), NEW b \in Known
  PROVE  /\ Agrees([s EXCEPT !.c = b], [f EXCEPT !.c = b])
         /\ Agrees([s EXCEPT !.c = Unknown], [f EXCEPT !.c = b])
  <1> DEFINE g == [f EXCEPT !.c = b]
  <1>1. g.e = f.e /\ g.m = f.m /\ g.x = f.x /\ g.c = b
    BY FlagBits
  <1>2. /\ s.e \in {f.e, Unknown} /\ s.m \in {f.m, Unknown} /\ s.x \in {f.x, Unknown}
    BY AgreesIs
  <1> HIDE DEF g
  <1>3. ASSUME NEW d, d \in {b, Unknown}
        PROVE  Agrees([s EXCEPT !.c = d], g)
    <2> DEFINE t == [s EXCEPT !.c = d]
    <2>1. t.e = s.e /\ t.m = s.m /\ t.x = s.x /\ t.c = d
      BY StateBits
    <2> HIDE DEF t
    <2>2. Agrees(t, g)
      BY <1>1, <1>2, <1>3, <2>1, AgreesIs
    <2> QED
      BY <2>2 DEF t
  <1> QED
    BY <1>3 DEF g

LEMMA WritesOnlyCarry ==
  ASSUME op \in Byte, WritesCarry
  PROVE  ChangesCarry(op)
  BY DEF WritesCarry, ChangesCarry, Byte, ShiftsOfMemory, IndexCompares, ArithmeticRows

(* A pulled status byte can be anything but another E. *)
LEMMA PulledFlags ==
  ASSUME flags \in AllFlags, stack \in Seq(Items), NEW f \in PulledStatus
  PROVE  \E g \in AllFlags : g.e = flags.e /\ f = Normalized(g)
  <1>0. flags.e = cpu.e /\ cpu.e \in Known
    BY DEF flags, AllFlags
  <1>1. CASE stack # <<>> /\ Last(stack)[1] = "status"
    <2>1. Last(stack) \in Items
      BY <1>1 DEF Last
    <2>2. Last(stack)[2] \in AllFlags
      BY <1>1, <2>1 DEF Items, Stored
    <2> DEFINE g == [Last(stack)[2] EXCEPT !.e = cpu.e]
    <2>3. g \in AllFlags /\ g.e = cpu.e
      BY <1>0, <2>2, FlagBits
    <2>4. f = Normalized(g)
      BY <1>1 DEF PulledStatus
    <2> QED
      BY <1>0, <2>3, <2>4
  <1>2. CASE ~(stack # <<>> /\ Last(stack)[1] = "status")
    BY <1>0, <1>2 DEF PulledStatus
  <1> QED
    BY <1>1, <1>2

(* The decoder and the processor agree on every effect on the bits. *)
LEMMA FlagsAlike ==
  ASSUME flags \in AllFlags, Normal(flags), stack \in Seq(Items), op \in Byte,
         NEW f \in FlagsAfter
  PROVE  /\ f \in AllFlags /\ Normal(f)
         /\ \A s \in DecodeState : Agrees(s, flags) /\ op # 251 =>
              Agrees(Apply(s, op, operand8), f)
  <1>1. CASE op = 24
    <2>1. f = [flags EXCEPT !.c = 0] /\ 0 \in Known
      BY <1>1 DEF FlagsAfter, Known
    <2>2. \A s : Apply(s, op, operand8) = [s EXCEPT !.c = 0]
      BY <1>1 DEF Apply
    <2>3. f \in AllFlags /\ Normal(f)
      BY <2>1, CarryStays
    <2>4. \A s \in DecodeState : Agrees(s, flags) => Agrees([s EXCEPT !.c = 0], f)
      BY <2>1, CarryAgrees
    <2> QED
      BY <2>2, <2>3, <2>4
  <1>2. CASE op = 56
    <2>1. f = [flags EXCEPT !.c = 1] /\ 1 \in Known
      BY <1>2 DEF FlagsAfter, Known
    <2>2. \A s : Apply(s, op, operand8) = [s EXCEPT !.c = 1]
      BY <1>2 DEF Apply
    <2>3. f \in AllFlags /\ Normal(f)
      BY <2>1, CarryStays
    <2>4. \A s \in DecodeState : Agrees(s, flags) => Agrees([s EXCEPT !.c = 1], f)
      BY <2>1, CarryAgrees
    <2> QED
      BY <2>2, <2>3, <2>4
  <1>3. CASE op = 40
    <2>1. PICK g \in AllFlags : g.e = flags.e /\ f = Normalized(g)
      BY <1>3, PulledFlags DEF FlagsAfter
    <2>2. ASSUME NEW s \in DecodeState, Agrees(s, flags)
          PROVE  Agrees(Apply(s, op, operand8), f)
      <3> DEFINE t == [s EXCEPT !.c = Unknown, !.m = Unknown, !.x = Unknown]
      <3>1. /\ t \in DecodeState /\ t.e = s.e /\ t.m = Unknown /\ t.x = Unknown /\ t.c = Unknown
        BY DEF DecodeState, Bit
      <3>2. Apply(s, op, operand8) = UnderEmulation(t)
        BY <1>3 DEF Apply
      <3> HIDE DEF t
      <3>3. Agrees(t, g)
        BY <2>1, <2>2, <3>1, AgreesIs
      <3> QED
        BY <2>1, <3>1, <3>2, <3>3, EmulationAgrees
    <2> QED
      BY <2>1, <2>2, NormalizedIs
  <1>4. CASE op = 194
    <2> DEFINE g == [flags EXCEPT !.c = IF Names(operand8, 1) THEN 0 ELSE @,
                                  !.m = IF Names(operand8, 32) THEN 0 ELSE @,
                                  !.x = IF Names(operand8, 16) THEN 0 ELSE @]
    <2>1. f = Normalized(g)
      BY <1>4 DEF FlagsAfter, Cleared
    <2>2. \A s : Apply(s, op, operand8) = RepState(s, operand8)
      BY <1>4 DEF Apply
    <2>3. g \in AllFlags
      BY DEF AllFlags, Known
    <2>4. \A s \in DecodeState : Agrees(s, flags) => Agrees(RepState(s, operand8), Normalized(g))
      BY RepAgrees
    <2> HIDE DEF g
    <2> QED
      BY <2>1, <2>2, <2>3, <2>4, NormalizedIs
  <1>5. CASE op = 226
    <2> DEFINE g == [flags EXCEPT !.c = IF Names(operand8, 1) THEN 1 ELSE @,
                                  !.m = IF Names(operand8, 32) THEN 1 ELSE @,
                                  !.x = IF Names(operand8, 16) THEN 1 ELSE @]
    <2>1. f = Normalized(g)
      BY <1>5 DEF FlagsAfter, Raised
    <2>2. \A s : Apply(s, op, operand8) = SepState(s, operand8)
      BY <1>5 DEF Apply
    <2>3. g \in AllFlags
      BY DEF AllFlags, Known
    <2>4. \A s \in DecodeState : Agrees(s, flags) => Agrees(SepState(s, operand8), Normalized(g))
      BY SepAgrees
    <2> HIDE DEF g
    <2> QED
      BY <2>1, <2>2, <2>3, <2>4, NormalizedIs
  <1>6. CASE op \notin {24, 56, 40, 194, 226}
    <2>1. f \in IF WritesCarry THEN {[flags EXCEPT !.c = b] : b \in Known} ELSE {flags}
      BY <1>6 DEF FlagsAfter
    <2>2. \A s : op # 251 => Apply(s, op, operand8)
                             = IF ChangesCarry(op) THEN [s EXCEPT !.c = Unknown] ELSE s
      BY <1>6 DEF Apply
    <2>3. CASE WritesCarry
      <3>1. PICK b \in Known : f = [flags EXCEPT !.c = b]
        BY <2>1, <2>3
      <3>2. ChangesCarry(op)
        BY <2>3, WritesOnlyCarry
      <3>3. f \in AllFlags /\ Normal(f)
        BY <3>1, CarryStays
      <3>4. \A s \in DecodeState : Agrees(s, flags) => Agrees([s EXCEPT !.c = Unknown], f)
        BY <3>1, CarryAgrees
      <3> QED
        BY <2>2, <3>2, <3>3, <3>4
    <2>4. CASE ~WritesCarry
      <3>1. f = flags
        BY <2>1, <2>4
      <3>2. \A s \in DecodeState : Agrees(s, flags) => Agrees([s EXCEPT !.c = Unknown], flags)
        BY StateBits, AgreesIs
      <3> QED
        BY <2>2, <3>1, <3>2
    <2> QED
      BY <2>3, <2>4
  <1> QED
    BY <1>1, <1>2, <1>3, <1>4, <1>5, <1>6

(* XCE exchanges E and C. *)
LEMMA ExchangeAlike ==
  ASSUME flags \in AllFlags, NEW f, f = Normalized([flags EXCEPT !.e = cpu.c, !.c = cpu.e])
  PROVE  /\ f \in AllFlags /\ Normal(f)
         /\ \A s \in DecodeState : \A o : Agrees(s, flags) => Agrees(Apply(s, 251, o), f)
  <1> DEFINE g == [flags EXCEPT !.e = cpu.c, !.c = cpu.e]
  <1>1. cpu.c = flags.c /\ cpu.e = flags.e /\ cpu.c \in Known /\ cpu.e \in Known
    BY DEF flags, AllFlags
  <1>2. /\ g \in AllFlags /\ g.e = flags.c /\ g.c = flags.e /\ g.m = flags.m /\ g.x = flags.x
    BY <1>1 DEF AllFlags
  <1>3. f = Normalized(g)
    OBVIOUS
  <1> HIDE DEF g
  <1>4. ASSUME NEW s \in DecodeState, NEW o, Agrees(s, flags)
        PROVE  Agrees(Apply(s, 251, o), f)
    <2> DEFINE t == [s EXCEPT !.e = s.c, !.c = s.e]
    <2>1. t \in DecodeState /\ t.e = s.c /\ t.c = s.e /\ t.m = s.m /\ t.x = s.x
      BY DEF DecodeState
    <2>2. Apply(s, 251, o) = UnderEmulation(t)
      BY DEF Apply
    <2> HIDE DEF t
    <2>3. Agrees(t, g)
      BY <1>2, <1>4, <2>1, AgreesIs
    <2> QED
      BY <1>2, <1>3, <2>1, <2>2, <2>3, EmulationAgrees
  <1> QED
    BY <1>2, <1>3, <1>4, NormalizedIs
-----------------------------------------------------------------------------
(* What is claimed of the run. *)

CoversAt(p, a, f, bytes) == /\ p.address = a
                            /\ Agrees(p.state, f)
                            /\ p.known => OnTop(p.words, bytes)

CoversHere(p) == CoversAt(p, cpu.pc, flags, stack)
CoversFrame(p, k) == CoversAt(p, frames[k].next, frames[k].flags, frames[k].stack)

(* The processor is covered, and so will it be after every return that the *)
(* analyser's claim outlives.                                              *)
Here == Claimed => \E p : AlreadyVisited(p) /\ CoversHere(p)
Behind == \A k \in DOMAIN frames : follow \/ k = Len(frames) =>
            \E p : AlreadyVisited(p) /\ CoversFrame(p, k)

RunInv == WalkInv /\ CpuOK /\ (Started => Complete /\ Here /\ Behind)

(* The step is an edge of the graph. *)
Taken == \E i \in DOMAIN edges :
           /\ edges[i].from.address = cpu.pc /\ Agrees(edges[i].from.state, flags)
           /\ edges[i].to.address = cpu'.pc /\ Agrees(edges[i].to.state, flags')

LEMMA CoversHereNext ==
  ASSUME NEW q, CoversAt(q, cpu'.pc, flags', stack')
  PROVE  CoversHere(q)'
  BY DEF CoversHere, CoversAt, Agrees, OnTop, flags

LEMMA CoversFrameNext ==
  ASSUME NEW q, NEW k, NEW frame, frames'[k] = frame,
         CoversAt(q, frame.next, frame.flags, frame.stack)
  PROVE  CoversFrame(q, k)'
  BY DEF CoversFrame, CoversAt, Agrees, OnTop

LEMMA NoProcessor ==
  ASSUME NEW a, NEW f
  PROVE  WithFlags(a, f) # NoCpu
  BY DEF WithFlags, NoCpu

LEMMA WithFlagsIs ==
  ASSUME NEW a, NEW f \in AllFlags, cpu' = WithFlags(a, f)
  PROVE  /\ Started' /\ cpu'.pc = a /\ flags' = f
         /\ flags' \in AllFlags /\ (Normal(f) => Normal(flags)')
  <1>1. cpu'.pc = a /\ flags' = f
    BY DEF WithFlags, flags, AllFlags
  <1>2. Started'
    BY NoProcessor DEF Started
  <1> QED
    BY <1>1, <1>2 DEF Normal

LEMMA AnalyzerStays ==
  ASSUME UNCHANGED analyzerVars
  PROVE  /\ UNCHANGED <<program, follow, edges, visited>>
         /\ WalkInv => WalkInv'
         /\ Complete => Complete'
         /\ \A p : AlreadyVisited(p) => AlreadyVisited(p)'
  <1>1. WalkInv => WalkInv'
    BY WalkStaysInv
  <1>2. UNCHANGED <<program, follow, edges, visited, point, head, queue>>
    BY DEF analyzerVars
  <1>3. \A p : AlreadyVisited(p) => AlreadyVisited(p)'
    BY <1>2 DEF AlreadyVisited
  <1> QED
    BY <1>1, <1>2, <1>3 DEF Complete, Finished, WithinLimit

(* A visited point that describes the processor, and can be gone on from. *)
Followed(p) == /\ AlreadyVisited(p) /\ GoodPoint(p) /\ CoversHere(p)
               /\ Decodes(mem, p.address, p.state)
               /\ mem[p.address] = op
               /\ Flow(op) = "return" => KnowsReturn(p)

LEMMA ContinuesFacts ==
  ASSUME RunInv, NEW ops, Continues(ops)
  PROVE  /\ Started /\ Complete /\ Fetches /\ op \in ops /\ UNCHANGED analyzerVars
         /\ TypeInv /\ flags \in AllFlags /\ Normal(flags)
         /\ stack \in Seq(Items) /\ frames \in Seq(Frame)
         /\ Claimed => \E p : Followed(p)
  <1>1. /\ Started /\ Complete /\ Fetches /\ op \in ops /\ UNCHANGED analyzerVars
        /\ Claimed => FollowedHere
    BY DEF Continues, Executes, Fetches, RunInv
  <1>2. /\ TypeInv /\ flags \in AllFlags /\ Normal(flags)
        /\ stack \in Seq(Items) /\ frames \in Seq(Frame) /\ WalkInv
    BY <1>1 DEF RunInv, CpuOK, WalkInv
  <1>3. ASSUME Claimed PROVE \E p : Followed(p)
    <2>1. PICK i \in DOMAIN visited : Covers(visited[i]) /\ Resolved(visited[i])
      BY <1>1, <1>3 DEF FollowedHere
    <2> DEFINE p == visited[i]
    <2>2. AlreadyVisited(p)
      BY DEF AlreadyVisited
    <2>3. GoodPoint(p)
      BY <1>1, <1>2, <2>2, CompleteIsClosed
    <2>4. CoversHere(p)
      BY <2>1 DEF Covers, CoversHere, CoversAt
    <2>5. mem[p.address] = op
      BY <2>1 DEF Covers, op
    <2>6. Decodes(mem, p.address, p.state) /\ (Flow(op) = "return" => KnowsReturn(p))
      BY <2>1, <2>5 DEF Resolved
    <2> HIDE DEF p
    <2> QED
      BY <2>2, <2>3, <2>4, <2>5, <2>6 DEF Followed
  <1> QED
    BY <1>1, <1>2, <1>3

(* A step to a point that the walk was led to. *)
LEMMA GoesOn ==
  ASSUME RunInv, Started, UNCHANGED analyzerVars, NEW p, Followed(p),
         NEW q, LeadsTo(p, q), CoversAt(q, cpu'.pc, flags', stack')
  PROVE  Taken /\ \E r : AlreadyVisited(r)' /\ CoversHere(r)'
  <1>1. WalkInv /\ Complete
    BY DEF RunInv
  <1>2. AlreadyVisited(q)
    BY <1>1, CompleteIsClosed DEF Followed
  <1>3. AlreadyVisited(q)' /\ CoversHere(q)'
    BY <1>2, AnalyzerStays, CoversHereNext
  <1>4. Linked(p.address, p.state, q.address, q.state)
    BY <1>1 DEF WalkInv, Drawn, Followed
  <1>5. PICK i \in DOMAIN edges :
          /\ edges[i].from.address = p.address /\ edges[i].from.state = p.state
          /\ edges[i].to.address = q.address /\ edges[i].to.state = q.state
    BY <1>4 DEF Linked
  <1>6. Taken
    BY <1>5 DEF Taken, Followed, CoversHere, CoversAt
  <1> QED
    BY <1>3, <1>6

LEMMA SameClaims ==
  ASSUME UNCHANGED <<analyzerVars, frames>>
  PROVE  (Claimed' <=> Claimed) /\ (Behind => Behind')
  <1>1. follow' = follow /\ frames' = frames
    BY DEF analyzerVars
  <1>2. Claimed' <=> Claimed
    BY <1>1 DEF Claimed
  <1>3. ASSUME Behind, NEW k \in DOMAIN frames', (follow \/ k = Len(frames))'
        PROVE  (\E p : AlreadyVisited(p) /\ CoversFrame(p, k))'
    <2>1. PICK p : AlreadyVisited(p) /\ CoversFrame(p, k)
      BY <1>1, <1>3 DEF Behind
    <2>2. AlreadyVisited(p)' /\ CoversFrame(p, k)'
      BY <1>1, <2>1, AnalyzerStays, CoversFrameNext DEF CoversFrame
    <2> QED
      BY <2>2
  <1> QED
    BY <1>2, <1>3 DEF Behind

(* Every step that is no call and no return. *)
LEMMA StepInFrame ==
  ASSUME RunInv, Started, UNCHANGED <<analyzerVars, frames>>, Started',
         stack' \in Seq(Items), flags' \in AllFlags, Normal(flags)',
         Claimed => \E p, q : /\ Followed(p) /\ LeadsTo(p, q)
                              /\ CoversAt(q, cpu'.pc, flags', stack')
  PROVE  RunInv' /\ (Claimed => Taken)
  <1>1. WalkInv' /\ Complete' /\ Behind' /\ (Claimed' <=> Claimed)
    BY AnalyzerStays, SameClaims DEF RunInv
  <1>2. CpuOK'
    BY DEF RunInv, CpuOK
  <1>3. ASSUME Claimed
        PROVE  Taken /\ \E r : AlreadyVisited(r)' /\ CoversHere(r)'
    BY <1>3, GoesOn
  <1> QED
    BY <1>1, <1>2, <1>3 DEF RunInv, Here

(* Where an instruction leads, as a description of the processor. *)
LEMMA AfterIs ==
  ASSUME TypeInv, NEW p, GoodPoint(p), Decodes(mem, p.address, p.state), NEW a
  PROVE  LET q == At(After(p), a)
         IN  /\ q.address = a /\ q.state = StateAfter(p)
             /\ q.known = TrackStackEffect(p).known /\ q.words = TrackStackEffect(p).words
  <1>1. TrackStackEffect(p) \in PointType
    BY TrackType DEF GoodPoint
  <1> QED
    BY <1>1 DEF At, After, PointType
-----------------------------------------------------------------------------
(* The instructions. *)

LEMMA Lengths ==
  ASSUME op \in Byte
  PROVE  /\ op \in {194, 226, 128} \/ op % 32 = 16 => Fetched = 2
         /\ op \in {244, 98, 130, 32, 76, 252} => Fetched = 3
         /\ op \in {34, 92} => Fetched = 4
  BY DEF Fetched, FixedLength, ImmediateM, ImmediateX, Byte

LEMMA PulledItems ==
  ASSUME stack \in Seq(Items), NEW n \in Nat
  PROVE  Pull(n) \in Seq(Items)
  BY DEF Pull

LEMMA DataItems ==
  ASSUME NEW n \in Nat
  PROVE  Data(n) \in Seq(Items)
  BY DEF Data, Items

LEMMA WordItems ==
  ASSUME NEW w \in Word
  PROVE  WordBytes(w) \in Seq(Items)
  BY DEF WordBytes, Items

LEMMA BankItem ==
  ASSUME cpu.pc \in Address
  PROVE  <<BankByte>> \in Seq(Items)
  <1>1. Bank(cpu.pc) + (0 % BankSize) \in Address
    BY InBankOfWord
  <1>2. Bank(cpu.pc) \in Address
    <2>1. 0 % BankSize = 0
      BY DEF BankSize
    <2>2. Bank(cpu.pc) \in Int
      BY BankSizeType DEF Bank, Address
    <2> QED
      BY <1>1, <2>1, <2>2
  <1>3. BankByte \in Items
    BY <1>2 DEF BankByte, Items
  <1> QED
    BY <1>3

LEMMA PushedItems ==
  ASSUME TypeInv, Fetches, flags \in AllFlags, NEW bytes \in Seq(Items)
  PROVE  bytes \o Pushes \in Seq(Items)
  <1>1. /\ op \in Byte /\ next \in Address /\ (Fetched = 3 => operand16 \in Word)
        /\ cpu.pc \in Address
    BY FetchTypes
  <1>2. op \in {244, 98} => operand16 \in Word
    BY <1>1, Lengths
  <1>3. op = 98 => (next + operand16) % BankSize \in Word
    BY <1>1, <1>2, BankSizeType DEF Address, Word
  <1>4. <<<<"status", flags>>>> \in Seq(Items)
    BY DEF Items
  <1>5. /\ <<>> \in Seq(Items) /\ Data(1) \in Seq(Items) /\ Data(2) \in Seq(Items)
        /\ <<BankByte>> \in Seq(Items)
        /\ op = 244 => WordBytes(operand16) \in Seq(Items)
        /\ op = 98 => WordBytes((next + operand16) % BankSize) \in Seq(Items)
    BY <1>1, <1>2, <1>3, DataItems, WordItems, BankItem
  <1>6. Pushes \in Seq(Items)
    BY <1>4, <1>5 DEF Pushes
  <1> QED
    BY <1>6

(* What is left of the stack by an instruction that only goes on. *)
PlainStack(hit) == IF Pulls > 0 THEN Pull(Pulls) ELSE StoredOver(stack, hit) \o Pushes

LEMMA PlainStackType ==
  ASSUME TypeInv, Fetches, flags \in AllFlags, stack \in Seq(Items), NEW hit
  PROVE  PlainStack(hit) \in Seq(Items)
  <1>1. Pulls \in Nat
    BY DEF Pulls
  <1>2. StoredOver(stack, hit) \in Seq(Items)
    BY StoredOverIs
  <1> QED
    BY <1>1, <1>2, PulledItems, PushedItems DEF PlainStack

LEMMA TrackPushes ==
  ASSUME NEW p
  PROVE  /\ mem[p.address] = 244 => TrackStackEffect(p) = PushWord(p, OperandOf(p) % BankSize)
         /\ mem[p.address] = 98 =>
              TrackStackEffect(p)
                = PushWord(p, (Following(p) + (OperandOf(p) % BankSize)) % BankSize)
  <1>1. ASSUME mem[p.address] = 244
        PROVE  TrackStackEffect(p) = PushWord(p, OperandOf(p) % BankSize)
    <2>1. mem[p.address] \notin SetsStack \cup MovesStack \cup {98}
      BY <1>1 DEF SetsStack, MovesStack
    <2> QED
      BY <1>1, <2>1 DEF TrackStackEffect
  <1>2. ASSUME mem[p.address] = 98
        PROVE  TrackStackEffect(p)
                 = PushWord(p, (Following(p) + (OperandOf(p) % BankSize)) % BankSize)
    <2>1. mem[p.address] \notin SetsStack \cup MovesStack \cup {244}
      BY <1>2 DEF SetsStack, MovesStack
    <2> QED
      BY <1>2, <2>1 DEF TrackStackEffect
  <1> QED
    BY <1>1, <1>2

(* A word pushed on both sides. *)
LEMMA PushAlike ==
  ASSUME NEW p, GoodPoint(p), NEW w \in Word, NEW bytes \in Seq(Items),
         p.known => OnTop(p.words, bytes)
  PROVE  PushWord(p, w).known => OnTop(PushWord(p, w).words, bytes \o WordBytes(w))
  <1>1. p \in PointType /\ p.words \in Seq(Word)
    BY DEF GoodPoint, PointType
  <1>2. CASE p.known /\ p.depth < WordCapacity
    <2>1. PushWord(p, w).words = Append(p.words, w)
      BY <1>1, <1>2 DEF PushWord, PointType
    <2> QED
      BY <1>1, <1>2, <2>1, PushedOnTop
  <1>3. CASE ~(p.known /\ p.depth < WordCapacity)
    BY <1>1, <1>3 DEF PushWord, Forget, PointType
  <1> QED
    BY <1>2, <1>3

LEMMA StackAlike ==
  ASSUME TypeInv, flags \in AllFlags, Normal(flags), stack \in Seq(Items),
         NEW p, Followed(p), op \notin SetsStack, NEW hit
  PROVE  TrackStackEffect(p).known => OnTop(TrackStackEffect(p).words, PlainStack(hit))
  <1> DEFINE kept == StoredOver(stack, hit)
  <1>1. /\ GoodPoint(p) /\ p \in PointType /\ (p.known => OnTop(p.words, stack))
        /\ mem[p.address] = op /\ p.address = cpu.pc /\ Agrees(p.state, flags)
        /\ Decodes(mem, p.address, p.state)
    BY DEF Followed, CoversHere, CoversAt, GoodPoint
  <1>2. /\ Fetches /\ Following(p) = next
        /\ Fetched = 3 => OperandOf(p) = operand16
    BY <1>1, DecodedAlike
  <1>3. op \in Byte /\ next \in Address /\ (Fetched = 3 => operand16 \in Word)
    BY <1>2, FetchTypes
  <1>0. kept \in Seq(Items) /\ (p.known => OnTop(p.words, kept))
    <2>1. p.words \in Seq(Word)
      BY <1>1 DEF PointType
    <2>2. kept \in Seq(Items) /\ StoredInto(stack, kept)
      BY StoredOverIs
    <2> QED
      BY <1>1, <2>1, <2>2, StoredOnTop
  <1> HIDE DEF kept
  <1>4. CASE op = 244
    <2>1. operand16 \in Word /\ OperandOf(p) % BankSize = operand16
      BY <1>2, <1>3, <1>4, Lengths, LowParts
    <2>2. TrackStackEffect(p) = PushWord(p, operand16)
      BY <1>1, <1>4, <2>1, TrackPushes
    <2>3. PlainStack(hit) = kept \o WordBytes(operand16)
      BY <1>4 DEF PlainStack, Pulls, Pushes, kept
    <2> QED
      BY <1>0, <1>1, <2>1, <2>2, <2>3, PushAlike
  <1>5. CASE op = 98
    <2> DEFINE w == (next + operand16) % BankSize
    <2>1. operand16 \in Word /\ OperandOf(p) % BankSize = operand16
      BY <1>2, <1>3, <1>5, Lengths, LowParts
    <2>2. w \in Word
      BY <1>3, <2>1, BankSizeType DEF Address, Word
    <2>3. TrackStackEffect(p) = PushWord(p, w)
      BY <1>1, <1>2, <1>5, <2>1, TrackPushes
    <2>4. PlainStack(hit) = kept \o WordBytes(w)
      BY <1>5 DEF PlainStack, Pulls, Pushes, kept
    <2> HIDE DEF w
    <2> QED
      BY <1>0, <1>1, <2>2, <2>3, <2>4, PushAlike
  <1>6. CASE op \notin {244, 98} /\ op \in MovesStack
    <2>1. TrackStackEffect(p) = Forget(p)
      BY <1>1, <1>6 DEF TrackStackEffect
    <2>2. <<>> \in Seq(Word)
      OBVIOUS
    <2>3. ~Forget(p).known
      BY <1>1, <2>2, ForgottenWords DEF Forget
    <2> QED
      BY <2>1, <2>3
  <1>7. CASE op \notin {244, 98} /\ op \notin MovesStack
    <2>1. TrackStackEffect(p) = p
      BY <1>1, <1>7 DEF TrackStackEffect
    <2>2. Pulls = 0 /\ Pushes = <<>>
      BY <1>7 DEF Pulls, Pushes, MovesStack
    <2>3. PlainStack(hit) = kept
      <3>1. PlainStack(hit) = kept \o <<>>
        BY <2>2 DEF PlainStack, kept
      <3> QED
        BY <1>0, <3>1
    <2> QED
      BY <1>0, <2>1, <2>3
  <1> QED
    BY <1>4, <1>5, <1>6, <1>7

(* The bits, as the walk applies the instruction to them. *)
LEMMA StateAlike ==
  ASSUME TypeInv, flags \in AllFlags, Normal(flags), stack \in Seq(Items),
         NEW p, Followed(p), op # 251, NEW f \in FlagsAfter
  PROVE  Agrees(StateAfter(p), f)
  <1>1. /\ GoodPoint(p) /\ mem[p.address] = op /\ p.address = cpu.pc /\ Agrees(p.state, flags)
        /\ Decodes(mem, p.address, p.state) /\ p.state \in DecodeState
    BY DEF Followed, CoversHere, CoversAt, GoodPoint, PointType
  <1>2. Fetches /\ (Fetched = 2 => OperandOf(p) = operand8)
    BY <1>1, DecodedAlike
  <1>3. op \in Byte /\ (Fetched = 2 => operand8 \in Byte)
    BY <1>2, FetchTypes
  <1>4. ASSUME op \in {194, 226} PROVE OperandOf(p) % 256 = operand8
    <2>1. Fetched = 2
      BY <1>3, <1>4, Lengths
    <2>2. OperandOf(p) = operand8 /\ operand8 \in Byte
      BY <1>2, <1>3, <2>1
    <2> QED
      BY <2>2, LowParts
  <1>5. StateAfter(p) = Apply(p.state, op, operand8)
    BY <1>1, <1>4 DEF StateAfter, Apply
  <1> QED
    BY <1>1, <1>3, <1>5, FlagsAlike

(* An instruction that changes no bit. *)
LEMMA SameState ==
  ASSUME NEW p, Followed(p), op \in Byte,
         Flow(op) \notin {"next"} \/ op \in {27, 154}
  PROVE  StateAfter(p) = p.state /\ Agrees(StateAfter(p), flags)
  <1>1. mem[p.address] = op /\ Agrees(p.state, flags)
    BY DEF Followed, CoversHere, CoversAt
  <1>2. op \notin {24, 56, 40, 194, 226, 251} /\ ~ChangesCarry(op)
    BY DEF Flow, Byte, ChangesCarry, ShiftsOfMemory, IndexCompares, ArithmeticColumns, ArithmeticRows
  <1>3. StateAfter(p) = p.state
    BY <1>1, <1>2 DEF StateAfter, Apply
  <1> QED
    BY <1>1, <1>3

LEMMA SameStack ==
  ASSUME NEW p, Followed(p), op \in Byte, Flow(op) # "next"
  PROVE  TrackStackEffect(p) = p
  <1>1. mem[p.address] = op
    BY DEF Followed
  <1>2. op \notin SetsStack \cup MovesStack \cup {244, 98}
    BY DEF Flow, Byte, SetsStack, MovesStack
  <1> QED
    BY <1>1, <1>2 DEF TrackStackEffect
-----------------------------------------------------------------------------
(* The steps. *)

LEMMA GoesTo ==
  ASSUME TypeInv, NEW p, Followed(p), NEW a, NEW f, NEW bytes,
         Agrees(StateAfter(p), f),
         TrackStackEffect(p).known => OnTop(TrackStackEffect(p).words, bytes)
  PROVE  CoversAt(At(After(p), a), a, f, bytes)
  <1> DEFINE q == At(After(p), a)
  <1>1. /\ q.address = a /\ q.state = StateAfter(p)
        /\ q.known = TrackStackEffect(p).known /\ q.words = TrackStackEffect(p).words
    BY AfterIs DEF Followed
  <1> HIDE DEF q
  <1>2. CoversAt(q, a, f, bytes)
    BY <1>1 DEF CoversAt
  <1> QED
    BY <1>2 DEF q

(* The same, where neither the bits nor the stack change. *)
LEMMA GoesUnchanged ==
  ASSUME TypeInv, NEW p, Followed(p), op \in Byte, Flow(op) # "next", NEW a
  PROVE  CoversAt(At(After(p), a), a, flags, stack)
  <1>1. Agrees(StateAfter(p), flags)
    BY SameState
  <1>2. TrackStackEffect(p).known => OnTop(TrackStackEffect(p).words, stack)
    BY SameStack DEF Followed, CoversHere, CoversAt
  <1> QED
    BY <1>1, <1>2, GoesTo

StepOK == RunInv' /\ (Started /\ Claimed /\ Len(frames') >= Len(frames) => Taken)

LEMMA StartOK ==
  ASSUME RunInv, Start
  PROVE  StepOK
  <1>1. /\ Complete /\ ~Started /\ UNCHANGED <<analyzerVars, stack, frames>>
        /\ WalkInv /\ stack = <<>> /\ frames = <<>>
    BY DEF Start, RunInv, CpuOK
  <1>2. UNCHANGED <<program, kind>>
    BY <1>1 DEF analyzerVars
  <1>3. PICK f \in AllFlags :
          /\ cpu' = WithFlags(program.entry, f) /\ Normal(f)
          /\ Agrees(IF kind = "reset" THEN ResetState ELSE InterruptState, f)
    <2>1. CASE kind = "reset"
      <3> DEFINE f == [e |-> 1, m |-> 1, x |-> 1, c |-> 0]
      <3>1. f \in AllFlags /\ Normal(f) /\ Agrees(ResetState, f)
        BY AgreesIs DEF AllFlags, Normal, ResetState, Known, Unknown
      <3>2. cpu' = WithFlags(program.entry, f)
        BY <2>1 DEF Start
      <3> HIDE DEF f
      <3> QED
        BY <2>1, <3>1, <3>2
    <2>2. CASE kind # "reset"
      <3>1. PICK f \in AllFlags : f.e = 0 /\ cpu' = WithFlags(program.entry, f)
        BY <2>2 DEF Start
      <3>2. Normal(f) /\ Agrees(InterruptState, f)
        BY <3>1, AgreesIs DEF Normal, InterruptState, Unknown
      <3> QED
        BY <2>2, <3>1, <3>2
    <2> QED
      BY <2>1, <2>2
  <1>4. /\ Started' /\ cpu'.pc = program.entry /\ flags' = f /\ flags' \in AllFlags
        /\ Normal(flags)'
    BY <1>3, WithFlagsIs
  <1>5. PICK q : IsEntry(q) /\ AlreadyVisited(q)
    BY <1>1, CompleteIsClosed
  <1>6. CoversAt(q, cpu'.pc, flags', stack')
    BY <1>3, <1>4, <1>5 DEF IsEntry, CoversAt
  <1>7. Here'
    BY <1>1, <1>5, <1>6, AnalyzerStays, CoversHereNext DEF Here
  <1>8. Behind'
    BY <1>1 DEF Behind
  <1>9. WalkInv' /\ Complete'
    BY <1>1, AnalyzerStays
  <1>10. CpuOK'
    BY <1>1, <1>4 DEF CpuOK
  <1> QED
    BY <1>1, <1>7, <1>8, <1>9, <1>10 DEF StepOK, RunInv

LEMMA PlainOK ==
  ASSUME RunInv, Plain
  PROVE  StepOK
  <1>1. /\ Continues(PlainOpcodes) /\ frames' = frames
        /\ \E f \in FlagsAfter : cpu' = WithFlags(next, f)
    BY DEF Plain
  <1>2. PICK f \in FlagsAfter : cpu' = WithFlags(next, f)
    BY <1>1
  <1>9. PICK hit \in Hits : stack' = PlainStack(hit)
    BY DEF Plain, PlainStack
  <1>3. /\ Started /\ Fetches /\ op \in PlainOpcodes /\ UNCHANGED analyzerVars
        /\ TypeInv /\ flags \in AllFlags /\ Normal(flags) /\ stack \in Seq(Items)
        /\ Claimed => \E p : Followed(p)
    BY <1>1, ContinuesFacts
  <1>4. op \in Byte /\ Flow(op) = "next" /\ op # 251 /\ op \notin SetsStack
    BY <1>3 DEF PlainOpcodes, SetsStack
  <1>5. f \in AllFlags /\ Normal(f)
    BY <1>2, <1>3, <1>4, FlagsAlike
  <1>6. Started' /\ cpu'.pc = next /\ flags' = f /\ flags' \in AllFlags /\ Normal(flags)'
    BY <1>2, <1>5, WithFlagsIs
  <1>7. stack' \in Seq(Items)
    BY <1>3, <1>9, PlainStackType
  <1>8. ASSUME NEW p, Followed(p)
        PROVE  \E q : LeadsTo(p, q) /\ CoversAt(q, cpu'.pc, flags', stack')
    <2> DEFINE q == At(After(p), Following(p))
    <2>1. Following(p) = next
      BY <1>3, <1>8, DecodedAlike DEF Followed, CoversHere, CoversAt
    <2>2. LeadsTo(p, q)
      BY <1>4, <1>8 DEF LeadsTo, Followed
    <2>3. Agrees(StateAfter(p), f)
      BY <1>2, <1>3, <1>4, <1>8, StateAlike
    <2>4. TrackStackEffect(p).known => OnTop(TrackStackEffect(p).words, PlainStack(hit))
      BY <1>3, <1>4, <1>8, StackAlike
    <2>5. CoversAt(q, next, f, PlainStack(hit))
      BY <1>3, <1>8, <2>1, <2>3, <2>4, GoesTo
    <2> QED
      BY <1>6, <1>9, <2>2, <2>5
  <1> QED
    BY <1>1, <1>3, <1>6, <1>7, <1>8, StepInFrame DEF StepOK

LEMMA MoveStackOK ==
  ASSUME RunInv, MoveStack
  PROVE  StepOK
  <1>1. /\ Continues({27, 154}) /\ stack' = <<>> /\ frames' = frames
        /\ cpu' = WithFlags(next, flags)
    BY DEF MoveStack
  <1>2. /\ Started /\ Fetches /\ op \in {27, 154} /\ UNCHANGED analyzerVars
        /\ TypeInv /\ flags \in AllFlags /\ Normal(flags) /\ stack \in Seq(Items)
        /\ Claimed => \E p : Followed(p)
    BY <1>1, ContinuesFacts
  <1>3. op \in Byte /\ Flow(op) = "next"
    BY <1>2 DEF Byte, Flow
  <1>4. Started' /\ cpu'.pc = next /\ flags' = flags /\ flags' \in AllFlags /\ Normal(flags)'
    BY <1>1, <1>2, WithFlagsIs
  <1>5. ASSUME NEW p, Followed(p)
        PROVE  \E q : LeadsTo(p, q) /\ CoversAt(q, cpu'.pc, flags', stack')
    <2> DEFINE q == At(After(p), Following(p))
    <2>1. Following(p) = next
      BY <1>2, <1>5, DecodedAlike DEF Followed, CoversHere, CoversAt
    <2>2. LeadsTo(p, q)
      BY <1>3, <1>5 DEF LeadsTo, Followed
    <2>3. Agrees(StateAfter(p), flags)
      BY <1>2, <1>3, <1>5, SameState
    <2>4. OnTop(TrackStackEffect(p).words, <<>>)
      <3>1. TrackStackEffect(p) = [p EXCEPT !.known = TRUE, !.words = <<>>, !.depth = 0]
        BY <1>2, <1>5 DEF TrackStackEffect, SetsStack, MovesStack, Followed
      <3>2. p \in PointType
        BY <1>5 DEF Followed, GoodPoint
      <3>3. TrackStackEffect(p).words = <<>>
        BY <3>1, <3>2 DEF PointType
      <3> QED
        BY <3>3, NothingOnTop
    <2>5. CoversAt(q, next, flags, <<>>)
      BY <1>2, <1>5, <2>1, <2>3, <2>4, GoesTo
    <2> QED
      BY <1>1, <1>4, <2>2, <2>5
  <1>6. <<>> \in Seq(Items)
    OBVIOUS
  <1> QED
    BY <1>1, <1>2, <1>4, <1>6, <1>5, StepInFrame DEF StepOK

LEMMA ExchangeCarryOK ==
  ASSUME RunInv, ExchangeCarry
  PROVE  StepOK
  <1> DEFINE f == Normalized([flags EXCEPT !.e = cpu.c, !.c = cpu.e])
  <1>1. /\ Continues({251}) /\ stack' = stack /\ frames' = frames
        /\ cpu' = WithFlags(next, f)
    BY DEF ExchangeCarry
  <1>2. /\ Started /\ Fetches /\ op = 251 /\ UNCHANGED analyzerVars
        /\ TypeInv /\ flags \in AllFlags /\ Normal(flags) /\ stack \in Seq(Items)
        /\ Claimed => \E p : Followed(p)
    BY <1>1, ContinuesFacts
  <1>3. op \in Byte /\ Flow(op) = "next" /\ op \notin SetsStack
    BY <1>2 DEF Byte, Flow, SetsStack
  <1>4. /\ f \in AllFlags /\ Normal(f)
        /\ \A s \in DecodeState : \A o : Agrees(s, flags) => Agrees(Apply(s, 251, o), f)
    BY <1>2, ExchangeAlike
  <1> HIDE DEF f
  <1>5. Started' /\ cpu'.pc = next /\ flags' = f /\ flags' \in AllFlags /\ Normal(flags)'
    BY <1>1, <1>4, WithFlagsIs
  <1>6. ASSUME NEW p, Followed(p)
        PROVE  \E q : LeadsTo(p, q) /\ CoversAt(q, cpu'.pc, flags', stack')
    <2> DEFINE q == At(After(p), Following(p))
    <2>1. Following(p) = next
      BY <1>2, <1>6, DecodedAlike DEF Followed, CoversHere, CoversAt
    <2>2. LeadsTo(p, q)
      BY <1>3, <1>6 DEF LeadsTo, Followed
    <2>3. Agrees(StateAfter(p), f)
      BY <1>2, <1>4, <1>6
         DEF StateAfter, Followed, CoversHere, CoversAt, GoodPoint, PointType
    <2>4. TrackStackEffect(p) = p
      BY <1>2, <1>6 DEF TrackStackEffect, SetsStack, MovesStack, Followed
    <2>5. TrackStackEffect(p).known => OnTop(TrackStackEffect(p).words, stack)
      BY <1>6, <2>4 DEF Followed, CoversHere, CoversAt
    <2>6. CoversAt(q, next, f, stack)
      BY <1>2, <1>6, <2>1, <2>3, <2>5, GoesTo
    <2> QED
      BY <1>1, <1>5, <2>2, <2>6
  <1> QED
    BY <1>1, <1>2, <1>5, <1>6, StepInFrame DEF StepOK
-----------------------------------------------------------------------------

(* Where a branch, a jump or a call goes. *)
LEMMA TargetAlike ==
  ASSUME TypeInv, flags \in AllFlags, Normal(flags), NEW p, Followed(p)
  PROVE  /\ Flow(op) = "conditional" \/ op = 128 =>
              Target(p) = InBank(next, Signed(operand8, 256))
         /\ op = 130 => Target(p) = InBank(next, Signed(operand16, BankSize))
         /\ op \in {34, 92} => Target(p) = operand16 + BankSize * Fetch(3)
         /\ op \in {32, 76} => Target(p) = Bank(cpu.pc) + operand16
         /\ Following(p) = next
  <1>1. /\ GoodPoint(p) /\ mem[p.address] = op /\ p.address = cpu.pc /\ Agrees(p.state, flags)
        /\ Decodes(mem, p.address, p.state)
    BY DEF Followed, CoversHere, CoversAt
  <1>2. /\ Fetches /\ Following(p) = next
        /\ Fetched = 2 => OperandOf(p) = operand8
        /\ Fetched = 3 => OperandOf(p) = operand16
        /\ Fetched = 4 => OperandOf(p) = operand16 + BankSize * Fetch(3)
    BY <1>1, DecodedAlike
  <1>3. op \in Byte /\ (Fetched = 3 => operand16 \in Word)
    BY <1>2, FetchTypes
  <1> DEFINE o == OperandOf(p)
  <1>4. Target(p) = CASE Flow(op) = "conditional" \/ op = 128 -> InBank(next, Signed(o, 256))
                      [] op = 130                             -> InBank(next, Signed(o, BankSize))
                      [] op \in {34, 92}                      -> o
                      [] OTHER                                -> Bank(cpu.pc) + (o % BankSize)
    BY <1>1, <1>2 DEF Target, TargetAddress, OperandOf, Following
  <1> HIDE DEF o
  <1>5. /\ Flow(op) = "conditional" <=> op % 32 = 16
        /\ op \in {130, 34, 92, 32, 76} => op % 32 # 16 /\ op # 128
    BY <1>3 DEF Flow, Byte
  <1>6. ASSUME Flow(op) = "conditional" \/ op = 128
        PROVE  Target(p) = InBank(next, Signed(operand8, 256))
    <2>1. Fetched = 2 /\ op \notin {130, 34, 92}
      BY <1>3, <1>5, <1>6, Lengths
    <2> QED
      BY <1>2, <1>4, <1>6, <2>1 DEF o
  <1>7. ASSUME op = 130 PROVE Target(p) = InBank(next, Signed(operand16, BankSize))
    <2>1. Fetched = 3 /\ ~(Flow(op) = "conditional" \/ op = 128)
      BY <1>3, <1>5, <1>7, Lengths
    <2> QED
      BY <1>2, <1>4, <1>7, <2>1 DEF o
  <1>8. ASSUME op \in {34, 92} PROVE Target(p) = operand16 + BankSize * Fetch(3)
    <2>1. Fetched = 4 /\ ~(Flow(op) = "conditional" \/ op = 128) /\ op # 130
      BY <1>3, <1>5, <1>8, Lengths
    <2> QED
      BY <1>2, <1>4, <1>8, <2>1 DEF o
  <1>9. ASSUME op \in {32, 76} PROVE Target(p) = Bank(cpu.pc) + operand16
    <2>1. Fetched = 3 /\ ~(Flow(op) = "conditional" \/ op = 128) /\ op \notin {130, 34, 92}
      BY <1>3, <1>5, <1>9, Lengths
    <2>2. o = operand16 /\ o % BankSize = operand16
      BY <1>2, <1>3, <2>1, LowParts DEF o
    <2> QED
      BY <1>4, <2>1, <2>2
  <1> QED
    BY <1>2, <1>6, <1>7, <1>8, <1>9

(* A step that changes neither the bits nor the stack. *)
LEMMA UnchangedStep ==
  ASSUME RunInv, NEW ops, Continues(ops), op \in Byte, Flow(op) # "next",
         NEW a, cpu' = WithFlags(a, flags), UNCHANGED <<stack, frames>>,
         \A p : Followed(p) => LeadsTo(p, At(After(p), a))
  PROVE  StepOK
  <1>1. /\ Started /\ UNCHANGED analyzerVars
        /\ TypeInv /\ flags \in AllFlags /\ Normal(flags) /\ stack \in Seq(Items)
        /\ Claimed => \E p : Followed(p)
    BY ContinuesFacts
  <1>2. Started' /\ cpu'.pc = a /\ flags' = flags /\ flags' \in AllFlags /\ Normal(flags)'
    BY <1>1, WithFlagsIs
  <1>3. ASSUME NEW p, Followed(p)
        PROVE  \E q : LeadsTo(p, q) /\ CoversAt(q, cpu'.pc, flags', stack')
    <2>1. CoversAt(At(After(p), a), a, flags, stack)
      BY <1>1, <1>3, GoesUnchanged
    <2> QED
      BY <1>2, <1>3, <2>1
  <1> QED
    BY <1>1, <1>2, <1>3, StepInFrame DEF StepOK

LEMMA BranchOK ==
  ASSUME RunInv, Branch
  PROVE  StepOK
  <1> DEFINE to == InBank(next, IF op = 130 THEN Signed(operand16, BankSize)
                                            ELSE Signed(operand8, 256))
  <1>1. /\ Continues(Branches) /\ UNCHANGED <<stack, frames>>
        /\ \/ cpu' = WithFlags(to, flags)
           \/ Flow(op) = "conditional" /\ cpu' = WithFlags(next, flags)
    BY DEF Branch
  <1>2. /\ op \in Branches /\ TypeInv /\ flags \in AllFlags /\ Normal(flags)
    BY <1>1, ContinuesFacts
  <1>3. /\ op \in Byte /\ Flow(op) \in {"conditional", "branch"} /\ Flow(op) # "next"
        /\ Flow(op) = "branch" => op \in {128, 130}
        /\ Flow(op) = "conditional" => op # 130
    BY <1>2 DEF Branches, Flow, Byte
  <1>4. ASSUME NEW p, Followed(p) PROVE Target(p) = to /\ Following(p) = next
    BY <1>2, <1>3, <1>4, TargetAlike
  <1> HIDE DEF to
  <1>5. CASE cpu' = WithFlags(to, flags)
    <2>1. \A p : Followed(p) => LeadsTo(p, At(After(p), to))
      BY <1>3, <1>4 DEF LeadsTo, Followed
    <2> QED
      BY <1>1, <1>3, <1>5, <2>1, UnchangedStep
  <1>6. CASE Flow(op) = "conditional" /\ cpu' = WithFlags(next, flags)
    <2>1. \A p : Followed(p) => LeadsTo(p, At(After(p), next))
      BY <1>3, <1>4, <1>6 DEF LeadsTo, Followed
    <2> QED
      BY <1>1, <1>3, <1>6, <2>1, UnchangedStep
  <1> QED
    BY <1>1, <1>5, <1>6

LEMMA JumpOK ==
  ASSUME RunInv, Jump
  PROVE  StepOK
  <1> DEFINE to == IF op = 92 THEN operand16 + BankSize * Fetch(3) ELSE Bank(cpu.pc) + operand16
  <1>1. Continues({76, 92}) /\ UNCHANGED <<stack, frames>> /\ cpu' = WithFlags(to, flags)
    BY DEF Jump
  <1>2. op \in {76, 92} /\ TypeInv /\ flags \in AllFlags /\ Normal(flags)
    BY <1>1, ContinuesFacts
  <1>3. op \in Byte /\ Flow(op) = "jump"
    BY <1>2 DEF Flow, Byte
  <1>4. ASSUME NEW p, Followed(p) PROVE Target(p) = to
    BY <1>2, <1>4, TargetAlike
  <1> HIDE DEF to
  <1>5. \A p : Followed(p) => LeadsTo(p, At(After(p), to))
    BY <1>3, <1>4 DEF LeadsTo, Followed
  <1> QED
    BY <1>1, <1>3, <1>5, UnchangedStep

LEMMA CallIndirectOK ==
  ASSUME RunInv, CallIndirect
  PROVE  StepOK
  <1>1. Continues({252}) /\ UNCHANGED <<stack, frames>> /\ cpu' = WithFlags(next, flags)
    BY DEF CallIndirect
  <1>2. op = 252 /\ TypeInv /\ flags \in AllFlags /\ Normal(flags)
    BY <1>1, ContinuesFacts
  <1>3. op \in Byte /\ Flow(op) = "indirect_call"
    BY <1>2 DEF Flow, Byte
  <1>4. \A p : Followed(p) => LeadsTo(p, At(After(p), next))
    BY <1>2, <1>3, TargetAlike DEF LeadsTo, Followed
  <1> QED
    BY <1>1, <1>3, <1>4, UnchangedStep
-----------------------------------------------------------------------------
(* Calls and returns. *)

LEMMA FrameOnTop ==
  ASSUME frames \in Seq(Frame), NEW frame \in Frame, frames' = <<frame>> \o frames
  PROVE  /\ frames' \in Seq(Frame) /\ Len(frames') = Len(frames) + 1 /\ Len(frames) \in Nat
         /\ frames'[1] = frame /\ \A k \in 2..Len(frames') : frames'[k] = frames[k - 1]
         /\ frames' # <<>> /\ DOMAIN frames' = 1..Len(frames')
  OBVIOUS

LEMMA EnteredIs ==
  ASSUME TypeInv, NEW p, Followed(p)
  PROVE  /\ Entered(p).address = Target(p) /\ Entered(p).state = StateAfter(p)
         /\ ~Entered(p).known
  <1>1. After(p) \in PointType
    BY AfterType DEF Followed, GoodPoint
  <1>2. After(p).state = StateAfter(p)
    BY AfterIs DEF Followed, At, PointType
  <1> QED
    BY <1>1, <1>2 DEF Entered, Forget, At, PointType

LEMMA CallDirectOK ==
  ASSUME RunInv, CallDirect
  PROVE  StepOK
  <1> DEFINE to == IF op = 34 THEN operand16 + BankSize * Fetch(3) ELSE Bank(cpu.pc) + operand16
             frame == [next |-> next, flags |-> flags, stack |-> stack]
             back == (next + BankSize - 1) % BankSize
  <1>1. /\ Continues({32, 34}) /\ cpu' = WithFlags(to, flags) /\ frames' = <<frame>> \o frames
        /\ stack' = stack \o (IF op = 34 THEN <<BankByte>> ELSE <<>>) \o WordBytes(back)
    BY DEF CallDirect
  <1>2. /\ Started /\ Complete /\ Fetches /\ op \in {32, 34} /\ UNCHANGED analyzerVars
        /\ TypeInv /\ flags \in AllFlags /\ Normal(flags) /\ stack \in Seq(Items)
        /\ frames \in Seq(Frame) /\ (Claimed => \E p : Followed(p)) /\ WalkInv
    BY <1>1, ContinuesFacts DEF RunInv
  <1>3. op \in Byte /\ Flow(op) = "call" /\ next \in Address /\ cpu.pc \in Address
    BY <1>2, FetchTypes DEF Flow, Byte
  <1>4. Started' /\ cpu'.pc = to /\ flags' = flags /\ flags' \in AllFlags /\ Normal(flags)'
    BY <1>1, <1>2, WithFlagsIs
  <1>5. ASSUME NEW p, Followed(p) PROVE Target(p) = to /\ Following(p) = next
    BY <1>2, <1>5, TargetAlike
  <1> HIDE DEF to
  <1>6. stack' \in Seq(Items)
    <2>1. back \in Word
      BY <1>3, BankSizeType DEF Address, Word
    <2> HIDE DEF back
    <2>2. /\ WordBytes(back) \in Seq(Items) /\ <<BankByte>> \in Seq(Items)
          /\ <<>> \in Seq(Items)
      BY <1>3, <2>1, WordItems, BankItem
    <2> QED
      BY <1>1, <1>2, <2>2
  <1> HIDE DEF back
  <1>7. frame \in Frame /\ frame.next = next /\ frame.flags = flags /\ frame.stack = stack
    BY <1>2, <1>3 DEF Frame
  <1> HIDE DEF frame
  <1>8. /\ frames' \in Seq(Frame) /\ Len(frames') = Len(frames) + 1 /\ Len(frames) \in Nat
        /\ frames'[1] = frame /\ \A k \in 2..Len(frames') : frames'[k] = frames[k - 1]
        /\ frames' # <<>> /\ DOMAIN frames' = 1..Len(frames')
    BY <1>1, <1>2, <1>7, FrameOnTop
  <1>9. WalkInv' /\ Complete' /\ CpuOK' /\ follow' = follow
    BY <1>2, <1>4, <1>6, <1>8, AnalyzerStays DEF CpuOK
  <1>10. Here'
    <2>1. SUFFICES ASSUME follow
                   PROVE  (\E q : AlreadyVisited(q) /\ CoversHere(q))'
      BY <1>8, <1>9 DEF Here, Claimed
    <2>2. PICK p : Followed(p)
      BY <1>2, <2>1 DEF Claimed
    <2>3. LeadsTo(p, Entered(p))
      BY <1>3, <2>1, <2>2 DEF LeadsTo, Followed
    <2>4. AlreadyVisited(Entered(p))
      BY <1>2, <2>2, <2>3, CompleteIsClosed DEF Followed
    <2>5. Agrees(StateAfter(p), flags)
      BY <1>3, <2>2, SameState
    <2>6. CoversAt(Entered(p), cpu'.pc, flags', stack')
      BY <1>2, <1>4, <1>5, <2>2, <2>5, EnteredIs DEF CoversAt
    <2> QED
      BY <1>2, <2>4, <2>6, AnalyzerStays, CoversHereNext
  <1>11. Behind'
    <2>1. SUFFICES ASSUME NEW k \in 1..Len(frames'), follow \/ k = Len(frames')
                   PROVE  (\E q : AlreadyVisited(q) /\ CoversFrame(q, k))'
      BY <1>8, <1>9 DEF Behind
    <2>2. CASE k = 1
      <3>1. Claimed
        BY <1>2, <1>8, <2>1, <2>2 DEF Claimed
      <3>2. PICK p : Followed(p)
        BY <1>2, <3>1
      <3>3. PICK q : LeadsTo(p, q) /\ CoversAt(q, next, flags, stack)
        <4>1. LeadsTo(p, At(After(p), next))
          BY <1>3, <1>5, <3>2 DEF LeadsTo, Followed
        <4>2. CoversAt(At(After(p), next), next, flags, stack)
          BY <1>2, <1>3, <3>2, GoesUnchanged
        <4> QED
          BY <4>1, <4>2
      <3>5. AlreadyVisited(q)
        BY <1>2, <3>2, <3>3, CompleteIsClosed DEF Followed
      <3>6. CoversFrame(q, 1)'
        BY <1>7, <1>8, <3>3, CoversFrameNext
      <3> QED
        BY <1>2, <2>2, <3>5, <3>6, AnalyzerStays
    <2>3. CASE k # 1
      <3>1. /\ k \in 2..Len(frames') /\ k - 1 \in DOMAIN frames
            /\ follow \/ k - 1 = Len(frames)
        BY <1>2, <1>8, <2>1, <2>3
      <3>2. PICK q : AlreadyVisited(q) /\ CoversFrame(q, k - 1)
        BY <1>2, <3>1 DEF RunInv, Behind
      <3>3. CoversFrame(q, k)'
        BY <1>8, <3>1, <3>2, CoversFrameNext DEF CoversFrame
      <3> QED
        BY <1>2, <3>2, <3>3, AnalyzerStays
    <2> QED
      BY <2>2, <2>3
  <1>12. ASSUME Claimed PROVE Taken
    <2>1. PICK p : Followed(p)
      BY <1>2, <1>12
    <2>2. CallsInto(p)
      BY <1>3, <2>1 DEF CallsInto, Followed
    <2>3. Linked(p.address, p.state, Target(p), StateAfter(p))
      BY <1>2, <2>1, <2>2 DEF WalkInv, Drawn, Followed
    <2>4. PICK i \in DOMAIN edges :
            /\ edges[i].from.address = p.address /\ edges[i].from.state = p.state
            /\ edges[i].to.address = Target(p) /\ edges[i].to.state = StateAfter(p)
      BY <2>3 DEF Linked
    <2>5. Agrees(StateAfter(p), flags)
      BY <1>3, <2>1, SameState
    <2> QED
      BY <1>4, <1>5, <2>1, <2>4, <2>5 DEF Taken, Followed, CoversHere, CoversAt
  <1> QED
    BY <1>9, <1>10, <1>11, <1>12 DEF StepOK, RunInv

LEMMA ReturnedIs ==
  ASSUME TypeInv, NEW p, Followed(p), op \in Byte, Flow(op) = "return", KnowsReturn(p)
  PROVE  /\ Returned(p).address = Bank(cpu.pc) + ((p.words[p.depth] + 1) % BankSize)
         /\ Returned(p).state = StateAfter(p)
         /\ Returned(p).words = SubSeq(p.words, 1, p.depth - 1)
  <1> DEFINE a == Bank(p.address) + ((p.words[p.depth] + 1) % BankSize)
             t == At(After(p), a)
  <1>1. After(p) \in PointType /\ p \in PointType /\ p.address = cpu.pc
    BY AfterType DEF Followed, GoodPoint, CoversHere, CoversAt
  <1>2. t = [After(p) EXCEPT !.address = a] /\ t.address = a
    BY <1>1 DEF At, PointType
  <1>3. t.state = StateAfter(p) /\ t.words = p.words
    BY AfterIs, SameStack DEF Followed
  <1>4. Returned(p) = [t EXCEPT !.words = SubSeq(t.words, 1, p.depth - 1), !.depth = t.depth - 1]
    BY DEF Returned
  <1>5. Returned(p).address = t.address /\ Returned(p).state = t.state
        /\ Returned(p).words = SubSeq(t.words, 1, p.depth - 1)
    <2> HIDE DEF a, t
    <2>1. DOMAIN t = DOMAIN After(p)
      BY <1>2
    <2> QED
      BY <1>1, <1>2, <1>4, <2>1 DEF PointType
  <1> HIDE DEF t
  <1> QED
    BY <1>1, <1>2, <1>3, <1>5

LEMMA ReturnOK ==
  ASSUME RunInv, Return
  PROVE  StepOK
  <1>1. PICK w \in ReturnWords, b \in ReturnBanks :
          LET to == b + ((w + 1) % BankSize)
              rest == Pull(IF op = 107 THEN 3 ELSE 2)
              resumes == /\ frames # <<>>
                         /\ to = frames[1].next
                         /\ StoredInto(frames[1].stack, rest)
                         /\ flags = frames[1].flags
          IN  /\ resumes \/ (Claimed /\ FollowedHere)
              /\ frames' = IF resumes THEN Tail(frames) ELSE frames
              /\ stack' = rest
              /\ cpu' = WithFlags(to, flags)
    BY DEF Return
  <1> DEFINE to == b + ((w + 1) % BankSize)
             rest == Pull(IF op = 107 THEN 3 ELSE 2)
             resumes == /\ frames # <<>>
                        /\ to = frames[1].next
                        /\ StoredInto(frames[1].stack, rest)
                        /\ flags = frames[1].flags
  <1>2. /\ resumes \/ (Claimed /\ FollowedHere)
        /\ frames' = IF resumes THEN Tail(frames) ELSE frames
        /\ stack' = rest
        /\ cpu' = WithFlags(to, flags)
    BY <1>1
  <1>3. /\ Executes({96, 107}) /\ Started /\ op \in {96, 107} /\ UNCHANGED analyzerVars
    BY DEF Return, Executes
  <1>4. /\ TypeInv /\ flags \in AllFlags /\ Normal(flags) /\ stack \in Seq(Items)
        /\ frames \in Seq(Frame) /\ WalkInv /\ Complete /\ Here /\ Behind
    BY <1>3 DEF RunInv, CpuOK, WalkInv
  <1>5. op \in Byte /\ Flow(op) = "return"
    BY <1>3 DEF Byte, Flow
  <1>6. rest \in Seq(Items)
    BY <1>4, PulledItems
  <1> HIDE DEF to, rest
  <1>7. Started' /\ cpu'.pc = to /\ flags' = flags /\ flags' \in AllFlags /\ Normal(flags)'
    BY <1>2, <1>4, WithFlagsIs
  <1>8. CASE resumes
    <2>1. /\ frames' \in Seq(Frame) /\ Len(frames') = Len(frames) - 1 /\ Len(frames) \in Nat \ {0}
          /\ DOMAIN frames' = 1..Len(frames') /\ 1 \in DOMAIN frames
          /\ \A k \in 1..Len(frames') : frames'[k] = frames[k + 1] /\ k + 1 \in DOMAIN frames
      BY <1>2, <1>4, <1>8
    <2>2. WalkInv' /\ Complete' /\ CpuOK' /\ follow' = follow
      BY <1>2, <1>3, <1>4, <1>6, <1>7, <2>1, AnalyzerStays DEF CpuOK
    <2>3. Here'
      <3>1. SUFFICES ASSUME follow \/ frames' = <<>>
                     PROVE  (\E q : AlreadyVisited(q) /\ CoversHere(q))'
        BY <2>2 DEF Here, Claimed
      <3>2. follow \/ 1 = Len(frames)
        BY <2>1, <3>1
      <3>3. PICK q : AlreadyVisited(q) /\ CoversFrame(q, 1)
        BY <1>4, <2>1, <3>2 DEF Behind
      <3>4. CoversAt(q, cpu'.pc, flags', stack')
        <4>1. frames[1].stack \in Seq(Items)
          <5>1. frames[1] \in Frame
            BY <1>4, <2>1
          <5> QED
            BY <5>1 DEF Frame
        <4>2. q.words \in Seq(Word)
          BY <1>4, <3>3, CompleteIsClosed DEF GoodPoint, PointType
        <4>3. q.known => OnTop(q.words, rest)
          BY <1>6, <1>8, <3>3, <4>1, <4>2, StoredOnTop DEF CoversFrame, CoversAt
        <4> QED
          BY <1>2, <1>7, <1>8, <3>3, <4>3 DEF CoversFrame, CoversAt
      <3> QED
        BY <1>3, <3>3, <3>4, AnalyzerStays, CoversHereNext
    <2>4. Behind'
      <3>1. SUFFICES ASSUME NEW k \in 1..Len(frames'), follow \/ k = Len(frames')
                     PROVE  (\E q : AlreadyVisited(q) /\ CoversFrame(q, k))'
        BY <2>1, <2>2 DEF Behind
      <3>2. k + 1 \in DOMAIN frames /\ (follow \/ k + 1 = Len(frames))
        BY <2>1, <3>1
      <3>3. PICK q : AlreadyVisited(q) /\ CoversFrame(q, k + 1)
        BY <1>4, <3>2 DEF Behind
      <3>4. CoversFrame(q, k)'
        BY <2>1, <3>1, <3>3, CoversFrameNext DEF CoversFrame
      <3> QED
        BY <1>3, <3>3, <3>4, AnalyzerStays
    <2>5. ~(Len(frames') >= Len(frames))
      BY <2>1
    <2> QED
      BY <2>2, <2>3, <2>4, <2>5 DEF StepOK, RunInv
  <1>9. CASE ~resumes
    <2>1. Claimed /\ FollowedHere /\ frames' = frames
      BY <1>2, <1>9
    <2>2. PICK p : Followed(p)
      BY <1>3, <2>1, ContinuesFacts DEF Continues
    <2>3. /\ KnowsReturn(p) /\ op = 96 /\ GoodPoint(p) /\ p.known /\ p.depth > 0
          /\ OnTop(p.words, stack)
      BY <1>5, <2>2 DEF Followed, KnowsReturn, CoversHere, CoversAt
    <2>4. p.words \in Seq(Word) /\ p.depth = Len(p.words) /\ p.words # <<>>
      BY <2>3 DEF GoodPoint, PointType, WordsWithinDepth
    <2>5. /\ Len(stack) >= 2
          /\ stack[Len(stack) - 1] \in {<<"high", p.words[p.depth]>>, Stored}
          /\ OnTop(SubSeq(p.words, 1, p.depth - 1), SubSeq(stack, 1, Len(stack) - 2))
      BY <1>4, <2>3, <2>4, PoppedFromTop
    <2>6. stack[Len(stack) - 1] = <<"high", w>> /\ b = Bank(cpu.pc)
      BY <2>3 DEF ReturnWords, ReturnBanks
    <2>7. w = p.words[p.depth]
      BY <2>5, <2>6 DEF Stored
    <2>8. rest = SubSeq(stack, 1, Len(stack) - 2)
      BY <1>4, <2>3, <2>5 DEF Pull, rest
    <2>9. CoversAt(Returned(p), cpu'.pc, flags', stack')
      <3>1. Agrees(StateAfter(p), flags)
        BY <1>5, <2>2, SameState
      <3>2. Returned(p).address = to
        BY <1>4, <1>5, <2>2, <2>3, <2>6, <2>7, ReturnedIs DEF to
      <3> QED
        BY <1>2, <1>4, <1>5, <1>7, <2>2, <2>3, <2>5, <2>8, <3>1, <3>2, ReturnedIs DEF CoversAt
    <2>10. LeadsTo(p, Returned(p))
      BY <1>5, <2>2, <2>3 DEF LeadsTo, Followed
    <2> QED
      BY <1>2, <1>3, <1>6, <1>7, <2>1, <2>2, <2>9, <2>10, StepInFrame DEF StepOK
  <1> QED
    BY <1>8, <1>9

-----------------------------------------------------------------------------
(* Every program. *)

LEMMA InitRunInv == Init => RunInv
  BY InitWalkInv DEF Init, CpuInit, RunInv, CpuOK, Started

LEMMA NextRunInv ==
  ASSUME RunInv, Next
  PROVE  StepOK
  <1>1. CASE AnalyzerNext /\ UNCHANGED cpuVars
    <2>1. UNCHANGED <<cpu, stack, frames>> /\ WalkInv'
      BY <1>1, WalkStaysInv DEF cpuVars, RunInv
    <2>2. ~Started
      BY <1>1, CompleteIsOver DEF RunInv
    <2>3. CpuOK' /\ ~Started'
      BY <2>1, <2>2 DEF RunInv, CpuOK, Started
    <2> QED
      BY <2>1, <2>2, <2>3 DEF StepOK, RunInv
  <1>2. CASE CpuNext
    BY <1>2, StartOK, PlainOK, MoveStackOK, ExchangeCarryOK, BranchOK, JumpOK, CallDirectOK,
       CallIndirectOK, ReturnOK DEF CpuNext
  <1> QED
    BY <1>1, <1>2 DEF Next

LEMMA StutterRunInv ==
  ASSUME RunInv, UNCHANGED vars
  PROVE  RunInv'
  <1>1. UNCHANGED <<analyzerVars, frames>> /\ UNCHANGED <<cpu, stack, frames>>
    BY DEF vars, cpuVars
  <1>2. /\ WalkInv' /\ (Complete => Complete') /\ (Claimed' <=> Claimed) /\ (Behind => Behind')
    BY <1>1, AnalyzerStays, SameClaims DEF RunInv
  <1>3. CpuOK' /\ (Started' => Started)
    BY <1>1 DEF RunInv, CpuOK, Started, flags, Normal
  <1>4. Here => Here'
    <2>1. SUFFICES ASSUME Here, Claimed
                   PROVE  (\E q : AlreadyVisited(q) /\ CoversHere(q))'
      BY <1>2 DEF Here
    <2>2. PICK q : AlreadyVisited(q) /\ CoversHere(q)
      BY <2>1 DEF Here
    <2>3. CoversAt(q, cpu'.pc, flags', stack')
      BY <1>1, <2>2 DEF CoversHere, flags
    <2> QED
      BY <1>1, <2>2, <2>3, AnalyzerStays, CoversHereNext
  <1> QED
    BY <1>2, <1>3, <1>4 DEF RunInv

LEMMA RunInvariant == Spec => []RunInv
  <1>1. RunInv /\ [Next]_vars => RunInv'
    BY NextRunInv, StutterRunInv DEF StepOK
  <1> QED
    BY InitRunInv, <1>1, PTL DEF Spec

(* For every image, limit and array size: once the walk is complete, there *)
(* is a visited point for every state the run gets to, behind calls into   *)
(* any bank as well, with its address and nothing false of its bits; the   *)
(* return words it knows lie where they were pushed, but for what a store  *)
(* has hit (analyze_entry, dkc2_decode_state_apply, track_stack_effect).   *)
THEOREM RunsAreCovered == Spec => []RunIsCovered
  <1>1. RunInv => RunIsCovered
    <2>1. SUFFICES ASSUME RunInv, Started, Claimed
                   PROVE  \E i \in DOMAIN visited : Covers(visited[i])
      BY DEF RunIsCovered
    <2>2. PICK p : AlreadyVisited(p) /\ CoversHere(p)
      BY <2>1 DEF RunInv, Here
    <2> QED
      BY <2>2 DEF AlreadyVisited, Covers, CoversHere, CoversAt
  <1> QED
    BY RunInvariant, <1>1, PTL

(* For every image, limit and array size: every step of the run but the    *)
(* return from a call is an edge of the graph (record_edge).  A return     *)
(* through a word that a store has hit is where the run stops.             *)
THEOREM RunsFollowEdges == Spec => StepsAreEdges
  <1>1. ASSUME RunInv, [Next]_vars
        PROVE  [Started /\ Claimed /\ Len(frames') >= Len(frames) => Taken]_cpuVars
    <2>1. CASE Next
      BY <1>1, <2>1, NextRunInv DEF StepOK
    <2>2. CASE UNCHANGED vars
      BY <2>2 DEF vars
    <2> QED
      BY <1>1, <2>1, <2>2
  <1>2. [Started /\ Claimed /\ Len(frames') >= Len(frames) => Taken]_cpuVars =>
          [Started /\ Claimed /\ Len(frames') >= Len(frames) =>
             \E i \in DOMAIN edges :
                /\ edges[i].from.address = cpu.pc /\ Agrees(edges[i].from.state, flags)
                /\ edges[i].to.address = cpu'.pc /\ Agrees(edges[i].to.state, flags')]_cpuVars
    BY DEF Taken
  <1> QED
    BY RunInvariant, <1>1, <1>2, PTL DEF Spec, StepsAreEdges
=============================================================================
