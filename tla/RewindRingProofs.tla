-------------------------- MODULE RewindRingProofs --------------------------
(***************************************************************************)
(* Proofs about RewindRing for every capacity and every set of snapshots:  *)
(* the ring is always well formed, and it implements the bounded stack.    *)
(***************************************************************************)
EXTENDS RewindRing, Integers, SequenceTheorems, TLAPS

-----------------------------------------------------------------------------
(* Slots: where the index wraps. *)

(* The next slot, and the one before. *)
LEMMA NextSlot ==
  ASSUME NEW w \in Slots
  PROVE  (w + 1) % Capacity = IF w = Capacity - 1 THEN 0 ELSE w + 1
  BY CapacityAssumption DEF Slots

LEMMA PreviousSlot ==
  ASSUME NEW w \in Slots
  PROVE  (w + Capacity - 1) % Capacity = IF w = 0 THEN Capacity - 1 ELSE w - 1
  <1>1. CASE w = 0
    BY <1>1, CapacityAssumption DEF Slots
  <1>2. CASE w # 0
    <2>1. w + Capacity - 1 \in Capacity .. 2 * Capacity - 1
      BY <1>2, CapacityAssumption DEF Slots
    <2> DEFINE x == w + Capacity - 1
    <2>2. \A y \in Capacity .. 2 * Capacity - 1 : y % Capacity = y - Capacity
      BY CapacityAssumption
    <2> QED
      BY <1>2, <2>1, <2>2, CapacityAssumption DEF Slots
  <1> QED
    BY <1>1, <1>2

(* The i-th oldest of c snapshots, when w is the slot to be written next. *)
LEMMA SlotArithmetic ==
  ASSUME NEW w \in Slots, NEW c \in 0 .. Capacity, NEW i \in 1 .. c
  PROVE  /\ (w + Capacity - c + i - 1) % Capacity
              = IF w + i > c THEN w + i - c - 1 ELSE w + Capacity + i - c - 1
         /\ (w + Capacity - c + i - 1) % Capacity \in Slots
  <1> DEFINE x == w + Capacity - c + i - 1
  <1>1. x \in 0 .. 2 * Capacity - 1
    BY CapacityAssumption DEF Slots
  <1>2. CASE w + i > c
    <2>1. x \in Capacity .. 2 * Capacity - 1
      BY <1>1, <1>2, CapacityAssumption DEF Slots
    <2>2. \A y \in Capacity .. 2 * Capacity - 1 : y % Capacity = y - Capacity
      BY CapacityAssumption
    <2> QED
      BY <1>2, <2>1, <2>2, CapacityAssumption DEF Slots
  <1>3. CASE ~(w + i > c)
    <2>1. x \in 0 .. Capacity - 1
      BY <1>1, <1>3, CapacityAssumption DEF Slots
    <2>2. \A y \in 0 .. Capacity - 1 : y % Capacity = y
      BY CapacityAssumption
    <2> QED
      BY <1>3, <2>1, <2>2, CapacityAssumption DEF Slots
  <1> QED
    BY <1>2, <1>3

LEMMA SlotOfValue ==
  ASSUME RingTypeOK, NEW i \in 1 .. count
  PROVE  /\ SlotOf(i) = IF writeIndex + i > count
                          THEN writeIndex + i - count - 1
                          ELSE writeIndex + Capacity + i - count - 1
         /\ SlotOf(i) \in Slots
  BY SlotArithmetic DEF SlotOf, RingTypeOK

-----------------------------------------------------------------------------
(* The well-formedness of the ring. *)

(* Where a push leaves the snapshots that stay: their places move down by  *)
(* one when the ring was full, and stay as they are when it was not.       *)
LEMMA PushMovesSlots ==
  ASSUME RingTypeOK, NEW s \in Snapshots, Push(s)
  PROVE  /\ writeIndex' \in Slots
         /\ count' \in 1 .. Capacity
         /\ \A i \in 1 .. count' :
              SlotOf(i)' = IF i = count' THEN writeIndex
                           ELSE IF count = Capacity THEN SlotOf(i + 1)
                           ELSE SlotOf(i)
         /\ \A i \in 1 .. count' - 1 : SlotOf(i)' # writeIndex
  <1>1. /\ writeIndex' = IF writeIndex = Capacity - 1
                           THEN 0 ELSE writeIndex + 1
        /\ writeIndex' \in Slots
    BY NextSlot, CapacityAssumption DEF Push, RingTypeOK, Slots
  <1>2. /\ count' = IF count < Capacity THEN count + 1 ELSE count
        /\ count' \in 1 .. Capacity
    BY CapacityAssumption DEF Push, CountAfterPush, RingTypeOK
  <1>3. ASSUME NEW i \in 1 .. count'
        PROVE  SlotOf(i)' = IF writeIndex' + i > count'
                              THEN writeIndex' + i - count' - 1
                              ELSE writeIndex' + Capacity + i - count' - 1
    BY <1>1, <1>2, SlotArithmetic DEF SlotOf
  <1>4. writeIndex \in 0 .. Capacity - 1 /\ count \in 0 .. Capacity
    BY DEF RingTypeOK, Slots
  <1>5. ASSUME NEW i \in 1 .. count', i # count', count = Capacity
        PROVE  SlotOf(i)' = SlotOf(i + 1) /\ SlotOf(i)' # writeIndex
    <2>1. i + 1 \in 1 .. count
      BY <1>2, <1>4, <1>5
    <2>2. SlotOf(i + 1) = IF writeIndex + (i + 1) > count
                            THEN writeIndex + (i + 1) - count - 1
                            ELSE writeIndex + Capacity + (i + 1) - count - 1
      BY <2>1, SlotOfValue
    <2> QED
      BY <1>1, <1>2, <1>3, <1>4, <1>5, <2>2, CapacityAssumption
  <1>6. ASSUME NEW i \in 1 .. count', i # count', count # Capacity
        PROVE  SlotOf(i)' = SlotOf(i) /\ SlotOf(i)' # writeIndex
    <2>1. i \in 1 .. count
      BY <1>2, <1>4, <1>6
    <2>2. SlotOf(i) = IF writeIndex + i > count
                        THEN writeIndex + i - count - 1
                        ELSE writeIndex + Capacity + i - count - 1
      BY <2>1, SlotOfValue
    <2> QED
      BY <1>1, <1>2, <1>3, <1>4, <1>6, <2>2, CapacityAssumption
  <1>7. ASSUME NEW i \in 1 .. count', i = count'
        PROVE  SlotOf(i)' = writeIndex
    BY <1>1, <1>2, <1>3, <1>4, <1>7, CapacityAssumption
  <1>8. ASSUME NEW i \in 1 .. count' - 1
        PROVE  i \in 1 .. count' /\ i # count'
    BY <1>2, <1>8
  <1> QED
    BY <1>1, <1>2, <1>5, <1>6, <1>7, <1>8

(* What stays in the ring after a push, and what is new in it. *)
LEMMA PushMovesHistory ==
  ASSUME RingTypeOK, NEW s \in Snapshots, Push(s), NEW i \in 1 .. count'
  PROVE  storage'[SlotOf(i)']
           = IF i = count' THEN s
             ELSE IF count = Capacity THEN storage[SlotOf(i + 1)]
             ELSE storage[SlotOf(i)]
  <1>1. writeIndex \in Slots /\ storage \in [Slots -> Contents]
    BY DEF RingTypeOK
  <1>2. storage' = [storage EXCEPT ![writeIndex] = s]
    BY DEF Push
  <1>3. CASE i = count'
    BY <1>1, <1>2, <1>3, PushMovesSlots
  <1>4. CASE i # count'
    <2>1. count' \in 1 .. Capacity /\ count \in 0 .. Capacity
      BY PushMovesSlots DEF RingTypeOK
    <2>2. /\ i \in 1 .. count' - 1
          /\ IF count = Capacity THEN i + 1 \in 1 .. count
                                 ELSE i \in 1 .. count
      BY <1>4, <2>1, CapacityAssumption DEF Push, CountAfterPush
    <2>3. /\ SlotOf(i)' # writeIndex
          /\ SlotOf(i)' = IF count = Capacity THEN SlotOf(i + 1) ELSE SlotOf(i)
      BY <1>4, <2>2, PushMovesSlots
    <2>4. SlotOf(i)' \in Slots
      BY <2>2, <2>3, SlotOfValue
    <2> QED
      BY <1>1, <1>2, <1>4, <2>3, <2>4
  <1> QED
    BY <1>3, <1>4

(* A pop leaves every older snapshot in its slot, and takes the newest. *)
LEMMA PopMovesSlots ==
  ASSUME RingTypeOK, Pop
  PROVE  /\ writeIndex' \in Slots
         /\ writeIndex' = SlotOf(count)
         /\ count \in 1 .. Capacity
         /\ count' = count - 1
         /\ \A i \in 1 .. count' : SlotOf(i)' = SlotOf(i)
  <1>1. /\ writeIndex' = (writeIndex + Capacity - 1) % Capacity
        /\ count' = count - 1
        /\ count \in 1 .. Capacity
        /\ writeIndex \in 0 .. Capacity - 1
    BY CapacityAssumption DEF Pop, RingTypeOK, Slots
  <1>2. /\ writeIndex' = IF writeIndex = 0 THEN Capacity - 1
                                           ELSE writeIndex - 1
        /\ writeIndex' \in Slots
    BY <1>1, PreviousSlot, CapacityAssumption DEF Slots
  <1>3. SlotOf(count) = IF writeIndex + count > count
                          THEN writeIndex + count - count - 1
                          ELSE writeIndex + Capacity + count - count - 1
    BY <1>1, SlotOfValue
  <1>4. writeIndex' = SlotOf(count)
    BY <1>1, <1>2, <1>3, CapacityAssumption
  <1>5. ASSUME NEW i \in 1 .. count'
        PROVE  SlotOf(i)' = SlotOf(i)
    <2>1. i \in 1 .. count /\ count' \in 0 .. Capacity
      BY <1>1, CapacityAssumption
    <2>2. SlotOf(i) = IF writeIndex + i > count
                        THEN writeIndex + i - count - 1
                        ELSE writeIndex + Capacity + i - count - 1
      BY <2>1, SlotOfValue
    <2>3. SlotOf(i)' = IF writeIndex' + i > count'
                        THEN writeIndex' + i - count' - 1
                        ELSE writeIndex' + Capacity + i - count' - 1
      BY <1>2, <2>1, SlotArithmetic DEF SlotOf
    <2> QED
      BY <1>1, <1>2, <2>1, <2>2, <2>3, CapacityAssumption
  <1> QED
    BY <1>1, <1>2, <1>4, <1>5

LEMMA RingNextTypeOK ==
  ASSUME RingTypeOK, RingNext
  PROVE  RingTypeOK'
  <1>1. ASSUME NEW s \in Snapshots, Push(s) PROVE RingTypeOK'
    <2>1. storage' \in [Slots -> Contents]
      BY <1>1 DEF RingTypeOK, Push, Contents
    <2>2. ASSUME NEW i \in 1 .. count' PROVE storage'[SlotOf(i)'] \in Snapshots
      <3>1. count' \in 1 .. Capacity /\ count \in 0 .. Capacity
        BY <1>1, PushMovesSlots DEF RingTypeOK
      <3>2. CASE i = count'
        BY <1>1, <3>2, PushMovesHistory
      <3>3. CASE i # count' /\ count = Capacity
        <4>1. i + 1 \in 1 .. count
          BY <1>1, <3>1, <3>3
        <4> QED
          BY <1>1, <3>3, <4>1, PushMovesHistory DEF RingTypeOK
      <3>4. CASE i # count' /\ count # Capacity
        <4>1. i \in 1 .. count
          BY <1>1, <3>1, <3>4, CapacityAssumption DEF Push, CountAfterPush
        <4> QED
          BY <1>1, <3>4, <4>1, PushMovesHistory DEF RingTypeOK
      <3> QED
        BY <3>2, <3>3, <3>4
    <2>3. writeIndex' \in Slots /\ count' \in 0 .. Capacity
      BY <1>1, PushMovesSlots
    <2>4. popped' \in Contents
      BY <1>1 DEF Push, RingTypeOK
    <2> QED
      BY <2>1, <2>2, <2>3, <2>4 DEF RingTypeOK
  <1>2. CASE Pop
    <2>1. /\ storage' = storage /\ writeIndex' \in Slots
          /\ count' = count - 1 /\ count \in 1 .. Capacity
          /\ popped' = storage[writeIndex']
      BY <1>2, PopMovesSlots DEF Pop
    <2>2. ASSUME NEW i \in 1 .. count' PROVE storage'[SlotOf(i)'] \in Snapshots
      <3>1. i \in 1 .. count
        BY <2>1
      <3> QED
        BY <1>2, <2>1, <3>1, PopMovesSlots DEF RingTypeOK
    <2>3. popped' \in Contents /\ count' \in 0 .. Capacity
      BY <2>1, CapacityAssumption DEF RingTypeOK
    <2> QED
      BY <2>1, <2>2, <2>3 DEF RingTypeOK
  <1>3. CASE Clear
    BY <1>3, CapacityAssumption DEF Clear, RingTypeOK, Slots
  <1> QED
    BY <1>1, <1>2, <1>3 DEF RingNext

LEMMA RingInitTypeOK == RingInit => RingTypeOK
  BY CapacityAssumption DEF RingInit, RingTypeOK, Slots, Contents

(* The ring is always well formed: in particular every slot that can be    *)
(* popped holds a snapshot that was pushed.                                *)
THEOREM RingTypeInvariant == RingSpec => []RingTypeOK
  <1>1. RingTypeOK /\ UNCHANGED ringVars => RingTypeOK'
    BY DEF RingTypeOK, ringVars, SlotOf
  <1> QED
    BY <1>1, RingInitTypeOK, RingNextTypeOK, PTL DEF RingSpec

-----------------------------------------------------------------------------
(* The refinement. *)

(* A function on 1 .. n is a sequence of length n. *)
LEMMA FunctionIsSequence ==
  ASSUME NEW S, NEW n \in Nat, NEW f \in [1 .. n -> S]
  PROVE  f \in Seq(S) /\ Len(f) = n
  <1>1. f \in Seq(S)
    BY SeqDef
  <1>2. DOMAIN f = 1 .. n /\ DOMAIN f = 1 .. Len(f) /\ Len(f) \in Nat
    BY <1>1, LenProperties
  <1> QED
    BY <1>1, <1>2

LEMMA HistoryIsSequence ==
  ASSUME RingTypeOK
  PROVE  /\ History \in Seq(Snapshots)
         /\ Len(History) = count
         /\ \A i \in 1 .. count : History[i] = storage[SlotOf(i)]
  <1>1. count \in Nat /\ History \in [1 .. count -> Snapshots]
    BY CapacityAssumption DEF RingTypeOK, History
  <1> QED
    BY <1>1, FunctionIsSequence DEF History

LEMMA NextHistoryIsSequence ==
  ASSUME RingTypeOK'
  PROVE  /\ History' \in Seq(Snapshots)
         /\ Len(History') = count'
         /\ \A i \in 1 .. count' : History'[i] = storage'[SlotOf(i)']
  <1>1. count' \in Nat /\ History' \in [1 .. count' -> Snapshots]
    BY CapacityAssumption DEF RingTypeOK, History
  <1> QED
    BY <1>1, FunctionIsSequence DEF History

LEMMA InitMaps == RingInit => Stack!Init
  <1> SUFFICES ASSUME RingInit PROVE Stack!Init
    OBVIOUS
  <1>1. History \in Seq(Snapshots) /\ Len(History) = 0
    BY RingInitTypeOK, HistoryIsSequence DEF RingInit
  <1>2. History = <<>>
    BY <1>1, EmptySeq
  <1> QED
    BY <1>2 DEF RingInit, Stack!Init

LEMMA BelowTheLast ==
  ASSUME NEW n \in Nat, NEW i \in 1 .. n, i # n
  PROVE  i \in 1 .. n - 1
  OBVIOUS

LEMMA PushMaps ==
  ASSUME RingTypeOK, RingTypeOK', NEW s \in Snapshots, Push(s)
  PROVE  Stack!Push(s)
  <1> DEFINE kept == IF Len(History) = Capacity THEN Tail(History) ELSE History
  <1>1. /\ count' \in 1 .. Capacity /\ count \in 0 .. Capacity
        /\ \A i \in 1 .. count' : i # count' => i \in 1 .. count' - 1
    <2>1. count' \in 1 .. Capacity /\ count \in 0 .. Capacity
      BY PushMovesSlots DEF RingTypeOK
    <2>2. count' \in Nat
      BY <2>1, CapacityAssumption
    <2> QED
      BY <2>1, <2>2, BelowTheLast
  <1>2. /\ kept \in Seq(Snapshots)
        /\ Len(kept) = count' - 1
        /\ \A i \in 1 .. count' - 1 :
             kept[i] = IF count = Capacity THEN storage[SlotOf(i + 1)]
                                           ELSE storage[SlotOf(i)]
    <2>1. CASE count = Capacity
      <3>1. History # <<>>
        BY <2>1, HistoryIsSequence, CapacityAssumption, EmptySeq
      <3>2. kept = Tail(History) /\ count' = count
        BY <2>1, HistoryIsSequence DEF Push, CountAfterPush
      <3>3. /\ Tail(History) \in Seq(Snapshots)
            /\ Len(Tail(History)) = count - 1
            /\ \A i \in 1 .. count - 1 : Tail(History)[i] = History[i + 1]
        BY <3>1, HistoryIsSequence, HeadTailProperties
      <3>4. \A i \in 1 .. count - 1 : i + 1 \in 1 .. count
        BY <1>1
      <3> QED
        BY <2>1, <3>2, <3>3, <3>4, HistoryIsSequence
    <2>2. CASE count # Capacity
      <3>1. kept = History /\ count' = count + 1
        BY <1>1, <2>2, HistoryIsSequence, CapacityAssumption
        DEF Push, CountAfterPush
      <3> QED
        BY <1>1, <2>2, <3>1, HistoryIsSequence
    <2> QED
      BY <2>1, <2>2
  <1> HIDE DEF kept
  <1>3. /\ Append(kept, s) \in Seq(Snapshots)
        /\ Len(Append(kept, s)) = count'
        /\ \A i \in 1 .. count' :
             Append(kept, s)[i] = IF i = count' THEN s ELSE kept[i]
    <2>1. /\ Append(kept, s) \in Seq(Snapshots)
          /\ Len(Append(kept, s)) = Len(kept) + 1
          /\ \A i \in 1 .. Len(kept) : Append(kept, s)[i] = kept[i]
          /\ Append(kept, s)[Len(kept) + 1] = s
      BY <1>2, AppendProperties
    <2>2. Len(kept) + 1 = count' /\ count' \in Nat
      BY <1>1, <1>2, CapacityAssumption
    <2>3. /\ Len(Append(kept, s)) = count'
          /\ Append(kept, s)[count'] = s
      BY <2>1, <2>2, Zenon
    <2>4. ASSUME NEW i \in 1 .. count', i # count'
          PROVE  Append(kept, s)[i] = kept[i]
      <3>1. i \in 1 .. Len(kept)
        BY <1>1, <1>2, <2>4
      <3> QED
        BY <2>1, <3>1
    <2> QED
      BY <2>1, <2>3, <2>4
  <1>4. ASSUME NEW i \in 1 .. count' PROVE History'[i] = Append(kept, s)[i]
    <2>1. CASE i = count'
      <3>1. History'[i] = s
        BY <2>1, NextHistoryIsSequence, PushMovesHistory
      <3> QED
        BY <1>3, <2>1, <3>1
    <2>2. CASE i # count'
      <3>1. i \in 1 .. count' - 1
        BY <1>1, <2>2
      <3> QED
        BY <1>2, <1>3, <2>2, <3>1, NextHistoryIsSequence, PushMovesHistory
    <2> QED
      BY <2>1, <2>2
  <1>5. History' = Append(kept, s)
    BY <1>3, <1>4, NextHistoryIsSequence, SeqEqual
  <1> QED
    BY <1>5 DEF Stack!Push, Stack!Keep, Push, kept

LEMMA PopMaps ==
  ASSUME RingTypeOK, RingTypeOK', Pop
  PROVE  Stack!Pop
  <1>1. count \in 1 .. Capacity /\ count' = count - 1
    BY PopMovesSlots
  <1>2. History # <<>>
    BY <1>1, HistoryIsSequence, EmptySeq
  <1>3. popped' = History[Len(History)]
    BY <1>1, PopMovesSlots, HistoryIsSequence DEF Pop
  <1>4. /\ SubSeq(History, 1, count - 1) \in Seq(Snapshots)
        /\ Len(SubSeq(History, 1, count - 1)) = count'
        /\ \A i \in 1 .. count' : SubSeq(History, 1, count - 1)[i] = History[i]
    <2>1. \A i \in 1 .. count - 1 : History[i] \in Snapshots
      BY <1>1, HistoryIsSequence, ElementOfSeq, CapacityAssumption
    <2> QED
      BY <1>1, <2>1, SubSeqProperties, CapacityAssumption
  <1>5. ASSUME NEW i \in 1 .. count'
        PROVE  History'[i] = SubSeq(History, 1, count - 1)[i]
    <2>1. i \in 1 .. count
      BY <1>1, CapacityAssumption
    <2>2. History'[i] = storage[SlotOf(i)]
      BY NextHistoryIsSequence, PopMovesSlots DEF Pop
    <2> QED
      BY <1>4, <2>1, <2>2, HistoryIsSequence
  <1>6. History' = SubSeq(History, 1, count - 1)
    BY <1>4, <1>5, NextHistoryIsSequence, SeqEqual
  <1> QED
    BY <1>2, <1>3, <1>6, HistoryIsSequence DEF Stack!Pop

LEMMA ClearMaps ==
  ASSUME RingTypeOK, RingTypeOK', Clear
  PROVE  Stack!Clear
  <1>1. History' \in Seq(Snapshots) /\ Len(History') = 0
    BY NextHistoryIsSequence DEF Clear
  <1>2. History' = <<>>
    BY <1>1, EmptySeq
  <1> QED
    BY <1>2 DEF Clear, Stack!Clear

(* The ring is a bounded stack, for every capacity: a pop gives back the   *)
(* newest snapshot left, a push to a full ring loses the oldest only.      *)
THEOREM RingImplementsStack == RingSpec => ImplementsStack
  <1>1. RingInit => Stack!Init
    BY InitMaps
  <1>2. RingTypeOK /\ RingTypeOK' /\ [RingNext]_ringVars
          => [Stack!Next]_(Stack!stackVars)
    <2> SUFFICES ASSUME RingTypeOK, RingTypeOK', [RingNext]_ringVars
                 PROVE  [Stack!Next]_(Stack!stackVars)
      OBVIOUS
    <2>1. CASE UNCHANGED ringVars
      BY <2>1 DEF ringVars, Stack!stackVars, History, SlotOf
    <2>2. CASE RingNext
      BY <2>2, PushMaps, PopMaps, ClearMaps DEF RingNext, Stack!Next
    <2> QED
      BY <2>1, <2>2
  <1> QED
    BY <1>1, <1>2, RingTypeInvariant, PTL
    DEF RingSpec, ImplementsStack, Stack!Spec
=============================================================================
