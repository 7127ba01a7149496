----------------------------- MODULE RewindRing -----------------------------
(***************************************************************************)
(* src/runner/desktop_rewind.c: the snapshots that rewinding goes back to, *)
(* in a ring of fixed capacity, and the reset the host makes of it when a  *)
(* state is loaded (src/runner/sdl_main.c).  RewindStack says what the     *)
(* ring promises.                                                          *)
(***************************************************************************)
EXTENDS Naturals, Sequences

CONSTANTS
  Capacity,       (* capacity: kRewindSnapshotCapacity.                    *)
  Snapshots,      (* The snapshots the emulator may take.                  *)
  Uninitialised   (* What malloc leaves in the storage.                    *)

ASSUME CapacityAssumption == Capacity \in Nat \ {0}

VARIABLES
  storage,        (* storage, a snapshot a slot.                           *)
  count,          (* count: the snapshots that can be popped.              *)
  writeIndex,     (* write_index: the slot the next snapshot goes to.      *)
  popped          (* The caller's buffer, as the last Pop left it.         *)

ringVars == <<storage, count, writeIndex, popped>>

Slots == 0 .. Capacity - 1
Contents == Snapshots \cup {Uninitialised}

RingInit ==
  /\ storage = [i \in Slots |-> Uninitialised]
  /\ count = 0
  /\ writeIndex = 0
  /\ popped = Uninitialised

(* Mutant: the count runs past the capacity. *)
CountAfterPushUnbounded == count + 1

CountAfterPush == IF count < Capacity THEN count + 1 ELSE count

(* Dkc2RewindHistoryPush: a full ring overwrites its oldest snapshot. *)
Push(s) ==
  /\ storage' = [storage EXCEPT ![writeIndex] = s]
  /\ writeIndex' = (writeIndex + 1) % Capacity
  /\ count' = CountAfterPush
  /\ UNCHANGED popped

(* Mutant: the slot about to be written is read, not the one before it. *)
PopBeforeStepBack ==
  /\ count # 0
  /\ writeIndex' = (writeIndex + Capacity - 1) % Capacity
  /\ popped' = storage[writeIndex]
  /\ count' = count - 1
  /\ UNCHANGED storage

(* Dkc2RewindHistoryPop. *)
Pop ==
  /\ count # 0
  /\ writeIndex' = (writeIndex + Capacity - 1) % Capacity
  /\ popped' = storage[writeIndex']
  /\ count' = count - 1
  /\ UNCHANGED storage

(* Loading a state forgets the snapshots of the play it leaves. *)
Clear ==
  /\ count' = 0
  /\ writeIndex' = 0
  /\ UNCHANGED <<storage, popped>>

RingNext == (\E s \in Snapshots : Push(s)) \/ Pop \/ Clear

RingSpec == RingInit /\ [][RingNext]_ringVars

-----------------------------------------------------------------------------
(* Properties. *)

(* The slot of the i-th oldest of the snapshots kept. *)
SlotOf(i) == (writeIndex + Capacity - count + i - 1) % Capacity

(* The snapshots kept, oldest first. *)
History == [i \in 1 .. count |-> storage[SlotOf(i)]]

(* The ring is well formed, and what can be popped has been pushed: no pop *)
(* ever reads a slot that was not written.                                 *)
RingTypeOK ==
  /\ storage \in [Slots -> Contents]
  /\ count \in 0 .. Capacity
  /\ writeIndex \in Slots
  /\ popped \in Contents
  /\ \A i \in 1 .. count : storage[SlotOf(i)] \in Snapshots

Stack == INSTANCE RewindStack WITH
  stack <- History, Nothing <- Uninitialised

(* The ring is a bounded stack: through any pushes, pops and resets, and   *)
(* however often the index wrapped, a pop gives back the newest snapshot   *)
(* not yet given back, and a push to a full ring loses the oldest only.    *)
ImplementsStack == Stack!Spec
=============================================================================
