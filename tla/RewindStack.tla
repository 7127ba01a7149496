---------------------------- MODULE RewindStack ----------------------------
(***************************************************************************)
(* What rewinding promises: the last Capacity snapshots taken, given back  *)
(* newest first.  A snapshot too many drops the oldest one.                *)
(***************************************************************************)
EXTENDS Naturals, Sequences

CONSTANTS
  Capacity,       (* The most snapshots kept.                              *)
  Snapshots,      (* The snapshots there may be.                           *)
  Nothing         (* What the caller's buffer holds before the first Pop.  *)

VARIABLES
  stack,          (* The snapshots kept, oldest first.                     *)
  popped          (* The snapshot last given back.                         *)

stackVars == <<stack, popped>>

Init ==
  /\ stack = <<>>
  /\ popped = Nothing

(* The stack with one more snapshot. *)
Keep(s) == Append(IF Len(stack) = Capacity THEN Tail(stack) ELSE stack, s)

Push(s) ==
  /\ stack' = Keep(s)
  /\ UNCHANGED popped

Pop ==
  /\ stack # <<>>
  /\ popped' = stack[Len(stack)]
  /\ stack' = SubSeq(stack, 1, Len(stack) - 1)

Clear ==
  /\ stack' = <<>>
  /\ UNCHANGED popped

Next == (\E s \in Snapshots : Push(s)) \/ Pop \/ Clear

Spec == Init /\ [][Next]_stackVars
=============================================================================
