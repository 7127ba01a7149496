----------------------------- MODULE MCHostLoop -----------------------------
(* HostLoop for model checking. *)
EXTENDS HostLoop, TLC

(* An input is only ever remembered: any two of them may be swapped. *)
InputSymmetry == Permutations(Inputs)
=============================================================================
