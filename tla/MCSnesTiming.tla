---------------------------- MODULE MCSnesTiming ----------------------------
(* Values of SnesTiming's constants for model checking. *)
EXTENDS SnesTiming

(* Dot 0, a dot inside the line, the last and one past it. *)
BeamHTimes == {0, 2, 4, 5}
BeamVTimes == {0, 2, 4}
AllNmitimens == Nmitimens
NmiWrites == { w \in Nmitimens : ~w.joy /\ w.mode = "off" }

(* Less than a line, more than a line, a frame and more. *)
BeamAdvances == {1, 3, 7, 21}

(* One dot, within the delays, and past both of them. *)
MathAdvances == {1, 2, 5}

(* Interrupts, the controller ports and the multiply/divide unit know of    *)
(* each other only through the beam.                                        *)
TimersIdle == /\ ~nmiEnable /\ ~nmiPending /\ irqMode = "off" /\ ~timeup
              /\ hTime = 0 /\ vTime = 0
PortsIdle  == ~strobe /\ \A p \in Ports : controllers[p] = NoButtons /\ joyResult[p] = NoButtons
                                         /\ shift[p] = Latch(NoButtons)
MathIdle   == /\ multiplicand = 0 /\ dividend = 0 /\ mathLeft = 0
              /\ quotient = 0 /\ product = 0
              /\ mathOp = [division |-> FALSE, a |-> 0, b |-> 0]

(* In a behaviour of this specification only one of the three is in use,    *)
(* and polls are left out beside the multiply/divide unit.                  *)
OneUnit ==
  \/ MathIdle /\ PortsIdle
  \/ MathIdle /\ TimersIdle
  \/ PortsIdle /\ TimersIdle /\ ~joyEnable /\ autojoy = 0

UnitsSpec == TimingInit /\ [][TimingNext /\ OneUnit']_timingVars
=============================================================================
