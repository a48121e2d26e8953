---------------------------- MODULE MCProcessor ----------------------------
(* Constant values and bounds for the model checking of Processor. *)
EXTENDS Processor, TLC

CONSTANTS w1, w2, m1, m2, m3, t1, t2, none

OneWorker  == {w1}
TwoWorkers == {w1, w2}
TwoMsgs    == {m1, m2}
ThreeMsgs  == {m1, m2, m3}
OneTimer   == {t1}
TwoTimers  == {t1, t2}
NoBad      == {}
BadOne     == {m3}
Sizes      == [m \in Msg |-> IF m = m2 THEN 2 ELSE 1]

\* Fault kinds.
AllFaults     == FaultKind
SignalFaults  == {"signal"}
ServiceFaults == FaultKind \ {"maxAge", "disconnect"}

\* Timer callbacks are interchangeable, and so are processors.
ProcessSymmetry == Permutations(TimerRoutine) \cup Permutations(Worker)
=============================================================================
