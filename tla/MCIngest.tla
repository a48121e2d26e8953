------------------------------ MODULE MCIngest ------------------------------
(* Constant values for the model checking of Ingest. *)
EXTENDS Ingest

CONSTANTS good, big

TwoBatches == {good, big}
FittingOne == {good}
=============================================================================
