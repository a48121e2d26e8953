-------------------------- MODULE MCAgentPipeline --------------------------
(* Constant values and bounds for the model checking of AgentPipeline. *)
EXTENDS AgentPipeline

CONSTANTS t1, t2

OneTailer  == {t1}
TwoTailers == {t1, t2}

\* Every channel holds one record: each stage blocks the one before it.
SmallCaps == [c \in Link |-> 1]
=============================================================================
