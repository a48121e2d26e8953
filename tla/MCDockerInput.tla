--------------------------- MODULE MCDockerInput ---------------------------
(* Constant values for the model checking of DockerInput. *)
EXTENDS DockerInput

CONSTANTS g1, g2, none

TwoTailers == {g1, g2}
FewFaults  == [rotate |-> 2, error |-> 1]
=============================================================================
