--------------------------- MODULE MCWorkloadGate ---------------------------
(***************************************************************************)
(* The use of the models, one part at a time (`focus'): the gate that every *)
(* text and image operation passes, and the memory extraction of a         *)
(* conversation, which runs when the models are idle.                      *)
(***************************************************************************)
EXTENDS WorkloadGate, MemoryJobs

VARIABLE focus

GateInit ==
  /\ focus \in {"gate", "memories"}
  /\ Init /\ (focus # "gate" => resident = {} /\ image_enabled)
  /\ MemInit

GateNext ==
  \/ focus = "gate" /\ Next /\ UNCHANGED <<focus, memVars>>
  \/ focus = "memories" /\ MemNext /\ UNCHANGED <<focus, vars>>

GateSpec == GateInit /\ [][GateNext]_<<focus, vars, memVars>> /\ Fairness /\ MemFairness
=============================================================================
