------------------------------ MODULE MCWeights ------------------------------
(* The model's weights and its forward pass: the plan of a read, the two    *)
(* caches of chatty-metal/src/store.rs, and the pass itself, each on its    *)
(* own.  The expert cache is followed until two experts share a slot.       *)
EXTENDS GpuPass, ReadPlan, ExpertCache, EngramCache

VARIABLE focus

Kind(ratio, engram, source, index, cand) ==
  [ratio |-> ratio, engram |-> engram, source |-> source, index |-> index, cand |-> cand]

\* A layer of each sort the model has.
MCLayers ==
  <<Kind(0, FALSE, FALSE, FALSE, "no"),
    Kind(2, TRUE, TRUE, TRUE, "make"),
    Kind(2, FALSE, FALSE, FALSE, "no"),
    Kind(2, FALSE, FALSE, TRUE, "use"),
    Kind(1, FALSE, TRUE, TRUE, "no")>>

Extents == [shard : {0, 1}, offset : 0..9, len : 0..6]
Plans == {<<[extent |-> a, dst |-> 0], [extent |-> b, dst |-> 10]>> : a, b \in Extents}

\* Rows 1 to 3 share a set of two ways.
MCSetIndex(r) == IF r <= 3 THEN "low" ELSE "high"

MCInit ==
  /\ focus \in {"pass", "plan", "experts", "engram"}
  /\ plan \in IF focus = "plan" THEN Plans ELSE {<<>>}
  /\ GpuInit /\ ExpertInit /\ EngramInit

MCNext ==
  \/ focus = "pass" /\ GpuNext /\ UNCHANGED <<focus, plan, expertVars, engramVars>>
  \/ focus = "experts" /\ ~shared /\ ExpertNext /\ UNCHANGED <<focus, plan, gpuVars, engramVars>>
  \/ focus = "engram" /\ EngramNext /\ UNCHANGED <<focus, plan, gpuVars, expertVars>>

MCSpec == MCInit /\ [][MCNext]_<<focus, plan, gpuVars, expertVars, engramVars>>

=============================================================================
