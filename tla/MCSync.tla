------------------------------ MODULE MCSync ------------------------------
(***************************************************************************)
(* Whether what was written gets through, one layer at a time (`focus'):   *)
(* deltas to a client over one unstable connection, and frames over the    *)
(* stream under it.                                                        *)
(***************************************************************************)
EXTENDS MCDeltaSync, WireFraming

VARIABLE focus

SyncInit == focus \in {"log", "wire"} /\ Init /\ WireInit

SyncNext ==
  \/ focus = "log" /\ Next /\ UNCHANGED <<focus, wireVars>>
  \/ focus = "wire" /\ WireNext /\ UNCHANGED <<focus, vars>>

SyncSpec == SyncInit /\ [][SyncNext]_<<focus, vars, wireVars>> /\ Fairness /\ WireFairness
=============================================================================
