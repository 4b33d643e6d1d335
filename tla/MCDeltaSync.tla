---------------------------- MODULE MCDeltaSync ----------------------------
(* Instances of DeltaSync: one client a of account alice, with one           *)
(* connection or with two of which a2 replaces or stands beside a1; handlers *)
(* may also act for another account, bob.                                    *)
EXTENDS DeltaSync, TLC

CONSTANTS a1, a2, a, alice, bob

MCOnce == a1 :> a
MCTwice == a1 :> a @@ a2 :> a
MCOwnerOf == [k \in Client |-> alice]

Symmetry == Permutations(Handler)
=============================================================================
