------------------------- MODULE GenerationService -------------------------
(***************************************************************************)
(* What the broker may rely on when it asks the appliance for a reply      *)
(* (chatty-metal-protocol: "One connection carries one handshake and then  *)
(* one request"): pieces of text are produced and handed over in order, a  *)
(* reply that is said to be complete was handed over completely, nothing   *)
(* follows the end, and there is an end.                                   *)
(***************************************************************************)
EXTENDS Naturals

CONSTANTS Conn, MaxTokens

VARIABLES phase,   \* of a request: idle, asked or ended
          made,    \* pieces of its text the model produced
          given    \* pieces the broker has

svars == <<phase, made, given>>

SInit == /\ phase = [c \in Conn |-> "idle"]
         /\ made = [c \in Conn |-> 0] /\ given = [c \in Conn |-> 0]

Ask(c) == phase[c] = "idle" /\ phase' = [phase EXCEPT ![c] = "asked"] /\ UNCHANGED <<made, given>>

\* Text may still be produced for a request the broker has given up.
Produce(c) ==
  /\ phase[c] # "idle" /\ made[c] < MaxTokens
  /\ made' = [made EXCEPT ![c] = @ + 1] /\ UNCHANGED <<phase, given>>

Give(c) ==
  /\ phase[c] = "asked" /\ given[c] < made[c]
  /\ given' = [given EXCEPT ![c] = @ + 1] /\ UNCHANGED <<phase, made>>

End(c) ==
  /\ \/ phase[c] = "asked" /\ phase' = [phase EXCEPT ![c] = "broken"]
     \/ phase[c] = "asked" /\ given[c] = made[c] /\ phase' = [phase EXCEPT ![c] = "complete"]
     \/ phase[c] = "idle" /\ phase' = [phase EXCEPT ![c] = "broken"]
  /\ UNCHANGED <<made, given>>

SNext == \E c \in Conn : Ask(c) \/ Produce(c) \/ Give(c) \/ End(c)

\* What may happen, and that there is an end.
ServiceSteps == SInit /\ [][SNext]_svars

Service ==
  /\ ServiceSteps
  /\ []<>(\A c \in Conn : phase[c] # "asked")
=============================================================================
