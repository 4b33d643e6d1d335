---------------------------- MODULE WorkloadGate ----------------------------
(***************************************************************************)
(* The broker's admission gate for one GPU host shared by a text service   *)
(* and an image service (chatty-broker/src/workload.rs), together with its *)
(* two callers text_workload and image_workload (adapters.rs) and the      *)
(* memory of the GPU they protect.                                         *)
(*                                                                         *)
(* An operation is one caller of the gate: a generation, an extraction, a  *)
(* model load, an image job.  It may call again when it is done.  Every    *)
(* step is one critical section of the gate's mutex, or one poll of the    *)
(* admission future: `enabled' is the point between registering for a      *)
(* notification and taking the lock, `parked' is the await.                *)
(***************************************************************************)
EXTENDS Naturals, FiniteSets

CONSTANTS
  Op,            \* the callers of the gate
  MaxReconfig    \* how often an administrator changes the image setting

ASSUME OpAssumption == IsFiniteSet(Op)
ASSUME ReconfigAssumption == MaxReconfig \in Nat

VARIABLES
  loaded,        \* kind whose models may be resident, or "none"
  active,        \* number of guards held
  waiting,       \* waiting[k]: admission futures of kind k that were counted
  switching,     \* the first holder of a new kind is unloading the other one
  pc,            \* where each operation stands
  kind,          \* the kind of work of each operation's current call
  counted,       \* operations that are included in `waiting'
  notified,      \* registered operations that a notification has reached
  resident,      \* kinds that really have a model in the GPU's memory
  image_enabled, \* BrokerConfig.image.enabled; the hosts are the same
  reconfigs      \* bound on changes of image_enabled

gate == <<loaded, active, waiting, switching>>
queue == <<pc, kind, counted, notified>>
config == <<image_enabled, reconfigs>>
vars == <<gate, queue, resident, config>>

Workload == {"text", "image"}
Other(k) == IF k = "text" THEN "image" ELSE "text"
Stage == {"idle", "enabled", "parked", "switching", "working", "unguarded"}

TypeOK ==
  /\ loaded \in Workload \cup {"none"}
  /\ active \in Nat
  /\ waiting \in [Workload -> Nat]
  /\ switching \in BOOLEAN
  /\ pc \in [Op -> Stage]
  /\ kind \in [Op -> Workload]
  /\ counted \in SUBSET Op
  /\ notified \in SUBSET Op
  /\ resident \in SUBSET Workload
  /\ image_enabled \in BOOLEAN
  /\ reconfigs \in 0 .. MaxReconfig

\* A broker starts with an unused gate.  The model servers outlive it, so
\* anything may already be resident.
Init ==
  /\ loaded = "none"
  /\ active = 0
  /\ waiting = [k \in Workload |-> 0]
  /\ switching = FALSE
  /\ pc = [p \in Op |-> "idle"]
  /\ kind = [p \in Op |-> "text"]
  /\ counted = {}
  /\ notified = {}
  /\ resident \in SUBSET Workload
  /\ image_enabled \in BOOLEAN
  /\ reconfigs = 0

\* Holders of a guard.
Holders == {p \in Op : pc[p] \in {"switching", "working"}}

\* Counted admission futures of one kind.
WaitingFor(k) == {p \in counted : kind[p] = k}

\* Futures that a notify_waiters call reaches: every registered one.
Registered == {p \in Op : pc[p] \in {"enabled", "parked"}}

\* Mutant: with guards held, only the waiting count is looked at.
CanAdmitAnyKind(k) ==
  /\ ~switching
  /\ waiting[Other(k)] = 0


\* The admission condition of `admit'.
CanAdmit(k) ==
  /\ ~switching
  /\ IF active = 0 THEN ~(loaded = k /\ waiting[Other(k)] > 0)
                   ELSE loaded = k /\ waiting[Other(k)] = 0

\* The caller reads the configuration.  With images disabled no host is
\* shared: text work proceeds without a guard and image work is refused.
Call(p, k) ==
  /\ pc[p] = "idle"
  /\ image_enabled \/ k = "text"
  /\ pc' = [pc EXCEPT ![p] = IF image_enabled THEN "enabled" ELSE "unguarded"]
  /\ kind' = [kind EXCEPT ![p] = k]
  /\ UNCHANGED <<gate, counted, notified, resident, config>>

\* The branch of the poll that admits.
Admit(p) ==
  LET k == kind[p]
      same == loaded = k
  IN  /\ pc[p] = "enabled"
      /\ CanAdmit(k)
      /\ waiting' = IF p \in counted THEN [waiting EXCEPT ![k] = @ - 1] ELSE waiting
      /\ counted' = counted \ {p}
      /\ notified' = notified \ {p}
      /\ loaded' = k
      /\ active' = active + 1
      /\ switching' = ~same
      /\ pc' = [pc EXCEPT ![p] = IF same THEN "working" ELSE "switching"]
      /\ UNCHANGED <<kind, resident, config>>

\* The branch of the poll that counts the future as waiting and awaits.
Park(p) ==
  LET k == kind[p]
  IN  /\ pc[p] = "enabled"
      /\ ~CanAdmit(k)
      /\ waiting' = IF p \in counted THEN waiting ELSE [waiting EXCEPT ![k] = @ + 1]
      /\ counted' = counted \cup {p}
      /\ pc' = [pc EXCEPT ![p] = "parked"]
      /\ UNCHANGED <<loaded, active, switching, kind, notified, resident, config>>

\* The awaited notification has arrived: register again and loop.
Wake(p) ==
  /\ pc[p] = "parked"
  /\ p \in notified
  /\ notified' = notified \ {p}
  /\ pc' = [pc EXCEPT ![p] = "enabled"]
  /\ UNCHANGED <<gate, kind, counted, resident, config>>

\* Mutant: a dropped admission future notifies nobody.
DropWaitingSilently(p) ==
  /\ pc[p] = "parked"
  /\ waiting' = [waiting EXCEPT ![kind[p]] = @ - 1]
  /\ counted' = counted \ {p}
  /\ notified' = notified \ {p}
  /\ pc' = [pc EXCEPT ![p] = "idle"]
  /\ UNCHANGED <<loaded, active, switching, kind, resident, config>>

\* A cancelled image job drops its admission future at the await.
DropWaiting(p) ==
  /\ pc[p] = "parked"
  /\ waiting' = [waiting EXCEPT ![kind[p]] = @ - 1]
  /\ counted' = counted \ {p}
  /\ notified' = (notified \cup Registered) \ {p}
  /\ pc' = [pc EXCEPT ![p] = "idle"]
  /\ UNCHANGED <<loaded, active, switching, kind, resident, config>>

\* switched(): the other kind is out of the way, the caller starts its work.
Switched(p) ==
  /\ switching' = FALSE
  /\ notified' = notified \cup Registered
  /\ pc' = [pc EXCEPT ![p] = "working"]
  /\ UNCHANGED <<loaded, active, waiting, kind, counted, config>>

\* text_workload frees the image models on a best-effort basis.
FreeImageModels(p) ==
  /\ pc[p] = "switching"
  /\ kind[p] = "text"
  /\ resident' \in {resident, resident \ {"image"}}
  /\ Switched(p)

\* image_workload goes on only once the runtime reports no running chat model.
UnloadTextModels(p) ==
  /\ pc[p] = "switching"
  /\ kind[p] = "image"
  /\ resident' = resident \ {"text"}
  /\ Switched(p)

\* Mutant: a guard dropped in mid-switch keeps the new kind.
DropGuardKeepingKind(p) ==
  /\ active' = active - 1
  /\ switching' = FALSE
  /\ loaded' = loaded
  /\ notified' = notified \cup Registered
  /\ pc' = [pc EXCEPT ![p] = "idle"]
  /\ UNCHANGED <<waiting, kind, counted, config>>

\* Drop of a WorkloadGuard.  In mid-switch the other kind may still be loaded,
\* so the gate forgets the kind and the next holder unloads again.
DropGuard(p) ==
  /\ active' = active - 1
  /\ switching' = FALSE
  /\ loaded' = IF switching THEN "none" ELSE loaded
  /\ notified' = notified \cup Registered
  /\ pc' = [pc EXCEPT ![p] = "idle"]
  /\ UNCHANGED <<waiting, kind, counted, config>>

\* The unload of the chat models fails or times out after some of them left,
\* or the image job is cancelled meanwhile.  A text caller inside an image job
\* (describe_scene) can be cancelled in mid-switch as well.
AbortSwitch(p) ==
  /\ pc[p] = "switching"
  /\ resident' \in {resident, resident \ {Other(kind[p])}}
  /\ DropGuard(p)

\* The work ends: finished, failed or cancelled.
Finish(p) ==
  /\ pc[p] = "working"
  /\ DropGuard(p)
  /\ UNCHANGED resident

\* The model server loads a model for a request it serves.
LoadModel(p) ==
  /\ pc[p] \in {"working", "unguarded"}
  /\ kind[p] \notin resident
  /\ resident' = resident \cup {kind[p]}
  /\ UNCHANGED <<gate, queue, config>>

\* Work that was admitted without a guard ends.
FinishUnguarded(p) ==
  /\ pc[p] = "unguarded"
  /\ pc' = [pc EXCEPT ![p] = "idle"]
  /\ UNCHANGED <<gate, kind, counted, notified, resident, config>>

\* A model server drops an idle model (keep-alive), or an administrator
\* unloads one.
Expire(k) ==
  /\ k \in resident
  /\ resident' = resident \ {k}
  /\ UNCHANGED <<gate, queue, config>>

\* AdminSetBrokerConfig turns image generation on or off.
SetImageEnabled ==
  /\ reconfigs < MaxReconfig
  /\ image_enabled' = ~image_enabled
  /\ reconfigs' = reconfigs + 1
  /\ UNCHANGED <<gate, queue, resident>>

Poll(p) == Admit(p) \/ Park(p)
EndSwitch(p) == FreeImageModels(p) \/ UnloadTextModels(p) \/ AbortSwitch(p)

Next ==
  \/ \E p \in Op :
       \/ \E k \in Workload : Call(p, k)
       \/ Poll(p) \/ Wake(p) \/ DropWaiting(p) \/ EndSwitch(p)
       \/ Finish(p) \/ LoadModel(p) \/ FinishUnguarded(p)
  \/ \E k \in Workload : Expire(k)
  \/ SetImageEnabled

Spec == Init /\ [][Next]_vars

\* The runtime polls a woken task eventually; switches are bounded by the unload
\* timeout and work by the adapters' request timeouts.
Fairness ==
  \A p \in Op : /\ WF_vars(Poll(p))
                /\ WF_vars(Wake(p))
                /\ WF_vars(EndSwitch(p))
                /\ WF_vars(Finish(p))

FairSpec == Spec /\ Fairness
-----------------------------------------------------------------------------
(* Properties *)

\* The counters of GateState are exact: `active' is the number of guards alive
\* and `waiting' the number of counted admission futures, so neither usize can
\* underflow when a guard or a future is dropped.
CountersExact ==
  /\ active = Cardinality(Holders)
  /\ \A k \in Workload : waiting[k] = Cardinality(WaitingFor(k))

\* Guards of both kinds never coexist, and every guard is of the loaded kind:
\* the gate admits one kind of work at a time.
OneKindAtATime ==
  \A p \in Holders : kind[p] = loaded

\* While a holder is still unloading the other kind it is the only holder
\* (part of the inductive invariant).
SwitcherAlone ==
  \A p \in Op : pc[p] = "switching" => switching /\ Holders = {p}

\* No lost wakeup: an admission future that is parked and has no notification
\* on its way could not be admitted now.
ParkedMeansBlocked ==
  \A p \in Op : pc[p] = "parked" /\ p \notin notified => ~CanAdmit(kind[p])

\* image_workload never starts image work while a chat model may still occupy
\* the shared GPU, and none is loaded while image work runs.  Once the image
\* setting has been changed this can fail: text work admitted without a guard
\* goes on, and the gate does not know of the model it loads.
ImageWorkHasTheGpu ==
  reconfigs = 0 =>
    \A p \in Op : pc[p] = "working" /\ kind[p] = "image" => "text" \notin resident

\* Neither kind starves: of a kind that waits some operation gets a guard, or
\* its last admission future is dropped.
NeitherKindStarves ==
  \A k \in Workload :
    waiting[k] > 0 ~> (waiting[k] = 0 \/ \E p \in Holders : kind[p] = k)

=============================================================================
