--------------------------- MODULE RequestProofs ----------------------------
(***************************************************************************)
(* What holds of the requests of the clients: at the workload gate, which  *)
(* keeps text and image work apart, and from the frame that starts one to  *)
(* its end; for any finite sets of operations and of requests, any         *)
(* connections, any number of reconfigurations and any limit on downloads. *)
(*                                                                         *)
(* GateInv and RequestInv are inductive.  GateInv adds to the gate's       *)
(* properties that its counters are exact, that a parked future is counted *)
(* and that `switching' names a holder; RequestInv that the busy counter   *)
(* and the reservations are exact, and that a key in the registry belongs  *)
(* to a handler that has not ended.                                        *)
(***************************************************************************)
EXTENDS WorkloadGate, RequestLifecycle, FiniteSetTheorems, TLAPS

-----------------------------------------------------------------------------
(* The workload gate                                                       *)

\* What the gate's safety rests on besides the checked properties: a parked
\* future is counted, only a queued future is, and `switching' names a holder.
QueueInv ==
  /\ \A p \in Op : pc[p] = "parked" => p \in counted
  /\ \A p \in counted : pc[p] \in {"enabled", "parked"}
  /\ switching => \E p \in Op : pc[p] = "switching"

GateInv ==
  /\ TypeOK
  /\ CountersExact
  /\ OneKindAtATime
  /\ SwitcherAlone
  /\ QueueInv

\* Which steps there are: one of an operation at the gate, or one that leaves
\* gate and queue alone (a model server's, or an administrator's).
LEMMA GateStepKinds ==
  ASSUME [Next]_vars
  PROVE  \/ \E p \in Op :
              \/ \E k \in Workload : Call(p, k)
              \/ Admit(p) \/ Park(p) \/ Wake(p) \/ DropWaiting(p) \/ Finish(p)
              \/ FreeImageModels(p) \/ UnloadTextModels(p) \/ AbortSwitch(p)
              \/ FinishUnguarded(p)
         \/ UNCHANGED <<gate, queue>>
BY Zenon DEF Next, Poll, EndSwitch, LoadModel, Expire, SetImageEnabled, vars

\* The configuration is changed by the administrator only.
LEMMA ConfigSteps ==
  ASSUME [Next]_vars
  PROVE  UNCHANGED config \/ SetImageEnabled
BY Zenon DEF Next, vars, Call, Poll, Admit, Park, Wake, DropWaiting, EndSwitch,
   FreeImageModels, UnloadTextModels, AbortSwitch, Switched, Finish, DropGuard,
   LoadModel, FinishUnguarded, Expire

\* The sets that the gate counts are finite, as the operations are.
LEMMA CountedSetsFinite ==
  ASSUME TypeOK
  PROVE  /\ IsFiniteSet(Holders)
         /\ \A k \in Workload : IsFiniteSet(WaitingFor(k))
<1>1. Holders \subseteq Op
  BY DEF Holders
<1>2. \A k \in Workload : WaitingFor(k) \subseteq Op
  BY DEF WaitingFor, TypeOK
<1> QED
  BY <1>1, <1>2, OpAssumption, FS_Subset

\* The initial gate satisfies the invariant.
LEMMA InitGateInv == Init => GateInv
<1> SUFFICES ASSUME Init PROVE GateInv
  OBVIOUS
<1>1. TypeOK
  <2>1. image_enabled \in BOOLEAN /\ switching \in BOOLEAN /\ resident \in SUBSET Workload
    BY Zenon DEF Init
  <2>2. reconfigs \in 0 .. MaxReconfig /\ active \in Nat /\ waiting \in [Workload -> Nat]
    BY ReconfigAssumption DEF Init
  <2>3. pc \in [Op -> Stage] /\ kind \in [Op -> Workload] /\ loaded \in Workload \cup {"none"}
    BY Zenon DEF Init, Stage, Workload
  <2>4. counted \in SUBSET Op /\ notified \in SUBSET Op
    BY Zenon DEF Init
  <2> QED
    BY <2>1, <2>2, <2>3, <2>4, Zenon DEF TypeOK
<1>2. Holders = {} /\ \A k \in Workload : WaitingFor(k) = {}
  BY DEF Init, Holders, WaitingFor
<1>3. CountersExact
  BY <1>2, FS_EmptySet DEF Init, CountersExact
<1>4. OneKindAtATime /\ SwitcherAlone /\ QueueInv
  BY <1>2 DEF Init, OneKindAtATime, SwitcherAlone, QueueInv
<1> QED
  BY <1>1, <1>3, <1>4 DEF GateInv

\* Every step keeps the types.
LEMMA NextTypeOK == TypeOK /\ CountersExact /\ QueueInv /\ [Next]_vars => TypeOK'
<1> SUFFICES ASSUME TypeOK, CountersExact, QueueInv, [Next]_vars PROVE TypeOK'
  OBVIOUS
<1> USE DEF TypeOK, gate, queue, config, Workload, Stage
<1>0. /\ \A p \in Holders : active - 1 \in Nat
      /\ \A p \in counted : waiting[kind[p]] - 1 \in Nat
  <2>1. ASSUME NEW p \in Holders PROVE active # 0
    BY <2>1, CountedSetsFinite, FS_EmptySet DEF CountersExact
  <2>2. ASSUME NEW p \in counted PROVE waiting[kind[p]] # 0
    <3>1. p \in WaitingFor(kind[p]) /\ kind[p] \in Workload
      BY <2>2 DEF WaitingFor
    <3> QED
      BY <3>1, CountedSetsFinite, FS_EmptySet DEF CountersExact
  <2> QED
    BY <2>1, <2>2
<1>1. ASSUME NEW p \in Op, NEW k \in Workload, Call(p, k) PROVE TypeOK'
  BY <1>1 DEF Call
<1>2. ASSUME NEW p \in Op, Admit(p) PROVE TypeOK'
  BY <1>0, <1>2 DEF Admit
<1>3. ASSUME NEW p \in Op, Park(p) PROVE TypeOK'
  BY <1>3 DEF Park
<1>4. ASSUME NEW p \in Op, Wake(p) PROVE TypeOK'
  BY <1>4 DEF Wake
<1>5. ASSUME NEW p \in Op, DropWaiting(p) PROVE TypeOK'
  BY <1>0, <1>5 DEF DropWaiting, QueueInv, Registered
<1>6. ASSUME NEW p \in Op, EndSwitch(p) PROVE TypeOK'
  <2>1. p \in Holders
    BY <1>6 DEF EndSwitch, FreeImageModels, UnloadTextModels, AbortSwitch, Holders
  <2> QED
    BY ZenonT(30), <1>0, <1>6, <2>1 DEF EndSwitch, FreeImageModels, UnloadTextModels,
         AbortSwitch, Switched, DropGuard, Registered
<1>7. ASSUME NEW p \in Op, Finish(p) PROVE TypeOK'
  BY ZenonT(30), <1>0, <1>7 DEF Finish, DropGuard, Holders, Registered
<1>8. ASSUME NEW p \in Op, LoadModel(p) \/ FinishUnguarded(p) PROVE TypeOK'
  BY ZenonT(30), <1>8 DEF LoadModel, FinishUnguarded
<1>9. ASSUME NEW k \in Workload, Expire(k) PROVE TypeOK'
  BY <1>9 DEF Expire
<1>10. CASE SetImageEnabled
  BY <1>10, ReconfigAssumption DEF SetImageEnabled
<1>11. CASE UNCHANGED vars
  BY <1>11 DEF vars
<1> QED
  BY <1>1, <1>2, <1>3, <1>4, <1>5, <1>6, <1>7, <1>8, <1>9, <1>10, <1>11 DEF Next, Poll

\* Changing one operation's stage adds it to, or removes it from, the holders.
LEMMA HoldersChange ==
  ASSUME TypeOK, NEW p \in Op, NEW at \in Stage,
         pc' = [pc EXCEPT ![p] = at]
  PROVE  Holders' = IF at \in {"switching", "working"}
                    THEN Holders \cup {p} ELSE Holders \ {p}
BY DEF TypeOK, Holders

\* Every step keeps `active' equal to the number of guards alive.
LEMMA NextActiveExact ==
  GateInv /\ [Next]_vars => active' = Cardinality(Holders')
<1> SUFFICES ASSUME GateInv, [Next]_vars PROVE active' = Cardinality(Holders')
  OBVIOUS
<1> USE DEF GateInv, gate, queue, config
<1>0. /\ IsFiniteSet(Holders) /\ active = Cardinality(Holders) /\ active \in Nat
      /\ \A p \in Op : /\ p \notin Holders => Cardinality(Holders \cup {p}) = active + 1
                       /\ p \in Holders => Cardinality(Holders \ {p}) = active - 1
  <2>1. IsFiniteSet(Holders)
    BY CountedSetsFinite
  <2>2. active = Cardinality(Holders) /\ active \in Nat
    BY DEF CountersExact, TypeOK
  <2>3. ASSUME NEW p \in Op, p \notin Holders PROVE Cardinality(Holders \cup {p}) = active + 1
    BY <2>1, <2>2, <2>3, FS_AddElement, Zenon
  <2>4. ASSUME NEW p \in Op, p \in Holders PROVE Cardinality(Holders \ {p}) = active - 1
    BY <2>1, <2>2, <2>4, FS_RemoveElement, Zenon
  <2> QED
    BY <2>1, <2>2, <2>3, <2>4, Zenon
<1>1. ASSUME NEW p \in Op, NEW k \in Workload, Call(p, k)
      PROVE  active' = Cardinality(Holders')
  <2>1. Holders' = Holders
    BY <1>1, HoldersChange DEF Call, Holders, Stage
  <2> QED
    BY <1>0, <1>1, <2>1 DEF Call
<1>2. ASSUME NEW p \in Op, Admit(p) PROVE active' = Cardinality(Holders')
  <2>1. Holders' = Holders \cup {p} /\ p \notin Holders
    BY ZenonT(30), <1>2, HoldersChange DEF Admit, Holders, Stage
  <2> QED
    BY <1>0, <1>2, <2>1 DEF Admit
<1>3. ASSUME NEW p \in Op, Park(p) \/ Wake(p) \/ DropWaiting(p) \/ FinishUnguarded(p)
      PROVE  active' = Cardinality(Holders')
  <2>1. Holders' = Holders
    BY <1>3, HoldersChange DEF Park, Wake, DropWaiting, FinishUnguarded, Holders, Stage
  <2> QED
    BY <1>0, <1>3, <2>1 DEF Park, Wake, DropWaiting, FinishUnguarded
<1>4. ASSUME NEW p \in Op, FreeImageModels(p) \/ UnloadTextModels(p)
      PROVE  active' = Cardinality(Holders')
  <2>1. Holders' = Holders
    BY <1>4, HoldersChange DEF FreeImageModels, UnloadTextModels, Switched, Holders, Stage
  <2> QED
    BY <1>0, <1>4, <2>1 DEF FreeImageModels, UnloadTextModels, Switched
<1>5. ASSUME NEW p \in Op, AbortSwitch(p) \/ Finish(p) PROVE active' = Cardinality(Holders')
  <2>1. Holders' = Holders \ {p} /\ p \in Holders
    BY <1>5, HoldersChange DEF AbortSwitch, Finish, DropGuard, Holders, Stage
  <2> QED
    BY <1>0, <1>5, <2>1 DEF AbortSwitch, Finish, DropGuard
<1>6. ASSUME UNCHANGED <<active, pc>> PROVE active' = Cardinality(Holders')
  BY SMTT(30), <1>0, <1>6 DEF Holders
<1> QED
  BY Zenon, <1>1, <1>2, <1>3, <1>4, <1>5, <1>6, GateStepKinds DEF gate, queue

\* Every step keeps `waiting' equal to the number of counted futures.
LEMMA NextWaitingExact ==
  GateInv /\ [Next]_vars => \A k \in Workload : waiting'[k] = Cardinality(WaitingFor(k)')
<1> SUFFICES ASSUME GateInv, [Next]_vars, NEW k \in Workload
             PROVE  waiting'[k] = Cardinality(WaitingFor(k)')
  OBVIOUS
<1> USE DEF GateInv, gate, queue, config
<1>0. /\ waiting[k] = Cardinality(WaitingFor(k)) /\ waiting[k] \in Nat
      /\ \A p \in Op : /\ p \notin WaitingFor(k) => Cardinality(WaitingFor(k) \cup {p}) = waiting[k] + 1
                       /\ p \in WaitingFor(k) => Cardinality(WaitingFor(k) \ {p}) = waiting[k] - 1
  <2>1. IsFiniteSet(WaitingFor(k))
    BY CountedSetsFinite
  <2>2. waiting[k] = Cardinality(WaitingFor(k)) /\ waiting[k] \in Nat
    BY DEF CountersExact, TypeOK
  <2>3. ASSUME NEW p \in Op, p \notin WaitingFor(k)
        PROVE  Cardinality(WaitingFor(k) \cup {p}) = waiting[k] + 1
    BY <2>1, <2>2, <2>3, FS_AddElement, Zenon
  <2>4. ASSUME NEW p \in Op, p \in WaitingFor(k)
        PROVE  Cardinality(WaitingFor(k) \ {p}) = waiting[k] - 1
    BY <2>1, <2>2, <2>4, FS_RemoveElement, Zenon
  <2> QED
    BY <2>1, <2>2, <2>3, <2>4, Zenon
<1>1. ASSUME NEW p \in Op, NEW j \in Workload, Call(p, j)
      PROVE  waiting'[k] = Cardinality(WaitingFor(k)')
  <2>1. WaitingFor(k)' = WaitingFor(k)
    BY <1>1 DEF Call, WaitingFor, QueueInv, TypeOK
  <2> QED
    BY <1>0, <1>1, <2>1 DEF Call
<1>2. ASSUME NEW p \in Op, Admit(p) \/ DropWaiting(p)
      PROVE  waiting'[k] = Cardinality(WaitingFor(k)')
  <2>1. CASE p \in WaitingFor(k)
    <3>1. WaitingFor(k)' = WaitingFor(k) \ {p}
      BY <1>2 DEF Admit, DropWaiting, WaitingFor
    <3>2. waiting'[k] = waiting[k] - 1
      BY <1>2, <2>1 DEF Admit, DropWaiting, WaitingFor, TypeOK
    <3> QED
      BY <1>0, <2>1, <3>1, <3>2
  <2>2. CASE p \notin WaitingFor(k)
    <3>1. WaitingFor(k)' = WaitingFor(k)
      BY <1>2, <2>2 DEF Admit, DropWaiting, WaitingFor
    <3>2. waiting'[k] = waiting[k]
      BY <1>2, <2>2 DEF Admit, DropWaiting, WaitingFor, TypeOK, QueueInv
    <3> QED
      BY <1>0, <3>1, <3>2
  <2> QED
    BY <2>1, <2>2
<1>3. ASSUME NEW p \in Op, Park(p) PROVE waiting'[k] = Cardinality(WaitingFor(k)')
  <2>1. CASE p \notin counted /\ kind[p] = k
    <3>1. WaitingFor(k)' = WaitingFor(k) \cup {p} /\ p \notin WaitingFor(k)
      BY <1>3, <2>1 DEF Park, WaitingFor
    <3>2. waiting'[k] = waiting[k] + 1
      BY <1>3, <2>1 DEF Park, TypeOK
    <3> QED
      BY <1>0, <3>1, <3>2
  <2>2. CASE ~(p \notin counted /\ kind[p] = k)
    <3>1. WaitingFor(k)' = WaitingFor(k)
      BY <1>3, <2>2 DEF Park, WaitingFor
    <3>2. waiting'[k] = waiting[k]
      BY <1>3, <2>2 DEF Park, TypeOK
    <3> QED
      BY <1>0, <3>1, <3>2
  <2> QED
    BY <2>1, <2>2
<1>4. ASSUME UNCHANGED <<waiting, counted, kind>>
      PROVE  waiting'[k] = Cardinality(WaitingFor(k)')
  BY SMTT(20), <1>0, <1>4 DEF WaitingFor
<1>5. ASSUME NEW p \in Op,
             \/ Wake(p) \/ Finish(p) \/ FreeImageModels(p) \/ UnloadTextModels(p)
             \/ AbortSwitch(p) \/ FinishUnguarded(p)
      PROVE  UNCHANGED <<waiting, counted, kind>>
  BY Zenon, <1>5 DEF Wake, Finish, FreeImageModels, UnloadTextModels, Switched,
     AbortSwitch, DropGuard, FinishUnguarded, gate
<1> QED
  BY Zenon, <1>1, <1>2, <1>3, <1>4, <1>5, GateStepKinds DEF gate, queue

\* Every step keeps the guards of one kind, and a switcher alone.
LEMMA NextOneKind ==
  GateInv /\ [Next]_vars => OneKindAtATime' /\ SwitcherAlone' /\ QueueInv'
<1> SUFFICES ASSUME GateInv, [Next]_vars
             PROVE  OneKindAtATime' /\ SwitcherAlone' /\ QueueInv'
  OBVIOUS
<1> DEFINE Goal == OneKindAtATime' /\ SwitcherAlone' /\ QueueInv'
<1> USE DEF GateInv, gate, queue, config, OneKindAtATime, SwitcherAlone, QueueInv
<1>0. active = 0 => Holders = {}
  BY ZenonT(30), CountedSetsFinite, FS_EmptySet DEF CountersExact
<1>1. ASSUME NEW p \in Op, NEW k \in Workload, Call(p, k) PROVE Goal
  BY <1>1 DEF Call, TypeOK, Holders
<1>2. ASSUME NEW p \in Op, Admit(p) PROVE Goal
  <2>1. CASE loaded = kind[p]
    BY <1>2, <2>1 DEF Admit, CanAdmit, TypeOK, Holders
  <2>2. CASE loaded # kind[p]
    <3>1. Holders = {} /\ ~switching
      BY <1>0, <1>2, <2>2 DEF Admit, CanAdmit
    <3>2. Holders' = {p}
      BY <1>2, <3>1 DEF Admit, TypeOK, Holders
    <3>3. switching' /\ pc'[p] = "switching" /\ loaded' = kind'[p]
      BY ZenonT(30), <1>2, <2>2 DEF Admit, TypeOK
    <3>4. OneKindAtATime' /\ SwitcherAlone'
      BY <3>2, <3>3 DEF Holders
    <3>5. QueueInv'
      BY <1>2, <3>3 DEF Admit, TypeOK
    <3> QED
      BY <3>4, <3>5
  <2> QED
    BY <2>1, <2>2
<1>3. ASSUME NEW p \in Op, Park(p) \/ Wake(p) \/ DropWaiting(p) \/ FinishUnguarded(p)
      PROVE  Goal
  BY <1>3 DEF Park, Wake, DropWaiting, FinishUnguarded, TypeOK, Holders
<1>4. ASSUME NEW p \in Op, FreeImageModels(p) \/ UnloadTextModels(p) PROVE Goal
  <2>1. Holders = {p} /\ Holders' = {p}
    BY <1>4 DEF FreeImageModels, UnloadTextModels, Switched, TypeOK, Holders
  <2>2. \A q \in Op : pc'[q] # "switching"
    BY <1>4, <2>1 DEF FreeImageModels, UnloadTextModels, Switched, TypeOK, Holders
  <2> QED
    BY <1>4, <2>1, <2>2 DEF FreeImageModels, UnloadTextModels, Switched, TypeOK
<1>5. ASSUME NEW p \in Op, AbortSwitch(p) PROVE Goal
  <2>1. Holders = {p} /\ Holders' = {}
    BY <1>5 DEF AbortSwitch, DropGuard, TypeOK, Holders
  <2> QED
    BY <1>5, <2>1 DEF AbortSwitch, DropGuard, TypeOK, Holders
<1>6. ASSUME NEW p \in Op, Finish(p) PROVE Goal
  <2>1. ~switching /\ p \in Holders
    BY <1>6 DEF Finish, Holders, TypeOK
  <2> QED
    BY <1>6, <2>1 DEF Finish, DropGuard, TypeOK, Holders
<1>7. ASSUME UNCHANGED <<gate, queue>> PROVE Goal
  BY <1>7 DEF Holders
<1> QED
  BY Zenon, <1>1, <1>2, <1>3, <1>4, <1>5, <1>6, <1>7, GateStepKinds

\* The invariant of the gate, for any finite set of operations.
THEOREM GateInvariant == Spec => []GateInv
<1>1. GateInv /\ [Next]_vars => GateInv'
  BY NextTypeOK, NextActiveExact, NextWaitingExact, NextOneKind DEF GateInv, CountersExact
<1> QED
  BY InitGateInv, <1>1, PTL DEF Spec

\* The counters that GateState keeps by hand are exact in every state.
THEOREM GateCountersExact == Spec => []CountersExact
<1>1. GateInv => CountersExact
  BY DEF GateInv
<1> QED
  BY GateInvariant, <1>1, PTL

\* Text and image guards never coexist.
THEOREM GateOneKindAtATime == Spec => []OneKindAtATime
<1>1. GateInv => OneKindAtATime
  BY SMTT(20) DEF GateInv
<1> QED
  BY GateInvariant, <1>1, PTL

\* Every step that could let a parked future in notifies it.
LEMMA NextParkedMeansBlocked ==
  GateInv /\ ParkedMeansBlocked /\ [Next]_vars => ParkedMeansBlocked'
<1> SUFFICES ASSUME GateInv, ParkedMeansBlocked, [Next]_vars,
                    NEW q \in Op, pc'[q] = "parked", q \notin notified'
             PROVE  ~CanAdmit(kind[q])'
  BY Zenon DEF ParkedMeansBlocked
<1> DEFINE Goal == ~CanAdmit(kind[q])'
<1>0. /\ pc \in [Op -> Stage] /\ kind \in [Op -> Workload] /\ waiting \in [Workload -> Nat]
      /\ kind[q] \in Workload /\ active \in Nat
  BY Zenon DEF GateInv, TypeOK
<1>a. pc[q] = "parked" /\ q \notin notified => ~CanAdmit(kind[q])
  BY Zenon DEF ParkedMeansBlocked
<1>1. ASSUME NEW p \in Op, NEW k \in Workload, Call(p, k) PROVE Goal
  <2>1. q # p /\ kind'[q] = kind[q] /\ pc'[q] = pc[q]
    BY Zenon, <1>0, <1>1 DEF Call
  <2>2. UNCHANGED gate /\ notified' = notified
    BY Zenon, <1>1 DEF Call
  <2> QED
    BY Zenon, <1>a, <2>1, <2>2 DEF CanAdmit, gate
<1>2. ASSUME NEW p \in Op, Admit(p) PROVE Goal
  <2>1. CASE loaded # kind[p]
    BY Zenon, <1>2, <2>1 DEF Admit, CanAdmit
  <2>2. /\ q # p /\ pc[q] = "parked" /\ q \notin notified /\ kind' = kind
        /\ CanAdmit(kind[p]) /\ loaded' = kind[p] /\ active' = active + 1
    BY Zenon, <1>0, <1>2 DEF Admit
  <2>3. kind[q] # kind[p]
    \* p was admitted, so q could have been
    BY Zenon, <1>a, <2>2
  <2>4. active' # 0
    BY <1>0, <2>2
  <2> QED
    BY Zenon, <2>2, <2>3, <2>4 DEF CanAdmit
<1>3. ASSUME NEW p \in Op, Park(p) PROVE Goal
  <2>1. /\ ~CanAdmit(kind[q]) /\ kind' = kind /\ loaded' = loaded /\ active' = active
        /\ switching' = switching
    <3>1. CASE q = p
      BY Zenon, <1>3, <3>1 DEF Park
    <3>2. CASE q # p
      BY Zenon, <1>0, <1>3, <1>a, <3>2 DEF Park
    <3> QED
      BY Zenon, <3>1, <3>2
  <2>2. Other(kind[q]) \in Workload
    BY Zenon DEF Other, Workload
  <2>3. \/ waiting'[Other(kind[q])] = waiting[Other(kind[q])]
        \/ waiting'[Other(kind[q])] = waiting[Other(kind[q])] + 1
    BY Zenon, <1>0, <1>3, <2>2 DEF Park
  <2>4. waiting[Other(kind[q])] \in Nat
    BY Zenon, <1>0, <2>2
  <2> QED
    BY <2>1, <2>3, <2>4 DEF CanAdmit
<1>4. ASSUME NEW p \in Op, Wake(p) \/ FinishUnguarded(p) PROVE Goal
  <2>1. q # p /\ pc'[q] = pc[q] /\ kind' = kind /\ UNCHANGED gate
    BY Zenon, <1>0, <1>4 DEF Wake, FinishUnguarded
  <2>2. q \notin notified
    BY Zenon, <1>4, <2>1 DEF Wake, FinishUnguarded
  <2> QED
    BY Zenon, <1>a, <2>1, <2>2 DEF CanAdmit, gate
<1>5. ASSUME NEW p \in Op,
             \/ DropWaiting(p) \/ FreeImageModels(p) \/ UnloadTextModels(p)
             \/ AbortSwitch(p) \/ Finish(p)
      PROVE  Goal
  \* these notify every registered future, so q would be notified
  <2>1. q # p /\ pc'[q] = pc[q]
    BY Zenon, <1>0, <1>5 DEF DropWaiting, FreeImageModels, UnloadTextModels, AbortSwitch,
       Switched, Finish, DropGuard
  <2>2. q \in Registered
    BY Zenon, <2>1 DEF Registered
  <2> QED
    BY Zenon, <1>5, <2>1, <2>2 DEF DropWaiting, FreeImageModels, UnloadTextModels,
       AbortSwitch, Switched, Finish, DropGuard
<1>6. ASSUME UNCHANGED <<gate, queue>> PROVE Goal
  BY Zenon, <1>6, <1>a DEF CanAdmit, gate, queue
<1> QED
  BY Zenon, <1>1, <1>2, <1>3, <1>4, <1>5, <1>6, GateStepKinds

\* No wakeup is lost: a parked future without a notification cannot be admitted.
THEOREM GateNoLostWakeup == Spec => []ParkedMeansBlocked
<1>1. Init => ParkedMeansBlocked
  BY DEF Init, ParkedMeansBlocked
<1>2. GateInv /\ ParkedMeansBlocked /\ [Next]_vars => ParkedMeansBlocked'
  BY NextParkedMeansBlocked
<1> QED
  BY GateInvariant, <1>1, <1>2, PTL DEF Spec

-----------------------------------------------------------------------------
(* Image work has the GPU to itself.                                       *)

\* Before the first change of the image setting: with images on, every caller
\* has a guard, and the gate's kind and the GPU's memory agree;
Shared ==
  /\ image_enabled /\ \A p \in Op : pc[p] # "unguarded"
  /\ loaded = "image" /\ ~switching => "text" \notin resident

\* with images off, no caller has one.
Unshared ==
  /\ ~image_enabled /\ loaded = "none"
  /\ \A p \in Op : pc[p] \in {"idle", "unguarded"}

GpuInv == reconfigs = 0 => Shared \/ Unshared

\* A gate that nobody uses stays unused while the setting is off.
LEMMA UnsharedStep ==
  ASSUME TypeOK, Unshared, [Next]_vars, UNCHANGED config
  PROVE  Unshared'
<1>0. pc \in [Op -> Stage] /\ image_enabled' = image_enabled /\ ~image_enabled
        /\ loaded = "none" /\ \A p \in Op : pc[p] \in {"idle", "unguarded"}
  BY Zenon DEF TypeOK, config, Unshared
<1>1. ASSUME NEW p \in Op, NEW k \in Workload, Call(p, k) PROVE Unshared'
  <2>1. loaded' = loaded /\ pc' = [pc EXCEPT ![p] = "unguarded"]
    BY Zenon, <1>0, <1>1 DEF Call, gate
  <2> QED
    BY Zenon, <1>0, <2>1 DEF Unshared
<1>2. ASSUME NEW p \in Op, FinishUnguarded(p) PROVE Unshared'
  <2>1. loaded' = loaded /\ pc' = [pc EXCEPT ![p] = "idle"]
    BY Zenon, <1>2 DEF FinishUnguarded, gate
  <2> QED
    BY Zenon, <1>0, <2>1 DEF Unshared
<1>3. ASSUME NEW p \in Op
      PROVE  /\ ~Admit(p) /\ ~Park(p) /\ ~Wake(p) /\ ~DropWaiting(p) /\ ~Finish(p)
             /\ ~FreeImageModels(p) /\ ~UnloadTextModels(p) /\ ~AbortSwitch(p)
  <2>1. pc[p] \notin {"enabled", "parked", "switching", "working"}
    BY Zenon, <1>0
  <2> QED
    BY Zenon, <2>1 DEF Admit, Park, Wake, DropWaiting, Finish, FreeImageModels,
       UnloadTextModels, AbortSwitch
<1>4. ASSUME UNCHANGED <<gate, queue>> PROVE Unshared'
  BY Zenon, <1>0, <1>4 DEF Unshared, gate, queue
<1> QED
  BY Zenon, <1>1, <1>2, <1>3, <1>4, GateStepKinds

\* No operation gets past the gate without a guard while the setting is on.
LEMMA GuardedStep ==
  ASSUME TypeOK, image_enabled, \A p \in Op : pc[p] # "unguarded", [Next]_vars
  PROVE  \A p \in Op : pc'[p] # "unguarded"
<1>0. pc \in [Op -> Stage]
  BY Zenon DEF TypeOK
<1>1. ASSUME NEW p \in Op, NEW at, at # "unguarded", pc' = [pc EXCEPT ![p] = at]
      PROVE  \A q \in Op : pc'[q] # "unguarded"
  BY Zenon, <1>0, <1>1
<1>2. ASSUME NEW p \in Op, NEW k \in Workload, Call(p, k)
      PROVE  pc' = [pc EXCEPT ![p] = "enabled"]
  BY Zenon, <1>2 DEF Call
<1>3. ASSUME NEW p \in Op, Admit(p)
      PROVE  pc' = [pc EXCEPT ![p] = "working"] \/ pc' = [pc EXCEPT ![p] = "switching"]
  BY Zenon, <1>3 DEF Admit
<1>4. ASSUME NEW p \in Op, Park(p) \/ Wake(p) \/ DropWaiting(p) \/ Finish(p)
      PROVE  \/ pc' = [pc EXCEPT ![p] = "parked"] \/ pc' = [pc EXCEPT ![p] = "enabled"]
             \/ pc' = [pc EXCEPT ![p] = "idle"]
  BY Zenon, <1>4 DEF Park, Wake, DropWaiting, Finish, DropGuard
<1>5. ASSUME NEW p \in Op, FreeImageModels(p) \/ UnloadTextModels(p) \/ AbortSwitch(p)
      PROVE  pc' = [pc EXCEPT ![p] = "working"] \/ pc' = [pc EXCEPT ![p] = "idle"]
  BY Zenon, <1>5 DEF FreeImageModels, UnloadTextModels, Switched, AbortSwitch, DropGuard
<1>6. ASSUME NEW p \in Op PROVE ~FinishUnguarded(p)
  BY Zenon DEF FinishUnguarded
<1>7. UNCHANGED <<gate, queue>> => pc' = pc
  BY Zenon DEF queue
<1>8. /\ "enabled" # "unguarded" /\ "working" # "unguarded" /\ "switching" # "unguarded"
      /\ "parked" # "unguarded" /\ "idle" # "unguarded"
  OBVIOUS
<1> QED
  BY Zenon, <1>1, <1>2, <1>3, <1>4, <1>5, <1>6, <1>7, <1>8, GateStepKinds

\* A switch to image work ends only once the chat models are gone, and nobody
\* loads one afterwards; a switch that is given up forgets the kind.
LEMMA FreedStep ==
  ASSUME GateInv, Shared, [Next]_vars, UNCHANGED config
  PROVE  loaded' = "image" /\ ~switching' => "text" \notin resident'
<1>0. /\ loaded = "image" /\ ~switching => "text" \notin resident
      /\ \A p \in Op : pc[p] # "unguarded"
      /\ \A p \in Op : pc[p] \in {"switching", "working"} => kind[p] = loaded
      /\ \A p \in Op : pc[p] = "switching" => switching
  BY Zenon DEF Shared, GateInv, OneKindAtATime, SwitcherAlone, Holders
<1>1. ASSUME NEW p \in Op, Admit(p) PROVE (loaded' = loaded /\ resident' = resident) \/ switching'
  BY Zenon, <1>1 DEF Admit
<1>2. ASSUME NEW p \in Op, Admit(p), loaded' = loaded PROVE ~switching
  BY Zenon, <1>2 DEF Admit, CanAdmit
<1>3. ASSUME NEW p \in Op, FreeImageModels(p) PROVE loaded' = "text"
  BY Zenon, <1>0, <1>3 DEF FreeImageModels, Switched
<1>4. ASSUME NEW p \in Op, UnloadTextModels(p) PROVE "text" \notin resident'
  BY Zenon, <1>4 DEF UnloadTextModels
<1>5. ASSUME NEW p \in Op, AbortSwitch(p) PROVE loaded' = "none"
  BY Zenon, <1>0, <1>5 DEF AbortSwitch, DropGuard
<1>6. ASSUME NEW p \in Op, Finish(p)
      PROVE  loaded' = loaded /\ resident' = resident /\ ~switching
  <2>1. ~switching
    BY Zenon, <1>6 DEF Finish, GateInv, QueueInv, SwitcherAlone, Holders
  <2> QED
    BY Zenon, <1>6, <2>1 DEF Finish, DropGuard
<1>7. ASSUME NEW p \in Op, LoadModel(p)
      PROVE  loaded' = loaded /\ switching' = switching
               /\ resident' = resident \cup {loaded}
  BY Zenon, <1>0, <1>7 DEF LoadModel, gate
<1>8. CASE \/ \E p \in Op :
                \/ \E k \in Workload : Call(p, k)
                \/ Park(p) \/ Wake(p) \/ DropWaiting(p) \/ FinishUnguarded(p)
           \/ SetImageEnabled \/ UNCHANGED vars
  BY Zenon, <1>0, <1>8 DEF Call, Park, Wake, DropWaiting, FinishUnguarded, SetImageEnabled,
     gate, vars
<1>9. ASSUME NEW k \in Workload, Expire(k)
      PROVE  loaded' = loaded /\ switching' = switching /\ resident' \subseteq resident
  BY Zenon, <1>9 DEF Expire, gate
<1>10. ASSUME NEW p \in Op, Admit(p), loaded' = "image", ~switching'
       PROVE  "text" \notin resident'
  BY Zenon, <1>0, <1>1, <1>2, <1>10
<1>11. ASSUME NEW p \in Op, LoadModel(p), loaded' = "image", ~switching'
       PROVE  "text" \notin resident'
  <2>1. /\ loaded = "image" /\ ~switching /\ resident' = resident \cup {"image"}
    BY Zenon, <1>7, <1>11
  <2> QED
    BY Zenon, <1>0, <2>1
<1>12. ASSUME NEW k \in Workload, Expire(k), loaded' = "image", ~switching'
       PROVE  "text" \notin resident'
  BY Zenon, <1>0, <1>9, <1>12
<1>13. ASSUME NEW p \in Op, Finish(p), loaded' = "image" PROVE "text" \notin resident'
  BY Zenon, <1>0, <1>6, <1>13
<1>14. ASSUME NEW p \in Op, EndSwitch(p), loaded' = "image" PROVE "text" \notin resident'
  BY Zenon, <1>3, <1>4, <1>5, <1>14 DEF EndSwitch
<1> QED
  BY Zenon, <1>8, <1>10, <1>11, <1>12, <1>13, <1>14 DEF Next, Poll

\* Until the image setting is changed, image work never shares the GPU with a
\* chat model.
THEOREM GateImageWorkHasTheGpu == Spec => []ImageWorkHasTheGpu
<1>1. Init => GpuInv
  BY Zenon DEF Init, GpuInv, Shared, Unshared
<1>2. GateInv /\ GpuInv /\ [Next]_vars => GpuInv'
  <2> SUFFICES ASSUME GateInv, GpuInv, [Next]_vars, reconfigs' = 0
               PROVE  Shared' \/ Unshared'
    BY Zenon DEF GpuInv
  <2>0. TypeOK
    BY Zenon DEF GateInv
  <2>1. UNCHANGED config
    <3>1. ASSUME SetImageEnabled PROVE reconfigs' = reconfigs + 1
      BY Zenon, <3>1 DEF SetImageEnabled
    <3>2. reconfigs \in 0 .. MaxReconfig
      BY Zenon, <2>0 DEF TypeOK
    <3>3. ~SetImageEnabled
      BY <3>1, <3>2, ReconfigAssumption
    <3> QED
      BY Zenon, <3>3, ConfigSteps
  <2>2. Shared \/ Unshared
    BY Zenon, <2>1 DEF GpuInv, config
  <2>3. CASE Unshared
    BY Zenon, <2>0, <2>1, <2>3, UnsharedStep
  <2>4. CASE Shared
    <3>1. image_enabled' /\ \A p \in Op : pc'[p] # "unguarded"
      <4>1. image_enabled /\ image_enabled' = image_enabled
               /\ \A p \in Op : pc[p] # "unguarded"
        BY Zenon, <2>1, <2>4 DEF Shared, config
      <4> QED
        BY Zenon, <2>0, <4>1, GuardedStep
    <3>2. loaded' = "image" /\ ~switching' => "text" \notin resident'
      BY Zenon, <2>1, <2>4, FreedStep
    <3> QED
      BY Zenon, <3>1, <3>2 DEF Shared
  <2> QED
    BY Zenon, <2>2, <2>3, <2>4
<1>3. GateInv /\ GpuInv => ImageWorkHasTheGpu
  <2> SUFFICES ASSUME GateInv, GpuInv, reconfigs = 0,
                      NEW p \in Op, pc[p] = "working", kind[p] = "image"
               PROVE  "text" \notin resident
    BY Zenon DEF ImageWorkHasTheGpu
  <2>1. loaded = "image" /\ ~switching
    BY Zenon DEF GateInv, OneKindAtATime, SwitcherAlone, QueueInv, Holders
  <2> QED
    BY Zenon, <2>1 DEF GpuInv, Shared, Unshared
<1> QED
  BY GateInvariant, <1>1, <1>2, <1>3, PTL DEF Spec

-----------------------------------------------------------------------------
(* Requests: the invariant.                                                *)

\* The handler is between the frame that started it and its end.
Handled(r) == stage[r] \notin {"unsent", "done"}

\* The stages in which a handler is counted as busy.
Counted == ActiveRequest \cup {"ending"}

\* The requests that the busy counter of c counts, and the downloads reserved.
Busy(c) == {r \in Req : ConnOf[r] = c /\ stage[r] \in Counted}
Pulls == {r \in reserved : want[r] = "pull"}

\* No key outlives its handler.
KeysLive == \A r \in registry : Handled(r)

\* A reservation is held exactly by the operations at work.
ReservedExact ==
  \A r \in Req : r \in reserved <=> want[r] \in {"pull", "action"} /\ stage[r] = "working"

\* No two operations work on one model.
OnePerModel == \A r, s \in reserved : ModelOf[r] = ModelOf[s] => r = s

PullsBounded == Cardinality(Pulls) <= MaxDownloads

BusyExact == \A c \in Conn : busy[c] = Cardinality(Busy(c))

\* A download is registered before its handler runs, so until it ends it can
\* be signalled or has been; and nobody cancels what was not sent.
PullsReachable ==
  /\ \A r \in Req : want[r] = "pull" /\ Handled(r) => r \in registry \cup flag
  /\ \A r \in asked : stage[r] # "unsent"

RequestInv ==
  /\ RequestTypeOK /\ KeysLive /\ ReservedExact /\ OnePerModel /\ PullsBounded
  /\ BusyExact /\ PullsReachable /\ CancelIsExact

-----------------------------------------------------------------------------
(* The kinds of steps.                                                     *)

\* What no step of a handler touches.
Around == want' = want /\ conn' = conn /\ flag' = flag /\ asked' = asked

\* A handler passes its checks and counts itself.
Starts(r) ==
  /\ Around /\ stage[r] = "checking" /\ Count(r) /\ reserved' = reserved
  /\ registry' = registry \/ registry' = registry \cup {r}
  /\ \E s \in ActiveRequest : To(r, s) /\ (s = "working" => want[r] = "image")

\* A generation goes on.
Moves(r) ==
  /\ Around /\ want[r] = "generate" /\ stage[r] \in Counted
  /\ \E s \in Counted : To(r, s)
  /\ registry' = registry /\ busy' = busy /\ reserved' = reserved

\* A counted handler ends and drops its guards.
Ends(r) ==
  /\ Around /\ stage[r] \in Counted /\ EndRequest(r) /\ Release(r)

\* Every step is one of these.
LEMMA StepKinds ==
  ASSUME [RequestNext]_requestVars
  PROVE  \/ UNCHANGED <<want, conn, stage, registry, flag, asked, busy, reserved>>
         \/ \E c \in Conn : CancelConnection(c)
         \/ \E r \in Req : \/ Read(r) \/ ReadCancel(r) \/ Refuse(r) \/ Starts(r)
                           \/ Moves(r) \/ Ends(r) \/ Reserve(r) \/ DownloadEnds(r)
<1>1. CASE UNCHANGED requestVars
  BY Zenon, <1>1 DEF requestVars
<1>2. ASSUME NEW c \in Conn, PeerLeaves(c) \/ WriterEnds(c)
      PROVE  UNCHANGED <<want, conn, stage, registry, flag, asked, busy, reserved>>
  BY Zenon, <1>2 DEF PeerLeaves, WriterEnds
<1>3. ASSUME NEW c \in Conn, Disconnect(c) \/ LagClose(c) \/ IdleClose(c)
      PROVE  CancelConnection(c)
  BY Zenon, <1>3 DEF Disconnect, LagClose, IdleClose
<1>4. ASSUME NEW r \in Req, RegisterGeneration(r) \/ RegisterImageJob(r) \/ StartOperation(r)
      PROVE  Starts(r)
  BY Zenon, <1>4 DEF RegisterGeneration, RegisterImageJob, StartOperation, Starts, Around,
     ActiveRequest
<1>5. ASSUME NEW r \in Req, Admitted(r) \/ StreamStarts(r) \/ StreamEnds(r)
      PROVE  Moves(r)
  BY Zenon, <1>5 DEF Admitted, StreamStarts, StreamEnds, Moves, Around, Counted, ActiveRequest
<1>6. ASSUME NEW r \in Req,
             \/ CancelledBeforeStream(r) \/ GenerationEnds(r) \/ ImageJobEnds(r)
             \/ OperationEnds(r) \/ Fail(r)
      PROVE  Ends(r)
  BY Zenon, <1>6 DEF CancelledBeforeStream, GenerationEnds, ImageJobEnds, OperationEnds, Fail,
     Ends, Around, Counted, ActiveRequest
<1> QED
  BY Zenon, <1>1, <1>2, <1>3, <1>4, <1>5, <1>6 DEF RequestNext, Handle

\* What a step of r does to the stages, as it is used below.
LEMMA StageOf ==
  ASSUME RequestTypeOK, NEW r \in Req, NEW s \in RequestStage, To(r, s)
  PROVE  /\ stage' \in [Req -> RequestStage]
         /\ stage'[r] = s
         /\ \A q \in Req : q # r => stage'[q] = stage[q]
<1>1. stage \in [Req -> RequestStage]
  BY Zenon DEF RequestTypeOK
<1> QED
  BY Zenon, <1>1 DEF To

-----------------------------------------------------------------------------
(* The busy counters.                                                      *)

\* A step of r changes the set counted for its own connection only.
LEMMA BusyChange ==
  ASSUME RequestTypeOK, NEW r \in Req, NEW s \in RequestStage, To(r, s), NEW c \in Conn
  PROVE  /\ c # ConnOf[r] => Busy(c)' = Busy(c)
         /\ c = ConnOf[r] /\ s \in Counted => Busy(c)' = Busy(c) \cup {r}
         /\ c = ConnOf[r] /\ s \notin Counted => Busy(c)' = Busy(c) \ {r}
BY Zenon, StageOf DEF Busy

\* Only requests are counted.
LEMMA BusyFinite ==
  ASSUME NEW c \in Conn
  PROVE  IsFiniteSet(Busy(c))
<1>1. Busy(c) \subseteq Req
  BY Zenon DEF Busy
<1> QED
  BY Zenon, <1>1, RequestAssumption, FS_Subset

\* BusyGuard: what a handler adds on its start it takes back on its end,
\* whichever way it ends.
LEMMA BusyStep ==
  ASSUME RequestTypeOK, BusyExact, [RequestNext]_requestVars
  PROVE  BusyExact' /\ busy' \in [Conn -> Nat]
<1>0. /\ busy \in [Conn -> Nat] /\ \A c \in Conn : busy[c] = Cardinality(Busy(c))
      /\ \A r \in Req : ConnOf[r] \in Conn
  BY Zenon, RequestAssumption DEF RequestTypeOK, BusyExact
<1>1. ASSUME stage' = stage, busy' = busy PROVE BusyExact' /\ busy' \in [Conn -> Nat]
  BY Zenon, <1>0, <1>1 DEF BusyExact, Busy
<1>2. ASSUME NEW r \in Req, NEW s \in RequestStage, To(r, s), busy' = busy,
             s \in Counted <=> stage[r] \in Counted
      PROVE  BusyExact' /\ busy' \in [Conn -> Nat]
  <2>1. \A c \in Conn : Busy(c)' = Busy(c)
    <3> SUFFICES ASSUME NEW c \in Conn PROVE Busy(c)' = Busy(c)
      OBVIOUS
    <3>1. c = ConnOf[r] => (r \in Busy(c) <=> stage[r] \in Counted)
      BY Zenon DEF Busy
    <3>2. CASE c # ConnOf[r]
      BY Zenon, <1>2, <3>2, BusyChange
    <3>3. CASE c = ConnOf[r] /\ s \in Counted
      <4>1. Busy(c)' = Busy(c) \cup {r} /\ r \in Busy(c)
        BY Zenon, <1>2, <3>1, <3>3, BusyChange
      <4> QED
        BY Zenon, <4>1
    <3>4. CASE c = ConnOf[r] /\ s \notin Counted
      <4>1. Busy(c)' = Busy(c) \ {r} /\ r \notin Busy(c)
        BY Zenon, <1>2, <3>1, <3>4, BusyChange
      <4> QED
        BY Zenon, <4>1
    <3> QED
      BY Zenon, <3>2, <3>3, <3>4
  <2> QED
    BY Zenon, <1>0, <1>2, <2>1 DEF BusyExact
<1>3. ASSUME NEW r \in Req, Starts(r) PROVE BusyExact' /\ busy' \in [Conn -> Nat]
  <2>1. PICK s \in ActiveRequest : To(r, s)
    BY Zenon, <1>3 DEF Starts
  <2>2. s \in Counted /\ s \in RequestStage
    BY Zenon DEF Counted, ActiveRequest, RequestStage
  <2>3. busy' = [busy EXCEPT ![ConnOf[r]] = @ + 1] /\ stage[r] = "checking"
    BY Zenon, <1>3 DEF Starts, Count
  <2>4. stage[r] \notin Counted
    BY Zenon, <2>3 DEF Counted, ActiveRequest
  <2>5. r \notin Busy(ConnOf[r])
    BY Zenon, <2>4 DEF Busy
  <2>6. Cardinality(Busy(ConnOf[r]) \cup {r}) = busy[ConnOf[r]] + 1
    <3>1. IsFiniteSet(Busy(ConnOf[r])) /\ Cardinality(Busy(ConnOf[r])) = busy[ConnOf[r]]
      BY Zenon, <1>0, BusyFinite
    <3>2. Cardinality(Busy(ConnOf[r]) \cup {r}) = Cardinality(Busy(ConnOf[r])) + 1
      BY Zenon, <2>5, <3>1, FS_AddElement
    <3> QED
      BY Zenon, <3>1, <3>2
  <2>7. \A c \in Conn : /\ c # ConnOf[r] => Busy(c)' = Busy(c)
                        /\ c = ConnOf[r] => Busy(c)' = Busy(c) \cup {r}
    BY Zenon, <2>1, <2>2, BusyChange
  <2>8. busy[ConnOf[r]] + 1 \in Nat
    BY <1>0
  <2>9. busy' \in [Conn -> Nat]
    BY Zenon, <1>0, <2>3, <2>8
  <2>10. ASSUME NEW c \in Conn PROVE busy'[c] = Cardinality(Busy(c)')
    <3>1. CASE c = ConnOf[r]
      BY Zenon, <1>0, <2>3, <2>6, <2>7, <3>1
    <3>2. CASE c # ConnOf[r]
      BY Zenon, <1>0, <2>3, <2>7, <3>2
    <3> QED
      BY Zenon, <3>1, <3>2
  <2> QED
    BY Zenon, <2>9, <2>10 DEF BusyExact
<1>4. ASSUME NEW r \in Req, Ends(r) PROVE BusyExact' /\ busy' \in [Conn -> Nat]
  <2>1. To(r, "done") /\ "done" \in RequestStage /\ "done" \notin Counted
    BY Zenon, <1>4 DEF Ends, EndRequest, RequestStage, Counted, ActiveRequest
  <2>2. /\ busy' = [busy EXCEPT ![ConnOf[r]] = @ - 1] /\ r \in Busy(ConnOf[r])
    BY Zenon, <1>4 DEF Ends, Release, Uncount, Busy
  <2>3. Cardinality(Busy(ConnOf[r]) \ {r}) = busy[ConnOf[r]] - 1
    BY Zenon, <1>0, <2>2, BusyFinite, FS_RemoveElement
  <2>4. \A c \in Conn : /\ c # ConnOf[r] => Busy(c)' = Busy(c)
                        /\ c = ConnOf[r] => Busy(c)' = Busy(c) \ {r}
    BY Zenon, <2>1, BusyChange
  <2>5. busy[ConnOf[r]] - 1 \in Nat
    <3>1. IsFiniteSet(Busy(ConnOf[r]) \ {r})
      BY Zenon, <1>0, BusyFinite, FS_Subset
    <3> QED
      BY Zenon, <2>3, <3>1, FS_CardinalityType
  <2>6. busy' \in [Conn -> Nat]
    BY Zenon, <1>0, <2>2, <2>5
  <2>7. ASSUME NEW c \in Conn PROVE busy'[c] = Cardinality(Busy(c)')
    <3>1. CASE c = ConnOf[r]
      BY Zenon, <1>0, <2>2, <2>3, <2>4, <3>1
    <3>2. CASE c # ConnOf[r]
      BY Zenon, <1>0, <2>2, <2>4, <3>2
    <3> QED
      BY Zenon, <3>1, <3>2
  <2> QED
    BY Zenon, <2>6, <2>7 DEF BusyExact
<1>5. ASSUME NEW r \in Req, Moves(r) PROVE BusyExact' /\ busy' \in [Conn -> Nat]
  <2>1. PICK s \in Counted : To(r, s)
    BY Zenon, <1>5 DEF Moves
  <2>2. s \in RequestStage
    BY Zenon DEF Counted, ActiveRequest, RequestStage
  <2> QED
    BY Zenon, <1>2, <1>5, <2>1, <2>2 DEF Moves
<1>6. ASSUME NEW r \in Req, Reserve(r) \/ DownloadEnds(r)
      PROVE  BusyExact' /\ busy' \in [Conn -> Nat]
  <2>1. /\ stage[r] \in Counted /\ busy' = busy
        /\ \E s \in Counted : To(r, s) /\ s \in RequestStage
    BY Zenon, <1>6 DEF Reserve, DownloadEnds, Counted, ActiveRequest, RequestStage
  <2> QED
    BY Zenon, <1>2, <2>1
<1>7. ASSUME NEW r \in Req, Read(r) \/ Refuse(r)
      PROVE  BusyExact' /\ busy' \in [Conn -> Nat]
  <2>1. /\ stage[r] \notin Counted /\ busy' = busy
        /\ To(r, "checking") \/ To(r, "done")
    BY Zenon, <1>7 DEF Read, Refuse, EndRequest, Counted, ActiveRequest
  <2>2. /\ "checking" \in RequestStage /\ "checking" \notin Counted
        /\ "done" \in RequestStage /\ "done" \notin Counted
    BY Zenon DEF RequestStage, Counted, ActiveRequest
  <2> QED
    BY Zenon, <1>2, <2>1, <2>2
<1>8. ASSUME NEW r \in Req, ReadCancel(r) PROVE stage' = stage /\ busy' = busy
  BY Zenon, <1>8 DEF ReadCancel
<1>9. ASSUME NEW c \in Conn, CancelConnection(c) PROVE stage' = stage /\ busy' = busy
  BY Zenon, <1>9 DEF CancelConnection
<1> QED
  BY Zenon, <1>1, <1>3, <1>4, <1>5, <1>6, <1>7, <1>8, <1>9, StepKinds

-----------------------------------------------------------------------------
(* The registry, the flags and the stages.                                 *)

\* The stages of a handler under way.
LEMMA CountedHandled ==
  /\ \A s \in Counted : s \in RequestStage /\ s \notin {"unsent", "checking", "done"}
  /\ \A s \in ActiveRequest : s \in Counted
  /\ "checking" \in RequestStage /\ "done" \in RequestStage
BY Zenon DEF Counted, ActiveRequest, RequestStage

\* A step of a handler concerns its own request: its key goes with it and
\* not before.
LEMMA HandlerStep ==
  ASSUME RequestTypeOK, NEW r \in Req,
         Refuse(r) \/ Starts(r) \/ Moves(r) \/ Ends(r) \/ Reserve(r) \/ DownloadEnds(r)
  PROVE  /\ Around
         /\ Handled(r) /\ stage' \in [Req -> RequestStage] /\ stage'[r] # "unsent"
         /\ \A q \in Req : q # r => stage'[q] = stage[q]
         /\ \A q : q # r => (q \in registry' <=> q \in registry)
         /\ r \in registry' => (r \in registry \/ stage[r] = "checking") /\ stage'[r] # "done"
         /\ r \in registry => r \in registry' \/ stage'[r] = "done"
<1>1. CASE Refuse(r) \/ Ends(r)
  <2>1. /\ Around /\ To(r, "done") /\ registry' = registry \ {r}
        /\ stage[r] = "checking" \/ stage[r] \in Counted
    BY Zenon, <1>1 DEF Refuse, Ends, EndRequest, Around
  <2>2. stage' \in [Req -> RequestStage] /\ stage'[r] = "done"
        /\ \A q \in Req : q # r => stage'[q] = stage[q]
    BY Zenon, <2>1, StageOf, CountedHandled
  <2>3. Handled(r)
    BY Zenon, <2>1, CountedHandled DEF Handled
  <2> QED
    BY Zenon, <2>1, <2>2, <2>3
<1>2. CASE Starts(r)
  <2>1. PICK s \in ActiveRequest : To(r, s)
    BY Zenon, <1>2 DEF Starts
  <2>2. stage' \in [Req -> RequestStage] /\ stage'[r] = s
        /\ \A q \in Req : q # r => stage'[q] = stage[q]
    BY Zenon, <2>1, StageOf, CountedHandled
  <2>3. s \notin {"unsent", "done"}
    BY Zenon, CountedHandled
  <2>4. /\ Around /\ stage[r] = "checking"
        /\ registry' = registry \/ registry' = registry \cup {r}
    BY Zenon, <1>2 DEF Starts
  <2>5. Handled(r)
    BY Zenon, <2>4 DEF Handled
  <2> QED
    BY Zenon, <2>2, <2>3, <2>4, <2>5
<1>3. CASE Moves(r) \/ Reserve(r) \/ DownloadEnds(r)
  <2>1. /\ Around /\ registry' = registry /\ stage[r] \in Counted
        /\ \E s \in Counted : To(r, s)
    BY Zenon, <1>3 DEF Moves, Reserve, DownloadEnds, Around, Counted, ActiveRequest
  <2>2. PICK s \in Counted : To(r, s)
    BY Zenon, <2>1
  <2>3. stage' \in [Req -> RequestStage] /\ stage'[r] = s
        /\ \A q \in Req : q # r => stage'[q] = stage[q]
    BY Zenon, <2>2, StageOf, CountedHandled
  <2>4. s \notin {"unsent", "done"} /\ Handled(r)
    BY Zenon, <2>1, CountedHandled DEF Handled
  <2> QED
    BY Zenon, <2>1, <2>3, <2>4
<1> QED
  BY Zenon, <1>1, <1>2, <1>3

\* A frame that is read.
LEMMA ReadStep ==
  ASSUME RequestTypeOK, NEW r \in Req, Read(r)
  PROVE  /\ Around /\ reserved' = reserved /\ conn[ConnOf[r]] = "open"
         /\ stage[r] = "unsent" /\ stage'[r] = "checking"
         /\ stage' \in [Req -> RequestStage]
         /\ \A q \in Req : q # r => stage'[q] = stage[q]
         /\ \A q : q # r => (q \in registry' <=> q \in registry)
         /\ registry \subseteq registry' /\ (want[r] = "pull" => r \in registry')
<1>1. /\ Around /\ reserved' = reserved /\ conn[ConnOf[r]] = "open"
      /\ stage[r] = "unsent" /\ To(r, "checking")
      /\ registry' = IF want[r] = "pull" THEN registry \cup {r} ELSE registry
  BY Zenon DEF Read, Around
<1>2. registry' = registry \/ registry' = registry \cup {r}
  BY Zenon, <1>1
<1> QED
  BY Zenon, <1>1, <1>2, StageOf, CountedHandled

\* A Cancel takes the entry of its own request and no other.
LEMMA CancelStep ==
  ASSUME RequestTypeOK, NEW r \in Req, ReadCancel(r)
  PROVE  /\ want' = want /\ conn' = conn /\ stage' = stage /\ reserved' = reserved
         /\ stage[r] # "unsent" /\ asked' = asked \cup {r}
         /\ registry' = registry \ {r} /\ flag' = flag \cup ({r} \cap registry)
<1> DEFINE found == {s \in registry : SameKey(s, r)}
<1>1. /\ want' = want /\ conn' = conn /\ stage' = stage /\ reserved' = reserved
      /\ stage[r] # "unsent" /\ asked' = asked \cup {r}
      /\ registry' = registry \ found /\ flag' = flag \cup found
  BY Zenon DEF ReadCancel
<1>2. \A s \in registry : SameKey(s, r) <=> s = r
  <2>1. registry \subseteq Req
    BY Zenon DEF RequestTypeOK
  <2>2. \A s \in Req : ConnOf[s] = ConnOf[r] /\ IdOf[s] = IdOf[r] => s = r
    BY Zenon, RequestAssumption
  <2> QED
    BY Zenon, <2>1, <2>2 DEF SameKey
<1>3. found = {r} \cap registry
  BY Zenon, <1>2
<1>4. registry \ found = registry \ {r}
  BY Zenon, <1>3
<1> HIDE DEF found
<1> QED
  BY Zenon, <1>1, <1>3, <1>4

\* The end of a connection signals its own requests.
LEMMA CloseStep ==
  ASSUME RequestTypeOK, NEW c \in Conn, CancelConnection(c)
  PROVE  /\ want' = want /\ stage' = stage /\ reserved' = reserved /\ asked' = asked
         /\ conn' = [conn EXCEPT ![c] = "closed"] /\ conn'[c] = "closed"
         /\ \A d \in Conn : d # c => conn'[d] = conn[d]
         /\ \A q : q \in registry' <=> q \in registry /\ ConnOf[q] # c
         /\ \A q : q \in flag' <=> q \in flag \/ (q \in registry /\ ConnOf[q] = c)
<1>1. /\ want' = want /\ stage' = stage /\ reserved' = reserved /\ asked' = asked
      /\ conn' = [conn EXCEPT ![c] = "closed"]
      /\ registry' = registry \ {r \in registry : ConnOf[r] = c}
      /\ flag' = flag \cup {r \in registry : ConnOf[r] = c}
  BY Zenon DEF CancelConnection
<1>2. conn \in [Conn -> {"open", "closed"}]
  BY Zenon DEF RequestTypeOK
<1>3. conn'[c] = "closed" /\ \A d \in Conn : d # c => conn'[d] = conn[d]
  BY Zenon, <1>1, <1>2
<1>4. /\ \A q : q \in registry' <=> q \in registry /\ ConnOf[q] # c
      /\ \A q : q \in flag' <=> q \in flag \/ (q \in registry /\ ConnOf[q] = c)
  BY Zenon, <1>1
<1> QED
  BY Zenon, <1>1, <1>3, <1>4

\* Every request step, the way the registry sees it.
LEMMA KeysStep ==
  ASSUME RequestTypeOK, KeysLive, PullsReachable, [RequestNext]_requestVars
  PROVE  KeysLive' /\ PullsReachable'
<1>0. registry \subseteq Req /\ asked \subseteq Req
  BY Zenon DEF RequestTypeOK
<1>1. ASSUME UNCHANGED <<want, stage, registry, flag, asked>> PROVE KeysLive' /\ PullsReachable'
  BY Zenon, <1>1 DEF KeysLive, PullsReachable, Handled
<1>2. ASSUME NEW r \in Req,
             Refuse(r) \/ Starts(r) \/ Moves(r) \/ Ends(r) \/ Reserve(r) \/ DownloadEnds(r)
      PROVE  KeysLive' /\ PullsReachable'
  <2>1. /\ want' = want /\ flag' = flag /\ asked' = asked /\ Handled(r)
        /\ stage'[r] # "unsent"
        /\ \A q \in Req : q # r => stage'[q] = stage[q]
        /\ \A q : q # r => (q \in registry' <=> q \in registry)
        /\ r \in registry' => stage'[r] # "done"
        /\ r \in registry => r \in registry' \/ stage'[r] = "done"
    BY Zenon, <1>2, HandlerStep DEF Around
  <2>2. KeysLive'
    BY Zenon, <1>0, <2>1 DEF KeysLive, Handled
  <2>3. ASSUME NEW q \in Req, want'[q] = "pull", Handled(q)'
        PROVE  q \in registry' \cup flag'
    <3>1. Handled(q) /\ (q = r => stage'[r] # "done")
      BY Zenon, <2>1, <2>3 DEF Handled
    <3>2. q \in registry \cup flag
      BY Zenon, <2>1, <2>3, <3>1 DEF PullsReachable
    <3> QED
      BY Zenon, <2>1, <3>1, <3>2
  <2>4. ASSUME NEW q \in asked' PROVE stage'[q] # "unsent"
    BY Zenon, <1>0, <2>1 DEF PullsReachable
  <2> QED
    BY Zenon, <2>2, <2>3, <2>4 DEF PullsReachable
<1>3. ASSUME NEW r \in Req, Read(r) PROVE KeysLive' /\ PullsReachable'
  <2>1. /\ want' = want /\ flag' = flag /\ asked' = asked
        /\ stage'[r] = "checking"
        /\ \A q \in Req : q # r => stage'[q] = stage[q]
        /\ \A q : q # r => (q \in registry' <=> q \in registry)
        /\ want[r] = "pull" => r \in registry'
    BY Zenon, <1>3, ReadStep DEF Around
  <2>2. KeysLive'
    BY Zenon, <1>0, <2>1 DEF KeysLive, Handled
  <2>3. ASSUME NEW q \in Req, want'[q] = "pull", Handled(q)'
        PROVE  q \in registry' \cup flag'
    <3>1. CASE q = r
      BY Zenon, <2>1, <2>3, <3>1
    <3>2. CASE q # r
      BY Zenon, <2>1, <2>3, <3>2 DEF PullsReachable, Handled
    <3> QED
      BY Zenon, <3>1, <3>2
  <2>4. ASSUME NEW q \in asked' PROVE stage'[q] # "unsent"
    BY Zenon, <1>0, <2>1 DEF PullsReachable
  <2> QED
    BY Zenon, <2>2, <2>3, <2>4 DEF PullsReachable
<1>4. ASSUME NEW r \in Req, ReadCancel(r) PROVE KeysLive' /\ PullsReachable'
  <2>1. /\ want' = want /\ stage' = stage /\ stage[r] # "unsent" /\ asked' = asked \cup {r}
        /\ registry' = registry \ {r} /\ flag' = flag \cup ({r} \cap registry)
    BY Zenon, <1>4, CancelStep
  <2> QED
    BY Zenon, <2>1 DEF KeysLive, PullsReachable, Handled
<1>5. ASSUME NEW c \in Conn, CancelConnection(c) PROVE KeysLive' /\ PullsReachable'
  <2>1. /\ want' = want /\ stage' = stage /\ asked' = asked
        /\ \A q : q \in registry' <=> q \in registry /\ ConnOf[q] # c
        /\ \A q : q \in flag' <=> q \in flag \/ (q \in registry /\ ConnOf[q] = c)
    BY Zenon, <1>5, CloseStep
  <2> QED
    BY Zenon, <2>1 DEF KeysLive, PullsReachable, Handled
<1> QED
  BY Zenon, <1>1, <1>2, <1>3, <1>4, <1>5, StepKinds

\* CancelIsExact needs to know that a download under way is registered or
\* signalled already, so that the Cancel or the close finds it.
LEMMA CancelStepExact ==
  ASSUME RequestTypeOK, PullsReachable, CancelIsExact, [RequestNext]_requestVars
  PROVE  CancelIsExact'
<1> DEFINE Gone(r) == r \in asked \/ conn[ConnOf[r]] = "closed"
           Due(r) == want[r] = "pull" /\ Handled(r)
<1>0. /\ flag \subseteq Req /\ registry \subseteq Req
      /\ \A r \in Req : ConnOf[r] \in Conn
  BY Zenon, RequestAssumption DEF RequestTypeOK
<1>1. /\ \A r \in flag : Gone(r)
      /\ \A r \in Req : Due(r) => (Gone(r) => r \in flag)
  BY Zenon DEF CancelIsExact, Handled
<1>2. ASSUME \A r \in flag' : Gone(r)',
             \A r \in Req : Due(r)' => (Gone(r)' => r \in flag')
      PROVE  CancelIsExact'
  BY Zenon, <1>2 DEF CancelIsExact, Handled
<1>3. ASSUME UNCHANGED <<conn, flag, asked>>,
             \A q \in Req : Due(q)' => Due(q) \/ ~Gone(q)
      PROVE  CancelIsExact'
  <2>1. \A r \in Req : Gone(r)' <=> Gone(r)
    BY Zenon, <1>3
  <2> QED
    BY Zenon, <1>0, <1>1, <1>2, <1>3, <2>1
<1>4. ASSUME UNCHANGED <<want, conn, stage, flag, asked>> PROVE CancelIsExact'
  BY Zenon, <1>3, <1>4 DEF Handled
<1>5. ASSUME NEW r \in Req,
             Refuse(r) \/ Starts(r) \/ Moves(r) \/ Ends(r) \/ Reserve(r) \/ DownloadEnds(r)
      PROVE  CancelIsExact'
  <2>1. /\ UNCHANGED <<want, conn, flag, asked>> /\ Handled(r)
        /\ \A q \in Req : q # r => stage'[q] = stage[q]
    BY Zenon, <1>5, HandlerStep DEF Around
  <2>2. ASSUME NEW q \in Req, Due(q)' PROVE Due(q)
    BY Zenon, <2>1, <2>2 DEF Handled
  <2> QED
    BY Zenon, <1>3, <2>1, <2>2
<1>6. ASSUME NEW r \in Req, Read(r) PROVE CancelIsExact'
  <2>1. /\ UNCHANGED <<want, conn, flag, asked>>
        /\ stage[r] = "unsent" /\ conn[ConnOf[r]] = "open"
        /\ \A q \in Req : q # r => stage'[q] = stage[q]
    BY Zenon, <1>6, ReadStep DEF Around
  <2>2. ~Gone(r)
    BY Zenon, <2>1 DEF PullsReachable
  <2>3. ASSUME NEW q \in Req, Due(q)' PROVE Due(q) \/ ~Gone(q)
    BY Zenon, <2>1, <2>2, <2>3 DEF Handled
  <2> QED
    BY Zenon, <1>3, <2>1, <2>3
<1>7. ASSUME NEW r \in Req, ReadCancel(r) PROVE CancelIsExact'
  <2>1. /\ want' = want /\ stage' = stage /\ conn' = conn /\ asked' = asked \cup {r}
        /\ flag' = flag \cup ({r} \cap registry)
    BY Zenon, <1>7, CancelStep
  <2>2. \A q \in flag' : Gone(q)'
    BY Zenon, <1>1, <2>1
  <2>3. ASSUME NEW q \in Req, Due(q)', Gone(q)' PROVE q \in flag'
    <3>1. Due(q) /\ (q # r => Gone(q))
      BY Zenon, <2>1, <2>3 DEF Handled
    <3>2. q \in registry \cup flag
      BY Zenon, <3>1 DEF PullsReachable
    <3> QED
      BY Zenon, <1>1, <2>1, <3>1, <3>2
  <2> QED
    BY Zenon, <1>2, <2>2, <2>3
<1>8. ASSUME NEW c \in Conn, CancelConnection(c) PROVE CancelIsExact'
  <2>1. /\ want' = want /\ stage' = stage /\ asked' = asked
        /\ conn'[c] = "closed" /\ \A d \in Conn : d # c => conn'[d] = conn[d]
        /\ \A q : q \in flag' <=> q \in flag \/ (q \in registry /\ ConnOf[q] = c)
    BY Zenon, <1>8, CloseStep
  <2>2. ASSUME NEW q \in flag' PROVE Gone(q)'
    <3>1. CASE q \in flag
      BY Zenon, <1>0, <1>1, <2>1, <3>1
    <3>2. CASE ConnOf[q] = c
      BY Zenon, <2>1, <3>2
    <3> QED
      BY Zenon, <2>1, <3>1, <3>2
  <2>3. ASSUME NEW q \in Req, Due(q)', Gone(q)' PROVE q \in flag'
    <3>1. Due(q) /\ (ConnOf[q] # c => Gone(q))
      BY Zenon, <1>0, <2>1, <2>3 DEF Handled
    <3>2. q \in registry \cup flag
      BY Zenon, <3>1 DEF PullsReachable
    <3> QED
      BY Zenon, <1>1, <2>1, <3>1, <3>2
  <2> QED
    BY Zenon, <1>2, <2>2, <2>3
<1> QED
  BY Zenon, <1>4, <1>5, <1>6, <1>7, <1>8, StepKinds

-----------------------------------------------------------------------------
(* The reservations.                                                       *)

\* Reservations are requests, so they can be counted.
LEMMA PullsFinite ==
  ASSUME RequestTypeOK
  PROVE  IsFiniteSet(Pulls) /\ Cardinality(Pulls) \in Nat
<1>1. Pulls \subseteq Req
  BY Zenon DEF Pulls, RequestTypeOK
<1> QED
  BY Zenon, <1>1, RequestAssumption, FS_Subset, FS_CardinalityType

\* Dropping a reservation keeps the books.
LEMMA FewerReserved ==
  ASSUME RequestTypeOK, OnePerModel, PullsBounded, want' = want, reserved' \subseteq reserved
  PROVE  OnePerModel' /\ PullsBounded'
<1>1. OnePerModel'
  BY Zenon DEF OnePerModel
<1>2. Pulls' \in SUBSET Pulls
  BY Zenon DEF Pulls
<1>3. IsFiniteSet(Pulls') /\ Cardinality(Pulls') <= Cardinality(Pulls)
  BY Zenon, <1>2, PullsFinite, FS_Subset
<1>4. Cardinality(Pulls') \in Nat /\ Cardinality(Pulls) \in Nat /\ MaxDownloads \in Nat
  BY Zenon, <1>3, PullsFinite, FS_CardinalityType, RequestAssumption
<1>5. Cardinality(Pulls') <= MaxDownloads
  <2>1. Cardinality(Pulls) <= MaxDownloads
    BY Zenon DEF PullsBounded
  <2> QED
    BY <1>3, <1>4, <2>1
<1> QED
  BY Zenon, <1>1, <1>5 DEF PullsBounded

\* ModelOperationGuard: taken under one lock with the check, dropped with the
\* work.
LEMMA ReservedStep ==
  ASSUME RequestTypeOK, ReservedExact, OnePerModel, PullsBounded, [RequestNext]_requestVars
  PROVE  ReservedExact' /\ OnePerModel' /\ PullsBounded'
<1> DEFINE Operates(r) == want[r] \in {"pull", "action"} /\ stage[r] = "working"
<1>0. \A r \in Req : r \in reserved <=> Operates(r)
  BY Zenon DEF ReservedExact
<1>1. ASSUME want' = want, reserved' = reserved, \A q \in Req : Operates(q)' <=> Operates(q)
      PROVE  ReservedExact' /\ OnePerModel' /\ PullsBounded'
  <2>1. ReservedExact'
    BY Zenon, <1>0, <1>1 DEF ReservedExact
  <2> QED
    BY Zenon, <1>1, <2>1, FewerReserved
<1>2. ASSUME want' = want, stage' = stage, reserved' = reserved
      PROVE  ReservedExact' /\ OnePerModel' /\ PullsBounded'
  BY Zenon, <1>1, <1>2
<1>3. ASSUME NEW r \in Req, Read(r) PROVE ReservedExact' /\ OnePerModel' /\ PullsBounded'
  <2>1. /\ want' = want /\ reserved' = reserved
        /\ stage[r] = "unsent" /\ stage'[r] = "checking"
        /\ \A q \in Req : q # r => stage'[q] = stage[q]
    BY Zenon, <1>3, ReadStep DEF Around
  <2>2. ASSUME NEW q \in Req PROVE Operates(q)' <=> Operates(q)
    BY Zenon, <2>1
  <2> QED
    BY Zenon, <1>1, <2>1, <2>2
<1>4. ASSUME NEW r \in Req, Starts(r) PROVE ReservedExact' /\ OnePerModel' /\ PullsBounded'
  <2>1. PICK s \in ActiveRequest : To(r, s) /\ (s = "working" => want[r] = "image")
    BY Zenon, <1>4 DEF Starts
  <2>2. /\ want' = want /\ reserved' = reserved /\ stage[r] = "checking"
    BY Zenon, <1>4 DEF Starts, Around
  <2>3. stage'[r] = s /\ \A q \in Req : q # r => stage'[q] = stage[q]
    BY Zenon, <2>1, StageOf, CountedHandled
  <2>4. ASSUME NEW q \in Req PROVE Operates(q)' <=> Operates(q)
    BY Zenon, <2>1, <2>2, <2>3
  <2> QED
    BY Zenon, <1>1, <2>2, <2>4
<1>5. ASSUME NEW r \in Req, Moves(r) PROVE ReservedExact' /\ OnePerModel' /\ PullsBounded'
  <2>1. /\ want' = want /\ reserved' = reserved /\ want[r] = "generate"
        /\ \A q \in Req : q # r => stage'[q] = stage[q]
    BY Zenon, <1>5, HandlerStep DEF Moves, Around
  <2>2. ASSUME NEW q \in Req PROVE Operates(q)' <=> Operates(q)
    BY Zenon, <2>1
  <2> QED
    BY Zenon, <1>1, <2>1, <2>2
<1>6. ASSUME NEW r \in Req, Refuse(r) PROVE ReservedExact' /\ OnePerModel' /\ PullsBounded'
  <2>1. want' = want /\ reserved' = reserved /\ stage[r] = "checking" /\ To(r, "done")
    BY Zenon, <1>6 DEF Refuse, EndRequest
  <2>2. stage'[r] = "done" /\ \A q \in Req : q # r => stage'[q] = stage[q]
    BY Zenon, <2>1, StageOf, CountedHandled
  <2>3. ASSUME NEW q \in Req PROVE Operates(q)' <=> Operates(q)
    BY Zenon, <2>1, <2>2
  <2> QED
    BY Zenon, <1>1, <2>1, <2>3
<1>7. ASSUME NEW r \in Req, Ends(r) \/ DownloadEnds(r)
      PROVE  ReservedExact' /\ OnePerModel' /\ PullsBounded'
  <2>1. want' = want /\ reserved' = reserved \ {r} /\ (To(r, "done") \/ To(r, "ending"))
    BY Zenon, <1>7 DEF Ends, DownloadEnds, EndRequest, Release, Around
  <2>2. "ending" \in RequestStage
    BY Zenon DEF RequestStage
  <2>3. stage'[r] # "working" /\ \A q \in Req : q # r => stage'[q] = stage[q]
    <3>1. \A s \in RequestStage : To(r, s) => stage'[r] = s
      BY Zenon, StageOf
    <3>2. \A q \in Req : q # r => stage'[q] = stage[q]
      BY Zenon, <2>1, <2>2, StageOf, CountedHandled
    <3> QED
      BY Zenon, <2>1, <2>2, <3>1, <3>2, CountedHandled
  <2>4. ReservedExact'
    BY Zenon, <1>0, <2>1, <2>3 DEF ReservedExact
  <2>5. reserved' \subseteq reserved
    BY Zenon, <2>1
  <2> QED
    BY Zenon, <2>1, <2>4, <2>5, FewerReserved
<1>8. ASSUME NEW r \in Req, Reserve(r) PROVE ReservedExact' /\ OnePerModel' /\ PullsBounded'
  <2>1. /\ want' = want /\ want[r] \in {"pull", "action"} /\ stage[r] = "connecting"
        /\ reserved' = reserved \cup {r} /\ To(r, "working") /\ Reservable(r)
    BY Zenon, <1>8 DEF Reserve
  <2>2. "working" \in RequestStage
    BY Zenon DEF RequestStage
  <2>3. stage'[r] = "working" /\ \A q \in Req : q # r => stage'[q] = stage[q]
    BY Zenon, <2>1, <2>2, StageOf
  <2>4. ReservedExact'
    BY Zenon, <1>0, <2>1, <2>3 DEF ReservedExact
  <2>5. OnePerModel'
    <3>1. \A s \in reserved : ModelOf[s] # ModelOf[r]
      BY Zenon, <2>1 DEF Reservable
    <3> QED
      BY Zenon, <2>1, <3>1 DEF OnePerModel
  <2>6. PullsBounded'
    <3>1. CASE want[r] = "pull"
      <4>1. Pulls' = Pulls \cup {r}
        BY Zenon, <2>1, <3>1 DEF Pulls
      <4>2. Cardinality(Pulls) < MaxDownloads
        BY Zenon, <2>1, <3>1 DEF Reservable, Pulls
      <4>3. Cardinality(Pulls') = Cardinality(Pulls) \/ Cardinality(Pulls') = Cardinality(Pulls) + 1
        BY Zenon, <4>1, PullsFinite, FS_AddElement
      <4>4. Cardinality(Pulls) \in Nat /\ MaxDownloads \in Nat
        BY Zenon, PullsFinite, RequestAssumption
      <4>5. Cardinality(Pulls') <= MaxDownloads
        BY <4>2, <4>3, <4>4
      <4> QED
        BY Zenon, <4>5 DEF PullsBounded
    <3>2. CASE want[r] # "pull"
      <4>1. Pulls' = Pulls
        BY Zenon, <2>1, <3>2 DEF Pulls
      <4> QED
        BY Zenon, <4>1 DEF PullsBounded
    <3> QED
      BY Zenon, <3>1, <3>2
  <2> QED
    BY Zenon, <2>4, <2>5, <2>6
<1>9. ASSUME NEW r \in Req, ReadCancel(r)
      PROVE  want' = want /\ stage' = stage /\ reserved' = reserved
  BY Zenon, <1>9, CancelStep
<1>10. ASSUME NEW c \in Conn, CancelConnection(c)
       PROVE  want' = want /\ stage' = stage /\ reserved' = reserved
  BY Zenon, <1>10, CloseStep
<1> QED
  BY Zenon, <1>2, <1>3, <1>4, <1>5, <1>6, <1>7, <1>8, <1>9, <1>10, StepKinds

-----------------------------------------------------------------------------
(* Types.                                                                  *)

\* The parts of the type invariant that a connection owns.
LEMMA ConnectionTypes ==
  ASSUME RequestTypeOK, [RequestNext]_requestVars
  PROVE  writer' \subseteq Conn /\ peer' \subseteq Conn
<1>0. writer \subseteq Conn /\ peer \subseteq Conn
  BY Zenon DEF RequestTypeOK
<1>1. ASSUME NEW c \in Conn, CancelConnection(c) PROVE writer' = writer /\ peer' = peer
  BY Zenon, <1>1 DEF CancelConnection
<1>2. ASSUME NEW r \in Req, Handle(r) PROVE writer' = writer /\ peer' = peer
  BY Zenon, <1>2 DEF Handle, Refuse, RegisterGeneration, Admitted, StreamStarts,
     CancelledBeforeStream, StreamEnds, GenerationEnds, RegisterImageJob, ImageJobEnds,
     StartOperation, Reserve, DownloadEnds, OperationEnds, Fail
<1>3. ASSUME NEW r \in Req, Read(r) \/ ReadCancel(r) PROVE writer' = writer /\ peer' = peer
  BY Zenon, <1>3 DEF Read, ReadCancel
<1>4. ASSUME NEW c \in Conn, PeerLeaves(c) \/ WriterEnds(c)
      PROVE  writer' \subseteq writer /\ peer' \subseteq peer
  BY Zenon, <1>4 DEF PeerLeaves, WriterEnds
<1>5. CASE UNCHANGED requestVars
  BY Zenon, <1>0, <1>5 DEF requestVars
<1> QED
  BY Zenon, <1>0, <1>1, <1>2, <1>3, <1>4, <1>5 DEF RequestNext, Disconnect, LagClose, IdleClose

\* The rest of it, with the busy counters.
LEMMA TypedStep ==
  ASSUME RequestTypeOK, BusyExact, [RequestNext]_requestVars
  PROVE  RequestTypeOK'
<1> DEFINE Goal == /\ want' \in Workloads /\ conn' \in [Conn -> {"open", "closed"}]
                   /\ stage' \in [Req -> RequestStage]
                   /\ registry' \subseteq Req /\ flag' \subseteq Req /\ asked' \subseteq Req
                   /\ reserved' \subseteq Req
<1>0. /\ want \in Workloads /\ conn \in [Conn -> {"open", "closed"}]
      /\ stage \in [Req -> RequestStage]
      /\ registry \subseteq Req /\ flag \subseteq Req /\ asked \subseteq Req
      /\ reserved \subseteq Req
  BY Zenon DEF RequestTypeOK
<1>1. ASSUME UNCHANGED <<want, conn, stage, registry, flag, asked, busy, reserved>> PROVE Goal
  BY Zenon, <1>0, <1>1
<1>2. ASSUME NEW r \in Req,
             Refuse(r) \/ Starts(r) \/ Moves(r) \/ Ends(r) \/ Reserve(r) \/ DownloadEnds(r)
      PROVE  Goal
  <2>1. /\ Around /\ stage' \in [Req -> RequestStage]
        /\ \A q : q # r => (q \in registry' <=> q \in registry)
    BY Zenon, <1>2, HandlerStep
  <2>2. reserved' \subseteq reserved \cup {r}
    BY Zenon, <1>2 DEF Refuse, Starts, Moves, Ends, Release, Reserve, DownloadEnds
  <2> QED
    BY Zenon, <1>0, <2>1, <2>2 DEF Around
<1>3. ASSUME NEW r \in Req, Read(r) PROVE Goal
  <2>1. /\ Around /\ stage' \in [Req -> RequestStage] /\ reserved' = reserved
        /\ \A q : q # r => (q \in registry' <=> q \in registry)
    BY Zenon, <1>3, ReadStep
  <2> QED
    BY Zenon, <1>0, <2>1 DEF Around
<1>4. ASSUME NEW r \in Req, ReadCancel(r) PROVE Goal
  <2>1. /\ want' = want /\ conn' = conn /\ stage' = stage /\ reserved' = reserved
        /\ asked' = asked \cup {r}
        /\ registry' = registry \ {r} /\ flag' = flag \cup ({r} \cap registry)
    BY Zenon, <1>4, CancelStep
  <2> QED
    BY Zenon, <1>0, <2>1
<1>5. ASSUME NEW c \in Conn, CancelConnection(c) PROVE Goal
  <2>1. /\ want' = want /\ stage' = stage /\ reserved' = reserved /\ asked' = asked
        /\ conn' = [conn EXCEPT ![c] = "closed"]
        /\ \A q : q \in registry' <=> q \in registry /\ ConnOf[q] # c
        /\ \A q : q \in flag' <=> q \in flag \/ (q \in registry /\ ConnOf[q] = c)
    BY Zenon, <1>5, CloseStep
  <2>2. conn' \in [Conn -> {"open", "closed"}]
    BY Zenon, <1>0, <2>1
  <2> QED
    BY Zenon, <1>0, <2>1, <2>2
<1>6. Goal
  BY Zenon, <1>1, <1>2, <1>3, <1>4, <1>5, StepKinds
<1> QED
  BY Zenon, <1>6, BusyStep, ConnectionTypes DEF RequestTypeOK

-----------------------------------------------------------------------------
\* The handlers, the reader and the writer of every connection keep the books
\* of transport.rs and adapters.rs: whatever the requests, the order of their
\* frames, their cancellations, their failures and the ends of connections.
THEOREM RequestInvariant == RequestSpec => []RequestInv
<1>1. RequestInit => RequestInv
  <2> SUFFICES ASSUME RequestInit PROVE RequestInv
    OBVIOUS
  <2> USE DEF RequestInit
  <2>1. RequestTypeOK
    <3>1. /\ want \in Workloads /\ registry \subseteq Req /\ flag \subseteq Req
          /\ asked \subseteq Req /\ reserved \subseteq Req
          /\ writer \subseteq Conn /\ peer \subseteq Conn
      BY Zenon
    <3>2. conn \in [Conn -> {"open", "closed"}]
      BY Zenon
    <3>3. stage \in [Req -> RequestStage]
      BY Zenon DEF RequestStage
    <3>4. busy \in [Conn -> Nat]
      BY SMT
    <3> QED
      BY Zenon, <3>1, <3>2, <3>3, <3>4 DEF RequestTypeOK
  <2>2. \A r \in Req : stage[r] = "unsent"
    BY Zenon
  <2>3. KeysLive /\ OnePerModel /\ CancelIsExact /\ PullsReachable
    BY Zenon, <2>2 DEF KeysLive, OnePerModel, CancelIsExact, PullsReachable, Handled
  <2>4. ReservedExact
    BY Zenon, <2>2 DEF ReservedExact
  <2>5. PullsBounded
    <3>1. Pulls = {}
      BY Zenon DEF Pulls
    <3>2. Cardinality(Pulls) = 0
      BY Zenon, <3>1, FS_EmptySet
    <3>3. 0 <= MaxDownloads
      BY RequestAssumption
    <3> QED
      BY Zenon, <3>2, <3>3 DEF PullsBounded
  <2>6. BusyExact
    <3> SUFFICES ASSUME NEW c \in Conn PROVE busy[c] = Cardinality(Busy(c))
      BY Zenon DEF BusyExact
    <3>1. "unsent" \notin Counted
      BY Zenon, CountedHandled
    <3>2. Busy(c) = {}
      BY Zenon, <2>2, <3>1 DEF Busy
    <3>3. Cardinality(Busy(c)) = 0
      BY Zenon, <3>2, FS_EmptySet
    <3> QED
      BY Zenon, <3>3
  <2> QED
    BY Zenon, <2>1, <2>3, <2>4, <2>5, <2>6 DEF RequestInv
<1>2. RequestInv /\ [RequestNext]_requestVars => RequestInv'
  BY Zenon, TypedStep, KeysStep, ReservedStep, BusyStep, CancelStepExact DEF RequestInv
<1> QED
  BY <1>1, <1>2, PTL DEF RequestSpec

\* No key outlives its handler (transport.rs 143, main.rs 1886 and 2197),
\* reservations are the operations at work (adapters.rs 143-183) and the busy
\* counter counts the handlers under way (transport.rs 99-109).
THEOREM RequestBooksStayExact == RequestSpec => []RequestBooksExact
<1>1. RequestInv => RequestBooksExact
  BY Zenon DEF RequestInv, RequestBooksExact, KeysLive, ReservedExact, OnePerModel,
     PullsBounded, BusyExact, Handled, Pulls, Busy, Counted
<1> QED
  BY <1>1, RequestInvariant, PTL

\* A cancellation reaches exactly what it names, and no download under way is
\* missed (transport.rs 163-172 and 189-199, main.rs 335-336).
THEOREM CancellationIsExact == RequestSpec => []CancelIsExact
<1>1. RequestInv => CancelIsExact
  BY Zenon DEF RequestInv
<1> QED
  BY <1>1, RequestInvariant, PTL

=============================================================================
