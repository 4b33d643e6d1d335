------------------------------ MODULE Residency ------------------------------
(***************************************************************************)
(* Where the routed experts of the metal appliance live: VRAM slots the    *)
(* GPU reads, RAM slots the CPU reads, or the drive only.                  *)
(* chatty-metal/src/residency.rs keeps the maps; the model thread          *)
(* (gpu_model.rs: moe, pick, run_ram_experts) routes one layer after the   *)
(* other; a fetcher thread fills RAM slots from the drive and a copier     *)
(* thread fills VRAM slots from RAM.  The threads share the slots' memory  *)
(* and talk through channels.                                              *)
(*                                                                         *)
(* Abstractions.  A tick is only compared with the current one, so `used'  *)
(* is the set of experts chosen in this tick.  A slot's bytes are the      *)
(* expert they hold, or Torn while a worker writes or after a failed read. *)
(* A channel is a set of jobs: the workers may take them in any order.     *)
(* Slot 0 is NONE.  Free lists are only popped, lowest slot first.         *)
(***************************************************************************)
EXTENDS Naturals, Sequences, FiniteSets, FiniteSetsExt, Functions

CONSTANTS
  Expert, NoExpert, Torn,
  VramSlots, RamSlots,  \* numbers of slots
  Rows,                 \* tokens of a chunk
  Active,               \* experts the router picks per token
  MustRun, RamRanks, HostBudget, StandIn,  \* the Policy
  MaxQueued, PromoteAfter, MaxDemand,
  Hot,                  \* the preload list, hottest first
  MaxLost               \* drive reads that fail

VramSlot == 1..VramSlots
RamSlot == 1..RamSlots

ASSUME ResidencyAssumption ==
  /\ NoExpert \notin Expert /\ Torn \notin Expert /\ NoExpert # Torn
  /\ {VramSlots, RamSlots, Rows, Active, MustRun, RamRanks, HostBudget,
      MaxQueued, PromoteAfter, MaxDemand} \subseteq Nat
  /\ Cardinality(Expert) \in Nat  \* finitely many
  /\ Rows > 0 /\ Active > 0 /\ Active <= Cardinality(Expert)
  /\ StandIn \in BOOLEAN /\ MaxLost \in Nat
  /\ Hot \in Seq(Expert) /\ IsInjective(Hot)  \* hottest lists an expert once

VARIABLES
  inVram, inRam,          \* expert -> slot the maps publish
  vramOwner, ramOwner,    \* slot -> expert it is reserved for
  vramFree, ramFree,
  demand, busy, used, queued,
  fetchQ, copyQ, doneQ,   \* channels to and from the workers
  fetching, copying,      \* the job a worker is at
  ramMem, vramMem,        \* what the slots' bytes are
  phase,                  \* where the model thread is
  hot,                    \* what preload has still to do
  row, ranking, rank, picked,  \* pick: the token, its router order, its choice
  hostLeft, chosen, asked,     \* the layer: CPU budget, experts, wants to queue
  cold, target,           \* experts to wait for, the one awaited
  gpuReads, cpuReads      \* expert -> slot, of the layer being computed

maps == <<inVram, inRam, vramOwner, ramOwner, vramFree, ramFree>>
work == <<busy, queued, fetchQ, copyQ>>
workers == <<fetching, copying, ramMem, vramMem>>
token == <<row, ranking, rank, picked>>
layer == <<hostLeft, chosen, asked, cold, target>>
reads == <<gpuReads, cpuReads>>
vars == <<maps, demand, used, work, doneQ, workers, phase, hot, token, layer,
          reads>>

Done == {"fetched", "copied"} \X Expert
NoJob == [id |-> NoExpert]
NoReads == [e \in {} |-> 0]
Unlimited == MaxDemand + 1

Init ==
  /\ inVram = [e \in Expert |-> 0] /\ inRam = [e \in Expert |-> 0]
  /\ vramOwner = [s \in VramSlot |-> NoExpert]
  /\ ramOwner = [s \in RamSlot |-> NoExpert]
  /\ vramFree = VramSlot /\ ramFree = RamSlot
  /\ demand = [e \in Expert |-> 0]
  /\ busy = {} /\ used = {} /\ queued = 0
  /\ fetchQ = {} /\ copyQ = {} /\ doneQ = {}
  /\ fetching = NoJob /\ copying = NoJob
  /\ ramMem = [s \in RamSlot |-> Torn] /\ vramMem = [s \in VramSlot |-> Torn]
  /\ phase = "preload" /\ hot = Hot
  /\ row = 1 /\ ranking = <<>> /\ rank = 1 /\ picked = {}
  /\ hostLeft = [r \in 1..Rows |-> 0]
  /\ chosen = {} /\ asked = <<>> /\ cold = {} /\ target = NoExpert
  /\ gpuReads = NoReads /\ cpuReads = NoReads

-----------------------------------------------------------------------------
(* Slots.                                                                  *)

Resident(e) == inRam[e] # 0 \/ inVram[e] # 0

\* s is the first slot of S of least cost.
Cheapest(s, S, cost) ==
  s \in S /\ \A t \in S : cost[s] < cost[t] \/ (cost[s] = cost[t] /\ s <= t)

\* Mutant: an expert a worker is at may be a victim.
EvictableBusy(owner) == owner # NoExpert /\ owner \notin used

Evictable(owner) == owner # NoExpert /\ owner \notin busy /\ owner \notin used

\* take_vram_slot returns s: a free slot, else the least-demanded expert's if
\* this one out-demands it; 0 if there is none.
take_vram_slot(d, s) ==
  LET victims == {t \in VramSlot : Evictable(vramOwner[t])}
      cost == [t \in victims |-> demand[vramOwner[t]]]
  IN \/ s \in vramFree /\ \A t \in vramFree : s <= t
     \/ vramFree = {} /\ Cheapest(s, victims, cost) /\ cost[s] < d
     \/ vramFree = {} /\ s = 0 /\ \A t \in victims : cost[t] >= d

\* take_ram_slot: an expert also in VRAM leaves first.
take_ram_slot(d, s) ==
  LET victims == {t \in RamSlot : Evictable(ramOwner[t])}
      cost == [t \in victims |->
                 IF inVram[ramOwner[t]] # 0 THEN 0 ELSE demand[ramOwner[t]] + 1]
  IN \/ s \in ramFree /\ \A t \in ramFree : s <= t
     \/ ramFree = {} /\ Cheapest(s, victims, cost) /\ cost[s] <= d
     \/ ramFree = {} /\ s = 0 /\ \A t \in victims : cost[t] > d

\* start_fetch with the slot it took: the victim's map entry is cleared and
\* the slot is reserved for e.
start_fetch(e, s) ==
  /\ ramFree' = ramFree \ {s}
  /\ inRam' = [x \in Expert |-> IF x = ramOwner[s] THEN 0 ELSE inRam[x]]
  /\ ramOwner' = [ramOwner EXCEPT ![s] = e]
  /\ busy' = busy \cup {e} /\ queued' = queued + 1
  /\ fetchQ' = fetchQ \cup {[id |-> e, slot |-> s]}
  /\ UNCHANGED <<inVram, vramOwner, vramFree, copyQ>>

start_promote(e, s) ==
  /\ vramFree' = vramFree \ {s}
  /\ inVram' = [x \in Expert |-> IF x = vramOwner[s] THEN 0 ELSE inVram[x]]
  /\ vramOwner' = [vramOwner EXCEPT ![s] = e]
  /\ busy' = busy \cup {e} /\ queued' = queued + 1
  /\ copyQ' = copyQ \cup {[id |-> e, src |-> inRam[e], dst |-> s]}
  /\ UNCHANGED <<inRam, ramOwner, ramFree, fetchQ>>

\* The whole of the two, with the search for the slot.
try_fetch(e, d) ==
  \E s \in RamSlot \cup {0} :
    take_ram_slot(d, s) /\ IF s = 0 THEN UNCHANGED <<maps, work>> ELSE start_fetch(e, s)

try_promote(e, d) ==
  \E s \in VramSlot \cup {0} :
    take_vram_slot(d, s) /\ IF s = 0 THEN UNCHANGED <<maps, work>> ELSE start_promote(e, s)

\* The first slot reserved for e, 0 if none is.
SlotOf(owner, e) ==
  LET own == {s \in DOMAIN owner : owner[s] = e} IN IF own = {} THEN 0 ELSE Min(own)

\* Mutant: a result does not give its place in the queue back.
AdoptKeepsPlace(D) ==
  /\ inRam' = [e \in Expert |->
       IF <<"fetched", e>> \in D THEN SlotOf(ramOwner, e) ELSE inRam[e]]
  /\ inVram' = [e \in Expert |->
       IF <<"copied", e>> \in D THEN SlotOf(vramOwner, e) ELSE inVram[e]]
  /\ busy' = busy \ {d[2] : d \in D} /\ doneQ' = doneQ \ D
  /\ UNCHANGED <<vramOwner, ramOwner, vramFree, ramFree, fetchQ, copyQ, queued>>

\* adopt, for every result in D.
adopt(D) ==
  /\ inRam' = [e \in Expert |->
       IF <<"fetched", e>> \in D THEN SlotOf(ramOwner, e) ELSE inRam[e]]
  /\ inVram' = [e \in Expert |->
       IF <<"copied", e>> \in D THEN SlotOf(vramOwner, e) ELSE inVram[e]]
  /\ busy' = busy \ {d[2] : d \in D}
  /\ queued' = queued - Cardinality(D)
  /\ doneQ' = doneQ \ D
  /\ UNCHANGED <<vramOwner, ramOwner, vramFree, ramFree, fetchQ, copyQ>>

-----------------------------------------------------------------------------
(* The workers.                                                            *)

\* spawn_fetcher: the read overwrites the slot, then reports.
FetchStart(j) ==
  /\ fetching = NoJob /\ j \in fetchQ
  /\ fetchQ' = fetchQ \ {j} /\ fetching' = j
  /\ ramMem' = [ramMem EXCEPT ![j.slot] = Torn]
  /\ UNCHANGED <<maps, demand, used, busy, queued, copyQ, doneQ, copying,
                 vramMem, phase, hot, token, layer, reads>>

FetchDone ==
  /\ fetching # NoJob
  /\ ramMem' = [ramMem EXCEPT ![fetching.slot] = fetching.id]
  /\ doneQ' = doneQ \cup {<<"fetched", fetching.id>>}
  /\ fetching' = NoJob
  /\ UNCHANGED <<maps, demand, used, work, copying, vramMem, phase, hot, token, layer, reads>>

\* An expert marked busy that no worker and no channel has.
Lost ==
  busy \ ({j.id : j \in fetchQ \cup copyQ \cup {fetching, copying}} \cup {d[2] : d \in doneQ})

\* A failed read skips the report: the expert stays busy and its slot reserved.
FetchFails ==
  /\ fetching # NoJob /\ Cardinality(Lost) < MaxLost
  /\ fetching' = NoJob
  /\ UNCHANGED <<maps, demand, used, work, doneQ, copying, ramMem, vramMem,
                 phase, hot, token, layer, reads>>

\* spawn_copier.
CopyStart(j) ==
  /\ copying = NoJob /\ j \in copyQ
  /\ copyQ' = copyQ \ {j} /\ copying' = j
  /\ vramMem' = [vramMem EXCEPT ![j.dst] = Torn]
  /\ UNCHANGED <<maps, demand, used, busy, queued, fetchQ, doneQ, fetching,
                 ramMem, phase, hot, token, layer, reads>>

CopyDone ==
  /\ copying # NoJob
  /\ vramMem' = [vramMem EXCEPT ![copying.dst] = ramMem[copying.src]]
  /\ doneQ' = doneQ \cup {<<"copied", copying.id>>}
  /\ copying' = NoJob
  /\ UNCHANGED <<maps, demand, used, work, fetching, ramMem, phase, hot, token, layer, reads>>

-----------------------------------------------------------------------------
(* load_now: fetch e unless it is resident or under way.  The two           *)
(* continuations: wait for results, or give up without a slot.              *)

load_now(e, waiting, failed) ==
  IF Resident(e) \/ e \in busy
    THEN phase' = waiting /\ UNCHANGED <<maps, work>>
    ELSE \E s \in RamSlot \cup {0} :
           /\ take_ram_slot(Unlimited, s)
           /\ IF s = 0 THEN phase' = failed /\ UNCHANGED <<maps, work>>
              ELSE phase' = waiting /\ start_fetch(e, s)

(* preload: the hottest experts go to VRAM one by one, the others to RAM.  *)
PreloadingVram == Len(hot) > 0 /\ Len(Hot) - Len(hot) < VramSlots

PreloadLoad ==
  /\ phase = "preload" /\ PreloadingVram
  /\ demand' = [demand EXCEPT ![Head(hot)] = PromoteAfter]
  /\ load_now(Head(hot), "preloading", "idle")
  /\ UNCHANGED <<used, doneQ, workers, hot, token, layer, reads>>

PreloadPromote ==
  /\ phase = "preloading" /\ Resident(Head(hot))
  /\ try_promote(Head(hot), demand[Head(hot)])
  /\ phase' = "promoting"
  /\ UNCHANGED <<demand, used, doneQ, workers, hot, token, layer, reads>>

\* drain_until_idle.
PreloadNext ==
  /\ phase = "promoting" /\ Head(hot) \notin busy
  /\ phase' = "preload" /\ hot' = Tail(hot)
  /\ UNCHANGED <<maps, demand, used, work, doneQ, workers, token, layer, reads>>

PreloadFetch ==
  /\ phase = "preload" /\ hot # <<>> /\ ~PreloadingVram /\ queued < MaxQueued
  /\ demand' = [demand EXCEPT ![Head(hot)] = PromoteAfter]
  /\ \E s \in RamSlot \cup {0} :
       /\ take_ram_slot(Unlimited, s)
       /\ IF s = 0 THEN hot' = <<>> /\ UNCHANGED <<maps, work>>
          ELSE hot' = Tail(hot) /\ start_fetch(Head(hot), s)
  /\ UNCHANGED <<used, doneQ, workers, phase, token, layer, reads>>

PreloadEnd ==
  /\ phase = "preload" /\ hot = <<>> /\ queued = 0
  /\ phase' = "idle"
  /\ UNCHANGED <<maps, demand, used, work, doneQ, workers, hot, token, layer, reads>>

\* done_rx.recv() while something is awaited.
Awaiting ==
  \/ phase = "preloading" /\ ~Resident(Head(hot))
  \/ phase = "promoting" /\ Head(hot) \in busy
  \/ phase = "preload" /\ hot # <<>> /\ ~PreloadingVram /\ queued >= MaxQueued
  \/ phase = "preload" /\ hot = <<>> /\ queued > 0
  \/ phase = "loading" /\ ~Resident(target)

Receive(d) ==
  /\ Awaiting /\ d \in doneQ
  /\ adopt({d})
  /\ UNCHANGED <<demand, used, workers, phase, hot, token, layer, reads>>

-----------------------------------------------------------------------------
(* One layer: moe, pick, run_ram_experts.                                  *)

\* The sync after the gate ends the GPU's reads; poll adopts what is done;
\* begin_layer starts a tick, at times halving the demand.  A layer may be
\* the first of its pass, where every token gets its CPU budget.
BeginLayer ==
  /\ phase = "idle"
  /\ adopt(doneQ)
  /\ used' = {}
  /\ \/ demand' = demand
     \/ demand' = [e \in Expert |-> demand[e] \div 2]
  /\ hostLeft' \in {hostLeft, [r \in 1..Rows |-> HostBudget]}
  /\ gpuReads' = NoReads /\ cpuReads' = NoReads
  /\ phase' = "route" /\ row' = 1 /\ chosen' = {} /\ asked' = <<>>
  /\ UNCHANGED <<workers, hot, ranking, rank, picked, cold, target>>

\* pick, first half: the router's order of the experts for a token; its top
\* experts gain demand.
Rankings == {r \in [1..Cardinality(Expert) -> Expert] : IsInjective(r)}
Reach == IF StandIn THEN Cardinality(Expert) ELSE Active
Top(r) == SubSeq(r, 1, Active)

PickStart(r) ==
  /\ phase = "route" /\ row <= Rows
  /\ demand' = [e \in Expert |->
       IF e \in Range(Top(r)) /\ demand[e] < MaxDemand THEN demand[e] + 1 ELSE demand[e]]
  /\ ranking' = SubSeq(r, 1, Reach) /\ rank' = 1 /\ picked' = {}
  /\ asked' = asked \o Top(r)
  /\ phase' = "pick"
  /\ UNCHANGED <<maps, used, work, doneQ, workers, hot, row, hostLeft, chosen,
                 cold, target, reads>>

\* request: protected from eviction, and fetched ahead of the queue limit.
request(e, next) ==
  /\ used' = used \cup {e}
  /\ load_now(e, next, "idle")

Use(e, next) == used' = used \cup {e} /\ phase' = next /\ UNCHANGED <<maps, work>>

\* pick, one rank: an expert in VRAM runs; one in RAM if it must or the budget
\* allows; one on the drive only if it must.
Required == rank <= MustRun
Spend == hostLeft' = [hostLeft EXCEPT ![row] = IF @ > 0 THEN @ - 1 ELSE 0]

PickRank ==
  LET e == ranking[rank]
      runs == picked' = picked \cup {e} /\ chosen' = chosen \cup {e}
  IN /\ phase = "pick" /\ rank <= Reach /\ Cardinality(picked) < Active
     /\ \/ inVram[e] # 0 /\ Use(e, "pick") /\ runs /\ UNCHANGED hostLeft
        \/ /\ inVram[e] = 0 /\ inRam[e] # 0
           /\ Required \/ (rank <= RamRanks /\ hostLeft[row] > 0)
           /\ Use(e, "pick") /\ runs /\ Spend
        \/ ~Resident(e) /\ Required /\ request(e, "pick") /\ runs /\ Spend
        \/ /\ inVram[e] = 0 /\ ~Required
           /\ inRam[e] # 0 => ~(rank <= RamRanks /\ hostLeft[row] > 0)
           /\ UNCHANGED <<used, maps, work, phase, picked, chosen, hostLeft>>
     /\ rank' = rank + 1
     /\ UNCHANGED <<demand, doneQ, workers, hot, row, ranking, asked, cold,
                    target, reads>>

\* With nothing resident at all the top choice runs.
PickEnd ==
  /\ phase = "pick" /\ (rank > Reach \/ Cardinality(picked) = Active)
  /\ IF picked = {}
       THEN request(ranking[1], "route") /\ chosen' = chosen \cup {ranking[1]}
       ELSE phase' = "route" /\ UNCHANGED <<used, maps, work, chosen>>
  /\ row' = row + 1 /\ ranking' = <<>> /\ rank' = 1 /\ picked' = {}
  /\ UNCHANGED <<demand, doneQ, workers, hot, hostLeft, asked, cold, target, reads>>

\* want, for one expert the router asked for.
Want ==
  LET e == Head(asked)
  IN /\ phase = "route" /\ row > Rows /\ asked # <<>>
     /\ IF e \in busy \/ inVram[e] # 0 \/ queued >= MaxQueued
          THEN UNCHANGED <<maps, work>>
        ELSE IF inRam[e] = 0 THEN try_fetch(e, demand[e])
        ELSE IF demand[e] >= PromoteAfter THEN try_promote(e, demand[e])
        ELSE UNCHANGED <<maps, work>>
     /\ asked' = Tail(asked)
     /\ UNCHANGED <<demand, used, doneQ, workers, phase, hot, token, hostLeft,
                    chosen, cold, target, reads>>

\* claim every chosen expert; run_experts starts the GPU on those in VRAM, and
\* the CPU starts on those in RAM.
Launch ==
  LET vram == {e \in chosen : inVram[e] # 0}
      ram == {e \in chosen \ vram : inRam[e] # 0}
  IN /\ phase = "route" /\ row > Rows /\ asked = <<>>
     /\ used' = used \cup vram \cup ram
     /\ gpuReads' = [e \in vram |-> inVram[e]]
     /\ cpuReads' = [e \in ram |-> inRam[e]]
     /\ cold' = chosen \ (vram \cup ram)
     /\ phase' = "running"
     /\ UNCHANGED <<maps, demand, work, doneQ, workers, hot, token, hostLeft,
                    chosen, asked, target>>

\* The burst of RAM experts is done; the cold ones follow one by one.
BurstDone ==
  /\ phase = "running"
  /\ cpuReads' = NoReads
  /\ phase' = IF cold = {} THEN "idle" ELSE "load"
  /\ UNCHANGED <<maps, demand, used, work, doneQ, workers, hot, token, layer,
                 gpuReads>>

Load(e) ==
  /\ phase = "load" /\ e \in cold
  /\ load_now(e, "loading", "idle")
  /\ target' = e
  /\ UNCHANGED <<demand, used, doneQ, workers, hot, token, hostLeft, chosen,
                 asked, cold, reads>>

\* "RAM expert left memory while being scheduled" is the phase "lost".
Loaded ==
  /\ phase = "loading" /\ Resident(target)
  /\ IF inRam[target] = 0 THEN phase' = "lost" /\ UNCHANGED cpuReads
     ELSE phase' = "computing" /\ cpuReads' = [e \in {target} |-> inRam[e]]
  /\ UNCHANGED <<maps, demand, used, work, doneQ, workers, hot, token, layer,
                 gpuReads>>

ColdDone ==
  /\ phase = "computing"
  /\ cpuReads' = NoReads /\ cold' = cold \ {target} /\ target' = NoExpert
  /\ phase' = IF cold = {target} THEN "idle" ELSE "load"
  /\ UNCHANGED <<maps, demand, used, work, doneQ, workers, hot, token, hostLeft,
                 chosen, asked, gpuReads>>

-----------------------------------------------------------------------------
Fetcher == (\E j \in fetchQ : FetchStart(j)) \/ FetchDone
Copier == (\E j \in copyQ : CopyStart(j)) \/ CopyDone
Preload ==
  PreloadLoad \/ PreloadPromote \/ PreloadNext \/ PreloadFetch \/ PreloadEnd
Compute ==
  \/ (\E r \in Rankings : PickStart(r)) \/ PickRank \/ PickEnd \/ Want \/ Launch
  \/ BurstDone \/ (\E e \in cold : Load(e)) \/ Loaded \/ ColdDone
Wait == \E d \in doneQ : Receive(d)

Next == Fetcher \/ FetchFails \/ Copier \/ Preload \/ BeginLayer \/ Compute \/ Wait

Spec == Init /\ [][Next]_vars

\* The workers loop over their channels; the model thread runs on.
FairSpec ==
  /\ Spec
  /\ WF_vars(Fetcher) /\ WF_vars(Copier)
  /\ WF_vars(Preload) /\ WF_vars(Compute) /\ WF_vars(Wait)

-----------------------------------------------------------------------------
(* Properties.                                                             *)

\* While a layer runs, every slot it reads holds the whole expert it was
\* claimed for: no eviction, fetch or promotion of the background workers
\* reaches a slot that the GPU or the CPU is reading (residency.rs:265).  "Claim
\* now, so that loading another expert cannot evict this one": from the moment a
\* layer chose an expert to its run the expert is in memory or on its way, and
\* the error of run_ram_experts cannot happen.
ChosenExpertsAreWhole ==
  /\ \A e \in DOMAIN gpuReads : vramMem[gpuReads[e]] = e
  /\ \A e \in DOMAIN cpuReads : ramMem[cpuReads[e]] = e
  /\ phase # "lost"
  /\ phase \in {"pick", "route", "running", "load", "loading"} =>
       \A e \in chosen : Resident(e) \/ e \in busy

\* Every layer comes to its end, and so does the preload, unless a drive read
\* failed: its expert stays busy for ever, and a layer that must run it waits.
LayerEnds == phase # "idle" ~> (phase = "idle" \/ Lost # {})
=============================================================================
