----------------------------- MODULE ExpertCache -----------------------------
(***************************************************************************)
(* The two-tier expert cache of chatty-metal/src/store.rs: an expert is in *)
(* a VRAM slot, in a RAM slot, or cold; acquire_layer brings the experts   *)
(* of a layer within the GPU's reach, in VRAM or in a host staging slot.   *)
(*                                                                         *)
(* What a slot holds is the expert whose bytes are in it (0: nothing, or   *)
(* two experts written over each other).  A tier is its owners, reference  *)
(* bits, hit counts, free list and clock hand; `dirty` VRAM slots were     *)
(* written by the CPU and not yet flushed to the GPU.                      *)
(***************************************************************************)
EXTENDS Naturals, Sequences, FiniteSets, SequencesExt

CONSTANTS
  Experts,          \* 1..n
  VramSlots, RamSlots,
  PromoteMinHits,
  MaxAcquired,      \* experts of all calls of acquire_layer together
  MaxWanted,        \* experts of one call
  MaxFailedReads

VARIABLES
  cache,     \* [vram, ram, at, counts, dirty]
  views,     \* <<expert, place>> pairs the last call returned
  stage,     \* what the host staging slots hold
  panicked,
  shared,    \* history: a call gave two cold experts one slot
  acquired, failedReads

expertVars == <<cache, views, stage, panicked, shared, acquired, failedReads>>

NoExpert == 0
Cold == <<"cold", 0>>

Tier(n) == [owner |-> [s \in 1..n |-> NoExpert], ref |-> [s \in 1..n |-> FALSE],
            hits |-> [s \in 1..n |-> 0], holds |-> [s \in 1..n |-> NoExpert],
            free |-> [i \in 1..n |-> i], hand |-> 1]

\* ExpertCache::build; the free lists give their first slot first.
ExpertInit ==
  /\ cache = [vram |-> Tier(VramSlots), ram |-> Tier(RamSlots),
              at |-> [e \in Experts |-> Cold], counts |-> [e \in Experts |-> 0], dirty |-> {}]
  /\ views = {} /\ stage = <<>> /\ panicked = FALSE /\ shared = FALSE /\ acquired = 0 /\ failedReads = 0

\* bind_vram and bind_ram.
Bind(c, tier, s, e) ==
  [c EXCEPT ![tier] = [@ EXCEPT !.owner[s] = e, !.ref[s] = TRUE, !.hits[s] = 0], !.at[e] = <<tier, s>>]

\* The clock of alloc_ram_slot and evict_vram_slot: pinned owners are passed
\* over, a referenced one gets a second chance, an owner found is evicted.
RECURSIVE Sweep(_, _, _, _)
Sweep(c, tier, pinned, n) ==
  LET t == c[tier]
      s == t.hand
      next == [c EXCEPT ![tier].hand = (s % Len(t.owner)) + 1]
      e == t.owner[s]
  IN CASE n = 0 -> [cache |-> c, slot |-> 0]
       [] n > 0 /\ e = NoExpert -> [cache |-> next, slot |-> s]
       [] n > 0 /\ e # NoExpert /\ (e \in pinned \/ t.ref[s]) ->
            Sweep(IF e \in pinned THEN next ELSE [next EXCEPT ![tier].ref[s] = FALSE], tier, pinned, n - 1)
       [] OTHER -> [cache |-> [next EXCEPT ![tier].owner[s] = NoExpert, ![tier].hits[s] = 0, !.at[e] = Cold],
                    slot |-> s]

PopFree(c, tier) == [cache |-> [c EXCEPT ![tier].free = Tail(@)], slot |-> Head(c[tier].free)]

\* A slot for a cold expert: a free VRAM slot, else RAM, else by eviction
\* from VRAM; without either tier the host staging slot alone (slot 0).
Target(acc, e, pinned) ==
  LET c == acc.cache
      ram == IF c.ram.free # <<>> THEN PopFree(c, "ram") ELSE Sweep(c, "ram", pinned, RamSlots * 2 + 1)
      got == CASE c.vram.free # <<>> -> [to |-> "vram"] @@ PopFree(c, "vram")
               [] c.vram.free = <<>> /\ RamSlots > 0 -> [to |-> "ram"] @@ ram
               [] OTHER -> [to |-> "vram"] @@ Sweep(c, "vram", pinned, VramSlots * 2 + 1)
  IN [cache |-> got.cache, failed |-> acc.failed \/ got.slot = 0,
      targets |-> Append(acc.targets, [id |-> e, to |-> got.to, slot |-> got.slot])]

\* select_promotable_vram_victim: 0 for none.
RECURSIVE Victim(_, _, _, _)
Victim(c, hot, pinned, n) ==
  LET t == c.vram
      s == t.hand
      next == [c EXCEPT !.vram.hand = (s % VramSlots) + 1]
      e == t.owner[s]
  IN CASE n = 0 -> [cache |-> c, slot |-> 0]
       [] n > 0 /\ e = NoExpert -> [cache |-> next, slot |-> s]
       [] n > 0 /\ e \in pinned -> Victim(next, hot, pinned, n - 1)
       [] n > 0 /\ e # NoExpert /\ e \notin pinned /\ t.ref[s] ->
            Victim([next EXCEPT !.vram.ref[s] = FALSE], hot, pinned, n - 1)
       [] OTHER -> IF c.counts[hot] > c.counts[e] THEN [cache |-> next, slot |-> s]
                   ELSE Victim(next, hot, pinned, n - 1)

\* What read_raw leaves in the slots of the targets: two experts that were
\* given one slot are written over each other.
Fill(c, targets, tier) ==
  [s \in DOMAIN c[tier].holds |->
     LET here == {targets[i].id : i \in {j \in 1..Len(targets) : targets[j].to = tier /\ targets[j].slot = s}}
     IN IF here = {} THEN c[tier].holds[s]
        ELSE IF Cardinality(here) = 1 THEN CHOOSE e \in here : TRUE ELSE NoExpert]

\* A cold expert is bound; from a RAM slot it is copied to the next staging
\* slot.
BindTarget(acc, t) ==
  [acc EXCEPT !.cache = Bind(@, t.to, t.slot, t.id),
              !.stage = IF t.to = "ram" THEN Append(@, acc.cache.ram.holds[t.slot]) ELSE @,
              !.views = @ \cup {<<t.id, IF t.to = "vram" THEN <<"vram", t.slot>> ELSE <<"stage", Len(acc.stage) + 1>>>>}]


\* The next host staging slot gets a copy of RAM slot s.
Staged(acc, e, s) ==
  [acc EXCEPT !.stage = Append(@, acc.cache.ram.holds[s]),
              !.views = @ \cup {<<e, <<"stage", Len(acc.stage) + 1>>>>}]

\* The bytes of RAM slot s written into VRAM slot v through the CPU.
Upload(c, s, v) == [c EXCEPT !.vram.holds[v] = c.ram.holds[s], !.dirty = @ \cup {v}]

InVram(acc, c, e, v) == [acc EXCEPT !.cache = c, !.views = @ \cup {<<e, <<"vram", v>>>>}]

Vacate(c, s) == [c EXCEPT !.ram.owner[s] = NoExpert, !.ram.ref[s] = FALSE, !.ram.hits[s] = 0,
                          !.ram.free = <<s>> \o @]

\* Phase 2 for an expert in RAM: promoted into a free VRAM slot, swapped
\* with a colder VRAM resident, or staged.  A slot without an owner is
\* not expected there.
RamHit(acc, e, pinned) ==
  LET s == acc.cache.at[e][2]
      c == [acc.cache EXCEPT !.ram.ref[s] = TRUE, !.ram.hits[s] = @ + 1]
      v == Head(c.vram.free)
      pick == IF VramSlots = 0 \/ c.ram.hits[s] < PromoteMinHits THEN [cache |-> c, slot |-> 0]
              ELSE Victim(c, e, pinned, IF VramSlots * 2 < 32 THEN VramSlots * 2 ELSE 32)
      p == pick.cache
      loser == p.vram.owner[pick.slot]
      up == [Upload(p, s, pick.slot) EXCEPT !.ram.holds[s] = p.vram.holds[pick.slot],
                                            !.dirty = {pick.slot}]
  IN CASE c.vram.free # <<>> ->
            InVram(acc, Bind(Vacate(Upload([c EXCEPT !.vram.free = Tail(@)], s, v), s), "vram", v, e), e, v)
       [] c.vram.free = <<>> /\ pick.slot = 0 -> Staged([acc EXCEPT !.cache = p], e, s)
       [] OTHER ->
            IF loser = NoExpert THEN [acc EXCEPT !.panic = TRUE]
            ELSE InVram(acc, [Bind(Bind(up, "vram", pick.slot, e), "ram", s, loser) EXCEPT !.ram.ref[s] = FALSE],
                        e, pick.slot)

Hit(acc, e, pinned) ==
  LET at == acc.cache.at[e] IN
  IF acc.panic THEN acc
  ELSE IF at[1] = "vram" THEN InVram(acc, [acc.cache EXCEPT !.vram.ref[at[2]] = TRUE], e, at[2])
  ELSE RamHit(acc, e, pinned)

\* A call for the experts of `wanted`: pins them, reads the cold ones in one
\* batch, binds them, resolves the others, and flushes.
AcquireLayer(wanted) ==
  LET pinned == ToSet(wanted)
      c0 == [cache EXCEPT !.counts = [e \in Experts |-> IF e \in pinned THEN @[e] + 1 ELSE @[e]]]
      cold == SelectSeq(wanted, LAMBDA e : c0.at[e] = Cold)
      hot == SelectSeq(wanted, LAMBDA e : c0.at[e] # Cold)
      plan == FoldLeft(LAMBDA acc, e : Target(acc, e, pinned), [cache |-> c0, targets |-> <<>>, failed |-> FALSE], cold)
      p == plan.cache
      filled == [p EXCEPT !.vram.holds = Fill(p, plan.targets, "vram"), !.ram.holds = Fill(p, plan.targets, "ram"),
                          !.dirty = @ \cup {t.slot : t \in {u \in ToSet(plan.targets) : u.to = "vram"}}]
      bound == FoldLeft(BindTarget, [cache |-> filled, stage |-> <<>>, views |-> {}, panic |-> FALSE], plan.targets)
      done == FoldLeft(LAMBDA acc, e : Hit(acc, e, pinned), bound, hot)
  IN /\ acquired + Len(wanted) <= MaxAcquired /\ acquired' = acquired + Len(wanted) /\ ~panicked
     /\ Len(wanted) \in 1..MaxWanted
     /\ shared' = (shared \/ \E i, j \in 1..Len(plan.targets) :
                     /\ i < j /\ plan.targets[i].to = plan.targets[j].to
                     /\ plan.targets[i].slot = plan.targets[j].slot)
     /\ \/ /\ plan.failed /\ cache' = p /\ views' = {} /\ UNCHANGED <<stage, panicked, failedReads>>
        \/ /\ ~plan.failed /\ cold # <<>> /\ failedReads < MaxFailedReads /\ failedReads' = failedReads + 1
           /\ cache' = p /\ views' = {} /\ UNCHANGED <<stage, panicked>>
        \/ /\ ~plan.failed /\ UNCHANGED failedReads
           /\ cache' = [done.cache EXCEPT !.dirty = {}] /\ stage' = done.stage
           /\ panicked' = done.panic /\ views' = IF done.panic THEN {} ELSE done.views

ExpertNext == \E wanted \in UNION {[1..n -> Experts] : n \in 1..MaxWanted} :
                IsInjective(wanted) /\ AcquireLayer(wanted)

-----------------------------------------------------------------------------
\* "Strictly exclusive" (the comment of ExpertCache): the GPU is pointed at
\* the bytes of the expert it asked for, flushed, and the directory, the
\* owners and the slots agree on where an expert is.  The condition is
\* needed: a slot that was chosen and is not bound yet has no owner, and a
\* clock that comes round to it in the same call chooses it again.
ExpertsAreWhere ==
  shared \/
  /\ \A v \in views :
       LET place == v[2] IN
       IF place[1] = "vram" THEN cache.vram.holds[place[2]] = v[1] /\ place[2] \notin cache.dirty
       ELSE stage[place[2]] = v[1]
  /\ \A e \in Experts : cache.at[e] # Cold =>
       LET t == cache[cache.at[e][1]]
           s == cache.at[e][2]
       IN t.owner[s] = e /\ t.holds[s] = e /\ s \notin ToSet(t.free)
=============================================================================
