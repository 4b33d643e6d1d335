-------------------------- MODULE ResidencyProofs --------------------------
(***************************************************************************)
(* The layers of the metal appliance, for any number of experts, slots,    *)
(* tokens and failed reads: while a layer runs, what the GPU and the CPU   *)
(* read is whole, and nothing a layer chose leaves memory before it ran.   *)
(* This rests on who may touch a slot of the experts: the slot an expert   *)
(* maps to is its own and holds it, an expert owns one slot of a kind, and *)
(* a job of a worker is the only one of its expert, which is busy.         *)
(***************************************************************************)
EXTENDS Residency, TLAPS

-----------------------------------------------------------------------------
(* Slots, owners and jobs: each kind of step keeps who may touch what.     *)


FetchJob == [id : Expert, slot : RamSlot]
CopyJob == [id : Expert, src : RamSlot, dst : VramSlot]
Fetches == fetchQ \cup ({fetching} \ {NoJob})
Copies == copyQ \cup ({copying} \ {NoJob})
Fetched(e) == <<"fetched", e>> \in doneQ
Copied(e) == <<"copied", e>> \in doneQ

Typed ==
  /\ inVram \in [Expert -> VramSlot \cup {0}] /\ inRam \in [Expert -> RamSlot \cup {0}]
  /\ vramOwner \in [VramSlot -> Expert \cup {NoExpert}]
  /\ ramOwner \in [RamSlot -> Expert \cup {NoExpert}]
  /\ vramFree \subseteq VramSlot /\ ramFree \subseteq RamSlot
  /\ fetchQ \subseteq FetchJob /\ fetching \in FetchJob \cup {NoJob}
  /\ copyQ \subseteq CopyJob /\ copying \in CopyJob \cup {NoJob}
  /\ doneQ \subseteq Done
  /\ ramMem \in [RamSlot -> Expert \cup {Torn}] /\ vramMem \in [VramSlot -> Expert \cup {Torn}]

DemandTyped == demand \in [Expert -> Nat]

\* An expert owns at most one slot of a kind; free slots are nobody's.
OneSlot ==
  /\ \A s, t \in RamSlot : ramOwner[s] = ramOwner[t] /\ ramOwner[s] # NoExpert => s = t
  /\ \A s, t \in VramSlot : vramOwner[s] = vramOwner[t] /\ vramOwner[s] # NoExpert => s = t
  /\ \A s \in ramFree : ramOwner[s] = NoExpert
  /\ \A s \in vramFree : vramOwner[s] = NoExpert

\* What the maps publish is owned and whole.
MapsWhole ==
  /\ \A e \in Expert : inRam[e] # 0 => ramOwner[inRam[e]] = e /\ ramMem[inRam[e]] = e
  /\ \A e \in Expert : inVram[e] # 0 => vramOwner[inVram[e]] = e /\ vramMem[inVram[e]] = e

\* A reservation that is not published belongs to a busy expert.
OwnersBusy ==
  /\ \A s \in RamSlot : \A e \in Expert : ramOwner[s] = e => inRam[e] = s \/ e \in busy
  /\ \A s \in VramSlot : \A e \in Expert :
       vramOwner[s] = e => inVram[e] = s \/ (e \in busy /\ inRam[e] # 0)
  /\ \A e \in Expert : e \in busy /\ inRam[e] # 0 => \E s \in VramSlot : vramOwner[s] = e

\* A fetch is for a busy expert that is not in RAM, into its own slot, and
\* nothing else is under way for it.
FetchesOwn ==
  /\ \A j \in Fetches : j.id \in busy /\ inRam[j.id] = 0 /\ ramOwner[j.slot] = j.id
                        /\ ~Fetched(j.id)
  /\ \A j \in fetchQ : j.id # fetching.id
  /\ \A e \in Expert : Fetched(e) =>
       e \in busy /\ inRam[e] = 0 /\ \E s \in RamSlot : ramOwner[s] = e /\ ramMem[s] = e

\* A copy reads the slot its busy expert is published in.
CopiesOwn ==
  /\ \A j \in Copies : j.id \in busy /\ inRam[j.id] = j.src /\ inVram[j.id] = 0
                       /\ vramOwner[j.dst] = j.id /\ ~Copied(j.id)
  /\ \A j \in copyQ : j.id # copying.id
  /\ \A e \in Expert : Copied(e) =>
       e \in busy /\ inRam[e] # 0 /\ inVram[e] = 0
       /\ \E s \in VramSlot : vramOwner[s] = e /\ vramMem[s] = e

Slots == Typed /\ OneSlot /\ MapsWhole /\ OwnersBusy /\ FetchesOwn /\ CopiesOwn

-----------------------------------------------------------------------------
(* Slots.                                                                  *)

\* The slots are numbered from one.
LEMMA SlotFacts ==
  /\ RamSlot \in SUBSET Nat /\ VramSlot \in SUBSET Nat /\ 0 \notin RamSlot /\ 0 \notin VramSlot
<1>1. VramSlots \in Nat /\ RamSlots \in Nat
  BY Zenon, ResidencyAssumption
<1>2. RamSlot \in SUBSET Nat /\ 0 \notin RamSlot
  BY <1>1 DEF RamSlot
<1>3. VramSlot \in SUBSET Nat /\ 0 \notin VramSlot
  BY <1>1 DEF VramSlot
<1> QED
  BY Zenon, <1>2, <1>3

\* take_ram_slot: a free slot, or that of an expert neither busy nor chosen in
\* this tick.
LEMMA RamSlotTaken ==
  ASSUME Typed, NEW d, NEW s, take_ram_slot(d, s), s # 0
  PROVE  s \in RamSlot /\ (s \in ramFree \/ Evictable(ramOwner[s]))
BY Zenon DEF Typed, take_ram_slot, Cheapest

\* take_vram_slot: the same.
LEMMA VramSlotTaken ==
  ASSUME Typed, NEW d, NEW s, take_vram_slot(d, s), s # 0
  PROVE  s \in VramSlot /\ (s \in vramFree \/ Evictable(vramOwner[s]))
BY Zenon DEF Typed, take_vram_slot, Cheapest

\* adopt: the search by owner finds the one slot an expert owns.
LEMMA SlotOfIs ==
  ASSUME NEW owner, NEW e, NEW s \in Nat, {t \in DOMAIN owner : owner[t] = e} = {s}
  PROVE  SlotOf(owner, e) = s
<1>1. s <= s
  OBVIOUS
<1>2. Min({s}) \in {s}
  BY Zenon, <1>1 DEF Min
<1> QED
  BY Zenon, <1>2 DEF SlotOf

-----------------------------------------------------------------------------
(* Jobs and reports.                                                       *)

\* The fields of a job.
LEMMA FetchJobFacts ==
  /\ \A e \in Expert : \A s \in RamSlot :
       /\ [id |-> e, slot |-> s] \in FetchJob
       /\ [id |-> e, slot |-> s].id = e /\ [id |-> e, slot |-> s].slot = s
  /\ \A j \in FetchJob : j.id \in Expert /\ j.slot \in RamSlot
  /\ \A j, k \in FetchJob : j.id = k.id /\ j.slot = k.slot => j = k
BY DEF FetchJob

\* The same of a copy.
LEMMA CopyJobFacts ==
  /\ \A e \in Expert : \A r \in RamSlot : \A s \in VramSlot :
       /\ [id |-> e, src |-> r, dst |-> s] \in CopyJob
       /\ [id |-> e, src |-> r, dst |-> s].id = e
       /\ [id |-> e, src |-> r, dst |-> s].src = r
       /\ [id |-> e, src |-> r, dst |-> s].dst = s
  /\ \A j \in CopyJob : j.id \in Expert /\ j.src \in RamSlot /\ j.dst \in VramSlot
  /\ \A j, k \in CopyJob : j.id = k.id /\ j.src = k.src /\ j.dst = k.dst => j = k
BY DEF CopyJob

\* No job is for nobody.
LEMMA NoJobFacts ==
  /\ NoJob.id = NoExpert /\ NoExpert \notin Expert
  /\ NoJob \notin FetchJob /\ NoJob \notin CopyJob
<1>1. NoJob.id = NoExpert
  BY DEF NoJob
<1>2. NoExpert \notin Expert
  BY Zenon, ResidencyAssumption
<1> QED
  BY Zenon, <1>1, <1>2, FetchJobFacts, CopyJobFacts

\* A report names one expert and one kind of work.
LEMMA DoneFacts ==
  /\ \A e, f : <<"fetched", e>> = <<"fetched", f>> => e = f
  /\ \A e, f : <<"copied", e>> = <<"copied", f>> => e = f
  /\ \A e, f : <<"fetched", e>> # <<"copied", f>>
  /\ \A e : <<"fetched", e>>[2] = e /\ <<"copied", e>>[2] = e
  /\ \A d \in Done : d[2] \in Expert /\ (d = <<"fetched", d[2]>> \/ d = <<"copied", d[2]>>)
  /\ \A e \in Expert : <<"fetched", e>> \in Done /\ <<"copied", e>> \in Done
BY DEF Done

\* The jobs under way are of the two kinds.
LEMMA JobsTyped ==
  ASSUME Slots
  PROVE  /\ \A j \in Fetches : j \in FetchJob /\ j.id \in Expert /\ j.slot \in RamSlot
         /\ \A j \in Copies : j \in CopyJob /\ j.id \in Expert /\ j.src \in RamSlot
                              /\ j.dst \in VramSlot
<1>1. Fetches \subseteq FetchJob /\ Copies \subseteq CopyJob
  BY Zenon DEF Slots, Typed, Fetches, Copies
<1> QED
  BY Zenon, <1>1, FetchJobFacts, CopyJobFacts

\* An expert that owns a slot owns no other of its kind.
LEMMA OwnsOne ==
  ASSUME Slots, NEW e \in Expert
  PROVE  /\ \A s, t \in RamSlot : ramOwner[s] = e /\ ramOwner[t] = e => s = t
         /\ \A s, t \in VramSlot : vramOwner[s] = e /\ vramOwner[t] = e => s = t
<1>1. e # NoExpert
  BY Zenon, NoJobFacts
<1>2. /\ \A s, t \in RamSlot : ramOwner[s] = ramOwner[t] /\ ramOwner[s] # NoExpert => s = t
      /\ \A s, t \in VramSlot : vramOwner[s] = vramOwner[t] /\ vramOwner[s] # NoExpert => s = t
  BY Zenon DEF Slots, OneSlot
<1>3. ASSUME NEW s \in RamSlot, NEW t \in RamSlot, ramOwner[s] = e, ramOwner[t] = e PROVE s = t
  BY Zenon, <1>1, <1>2, <1>3
<1>4. ASSUME NEW s \in VramSlot, NEW t \in VramSlot, vramOwner[s] = e, vramOwner[t] = e PROVE s = t
  BY Zenon, <1>1, <1>2, <1>4
<1> QED
  BY Zenon, <1>3, <1>4

\* What the maps say of one expert.
LEMMA MapFacts ==
  ASSUME Slots, NEW e \in Expert
  PROVE  /\ inRam[e] # 0 => /\ inRam[e] \in RamSlot /\ ramOwner[inRam[e]] = e
                            /\ ramMem[inRam[e]] = e
         /\ inVram[e] # 0 => /\ inVram[e] \in VramSlot /\ vramOwner[inVram[e]] = e
                             /\ vramMem[inVram[e]] = e
<1>1. inRam \in [Expert -> RamSlot \cup {0}] /\ inVram \in [Expert -> VramSlot \cup {0}]
  BY Zenon DEF Slots, Typed
<1>2. inRam[e] \in RamSlot \cup {0} /\ inVram[e] \in VramSlot \cup {0}
  BY Zenon, <1>1
<1> QED
  BY Zenon, <1>2 DEF Slots, MapsWhole

-----------------------------------------------------------------------------
(* What a step does to the slots.                                          *)

DataSame == UNCHANGED <<maps, busy, fetchQ, copyQ, doneQ, workers>>

FetchOf(e, s) ==
  /\ e \in Expert /\ e \notin busy /\ inRam[e] = 0
  /\ s \in RamSlot /\ (s \in ramFree \/ Evictable(ramOwner[s]))
  /\ start_fetch(e, s) /\ UNCHANGED <<doneQ, workers>>

PromoteOf(e, s) ==
  /\ e \in Expert /\ e \notin busy /\ inRam[e] # 0 /\ inVram[e] = 0
  /\ s \in VramSlot /\ (s \in vramFree \/ Evictable(vramOwner[s]))
  /\ start_promote(e, s) /\ UNCHANGED <<doneQ, workers>>

Adopts(D) == D \subseteq doneQ /\ adopt(D) /\ UNCHANGED workers

\* The effect of start_fetch, point by point: the victim x loses its slot s.
LEMMA FetchEffect ==
  ASSUME Slots, NEW e, NEW s, FetchOf(e, s)
  PROVE  /\ UNCHANGED <<inVram, vramOwner, vramFree, copyQ, doneQ, fetching, copying, ramMem, vramMem>>
         /\ ramOwner' \in [RamSlot -> Expert \cup {NoExpert}] /\ ramOwner'[s] = e
         /\ \A t \in RamSlot : t # s => ramOwner'[t] = ramOwner[t]
         /\ \A t \in RamSlot : ramOwner[t] # e
         /\ ramOwner[s] \notin busy \/ ramOwner[s] = NoExpert
         /\ ramOwner[s] \notin used \/ ramOwner[s] = NoExpert
         /\ inRam' \in [Expert -> RamSlot \cup {0}]
         /\ \A y \in Expert : y # ramOwner[s] => inRam'[y] = inRam[y]
         /\ \A y \in Expert : y = ramOwner[s] => inRam'[y] = 0
         /\ busy' = busy \cup {e} /\ ramFree' = ramFree \ {s}
         /\ fetchQ' = fetchQ \cup {[id |-> e, slot |-> s]}
<1>1. /\ e \in Expert /\ e \notin busy /\ inRam[e] = 0 /\ s \in RamSlot
      /\ s \in ramFree \/ Evictable(ramOwner[s])
      /\ UNCHANGED <<inVram, vramOwner, vramFree, copyQ, doneQ, fetching, copying, ramMem, vramMem>>
      /\ ramFree' = ramFree \ {s}
      /\ inRam' = [x \in Expert |-> IF x = ramOwner[s] THEN 0 ELSE inRam[x]]
      /\ ramOwner' = [ramOwner EXCEPT ![s] = e]
      /\ busy' = busy \cup {e}
      /\ fetchQ' = fetchQ \cup {[id |-> e, slot |-> s]}
  BY Zenon DEF FetchOf, start_fetch, workers
<1>2. /\ ramOwner \in [RamSlot -> Expert \cup {NoExpert}] /\ inRam \in [Expert -> RamSlot \cup {0}]
      /\ 0 \notin RamSlot
  BY Zenon, SlotFacts DEF Slots, Typed
<1>3. /\ ramOwner' \in [RamSlot -> Expert \cup {NoExpert}] /\ ramOwner'[s] = e
      /\ \A t \in RamSlot : t # s => ramOwner'[t] = ramOwner[t]
  BY Zenon, <1>1, <1>2
<1>4. \A t \in RamSlot : ramOwner[t] # e
  BY Zenon, <1>1, <1>2 DEF Slots, OwnersBusy
<1>5. /\ ramOwner[s] \notin busy \/ ramOwner[s] = NoExpert
      /\ ramOwner[s] \notin used \/ ramOwner[s] = NoExpert
  BY Zenon, <1>1 DEF Slots, OneSlot, Evictable
<1>6. /\ inRam' \in [Expert -> RamSlot \cup {0}]
      /\ \A y \in Expert : y # ramOwner[s] => inRam'[y] = inRam[y]
      /\ \A y \in Expert : y = ramOwner[s] => inRam'[y] = 0
  BY Zenon, <1>1, <1>2
<1> QED
  BY Zenon, <1>1, <1>3, <1>4, <1>5, <1>6

\* A fetch into the slot of an expert that nobody needs keeps the slots.
LEMMA FetchKeepsSlots ==
  ASSUME Slots, NEW e, NEW s, FetchOf(e, s)
  PROVE  Slots'
<1> DEFINE job == [id |-> e, slot |-> s]
<1>1. /\ UNCHANGED <<inVram, vramOwner, vramFree, copyQ, doneQ, fetching, copying, ramMem, vramMem>>
      /\ ramOwner' \in [RamSlot -> Expert \cup {NoExpert}] /\ ramOwner'[s] = e
      /\ \A t \in RamSlot : t # s => ramOwner'[t] = ramOwner[t]
      /\ \A t \in RamSlot : ramOwner[t] # e
      /\ ramOwner[s] \notin busy \/ ramOwner[s] = NoExpert
      /\ ramOwner[s] \notin used \/ ramOwner[s] = NoExpert
      /\ inRam' \in [Expert -> RamSlot \cup {0}]
      /\ \A y \in Expert : y # ramOwner[s] => inRam'[y] = inRam[y]
      /\ \A y \in Expert : y = ramOwner[s] => inRam'[y] = 0
      /\ busy' = busy \cup {e} /\ ramFree' = ramFree \ {s}
      /\ fetchQ' = fetchQ \cup {job}
  BY Zenon, FetchEffect
<1>2. e \in Expert /\ s \in RamSlot /\ e \notin busy /\ inRam[e] = 0 /\ NoExpert \notin Expert
  BY Zenon, NoJobFacts DEF FetchOf
<1>3. job \in FetchJob /\ job.id = e /\ job.slot = s /\ job # NoJob
  BY Zenon, <1>2, FetchJobFacts, NoJobFacts
<1>4. \A y \in Expert : y \in busy => y # ramOwner[s] /\ inRam'[y] = inRam[y] /\ y # e
  BY Zenon, <1>1, <1>2
<1>5. \A t \in RamSlot : ramOwner[t] \in Expert /\ ramOwner[t] \in busy => t # s
  <2>1. ~(ramOwner[s] \in Expert /\ ramOwner[s] \in busy)
    BY Zenon, <1>1, <1>2
  <2> QED
    BY Zenon, <2>1
<1>6. /\ \A j \in Fetches : j.id \in Expert /\ j.slot \in RamSlot
      /\ \A j \in Copies : j.id \in Expert
  BY Zenon, JobsTyped
<1>7. 0 \notin RamSlot /\ inRam \in [Expert -> RamSlot \cup {0}]
  BY Zenon, SlotFacts DEF Slots, Typed
<1> HIDE DEF job
<1>10. Typed'
  BY Zenon, <1>1, <1>3 DEF Slots, Typed
<1>11. OneSlot'
  <2>1. /\ \A r, t \in RamSlot : ramOwner[r] = ramOwner[t] /\ ramOwner[r] # NoExpert => r = t
        /\ \A r, t \in VramSlot : vramOwner[r] = vramOwner[t] /\ vramOwner[r] # NoExpert => r = t
        /\ \A t \in ramFree : ramOwner[t] = NoExpert
        /\ \A t \in vramFree : vramOwner[t] = NoExpert
        /\ ramFree \subseteq RamSlot
    BY Zenon DEF Slots, OneSlot, Typed
  <2>2. ASSUME NEW r \in RamSlot, NEW t \in RamSlot,
               ramOwner'[r] = ramOwner'[t], ramOwner'[r] # NoExpert
        PROVE  r = t
    <3>1. CASE r = s
      BY Zenon, <1>1, <2>2, <3>1
    <3>2. CASE t = s
      BY Zenon, <1>1, <2>2, <3>2
    <3>3. CASE r # s /\ t # s
      <4>1. ramOwner[r] = ramOwner[t] /\ ramOwner[r] # NoExpert
        BY Zenon, <1>1, <2>2, <3>3
      <4> QED
        BY Zenon, <2>1, <4>1
    <3> QED
      BY Zenon, <3>1, <3>2, <3>3
  <2>3. \A t \in ramFree' : ramOwner'[t] = NoExpert
    BY Zenon, <1>1, <2>1
  <2> QED
    BY Zenon, <1>1, <2>1, <2>2, <2>3 DEF OneSlot
<1>12. MapsWhole'
  <2>1. ASSUME NEW y \in Expert, inRam'[y] # 0
        PROVE  ramOwner'[inRam'[y]] = y /\ ramMem'[inRam'[y]] = y
    <3>1. y # ramOwner[s] /\ inRam'[y] = inRam[y]
      BY Zenon, <1>1, <2>1
    <3>2. ramOwner[inRam[y]] = y /\ ramMem[inRam[y]] = y /\ inRam[y] \in RamSlot
      BY Zenon, <1>7, <2>1, <3>1 DEF Slots, MapsWhole
    <3>3. inRam[y] # s
      BY Zenon, <3>1, <3>2
    <3> QED
      BY Zenon, <1>1, <3>1, <3>2, <3>3
  <2> QED
    BY Zenon, <1>1, <2>1 DEF Slots, MapsWhole
<1>13. OwnersBusy'
  <2>1. ASSUME NEW t \in RamSlot, NEW y \in Expert, ramOwner'[t] = y
        PROVE  inRam'[y] = t \/ y \in busy'
    <3>1. CASE t = s
      BY Zenon, <1>1, <2>1, <3>1
    <3>2. CASE t # s
      <4>1. ramOwner[t] = y
        BY Zenon, <1>1, <2>1, <3>2
      <4>2. y # ramOwner[s]
        BY Zenon, <1>2, <3>2, <4>1 DEF Slots, OneSlot
      <4> QED
        BY Zenon, <1>1, <4>1, <4>2 DEF Slots, OwnersBusy
    <3> QED
      BY Zenon, <3>1, <3>2
  <2>2. ASSUME NEW t \in VramSlot, NEW y \in Expert, vramOwner'[t] = y
        PROVE  inVram'[y] = t \/ (y \in busy' /\ inRam'[y] # 0)
    <3>1. inVram[y] = t \/ (y \in busy /\ inRam[y] # 0)
      BY Zenon, <1>1, <2>2 DEF Slots, OwnersBusy
    <3>2. y \in busy => y \in busy' /\ inRam'[y] = inRam[y]
      BY Zenon, <1>1, <1>4
    <3> QED
      BY Zenon, <1>1, <3>1, <3>2
  <2>3. ASSUME NEW y \in Expert, y \in busy', inRam'[y] # 0
        PROVE  \E t \in VramSlot : vramOwner'[t] = y
    <3>1. inRam[y] # 0 /\ y # e
      BY Zenon, <1>1, <1>2, <2>3
    <3> QED
      BY Zenon, <1>1, <2>3, <3>1 DEF Slots, OwnersBusy
  <2> QED
    BY Zenon, <2>1, <2>2, <2>3 DEF OwnersBusy
<1>14. FetchesOwn'
  <2>1. Fetches' = Fetches \cup {job}
    BY Zenon, <1>1, <1>3 DEF Fetches
  <2>2. ASSUME NEW j \in Fetches
        PROVE  j.id \in busy' /\ inRam'[j.id] = 0 /\ ramOwner'[j.slot] = j.id /\ ~Fetched(j.id)'
    <3>1. j.id \in busy /\ inRam[j.id] = 0 /\ ramOwner[j.slot] = j.id /\ ~Fetched(j.id)
      BY Zenon DEF Slots, FetchesOwn
    <3>2. j.id \in Expert /\ j.slot \in RamSlot
      BY Zenon, <1>6
    <3>3. j.slot # s /\ inRam'[j.id] = inRam[j.id]
      BY Zenon, <1>4, <1>5, <3>1, <3>2
    <3> QED
      BY Zenon, <1>1, <3>1, <3>2, <3>3 DEF Fetched
  <2>3. job.id \in busy' /\ inRam'[job.id] = 0 /\ ramOwner'[job.slot] = job.id /\ ~Fetched(job.id)'
    <3>1. ~Fetched(e)
      BY Zenon, <1>2 DEF Slots, FetchesOwn
    <3>2. inRam'[e] = 0
      BY Zenon, <1>1, <1>2
    <3> QED
      BY Zenon, <1>1, <1>3, <3>1, <3>2 DEF Fetched
  <2>4. ASSUME NEW j \in fetchQ' PROVE j.id # fetching'.id
    <3>1. CASE j \in fetchQ
      BY Zenon, <1>1, <3>1 DEF Slots, FetchesOwn
    <3>2. CASE j = job
      <4>1. CASE fetching = NoJob
        <5>1. fetching'.id = NoExpert
          BY Zenon, <1>1, <4>1, NoJobFacts
        <5> QED
          BY Zenon, <1>2, <1>3, <3>2, <5>1
      <4>2. CASE fetching # NoJob
        <5>1. fetching.id \in busy
          BY Zenon, <4>2 DEF Slots, FetchesOwn, Fetches
        <5> QED
          BY Zenon, <1>1, <1>2, <1>3, <3>2, <5>1
      <4> QED
        BY Zenon, <4>1, <4>2
    <3> QED
      BY Zenon, <1>1, <3>1, <3>2
  <2>5. ASSUME NEW y \in Expert, Fetched(y)'
        PROVE  y \in busy' /\ inRam'[y] = 0 /\ \E t \in RamSlot : ramOwner'[t] = y /\ ramMem'[t] = y
    <3>1. y \in busy /\ inRam[y] = 0 /\ \E t \in RamSlot : ramOwner[t] = y /\ ramMem[t] = y
      BY Zenon, <1>1, <2>5 DEF Slots, FetchesOwn, Fetched
    <3>2. PICK t \in RamSlot : ramOwner[t] = y /\ ramMem[t] = y
      BY Zenon, <3>1
    <3>3. t # s /\ inRam'[y] = inRam[y]
      BY Zenon, <1>4, <1>5, <3>1, <3>2
    <3> QED
      BY Zenon, <1>1, <3>1, <3>2, <3>3
  <2> QED
    BY Zenon, <2>1, <2>2, <2>3, <2>4, <2>5 DEF FetchesOwn
<1>15. CopiesOwn'
  <2>1. Copies' = Copies
    BY Zenon, <1>1 DEF Copies
  <2>2. ASSUME NEW j \in Copies
        PROVE  j.id \in busy' /\ inRam'[j.id] = j.src /\ inVram'[j.id] = 0
               /\ vramOwner'[j.dst] = j.id /\ ~Copied(j.id)'
    BY Zenon, <1>1, <1>4, <1>6 DEF Slots, CopiesOwn, Copied
  <2>3. ASSUME NEW y \in Expert, Copied(y)'
        PROVE  y \in busy' /\ inRam'[y] # 0 /\ inVram'[y] = 0
               /\ \E t \in VramSlot : vramOwner'[t] = y /\ vramMem'[t] = y
    BY Zenon, <1>1, <1>4, <2>3 DEF Slots, CopiesOwn, Copied
  <2>4. \A j \in copyQ' : j.id # copying'.id
    BY Zenon, <1>1 DEF Slots, CopiesOwn
  <2> QED
    BY Zenon, <2>1, <2>2, <2>3, <2>4 DEF CopiesOwn
<1> QED
  BY Zenon, <1>10, <1>11, <1>12, <1>13, <1>14, <1>15 DEF Slots

\* The effect of start_promote, point by point.
LEMMA PromoteEffect ==
  ASSUME Slots, NEW e, NEW s, PromoteOf(e, s)
  PROVE  /\ UNCHANGED <<inRam, ramOwner, ramFree, fetchQ, doneQ, fetching, copying, ramMem, vramMem>>
         /\ vramOwner' \in [VramSlot -> Expert \cup {NoExpert}] /\ vramOwner'[s] = e
         /\ \A t \in VramSlot : t # s => vramOwner'[t] = vramOwner[t]
         /\ \A t \in VramSlot : vramOwner[t] # e
         /\ vramOwner[s] \notin busy \/ vramOwner[s] = NoExpert
         /\ vramOwner[s] \notin used \/ vramOwner[s] = NoExpert
         /\ inVram' \in [Expert -> VramSlot \cup {0}]
         /\ \A y \in Expert : y # vramOwner[s] => inVram'[y] = inVram[y]
         /\ \A y \in Expert : y = vramOwner[s] => inVram'[y] = 0
         /\ busy' = busy \cup {e} /\ vramFree' = vramFree \ {s}
         /\ copyQ' = copyQ \cup {[id |-> e, src |-> inRam[e], dst |-> s]}
<1>1. /\ e \in Expert /\ e \notin busy /\ inVram[e] = 0 /\ s \in VramSlot
      /\ s \in vramFree \/ Evictable(vramOwner[s])
      /\ UNCHANGED <<inRam, ramOwner, ramFree, fetchQ, doneQ, fetching, copying, ramMem, vramMem>>
      /\ vramFree' = vramFree \ {s}
      /\ inVram' = [x \in Expert |-> IF x = vramOwner[s] THEN 0 ELSE inVram[x]]
      /\ vramOwner' = [vramOwner EXCEPT ![s] = e]
      /\ busy' = busy \cup {e}
      /\ copyQ' = copyQ \cup {[id |-> e, src |-> inRam[e], dst |-> s]}
  BY Zenon DEF PromoteOf, start_promote, workers
<1>2. /\ vramOwner \in [VramSlot -> Expert \cup {NoExpert}]
      /\ inVram \in [Expert -> VramSlot \cup {0}] /\ 0 \notin VramSlot
  BY Zenon, SlotFacts DEF Slots, Typed
<1>3. /\ vramOwner' \in [VramSlot -> Expert \cup {NoExpert}] /\ vramOwner'[s] = e
      /\ \A t \in VramSlot : t # s => vramOwner'[t] = vramOwner[t]
  BY Zenon, <1>1, <1>2
<1>4. \A t \in VramSlot : vramOwner[t] # e
  BY Zenon, <1>1, <1>2 DEF Slots, OwnersBusy
<1>5. /\ vramOwner[s] \notin busy \/ vramOwner[s] = NoExpert
      /\ vramOwner[s] \notin used \/ vramOwner[s] = NoExpert
  BY Zenon, <1>1 DEF Slots, OneSlot, Evictable
<1>6. /\ inVram' \in [Expert -> VramSlot \cup {0}]
      /\ \A y \in Expert : y # vramOwner[s] => inVram'[y] = inVram[y]
      /\ \A y \in Expert : y = vramOwner[s] => inVram'[y] = 0
  BY Zenon, <1>1, <1>2
<1> QED
  BY Zenon, <1>1, <1>3, <1>4, <1>5, <1>6

\* A promotion into the slot of an expert that nobody needs keeps the slots.
LEMMA PromoteKeepsSlots ==
  ASSUME Slots, NEW e, NEW s, PromoteOf(e, s)
  PROVE  Slots'
<1> DEFINE job == [id |-> e, src |-> inRam[e], dst |-> s]
<1>1. /\ UNCHANGED <<inRam, ramOwner, ramFree, fetchQ, doneQ, fetching, copying, ramMem, vramMem>>
      /\ vramOwner' \in [VramSlot -> Expert \cup {NoExpert}] /\ vramOwner'[s] = e
      /\ \A t \in VramSlot : t # s => vramOwner'[t] = vramOwner[t]
      /\ \A t \in VramSlot : vramOwner[t] # e
      /\ vramOwner[s] \notin busy \/ vramOwner[s] = NoExpert
      /\ vramOwner[s] \notin used \/ vramOwner[s] = NoExpert
      /\ inVram' \in [Expert -> VramSlot \cup {0}]
      /\ \A y \in Expert : y # vramOwner[s] => inVram'[y] = inVram[y]
      /\ \A y \in Expert : y = vramOwner[s] => inVram'[y] = 0
      /\ busy' = busy \cup {e} /\ vramFree' = vramFree \ {s}
      /\ copyQ' = copyQ \cup {job}
  BY Zenon, PromoteEffect
<1>2. /\ e \in Expert /\ s \in VramSlot /\ e \notin busy /\ inVram[e] = 0 /\ inRam[e] # 0
      /\ NoExpert \notin Expert
  BY Zenon, NoJobFacts DEF PromoteOf
<1>7. /\ 0 \notin VramSlot /\ inVram \in [Expert -> VramSlot \cup {0}]
      /\ inRam \in [Expert -> RamSlot \cup {0}]
  BY Zenon, SlotFacts DEF Slots, Typed
<1>3. job \in CopyJob /\ job.id = e /\ job.src = inRam[e] /\ job.dst = s /\ job # NoJob
  <2>1. inRam[e] \in RamSlot
    BY Zenon, <1>2, <1>7
  <2> QED
    BY Zenon, <1>2, <2>1, CopyJobFacts, NoJobFacts
<1>4. \A y \in Expert : y \in busy => y # vramOwner[s] /\ inVram'[y] = inVram[y] /\ y # e
  BY Zenon, <1>1, <1>2
<1>5. \A t \in VramSlot : vramOwner[t] \in Expert /\ vramOwner[t] \in busy => t # s
  <2>1. ~(vramOwner[s] \in Expert /\ vramOwner[s] \in busy)
    BY Zenon, <1>1, <1>2
  <2> QED
    BY Zenon, <2>1
<1>6. \A j \in Copies : j.id \in Expert /\ j.dst \in VramSlot
  BY Zenon, JobsTyped
<1> HIDE DEF job
<1>10. Typed'
  BY Zenon, <1>1, <1>3 DEF Slots, Typed
<1>11. OneSlot'
  <2>1. /\ \A r, t \in RamSlot : ramOwner[r] = ramOwner[t] /\ ramOwner[r] # NoExpert => r = t
        /\ \A r, t \in VramSlot : vramOwner[r] = vramOwner[t] /\ vramOwner[r] # NoExpert => r = t
        /\ \A t \in ramFree : ramOwner[t] = NoExpert
        /\ \A t \in vramFree : vramOwner[t] = NoExpert
        /\ vramFree \subseteq VramSlot
    BY Zenon DEF Slots, OneSlot, Typed
  <2>2. ASSUME NEW r \in VramSlot, NEW t \in VramSlot,
               vramOwner'[r] = vramOwner'[t], vramOwner'[r] # NoExpert
        PROVE  r = t
    <3>1. CASE r = s
      BY Zenon, <1>1, <2>2, <3>1
    <3>2. CASE t = s
      BY Zenon, <1>1, <2>2, <3>2
    <3>3. CASE r # s /\ t # s
      <4>1. vramOwner[r] = vramOwner[t] /\ vramOwner[r] # NoExpert
        BY Zenon, <1>1, <2>2, <3>3
      <4> QED
        BY Zenon, <2>1, <4>1
    <3> QED
      BY Zenon, <3>1, <3>2, <3>3
  <2>3. \A t \in vramFree' : vramOwner'[t] = NoExpert
    BY Zenon, <1>1, <2>1
  <2> QED
    BY Zenon, <1>1, <2>1, <2>2, <2>3 DEF OneSlot
<1>12. MapsWhole'
  <2>1. ASSUME NEW y \in Expert, inVram'[y] # 0
        PROVE  vramOwner'[inVram'[y]] = y /\ vramMem'[inVram'[y]] = y
    <3>1. y # vramOwner[s] /\ inVram'[y] = inVram[y]
      BY Zenon, <1>1, <2>1
    <3>2. vramOwner[inVram[y]] = y /\ vramMem[inVram[y]] = y /\ inVram[y] \in VramSlot
      BY Zenon, <1>7, <2>1, <3>1 DEF Slots, MapsWhole
    <3>3. inVram[y] # s
      BY Zenon, <3>1, <3>2
    <3> QED
      BY Zenon, <1>1, <3>1, <3>2, <3>3
  <2> QED
    BY Zenon, <1>1, <2>1 DEF Slots, MapsWhole
<1>13. OwnersBusy'
  <2>1. ASSUME NEW t \in VramSlot, NEW y \in Expert, vramOwner'[t] = y
        PROVE  inVram'[y] = t \/ (y \in busy' /\ inRam'[y] # 0)
    <3>1. CASE t = s
      BY Zenon, <1>1, <1>2, <2>1, <3>1
    <3>2. CASE t # s
      <4>1. vramOwner[t] = y
        BY Zenon, <1>1, <2>1, <3>2
      <4>2. y # vramOwner[s]
        BY Zenon, <1>2, <3>2, <4>1 DEF Slots, OneSlot
      <4>3. inVram[y] = t \/ (y \in busy /\ inRam[y] # 0)
        BY Zenon, <4>1 DEF Slots, OwnersBusy
      <4> QED
        BY Zenon, <1>1, <4>2, <4>3
    <3> QED
      BY Zenon, <3>1, <3>2
  <2>2. ASSUME NEW t \in RamSlot, NEW y \in Expert, ramOwner'[t] = y
        PROVE  inRam'[y] = t \/ y \in busy'
    <3>1. inRam[y] = t \/ y \in busy
      BY Zenon, <1>1, <2>2 DEF Slots, OwnersBusy
    <3> QED
      BY Zenon, <1>1, <3>1
  <2>3. ASSUME NEW y \in Expert, y \in busy', inRam'[y] # 0
        PROVE  \E t \in VramSlot : vramOwner'[t] = y
    <3>1. CASE y = e
      BY Zenon, <1>1, <1>2, <3>1
    <3>2. CASE y # e
      <4>1. y \in busy /\ inRam[y] # 0
        BY Zenon, <1>1, <2>3, <3>2
      <4>2. PICK t \in VramSlot : vramOwner[t] = y
        BY Zenon, <4>1 DEF Slots, OwnersBusy
      <4>3. t # s
        BY Zenon, <1>5, <4>1, <4>2
      <4> QED
        BY Zenon, <1>1, <4>2, <4>3
    <3> QED
      BY Zenon, <3>1, <3>2
  <2> QED
    BY Zenon, <2>1, <2>2, <2>3 DEF OwnersBusy
<1>14. CopiesOwn'
  <2>1. Copies' = Copies \cup {job}
    BY Zenon, <1>1, <1>3 DEF Copies
  <2>2. ASSUME NEW j \in Copies
        PROVE  j.id \in busy' /\ inRam'[j.id] = j.src /\ inVram'[j.id] = 0
               /\ vramOwner'[j.dst] = j.id /\ ~Copied(j.id)'
    <3>1. j.id \in busy /\ inRam[j.id] = j.src /\ inVram[j.id] = 0 /\ vramOwner[j.dst] = j.id
          /\ ~Copied(j.id)
      BY Zenon DEF Slots, CopiesOwn
    <3>2. j.id \in Expert /\ j.dst \in VramSlot
      BY Zenon, <1>6
    <3>3. j.dst # s /\ inVram'[j.id] = inVram[j.id]
      BY Zenon, <1>4, <1>5, <3>1, <3>2
    <3> QED
      BY Zenon, <1>1, <3>1, <3>2, <3>3 DEF Copied
  <2>3. e \in busy' /\ inRam'[e] = inRam[e] /\ inVram'[e] = 0
        /\ vramOwner'[s] = e /\ ~Copied(e)'
    <3>1. ~Copied(e)
      BY Zenon, <1>2 DEF Slots, CopiesOwn
    <3>2. inVram'[e] = 0
      BY Zenon, <1>1, <1>2
    <3> QED
      BY Zenon, <1>1, <3>1, <3>2 DEF Copied
  <2>4. ASSUME NEW j \in copyQ' PROVE j.id # copying'.id
    <3>1. CASE j \in copyQ
      BY Zenon, <1>1, <3>1 DEF Slots, CopiesOwn
    <3>2. CASE j = job
      <4>1. CASE copying = NoJob
        <5>1. copying'.id = NoExpert
          BY Zenon, <1>1, <4>1, NoJobFacts
        <5> QED
          BY Zenon, <1>2, <1>3, <3>2, <5>1
      <4>2. CASE copying # NoJob
        <5>1. copying.id \in busy
          BY Zenon, <4>2 DEF Slots, CopiesOwn, Copies
        <5> QED
          BY Zenon, <1>1, <1>2, <1>3, <3>2, <5>1
      <4> QED
        BY Zenon, <4>1, <4>2
    <3> QED
      BY Zenon, <1>1, <3>1, <3>2
  <2>5. ASSUME NEW y \in Expert, Copied(y)'
        PROVE  y \in busy' /\ inRam'[y] # 0 /\ inVram'[y] = 0
               /\ \E t \in VramSlot : vramOwner'[t] = y /\ vramMem'[t] = y
    <3>1. y \in busy /\ inRam[y] # 0 /\ inVram[y] = 0
          /\ \E t \in VramSlot : vramOwner[t] = y /\ vramMem[t] = y
      BY Zenon, <1>1, <2>5 DEF Slots, CopiesOwn, Copied
    <3>2. PICK t \in VramSlot : vramOwner[t] = y /\ vramMem[t] = y
      BY Zenon, <3>1
    <3>3. t # s /\ inVram'[y] = inVram[y]
      BY Zenon, <1>4, <1>5, <3>1, <3>2
    <3> QED
      BY Zenon, <1>1, <3>1, <3>2, <3>3
  <2>6. ASSUME NEW j \in Copies'
        PROVE  j.id \in busy' /\ inRam'[j.id] = j.src /\ inVram'[j.id] = 0
               /\ vramOwner'[j.dst] = j.id /\ ~Copied(j.id)'
    <3>1. CASE j = job
      <4>1. j.id = e /\ j.src = inRam[e] /\ j.dst = s
        BY Zenon, <1>3, <3>1
      <4> QED
        BY Zenon, <2>3, <4>1
    <3>2. CASE j \in Copies
      BY Zenon, <2>2, <3>2
    <3> QED
      BY Zenon, <2>1, <3>1, <3>2
  <2> QED
    BY Zenon, <2>4, <2>5, <2>6 DEF CopiesOwn
<1>15. FetchesOwn'
  <2>1. Fetches' = Fetches
    BY Zenon, <1>1 DEF Fetches
  <2>2. ASSUME NEW j \in Fetches
        PROVE  j.id \in busy' /\ inRam'[j.id] = 0 /\ ramOwner'[j.slot] = j.id /\ ~Fetched(j.id)'
    BY Zenon, <1>1 DEF Slots, FetchesOwn, Fetched
  <2>3. ASSUME NEW y \in Expert, Fetched(y)'
        PROVE  y \in busy' /\ inRam'[y] = 0 /\ \E t \in RamSlot : ramOwner'[t] = y /\ ramMem'[t] = y
    BY Zenon, <1>1, <2>3 DEF Slots, FetchesOwn, Fetched
  <2>4. \A j \in fetchQ' : j.id # fetching'.id
    BY Zenon, <1>1 DEF Slots, FetchesOwn
  <2> QED
    BY Zenon, <2>1, <2>2, <2>3, <2>4 DEF FetchesOwn
<1> QED
  BY Zenon, <1>10, <1>11, <1>12, <1>13, <1>14, <1>15 DEF Slots

\* The effect of adopt: what was done is published where its owner says, and
\* nothing else is under way for it.
LEMMA AdoptEffect ==
  ASSUME Slots, NEW D, Adopts(D)
  PROVE  /\ UNCHANGED <<vramOwner, ramOwner, vramFree, ramFree, fetchQ, copyQ, fetching, copying,
                        ramMem, vramMem>>
         /\ doneQ' = doneQ \ D
         /\ \A e \in Expert : <<"fetched", e>> \in D =>
              /\ Fetched(e) /\ ~Copied(e) /\ e \notin busy'
              /\ inRam'[e] \in RamSlot /\ ramOwner[inRam'[e]] = e /\ ramMem[inRam'[e]] = e
         /\ \A e \in Expert : <<"copied", e>> \in D =>
              /\ Copied(e) /\ ~Fetched(e) /\ e \notin busy'
              /\ inVram'[e] \in VramSlot /\ vramOwner[inVram'[e]] = e /\ vramMem[inVram'[e]] = e
         /\ \A e \in Expert : <<"fetched", e>> \notin D => inRam'[e] = inRam[e]
         /\ \A e \in Expert : <<"copied", e>> \notin D => inVram'[e] = inVram[e]
         /\ \A e \in Expert : <<"fetched", e>> \notin D /\ <<"copied", e>> \notin D =>
              (e \in busy' <=> e \in busy)
         /\ inRam' \in [Expert -> RamSlot \cup {0}] /\ inVram' \in [Expert -> VramSlot \cup {0}]
<1>1. /\ D \subseteq doneQ /\ doneQ' = doneQ \ D
      /\ UNCHANGED <<vramOwner, ramOwner, vramFree, ramFree, fetchQ, copyQ, fetching, copying,
                     ramMem, vramMem>>
      /\ inRam' = [e \in Expert |->
           IF <<"fetched", e>> \in D THEN SlotOf(ramOwner, e) ELSE inRam[e]]
      /\ inVram' = [e \in Expert |->
           IF <<"copied", e>> \in D THEN SlotOf(vramOwner, e) ELSE inVram[e]]
      /\ busy' = busy \ {d[2] : d \in D}
  BY Zenon DEF Adopts, adopt, workers
<1>2. /\ ramOwner \in [RamSlot -> Expert \cup {NoExpert}]
      /\ vramOwner \in [VramSlot -> Expert \cup {NoExpert}]
      /\ inRam \in [Expert -> RamSlot \cup {0}] /\ inVram \in [Expert -> VramSlot \cup {0}]
      /\ RamSlot \in SUBSET Nat /\ VramSlot \in SUBSET Nat /\ D \subseteq Done
      /\ NoExpert \notin Expert
  BY Zenon, <1>1, SlotFacts, NoJobFacts DEF Slots, Typed
<1>3. \A e \in Expert : Fetched(e) => inRam[e] = 0 /\ \E s \in RamSlot : ramOwner[s] = e /\ ramMem[s] = e
  BY Zenon DEF Slots, FetchesOwn
<1>4. \A e \in Expert : Copied(e) => inRam[e] # 0 /\ \E s \in VramSlot : vramOwner[s] = e /\ vramMem[s] = e
  BY Zenon DEF Slots, CopiesOwn
<1>5. ASSUME NEW e \in Expert, <<"fetched", e>> \in D
      PROVE  /\ Fetched(e) /\ ~Copied(e) /\ e \notin busy'
             /\ inRam'[e] \in RamSlot /\ ramOwner[inRam'[e]] = e /\ ramMem[inRam'[e]] = e
  <2>1. Fetched(e) /\ ~Copied(e)
    BY Zenon, <1>1, <1>3, <1>4, <1>5 DEF Fetched
  <2>2. e \notin busy'
    <3>1. <<"fetched", e>>[2] = e
      BY Zenon, DoneFacts
    <3>2. <<"fetched", e>>[2] \in {d[2] : d \in D}
      BY Zenon, <1>5
    <3> QED
      BY Zenon, <1>1, <3>1, <3>2
  <2>3. PICK s \in RamSlot : ramOwner[s] = e /\ ramMem[s] = e
    BY Zenon, <1>3, <2>1
  <2>4. \A t \in RamSlot : ramOwner[t] = e => t = s
    BY Zenon, <1>2, <2>3 DEF Slots, OneSlot
  <2>5. {t \in DOMAIN ramOwner : ramOwner[t] = e} = {s} /\ s \in Nat
    <3>1. DOMAIN ramOwner = RamSlot
      BY Zenon, <1>2
    <3> QED
      BY Zenon, <1>2, <2>3, <2>4, <3>1
  <2>6. SlotOf(ramOwner, e) = s
    BY Zenon, <2>5, SlotOfIs
  <2>7. inRam'[e] = s
    BY Zenon, <1>1, <1>5, <2>6
  <2> QED
    BY Zenon, <2>1, <2>2, <2>3, <2>7
<1>6. ASSUME NEW e \in Expert, <<"copied", e>> \in D
      PROVE  /\ Copied(e) /\ ~Fetched(e) /\ e \notin busy'
             /\ inVram'[e] \in VramSlot /\ vramOwner[inVram'[e]] = e /\ vramMem[inVram'[e]] = e
  <2>1. Copied(e) /\ ~Fetched(e)
    BY Zenon, <1>1, <1>3, <1>4, <1>6 DEF Copied
  <2>2. e \notin busy'
    <3>1. <<"copied", e>>[2] = e
      BY Zenon, DoneFacts
    <3>2. <<"copied", e>>[2] \in {d[2] : d \in D}
      BY Zenon, <1>6
    <3> QED
      BY Zenon, <1>1, <3>1, <3>2
  <2>3. PICK s \in VramSlot : vramOwner[s] = e /\ vramMem[s] = e
    BY Zenon, <1>4, <2>1
  <2>4. \A t \in VramSlot : vramOwner[t] = e => t = s
    BY Zenon, <1>2, <2>3 DEF Slots, OneSlot
  <2>5. {t \in DOMAIN vramOwner : vramOwner[t] = e} = {s} /\ s \in Nat
    <3>1. DOMAIN vramOwner = VramSlot
      BY Zenon, <1>2
    <3> QED
      BY Zenon, <1>2, <2>3, <2>4, <3>1
  <2>6. SlotOf(vramOwner, e) = s
    BY Zenon, <2>5, SlotOfIs
  <2>7. inVram'[e] = s
    BY Zenon, <1>1, <1>6, <2>6
  <2> QED
    BY Zenon, <2>1, <2>2, <2>3, <2>7
<1>7. ASSUME NEW e \in Expert
      PROVE  /\ <<"fetched", e>> \notin D => inRam'[e] = inRam[e]
             /\ <<"copied", e>> \notin D => inVram'[e] = inVram[e]
  BY Zenon, <1>1
<1>8. ASSUME NEW e \in Expert, <<"fetched", e>> \notin D, <<"copied", e>> \notin D
      PROVE  e \in busy' <=> e \in busy
  <2>1. \A d \in D : d[2] # e
    <3> SUFFICES ASSUME NEW d \in D, d[2] = e PROVE FALSE
      BY Zenon
    <3>1. d = <<"fetched", d[2]>> \/ d = <<"copied", d[2]>>
      BY Zenon, <1>2, DoneFacts
    <3>2. d = <<"fetched", e>> \/ d = <<"copied", e>>
      BY Zenon, <3>1
    <3> QED
      BY Zenon, <1>8, <3>2
  <2> QED
    BY Zenon, <1>1, <2>1
<1>9. inRam' \in [Expert -> RamSlot \cup {0}]
  <2>1. \A e \in Expert : inRam'[e] \in RamSlot \cup {0}
    BY Zenon, <1>2, <1>5, <1>7
  <2> QED
    BY Zenon, <1>1, <2>1
<1>10. inVram' \in [Expert -> VramSlot \cup {0}]
  <2>1. \A e \in Expert : inVram'[e] \in VramSlot \cup {0}
    BY Zenon, <1>2, <1>6, <1>7
  <2> QED
    BY Zenon, <1>1, <2>1
<1> QED
  BY Zenon, <1>1, <1>5, <1>6, <1>7, <1>8, <1>9, <1>10

\* What adopt publishes is whole and its owner's.
LEMMA AdoptKeepsSlots ==
  ASSUME Slots, NEW D, Adopts(D)
  PROVE  Slots'
<1>1. /\ UNCHANGED <<vramOwner, ramOwner, vramFree, ramFree, fetchQ, copyQ, fetching, copying,
                     ramMem, vramMem>>
      /\ doneQ' = doneQ \ D
      /\ inRam' \in [Expert -> RamSlot \cup {0}] /\ inVram' \in [Expert -> VramSlot \cup {0}]
  BY Zenon, AdoptEffect
<1>2. \A e \in Expert : <<"fetched", e>> \in D =>
        /\ Fetched(e) /\ ~Copied(e) /\ e \notin busy'
        /\ inRam'[e] \in RamSlot /\ ramOwner[inRam'[e]] = e /\ ramMem[inRam'[e]] = e
  BY Zenon, AdoptEffect
<1>3. \A e \in Expert : <<"copied", e>> \in D =>
        /\ Copied(e) /\ ~Fetched(e) /\ e \notin busy'
        /\ inVram'[e] \in VramSlot /\ vramOwner[inVram'[e]] = e /\ vramMem[inVram'[e]] = e
  BY Zenon, AdoptEffect
<1>4. /\ \A e \in Expert : <<"fetched", e>> \notin D => inRam'[e] = inRam[e]
      /\ \A e \in Expert : <<"copied", e>> \notin D => inVram'[e] = inVram[e]
      /\ \A e \in Expert : <<"fetched", e>> \notin D /\ <<"copied", e>> \notin D =>
           (e \in busy' <=> e \in busy)
  BY Zenon, AdoptEffect
<1>5. /\ NoExpert \notin Expert /\ 0 \notin RamSlot /\ 0 \notin VramSlot
      /\ inRam \in [Expert -> RamSlot \cup {0}] /\ inVram \in [Expert -> VramSlot \cup {0}]
      /\ \A j \in Fetches : j.id \in Expert
      /\ \A j \in Copies : j.id \in Expert
  BY Zenon, SlotFacts, NoJobFacts, JobsTyped DEF Slots, Typed
<1>6. \A e \in Expert : /\ Fetched(e) => inRam[e] = 0 /\ e \in busy
                        /\ Copied(e) => inRam[e] # 0 /\ e \in busy /\ inVram[e] = 0
  BY Zenon DEF Slots, FetchesOwn, CopiesOwn
<1>10. Typed'
  BY Zenon, <1>1 DEF Slots, Typed
<1>11. OneSlot'
  BY Zenon, <1>1 DEF Slots, OneSlot
<1>12. MapsWhole'
  <2>1. ASSUME NEW y \in Expert, inRam'[y] # 0
        PROVE  ramOwner'[inRam'[y]] = y /\ ramMem'[inRam'[y]] = y
    <3>1. CASE <<"fetched", y>> \in D
      BY Zenon, <1>1, <1>2, <3>1
    <3>2. CASE <<"fetched", y>> \notin D
      <4>1. inRam'[y] = inRam[y]
        BY Zenon, <1>4, <3>2
      <4> QED
        BY Zenon, <1>1, <2>1, <4>1 DEF Slots, MapsWhole
    <3> QED
      BY Zenon, <3>1, <3>2
  <2>2. ASSUME NEW y \in Expert, inVram'[y] # 0
        PROVE  vramOwner'[inVram'[y]] = y /\ vramMem'[inVram'[y]] = y
    <3>1. CASE <<"copied", y>> \in D
      BY Zenon, <1>1, <1>3, <3>1
    <3>2. CASE <<"copied", y>> \notin D
      <4>1. inVram'[y] = inVram[y]
        BY Zenon, <1>4, <3>2
      <4> QED
        BY Zenon, <1>1, <2>2, <4>1 DEF Slots, MapsWhole
    <3> QED
      BY Zenon, <3>1, <3>2
  <2> QED
    BY Zenon, <2>1, <2>2 DEF MapsWhole
<1>13. OwnersBusy'
  <2>1. ASSUME NEW t \in RamSlot, NEW y \in Expert, ramOwner'[t] = y
        PROVE  inRam'[y] = t \/ y \in busy'
    <3>1. ramOwner[t] = y /\ \A r \in RamSlot : ramOwner[r] = y => r = t
      BY Zenon, <1>1, <2>1, OwnsOne
    <3>2. CASE <<"fetched", y>> \in D
      BY Zenon, <1>2, <3>1, <3>2
    <3>3. CASE <<"copied", y>> \in D
      <4>1. inRam[y] # 0 /\ <<"fetched", y>> \notin D
        BY Zenon, <1>2, <1>3, <1>6, <3>3
      <4>2. inRam[y] \in RamSlot /\ ramOwner[inRam[y]] = y
        BY Zenon, <4>1, MapFacts
      <4> QED
        BY Zenon, <1>4, <3>1, <4>1, <4>2
    <3>4. CASE <<"fetched", y>> \notin D /\ <<"copied", y>> \notin D
      <4>1. inRam[y] = t \/ y \in busy
        BY Zenon, <3>1 DEF Slots, OwnersBusy
      <4> QED
        BY Zenon, <1>4, <3>4, <4>1
    <3> QED
      BY Zenon, <3>2, <3>3, <3>4
  <2>2. ASSUME NEW t \in VramSlot, NEW y \in Expert, vramOwner'[t] = y
        PROVE  inVram'[y] = t \/ (y \in busy' /\ inRam'[y] # 0)
    <3>1. vramOwner[t] = y /\ \A r \in VramSlot : vramOwner[r] = y => r = t
      BY Zenon, <1>1, <2>2, OwnsOne
    <3>2. CASE <<"copied", y>> \in D
      BY Zenon, <1>3, <3>1, <3>2
    <3>3. CASE <<"copied", y>> \notin D
      <4>1. inVram[y] = t \/ (y \in busy /\ inRam[y] # 0)
        BY Zenon, <3>1 DEF Slots, OwnersBusy
      <4>2. inRam[y] # 0 => <<"fetched", y>> \notin D
        BY Zenon, <1>2, <1>6
      <4> QED
        BY Zenon, <1>4, <3>3, <4>1, <4>2
    <3> QED
      BY Zenon, <3>2, <3>3
  <2>3. ASSUME NEW y \in Expert, y \in busy', inRam'[y] # 0
        PROVE  \E t \in VramSlot : vramOwner'[t] = y
    <3>1. <<"fetched", y>> \notin D /\ <<"copied", y>> \notin D
      BY Zenon, <1>2, <1>3, <2>3
    <3>2. y \in busy /\ inRam[y] # 0
      BY Zenon, <1>4, <2>3, <3>1
    <3> QED
      BY Zenon, <1>1, <3>2 DEF Slots, OwnersBusy
  <2> QED
    BY Zenon, <2>1, <2>2, <2>3 DEF OwnersBusy
<1>14. FetchesOwn'
  <2>1. Fetches' = Fetches
    BY Zenon, <1>1 DEF Fetches
  <2>2. ASSUME NEW y \in Expert, inRam[y] = 0, y \in busy, <<"fetched", y>> \notin D
        PROVE  y \in busy' /\ inRam'[y] = 0
    <3>1. <<"copied", y>> \notin D
      BY Zenon, <1>3, <1>6, <2>2
    <3> QED
      BY Zenon, <1>4, <2>2, <3>1
  <2>3. ASSUME NEW j \in Fetches
        PROVE  j.id \in busy' /\ inRam'[j.id] = 0 /\ ramOwner'[j.slot] = j.id /\ ~Fetched(j.id)'
    <3>1. j.id \in busy /\ inRam[j.id] = 0 /\ ramOwner[j.slot] = j.id /\ ~Fetched(j.id)
      BY Zenon DEF Slots, FetchesOwn
    <3>2. j.id \in Expert /\ <<"fetched", j.id>> \notin D /\ ~Fetched(j.id)'
      BY Zenon, <1>1, <1>2, <1>5, <3>1 DEF Fetched
    <3> QED
      BY Zenon, <1>1, <2>2, <3>1, <3>2
  <2>4. ASSUME NEW y \in Expert, Fetched(y)'
        PROVE  y \in busy' /\ inRam'[y] = 0 /\ \E t \in RamSlot : ramOwner'[t] = y /\ ramMem'[t] = y
    <3>1. Fetched(y) /\ <<"fetched", y>> \notin D
      BY Zenon, <1>1, <2>4 DEF Fetched
    <3>2. \E t \in RamSlot : ramOwner[t] = y /\ ramMem[t] = y
      BY Zenon, <3>1 DEF Slots, FetchesOwn
    <3> QED
      BY Zenon, <1>1, <1>6, <2>2, <3>1, <3>2
  <2>5. \A j \in fetchQ' : j.id # fetching'.id
    BY Zenon, <1>1 DEF Slots, FetchesOwn
  <2> QED
    BY Zenon, <2>1, <2>3, <2>4, <2>5 DEF FetchesOwn
<1>15. CopiesOwn'
  <2>1. Copies' = Copies
    BY Zenon, <1>1 DEF Copies
  <2>2. ASSUME NEW y \in Expert, inRam[y] # 0, inVram[y] = 0, y \in busy, <<"copied", y>> \notin D
        PROVE  y \in busy' /\ inRam'[y] = inRam[y] /\ inVram'[y] = 0
    <3>1. <<"fetched", y>> \notin D
      BY Zenon, <1>2, <1>6, <2>2
    <3> QED
      BY Zenon, <1>4, <2>2, <3>1
  <2>3. ASSUME NEW j \in Copies
        PROVE  j.id \in busy' /\ inRam'[j.id] = j.src /\ inVram'[j.id] = 0
               /\ vramOwner'[j.dst] = j.id /\ ~Copied(j.id)'
    <3>1. j.id \in busy /\ inRam[j.id] = j.src /\ inVram[j.id] = 0 /\ vramOwner[j.dst] = j.id
          /\ ~Copied(j.id)
      BY Zenon DEF Slots, CopiesOwn
    <3>2. j.id \in Expert /\ <<"copied", j.id>> \notin D /\ ~Copied(j.id)'
      BY Zenon, <1>1, <1>3, <1>5, <3>1 DEF Copied
    <3>3. j.src # 0
      BY Zenon, <1>5, JobsTyped
    <3>4. inRam[j.id] # 0
      BY Zenon, <3>1, <3>3
    <3>5. j.id \in busy' /\ inRam'[j.id] = inRam[j.id] /\ inVram'[j.id] = 0
      BY Zenon, <2>2, <3>1, <3>2, <3>4
    <3> QED
      BY Zenon, <1>1, <3>1, <3>2, <3>5
  <2>4. ASSUME NEW y \in Expert, Copied(y)'
        PROVE  y \in busy' /\ inRam'[y] # 0 /\ inVram'[y] = 0
               /\ \E t \in VramSlot : vramOwner'[t] = y /\ vramMem'[t] = y
    <3>1. Copied(y) /\ <<"copied", y>> \notin D
      BY Zenon, <1>1, <2>4 DEF Copied
    <3>2. \E t \in VramSlot : vramOwner[t] = y /\ vramMem[t] = y
      BY Zenon, <3>1 DEF Slots, CopiesOwn
    <3>3. y \in busy' /\ inRam'[y] = inRam[y] /\ inVram'[y] = 0 /\ inRam[y] # 0
      BY Zenon, <1>6, <2>2, <3>1
    <3> QED
      BY Zenon, <1>1, <3>2, <3>3
  <2>5. \A j \in copyQ' : j.id # copying'.id
    BY Zenon, <1>1 DEF Slots, CopiesOwn
  <2> QED
    BY Zenon, <2>1, <2>3, <2>4, <2>5 DEF CopiesOwn
<1> QED
  BY Zenon, <1>10, <1>11, <1>12, <1>13, <1>14, <1>15 DEF Slots

-----------------------------------------------------------------------------
(* The workers.                                                            *)

\* A worker leaves the maps, the owners and the marks alone.
WorkerFrame == UNCHANGED <<inVram, inRam, vramOwner, ramOwner, vramFree, ramFree, busy>>

\* So a worker keeps the conjuncts that are about nothing else.
LEMMA WorkerKeeps ==
  ASSUME Slots, WorkerFrame
  PROVE  OneSlot' /\ OwnersBusy'
BY Zenon DEF WorkerFrame, Slots, OneSlot, OwnersBusy

\* What a fetch does not touch keeps the copies, and the other way round.
LEMMA CopiesSame ==
  ASSUME Slots, WorkerFrame, UNCHANGED <<copyQ, copying, vramMem>>,
         \A e : Copied(e)' <=> Copied(e)
  PROVE  CopiesOwn'
<1>1. Copies' = Copies
  BY Zenon DEF Copies
<1>2. ASSUME NEW j \in Copies
      PROVE  j.id \in busy' /\ inRam'[j.id] = j.src /\ inVram'[j.id] = 0
             /\ vramOwner'[j.dst] = j.id /\ ~Copied(j.id)'
  BY Zenon DEF WorkerFrame, Slots, CopiesOwn
<1>3. ASSUME NEW y \in Expert, Copied(y)'
      PROVE  y \in busy' /\ inRam'[y] # 0 /\ inVram'[y] = 0
             /\ \E t \in VramSlot : vramOwner'[t] = y /\ vramMem'[t] = y
  BY Zenon, <1>3 DEF WorkerFrame, Slots, CopiesOwn
<1>4. \A j \in copyQ' : j.id # copying'.id
  BY Zenon DEF Slots, CopiesOwn
<1> QED
  BY Zenon, <1>1, <1>2, <1>3, <1>4 DEF CopiesOwn

\* The same for the fetches.
LEMMA FetchesSame ==
  ASSUME Slots, WorkerFrame, UNCHANGED <<fetchQ, fetching, ramMem>>,
         \A e : Fetched(e)' <=> Fetched(e)
  PROVE  FetchesOwn'
<1>1. Fetches' = Fetches
  BY Zenon DEF Fetches
<1>2. ASSUME NEW j \in Fetches
      PROVE  j.id \in busy' /\ inRam'[j.id] = 0 /\ ramOwner'[j.slot] = j.id /\ ~Fetched(j.id)'
  BY Zenon DEF WorkerFrame, Slots, FetchesOwn
<1>3. ASSUME NEW y \in Expert, Fetched(y)'
      PROVE  y \in busy' /\ inRam'[y] = 0 /\ \E t \in RamSlot : ramOwner'[t] = y /\ ramMem'[t] = y
  BY Zenon, <1>3 DEF WorkerFrame, Slots, FetchesOwn
<1>4. \A j \in fetchQ' : j.id # fetching'.id
  BY Zenon DEF Slots, FetchesOwn
<1> QED
  BY Zenon, <1>1, <1>2, <1>3, <1>4 DEF FetchesOwn

\* The slot of a fetch under way is read by nobody, so it may be torn.
LEMMA FetchStartKeepsSlots ==
  ASSUME Slots, NEW j, FetchStart(j)
  PROVE  Slots'
<1>1. /\ WorkerFrame /\ UNCHANGED <<copyQ, doneQ, copying, vramMem>>
      /\ fetching = NoJob /\ j \in fetchQ /\ fetchQ' = fetchQ \ {j} /\ fetching' = j
      /\ ramMem' = [ramMem EXCEPT ![j.slot] = Torn]
  BY Zenon DEF FetchStart, WorkerFrame, maps
<1>2. /\ j \in FetchJob /\ j.id \in Expert /\ j.slot \in RamSlot /\ j # NoJob
      /\ j.id \in busy /\ inRam[j.id] = 0 /\ ramOwner[j.slot] = j.id /\ ~Fetched(j.id)
  <2>1. j \in Fetches
    BY Zenon, <1>1, NoJobFacts DEF Slots, Typed, Fetches
  <2> QED
    BY Zenon, <2>1, JobsTyped, NoJobFacts DEF Slots, FetchesOwn
<1>3. /\ ramMem' \in [RamSlot -> Expert \cup {Torn}]
      /\ \A t \in RamSlot : t # j.slot => ramMem'[t] = ramMem[t]
  <2>1. ramMem \in [RamSlot -> Expert \cup {Torn}]
    BY Zenon DEF Slots, Typed
  <2> QED
    BY Zenon, <1>1, <2>1
<1>4. Fetches' = Fetches
  BY Zenon, <1>1, <1>2 DEF Fetches
<1>5. \A e \in Expert : inRam[e] # 0 => inRam[e] # j.slot /\ inRam[e] \in RamSlot
  BY Zenon, <1>2, MapFacts
<1>6. Typed'
  BY Zenon, <1>1, <1>2, <1>3 DEF Slots, Typed, WorkerFrame
<1>7. MapsWhole'
  BY Zenon, <1>1, <1>3, <1>5 DEF Slots, MapsWhole, WorkerFrame
<1>8. CopiesOwn'
  BY Zenon, <1>1, CopiesSame DEF Copied
<1>9. FetchesOwn'
  <2>1. ASSUME NEW k \in Fetches'
        PROVE  k.id \in busy' /\ inRam'[k.id] = 0 /\ ramOwner'[k.slot] = k.id /\ ~Fetched(k.id)'
    BY Zenon, <1>1, <1>4, <2>1 DEF Slots, FetchesOwn, WorkerFrame, Fetched
  <2>2. ASSUME NEW k \in fetchQ' PROVE k.id # fetching'.id
    <3>1. k \in Fetches /\ k # j
      BY Zenon, <1>1, <1>4 DEF Fetches
    <3>2. ramOwner[k.slot] = k.id /\ k.slot \in RamSlot /\ k \in FetchJob
      BY Zenon, <3>1, JobsTyped DEF Slots, FetchesOwn
    <3>3. k.id = j.id => k.slot = j.slot
      BY Zenon, <1>2, <3>2, OwnsOne
    <3> QED
      BY Zenon, <1>1, <1>2, <3>1, <3>2, <3>3, FetchJobFacts
  <2>3. ASSUME NEW y \in Expert, Fetched(y)'
        PROVE  y \in busy' /\ inRam'[y] = 0 /\ \E t \in RamSlot : ramOwner'[t] = y /\ ramMem'[t] = y
    <3>1. Fetched(y) /\ y # j.id
      BY Zenon, <1>1, <1>2, <2>3 DEF Fetched
    <3>2. y \in busy /\ inRam[y] = 0 /\ \E t \in RamSlot : ramOwner[t] = y /\ ramMem[t] = y
      BY Zenon, <3>1 DEF Slots, FetchesOwn
    <3>3. PICK t \in RamSlot : ramOwner[t] = y /\ ramMem[t] = y
      BY Zenon, <3>2
    <3>4. ramMem'[t] = y
      BY Zenon, <1>2, <1>3, <3>1, <3>3
    <3> QED
      BY Zenon, <1>1, <3>2, <3>3, <3>4 DEF WorkerFrame
  <2> QED
    BY Zenon, <2>1, <2>2, <2>3 DEF FetchesOwn
<1> QED
  BY Zenon, <1>1, <1>6, <1>7, <1>8, <1>9, WorkerKeeps DEF Slots

\* A fetch that ended left the slot whole, for its owner.
LEMMA FetchDoneKeepsSlots ==
  ASSUME Slots, FetchDone
  PROVE  Slots'
<1>1. /\ WorkerFrame /\ UNCHANGED <<fetchQ, copyQ, copying, vramMem>>
      /\ fetching # NoJob /\ fetching' = NoJob
      /\ ramMem' = [ramMem EXCEPT ![fetching.slot] = fetching.id]
      /\ doneQ' = doneQ \cup {<<"fetched", fetching.id>>}
  BY Zenon DEF FetchDone, WorkerFrame, maps, work
<1>2. /\ fetching.id \in Expert /\ fetching.slot \in RamSlot
      /\ fetching.id \in busy /\ inRam[fetching.id] = 0
      /\ ramOwner[fetching.slot] = fetching.id /\ ~Fetched(fetching.id)
  <2>1. fetching \in Fetches
    BY Zenon, <1>1 DEF Fetches
  <2> QED
    BY Zenon, <2>1, JobsTyped DEF Slots, FetchesOwn
<1>3. /\ ramMem' \in [RamSlot -> Expert \cup {Torn}] /\ ramMem'[fetching.slot] = fetching.id
      /\ \A t \in RamSlot : t # fetching.slot => ramMem'[t] = ramMem[t]
  <2>1. ramMem \in [RamSlot -> Expert \cup {Torn}]
    BY Zenon DEF Slots, Typed
  <2> QED
    BY Zenon, <1>1, <1>2, <2>1
<1>4. /\ \A e : Copied(e)' <=> Copied(e)
      /\ \A e : Fetched(e)' <=> Fetched(e) \/ e = fetching.id
  BY Zenon, <1>1, DoneFacts DEF Fetched, Copied
<1>5. \A e \in Expert : inRam[e] # 0 => inRam[e] # fetching.slot /\ inRam[e] \in RamSlot
  BY Zenon, <1>2, MapFacts
<1>6. Typed'
  <2>1. doneQ' \subseteq Done
    <3>1. <<"fetched", fetching.id>> \in Done
      BY Zenon, <1>2, DoneFacts
    <3>2. doneQ \subseteq Done
      BY Zenon DEF Slots, Typed
    <3> QED
      BY Zenon, <1>1, <3>1, <3>2
  <2> QED
    BY Zenon, <1>1, <1>3, <2>1 DEF Slots, Typed, WorkerFrame
<1>7. MapsWhole'
  BY Zenon, <1>1, <1>3, <1>5 DEF Slots, MapsWhole, WorkerFrame
<1>8. CopiesOwn'
  BY Zenon, <1>1, <1>4, CopiesSame
<1>9. FetchesOwn'
  <2>0. Fetches' = fetchQ /\ fetchQ \subseteq Fetches
    BY Zenon, <1>1 DEF Fetches
  <2>1. ASSUME NEW k \in Fetches'
        PROVE  k.id \in busy' /\ inRam'[k.id] = 0 /\ ramOwner'[k.slot] = k.id /\ ~Fetched(k.id)'
    <3>1. k.id \in busy /\ inRam[k.id] = 0 /\ ramOwner[k.slot] = k.id /\ ~Fetched(k.id)
          /\ k.id # fetching.id
      BY Zenon, <2>0 DEF Slots, FetchesOwn
    <3> QED
      BY Zenon, <1>1, <1>4, <3>1 DEF WorkerFrame
  <2>2. ASSUME NEW k \in fetchQ' PROVE k.id # fetching'.id
    <3>1. k.id \in Expert
      BY Zenon, <1>1, <2>0, JobsTyped
    <3> QED
      BY Zenon, <1>1, <3>1, NoJobFacts
  <2>3. ASSUME NEW y \in Expert, Fetched(y)'
        PROVE  y \in busy' /\ inRam'[y] = 0 /\ \E t \in RamSlot : ramOwner'[t] = y /\ ramMem'[t] = y
    <3>1. CASE y = fetching.id
      BY Zenon, <1>1, <1>2, <1>3, <3>1 DEF WorkerFrame
    <3>2. CASE y # fetching.id
      <4>1. y \in busy /\ inRam[y] = 0 /\ \E t \in RamSlot : ramOwner[t] = y /\ ramMem[t] = y
        BY Zenon, <1>4, <2>3, <3>2 DEF Slots, FetchesOwn
      <4>2. PICK t \in RamSlot : ramOwner[t] = y /\ ramMem[t] = y
        BY Zenon, <4>1
      <4>3. ramMem'[t] = y
        BY Zenon, <1>2, <1>3, <3>2, <4>2
      <4> QED
        BY Zenon, <1>1, <4>1, <4>2, <4>3 DEF WorkerFrame
    <3> QED
      BY Zenon, <3>1, <3>2
  <2> QED
    BY Zenon, <2>1, <2>2, <2>3 DEF FetchesOwn
<1> QED
  BY Zenon, <1>1, <1>6, <1>7, <1>8, <1>9, WorkerKeeps DEF Slots

\* A fetch that failed leaves its expert busy and its slot reserved.
LEMMA FetchFailsKeepsSlots ==
  ASSUME Slots, FetchFails
  PROVE  Slots'
<1>1. /\ WorkerFrame /\ UNCHANGED <<fetchQ, copyQ, doneQ, copying, ramMem, vramMem>>
      /\ fetching' = NoJob
  BY Zenon DEF FetchFails, WorkerFrame, maps, work
<1>2. Typed'
  BY Zenon, <1>1 DEF Slots, Typed, WorkerFrame
<1>3. MapsWhole'
  BY Zenon, <1>1 DEF Slots, MapsWhole, WorkerFrame
<1>4. CopiesOwn'
  BY Zenon, <1>1, CopiesSame DEF Copied
<1>5. FetchesOwn'
  <2>0. Fetches' = fetchQ /\ fetchQ \subseteq Fetches /\ \A e : Fetched(e)' <=> Fetched(e)
    <3>1. NoJob \notin fetchQ
      BY Zenon, NoJobFacts DEF Slots, Typed
    <3> QED
      BY Zenon, <1>1, <3>1 DEF Fetches, Fetched
  <2>1. ASSUME NEW k \in Fetches'
        PROVE  k.id \in busy' /\ inRam'[k.id] = 0 /\ ramOwner'[k.slot] = k.id /\ ~Fetched(k.id)'
    BY Zenon, <1>1, <2>0, <2>1 DEF Slots, FetchesOwn, WorkerFrame
  <2>2. ASSUME NEW k \in fetchQ' PROVE k.id # fetching'.id
    <3>1. k.id \in Expert
      BY Zenon, <1>1, <2>0, JobsTyped
    <3> QED
      BY Zenon, <1>1, <3>1, NoJobFacts
  <2>3. ASSUME NEW y \in Expert, Fetched(y)'
        PROVE  y \in busy' /\ inRam'[y] = 0 /\ \E t \in RamSlot : ramOwner'[t] = y /\ ramMem'[t] = y
    BY Zenon, <1>1, <2>0, <2>3 DEF Slots, FetchesOwn, WorkerFrame
  <2> QED
    BY Zenon, <2>1, <2>2, <2>3 DEF FetchesOwn
<1> QED
  BY Zenon, <1>1, <1>2, <1>3, <1>4, <1>5, WorkerKeeps DEF Slots

\* The slot of a copy under way is read by nobody.
LEMMA CopyStartKeepsSlots ==
  ASSUME Slots, NEW j, CopyStart(j)
  PROVE  Slots'
<1>1. /\ WorkerFrame /\ UNCHANGED <<fetchQ, doneQ, fetching, ramMem>>
      /\ copying = NoJob /\ j \in copyQ /\ copyQ' = copyQ \ {j} /\ copying' = j
      /\ vramMem' = [vramMem EXCEPT ![j.dst] = Torn]
  BY Zenon DEF CopyStart, WorkerFrame, maps
<1>2. /\ j \in CopyJob /\ j.id \in Expert /\ j.dst \in VramSlot /\ j # NoJob
      /\ j.id \in busy /\ inRam[j.id] = j.src /\ inVram[j.id] = 0
      /\ vramOwner[j.dst] = j.id /\ ~Copied(j.id)
  <2>1. j \in Copies
    BY Zenon, <1>1, NoJobFacts DEF Slots, Typed, Copies
  <2> QED
    BY Zenon, <2>1, JobsTyped, NoJobFacts DEF Slots, CopiesOwn
<1>3. /\ vramMem' \in [VramSlot -> Expert \cup {Torn}]
      /\ \A t \in VramSlot : t # j.dst => vramMem'[t] = vramMem[t]
  <2>1. vramMem \in [VramSlot -> Expert \cup {Torn}]
    BY Zenon DEF Slots, Typed
  <2> QED
    BY Zenon, <1>1, <2>1
<1>4. Copies' = Copies
  BY Zenon, <1>1, <1>2 DEF Copies
<1>5. \A e \in Expert : inVram[e] # 0 => inVram[e] # j.dst /\ inVram[e] \in VramSlot
  BY Zenon, <1>2, MapFacts
<1>6. Typed'
  BY Zenon, <1>1, <1>2, <1>3 DEF Slots, Typed, WorkerFrame
<1>7. MapsWhole'
  BY Zenon, <1>1, <1>3, <1>5 DEF Slots, MapsWhole, WorkerFrame
<1>8. FetchesOwn'
  BY Zenon, <1>1, FetchesSame DEF Fetched
<1>9. CopiesOwn'
  <2>1. ASSUME NEW k \in Copies'
        PROVE  k.id \in busy' /\ inRam'[k.id] = k.src /\ inVram'[k.id] = 0
               /\ vramOwner'[k.dst] = k.id /\ ~Copied(k.id)'
    BY Zenon, <1>1, <1>4, <2>1 DEF Slots, CopiesOwn, WorkerFrame, Copied
  <2>2. ASSUME NEW k \in copyQ' PROVE k.id # copying'.id
    <3>1. k \in Copies /\ k # j
      BY Zenon, <1>1, <1>4 DEF Copies
    <3>2. vramOwner[k.dst] = k.id /\ inRam[k.id] = k.src /\ k.dst \in VramSlot /\ k \in CopyJob
      BY Zenon, <3>1, JobsTyped DEF Slots, CopiesOwn
    <3>3. k.id = j.id => k.dst = j.dst
      BY Zenon, <1>2, <3>2, OwnsOne
    <3>4. k.id = j.id => k.src = j.src
      BY Zenon, <1>2, <3>2
    <3> QED
      BY Zenon, <1>1, <1>2, <3>1, <3>2, <3>3, <3>4, CopyJobFacts
  <2>3. ASSUME NEW y \in Expert, Copied(y)'
        PROVE  y \in busy' /\ inRam'[y] # 0 /\ inVram'[y] = 0
               /\ \E t \in VramSlot : vramOwner'[t] = y /\ vramMem'[t] = y
    <3>1. Copied(y) /\ y # j.id
      BY Zenon, <1>1, <1>2, <2>3 DEF Copied
    <3>2. y \in busy /\ inRam[y] # 0 /\ inVram[y] = 0
          /\ \E t \in VramSlot : vramOwner[t] = y /\ vramMem[t] = y
      BY Zenon, <3>1 DEF Slots, CopiesOwn
    <3>3. PICK t \in VramSlot : vramOwner[t] = y /\ vramMem[t] = y
      BY Zenon, <3>2
    <3>4. vramMem'[t] = y
      BY Zenon, <1>2, <1>3, <3>1, <3>3
    <3> QED
      BY Zenon, <1>1, <3>2, <3>3, <3>4 DEF WorkerFrame
  <2> QED
    BY Zenon, <2>1, <2>2, <2>3 DEF CopiesOwn
<1> QED
  BY Zenon, <1>1, <1>6, <1>7, <1>8, <1>9, WorkerKeeps DEF Slots

\* A copy ends whole because its source is published, and no fetch may take
\* the slot of a busy expert.
LEMMA CopyDoneKeepsSlots ==
  ASSUME Slots, CopyDone
  PROVE  Slots'
<1>1. /\ WorkerFrame /\ UNCHANGED <<fetchQ, copyQ, fetching, ramMem>>
      /\ copying # NoJob /\ copying' = NoJob
      /\ vramMem' = [vramMem EXCEPT ![copying.dst] = ramMem[copying.src]]
      /\ doneQ' = doneQ \cup {<<"copied", copying.id>>}
  BY Zenon DEF CopyDone, WorkerFrame, maps, work
<1>2. /\ copying.id \in Expert /\ copying.dst \in VramSlot /\ copying.src \in RamSlot
      /\ copying.id \in busy /\ inRam[copying.id] = copying.src /\ inVram[copying.id] = 0
      /\ vramOwner[copying.dst] = copying.id /\ ~Copied(copying.id)
  <2>1. copying \in Copies
    BY Zenon, <1>1 DEF Copies
  <2> QED
    BY Zenon, <2>1, JobsTyped DEF Slots, CopiesOwn
<1>a. inRam[copying.id] # 0 /\ ramMem[copying.src] = copying.id
  <2>1. inRam[copying.id] # 0
    BY Zenon, <1>2, SlotFacts
  <2>2. ramMem[inRam[copying.id]] = copying.id
    BY Zenon, <1>2, <2>1 DEF Slots, MapsWhole
  <2> QED
    BY Zenon, <1>2, <2>1, <2>2
<1>3. /\ vramMem' \in [VramSlot -> Expert \cup {Torn}] /\ vramMem'[copying.dst] = copying.id
      /\ \A t \in VramSlot : t # copying.dst => vramMem'[t] = vramMem[t]
  <2>1. vramMem \in [VramSlot -> Expert \cup {Torn}]
    BY Zenon DEF Slots, Typed
  <2>2. vramMem' = [vramMem EXCEPT ![copying.dst] = copying.id]
    BY Zenon, <1>1, <1>a
  <2> QED
    BY Zenon, <1>2, <2>1, <2>2
<1>4. /\ \A e : Fetched(e)' <=> Fetched(e)
      /\ \A e : Copied(e)' <=> Copied(e) \/ e = copying.id
  BY Zenon, <1>1, DoneFacts DEF Fetched, Copied
<1>5. \A e \in Expert : inVram[e] # 0 => inVram[e] # copying.dst /\ inVram[e] \in VramSlot
  BY Zenon, <1>2, MapFacts
<1>6. Typed'
  <2>1. doneQ' \subseteq Done
    <3>1. <<"copied", copying.id>> \in Done
      BY Zenon, <1>2, DoneFacts
    <3>2. doneQ \subseteq Done
      BY Zenon DEF Slots, Typed
    <3> QED
      BY Zenon, <1>1, <3>1, <3>2
  <2> QED
    BY Zenon, <1>1, <1>3, <2>1 DEF Slots, Typed, WorkerFrame
<1>7. MapsWhole'
  BY Zenon, <1>1, <1>3, <1>5 DEF Slots, MapsWhole, WorkerFrame
<1>8. FetchesOwn'
  BY Zenon, <1>1, <1>4, FetchesSame
<1>9. CopiesOwn'
  <2>0. Copies' = copyQ /\ copyQ \subseteq Copies
    BY Zenon, <1>1 DEF Copies
  <2>1. ASSUME NEW k \in Copies'
        PROVE  k.id \in busy' /\ inRam'[k.id] = k.src /\ inVram'[k.id] = 0
               /\ vramOwner'[k.dst] = k.id /\ ~Copied(k.id)'
    <3>1. k.id \in busy /\ inRam[k.id] = k.src /\ inVram[k.id] = 0 /\ vramOwner[k.dst] = k.id
          /\ ~Copied(k.id) /\ k.id # copying.id
      BY Zenon, <2>0 DEF Slots, CopiesOwn
    <3> QED
      BY Zenon, <1>1, <1>4, <3>1 DEF WorkerFrame
  <2>2. ASSUME NEW k \in copyQ' PROVE k.id # copying'.id
    <3>1. k.id \in Expert
      BY Zenon, <1>1, <2>0, JobsTyped
    <3> QED
      BY Zenon, <1>1, <3>1, NoJobFacts
  <2>3. ASSUME NEW y \in Expert, Copied(y)'
        PROVE  y \in busy' /\ inRam'[y] # 0 /\ inVram'[y] = 0
               /\ \E t \in VramSlot : vramOwner'[t] = y /\ vramMem'[t] = y
    <3>1. CASE y = copying.id
      BY Zenon, <1>1, <1>2, <1>3, <1>a, <3>1 DEF WorkerFrame
    <3>2. CASE y # copying.id
      <4>1. y \in busy /\ inRam[y] # 0 /\ inVram[y] = 0
            /\ \E t \in VramSlot : vramOwner[t] = y /\ vramMem[t] = y
        BY Zenon, <1>4, <2>3, <3>2 DEF Slots, CopiesOwn
      <4>2. PICK t \in VramSlot : vramOwner[t] = y /\ vramMem[t] = y
        BY Zenon, <4>1
      <4>3. vramMem'[t] = y
        BY Zenon, <1>2, <1>3, <3>2, <4>2
      <4> QED
        BY Zenon, <1>1, <4>1, <4>2, <4>3 DEF WorkerFrame
    <3> QED
      BY Zenon, <3>1, <3>2
  <2> QED
    BY Zenon, <2>1, <2>2, <2>3 DEF CopiesOwn
<1> QED
  BY Zenon, <1>1, <1>6, <1>7, <1>8, <1>9, WorkerKeeps DEF Slots

\* A step that touches no slot.
LEMMA SlotsSame ==
  ASSUME Slots, DataSame
  PROVE  Slots'
<1>1. /\ WorkerFrame /\ UNCHANGED <<fetchQ, copyQ, doneQ, fetching, copying, ramMem, vramMem>>
  BY Zenon DEF DataSame, WorkerFrame, maps, workers
<1>2. Typed'
  BY Zenon, <1>1 DEF Slots, Typed, WorkerFrame
<1>3. MapsWhole'
  BY Zenon, <1>1 DEF Slots, MapsWhole, WorkerFrame
<1>4. FetchesOwn' /\ CopiesOwn'
  BY Zenon, <1>1, FetchesSame, CopiesSame DEF Fetched, Copied
<1> QED
  BY Zenon, <1>1, <1>2, <1>3, <1>4, WorkerKeeps DEF Slots

-----------------------------------------------------------------------------
(* The layers.                                                             *)

LayerPhases == {"pick", "route", "running", "load", "loading", "computing"}
ColdPhases == {"running", "load", "loading", "computing"}

\* Nothing was done for e yet.
Untouched(e) ==
  e \notin busy /\ (\A s \in RamSlot : ramOwner[s] # e) /\ (\A s \in VramSlot : vramOwner[s] # e)

\* What runs, and what was chosen to run, is protected by this tick.
ReadsKept ==
  /\ \A e \in DOMAIN gpuReads : e \in Expert /\ e \in used /\ inVram[e] # 0 /\ gpuReads[e] = inVram[e]
  /\ \A e \in DOMAIN cpuReads : e \in Expert /\ e \in used /\ inRam[e] # 0 /\ cpuReads[e] = inRam[e]

ChosenKept ==
  phase \in LayerPhases =>
    \A e \in chosen : e \in Expert /\ e \in used /\ (Resident(e) \/ e \in busy)

\* A cold expert comes to RAM, never to VRAM, before it ran.
ColdInRam ==
  /\ phase \in ColdPhases =>
       cold \subseteq chosen /\ \A e \in cold : \A s \in VramSlot : vramOwner[s] # e
  /\ phase \in {"loading", "computing"} => target \in cold
  /\ phase # "lost"

\* The router's order is of experts.
RankingTyped ==
  /\ phase = "pick" => /\ ranking \in [1..Reach -> Expert]
                       /\ rank \in Nat \ {0}
  /\ asked \in Seq(Expert)

\* The preload list holds each expert once, and what is left of it was not
\* started.
HotUntouched ==
  /\ hot \in Seq(Expert) /\ IsInjective(hot)
  /\ phase = "preload" => \A i \in 1..Len(hot) : Untouched(hot[i])
  /\ phase \in {"preloading", "promoting"} =>
       Len(hot) > 0 /\ \A i \in 2..Len(hot) : Untouched(hot[i])
  /\ phase = "preloading" => \A s \in VramSlot : vramOwner[s] # hot[1]

Control == DemandTyped /\ ReadsKept /\ ChosenKept /\ ColdInRam /\ RankingTyped /\ HotUntouched

ResidencyInv == Slots /\ Control

-----------------------------------------------------------------------------
(* What a step leaves of the experts chosen in this tick.                  *)

NoVram(e) == \A s \in VramSlot : vramOwner[s] # e

\* A step that starts fetches of F and promotions of P.
Kept(F, P) ==
  /\ \A e \in Expert : e \in used =>
       /\ inRam[e] # 0 => inRam'[e] = inRam[e]
       /\ inVram[e] # 0 => inVram'[e] = inVram[e]
       /\ Resident(e) \/ e \in busy => Resident(e)' \/ e \in busy'
  /\ \A e \in Expert : e \notin F /\ e \notin P /\ Untouched(e) => Untouched(e)'
  /\ \A e \in Expert : e \notin P /\ NoVram(e) => NoVram(e)'

\* Workers evict nothing.
LEMMA KeptFrame ==
  ASSUME WorkerFrame, NEW F, NEW P
  PROVE  Kept(F, P)
BY Zenon DEF WorkerFrame, Kept, Resident, Untouched, NoVram

\* start_fetch evicts what is neither busy nor chosen in this tick.
LEMMA KeptFetch ==
  ASSUME Slots, NEW e, NEW s, FetchOf(e, s)
  PROVE  Kept({e}, {}) /\ e \in Expert /\ e \in busy'
<1>1. /\ UNCHANGED <<inVram, vramOwner, vramFree, copyQ, doneQ, fetching, copying, ramMem, vramMem>>
      /\ ramOwner' \in [RamSlot -> Expert \cup {NoExpert}] /\ ramOwner'[s] = e
      /\ \A t \in RamSlot : t # s => ramOwner'[t] = ramOwner[t]
      /\ \A t \in RamSlot : ramOwner[t] # e
      /\ ramOwner[s] \notin busy \/ ramOwner[s] = NoExpert
      /\ ramOwner[s] \notin used \/ ramOwner[s] = NoExpert
      /\ inRam' \in [Expert -> RamSlot \cup {0}]
      /\ \A y \in Expert : y # ramOwner[s] => inRam'[y] = inRam[y]
      /\ \A y \in Expert : y = ramOwner[s] => inRam'[y] = 0
      /\ busy' = busy \cup {e} /\ ramFree' = ramFree \ {s}
      /\ fetchQ' = fetchQ \cup {[id |-> e, slot |-> s]}
  BY Zenon, FetchEffect
<1>3. e \in Expert /\ s \in RamSlot /\ NoExpert \notin Expert
  BY Zenon, NoJobFacts DEF FetchOf
<1>4. ASSUME NEW y \in Expert, y \in used
      PROVE  inRam'[y] = inRam[y] /\ inVram'[y] = inVram[y]
  BY Zenon, <1>1, <1>3, <1>4
<1>5. ASSUME NEW y \in Expert, y # e, Untouched(y) PROVE Untouched(y)'
  <2>1. \A t \in RamSlot : ramOwner'[t] # y
    BY Zenon, <1>1, <1>5 DEF Untouched
  <2> QED
    BY Zenon, <1>1, <1>5, <2>1 DEF Untouched
<1>6. ASSUME NEW y \in Expert, y \in used, Resident(y) \/ y \in busy PROVE Resident(y)' \/ y \in busy'
  BY Zenon, <1>1, <1>4, <1>6 DEF Resident
<1>7. ASSUME NEW y \in Expert, NoVram(y) PROVE NoVram(y)'
  BY Zenon, <1>1, <1>7 DEF NoVram
<1> QED
  BY Zenon, <1>1, <1>3, <1>4, <1>5, <1>6, <1>7 DEF Kept

\* So does start_promote.
LEMMA KeptPromote ==
  ASSUME Slots, NEW e, NEW s, PromoteOf(e, s)
  PROVE  Kept({}, {e}) /\ e \in Expert
<1>1. /\ UNCHANGED <<inRam, ramOwner, ramFree, fetchQ, doneQ, fetching, copying, ramMem, vramMem>>
      /\ vramOwner' \in [VramSlot -> Expert \cup {NoExpert}] /\ vramOwner'[s] = e
      /\ \A t \in VramSlot : t # s => vramOwner'[t] = vramOwner[t]
      /\ \A t \in VramSlot : vramOwner[t] # e
      /\ vramOwner[s] \notin busy \/ vramOwner[s] = NoExpert
      /\ vramOwner[s] \notin used \/ vramOwner[s] = NoExpert
      /\ inVram' \in [Expert -> VramSlot \cup {0}]
      /\ \A y \in Expert : y # vramOwner[s] => inVram'[y] = inVram[y]
      /\ \A y \in Expert : y = vramOwner[s] => inVram'[y] = 0
      /\ busy' = busy \cup {e} /\ vramFree' = vramFree \ {s}
      /\ copyQ' = copyQ \cup {[id |-> e, src |-> inRam[e], dst |-> s]}
  BY Zenon, PromoteEffect
<1>3. e \in Expert /\ s \in VramSlot /\ NoExpert \notin Expert
  BY Zenon, NoJobFacts DEF PromoteOf
<1>4. ASSUME NEW y \in Expert, y \in used
      PROVE  inRam'[y] = inRam[y] /\ inVram'[y] = inVram[y]
  BY Zenon, <1>1, <1>3, <1>4
<1>5. ASSUME NEW y \in Expert, y # e, NoVram(y) PROVE NoVram(y)'
  BY Zenon, <1>1, <1>5 DEF NoVram
<1>6. ASSUME NEW y \in Expert, y # e, Untouched(y) PROVE Untouched(y)'
  <2>1. NoVram(y)'
    BY Zenon, <1>5, <1>6 DEF NoVram, Untouched
  <2> QED
    BY Zenon, <1>1, <1>6, <2>1 DEF Untouched, NoVram
<1>7. ASSUME NEW y \in Expert, y \in used, Resident(y) \/ y \in busy PROVE Resident(y)' \/ y \in busy'
  BY Zenon, <1>1, <1>4, <1>7 DEF Resident
<1> QED
  BY Zenon, <1>3, <1>4, <1>5, <1>6, <1>7 DEF Kept

\* adopt only adds to the maps.
LEMMA KeptAdopt ==
  ASSUME Slots, NEW D, Adopts(D)
  PROVE  Kept({}, {})
<1>1. vramOwner' = vramOwner /\ ramOwner' = ramOwner
  BY Zenon, AdoptEffect
<1>2. \A e \in Expert : <<"fetched", e>> \in D => Fetched(e) /\ inRam'[e] \in RamSlot
  BY Zenon, AdoptEffect
<1>3. \A e \in Expert : <<"copied", e>> \in D => Copied(e) /\ inVram'[e] \in VramSlot
  BY Zenon, AdoptEffect
<1>4. /\ \A e \in Expert : <<"fetched", e>> \notin D => inRam'[e] = inRam[e]
      /\ \A e \in Expert : <<"copied", e>> \notin D => inVram'[e] = inVram[e]
  BY Zenon, AdoptEffect
<1>5. \A e \in Expert : <<"fetched", e>> \notin D /\ <<"copied", e>> \notin D =>
        (e \in busy' <=> e \in busy)
  BY Zenon, AdoptEffect
<1>6. \A e \in Expert : (Fetched(e) => inRam[e] = 0 /\ e \in busy)
                        /\ (Copied(e) => inVram[e] = 0 /\ e \in busy)
  BY Zenon DEF Slots, FetchesOwn, CopiesOwn
<1>7. 0 \notin RamSlot /\ 0 \notin VramSlot
  BY Zenon, SlotFacts
<1>8. ASSUME NEW e \in Expert
      PROVE  /\ inRam[e] # 0 => inRam'[e] = inRam[e]
             /\ inVram[e] # 0 => inVram'[e] = inVram[e]
  BY Zenon, <1>2, <1>3, <1>4, <1>6
<1>9. ASSUME NEW e \in Expert, Resident(e) \/ e \in busy PROVE Resident(e)' \/ e \in busy'
  <2>1. CASE <<"fetched", e>> \in D
    BY Zenon, <1>2, <1>7, <2>1 DEF Resident
  <2>2. CASE <<"copied", e>> \in D
    BY Zenon, <1>3, <1>7, <2>2 DEF Resident
  <2>3. CASE <<"fetched", e>> \notin D /\ <<"copied", e>> \notin D
    BY Zenon, <1>4, <1>5, <1>9, <2>3 DEF Resident
  <2> QED
    BY Zenon, <2>1, <2>2, <2>3
<1>10. ASSUME NEW e \in Expert, Untouched(e) PROVE Untouched(e)'
  <2>1. e \notin busy'
    BY Zenon, <1>2, <1>3, <1>5, <1>6, <1>10 DEF Untouched
  <2> QED
    BY Zenon, <1>1, <1>10, <2>1 DEF Untouched
<1>11. ASSUME NEW e \in Expert, NoVram(e) PROVE NoVram(e)'
  BY Zenon, <1>1, <1>11 DEF NoVram
<1> QED
  BY Zenon, <1>8, <1>9, <1>10, <1>11 DEF Kept

\* An expert nothing was done for is nowhere.
LEMMA UntouchedFacts ==
  ASSUME Slots, NEW e \in Expert, Untouched(e)
  PROVE  inRam[e] = 0 /\ inVram[e] = 0 /\ e \notin busy /\ NoVram(e)
BY Zenon, MapFacts DEF Untouched, NoVram

\* load_now starts a fetch, or waits for one, or gives up.
LEMMA LoadNow ==
  ASSUME Slots, DemandTyped, NEW e \in Expert, NEW w, NEW f, load_now(e, w, f),
         UNCHANGED <<doneQ, workers>>
  PROVE  \/ DataSame /\ ((phase' = w /\ (Resident(e) \/ e \in busy)) \/ phase' = f)
         \/ phase' = w /\ \E s : FetchOf(e, s)
<1>1. CASE Resident(e) \/ e \in busy
  <2>1. phase' = w /\ UNCHANGED <<maps, work>>
    BY Zenon, <1>1 DEF load_now
  <2> QED
    BY Zenon, <1>1, <2>1 DEF DataSame, work
<1>2. CASE ~(Resident(e) \/ e \in busy)
  <2>1. PICK s : /\ take_ram_slot(Unlimited, s)
                 /\ IF s = 0 THEN phase' = f /\ UNCHANGED <<maps, work>>
                    ELSE phase' = w /\ start_fetch(e, s)
    BY Zenon, <1>2 DEF load_now
  <2>2. CASE s = 0
    BY Zenon, <2>1, <2>2 DEF DataSame, work
  <2>3. CASE s # 0
    <3>1. s \in RamSlot /\ (s \in ramFree \/ Evictable(ramOwner[s]))
      BY Zenon, <2>1, <2>3, RamSlotTaken DEF Slots
    <3>2. FetchOf(e, s)
      BY Zenon, <1>2, <2>1, <2>3, <3>1 DEF FetchOf, Resident
    <3> QED
      BY Zenon, <2>1, <2>3, <3>2
  <2> QED
    BY Zenon, <2>2, <2>3
<1> QED
  BY Zenon, <1>1, <1>2

\* What load_now leaves behind.
LEMMA LoadKept ==
  ASSUME Slots, DemandTyped, NEW e \in Expert, NEW w, NEW f, load_now(e, w, f),
         UNCHANGED <<doneQ, workers>>
  PROVE  /\ Kept({e}, {}) /\ Slots'
         /\ phase' = w \/ phase' = f
         /\ phase' = f \/ Resident(e)' \/ e \in busy'
<1>1. CASE DataSame /\ ((phase' = w /\ (Resident(e) \/ e \in busy)) \/ phase' = f)
  <2>1. WorkerFrame
    BY Zenon, <1>1 DEF DataSame, WorkerFrame, maps
  <2>2. Slots'
    BY Zenon, <1>1, SlotsSame
  <2>3. Resident(e) \/ e \in busy => Resident(e)' \/ e \in busy'
    BY Zenon, <2>1 DEF WorkerFrame, Resident
  <2> QED
    BY Zenon, <1>1, <2>1, <2>2, <2>3, KeptFrame
<1>2. CASE phase' = w /\ \E s : FetchOf(e, s)
  BY Zenon, <1>2, KeptFetch, FetchKeepsSlots
<1> QED
  BY Zenon, <1>1, <1>2, LoadNow

-----------------------------------------------------------------------------
(* What a step leaves of the model thread's invariants.                    *)

\* Reading nothing.
LEMMA NoReadsEmpty == DOMAIN NoReads = {}
BY Zenon DEF NoReads

\* A layer's reads stay what the maps say until the next tick.
LEMMA ReadsFrame ==
  ASSUME ReadsKept, NEW F, NEW P, Kept(F, P), used \subseteq used', gpuReads' = gpuReads,
         cpuReads' = cpuReads \/ cpuReads' = NoReads
  PROVE  ReadsKept'
<1>1. ASSUME NEW e \in DOMAIN gpuReads
      PROVE  e \in Expert /\ e \in used' /\ inVram'[e] # 0 /\ gpuReads[e] = inVram'[e]
  BY Zenon DEF ReadsKept, Kept
<1>2. ASSUME NEW e \in DOMAIN cpuReads
      PROVE  e \in Expert /\ e \in used' /\ inRam'[e] # 0 /\ cpuReads[e] = inRam'[e]
  BY Zenon DEF ReadsKept, Kept
<1>3. CASE cpuReads' = cpuReads
  BY Zenon, <1>1, <1>2, <1>3 DEF ReadsKept
<1>4. CASE cpuReads' = NoReads
  <2>1. DOMAIN cpuReads' = {}
    BY Zenon, <1>4, NoReadsEmpty
  <2> QED
    BY Zenon, <1>1, <2>1 DEF ReadsKept
<1> QED
  BY Zenon, <1>3, <1>4

\* What a layer chose stays in memory or on its way there.
LEMMA ChosenFrame ==
  ASSUME ChosenKept, NEW F, NEW P, Kept(F, P), used \subseteq used', chosen' = chosen,
         phase' \in LayerPhases => phase \in LayerPhases
  PROVE  ChosenKept'
<1>1. ASSUME NEW e \in chosen, phase \in LayerPhases
      PROVE  e \in Expert /\ e \in used' /\ (Resident(e)' \/ e \in busy')
  BY Zenon, <1>1 DEF ChosenKept, Kept
<1> QED
  BY Zenon, <1>1 DEF ChosenKept

\* Where the layer's phases are.
LEMMA PhaseFacts ==
  /\ ColdPhases \subseteq LayerPhases
  /\ {"pick", "route"} \cap ColdPhases = {}
  /\ {"preload", "preloading", "promoting", "idle"} \cap LayerPhases = {}
  /\ {"preload", "preloading", "promoting"} \cap {"pick", "route", "running", "load", "loading",
        "computing", "idle", "lost"} = {}
BY DEF ColdPhases, LayerPhases

\* A cold expert owns no VRAM slot as long as nobody promotes it.
LEMMA ColdFrame ==
  ASSUME ColdInRam, ChosenKept, NEW F, Kept(F, {}), phase \in ColdPhases, NEW e \in cold
  PROVE  e \in Expert /\ NoVram(e)'
<1>1. e \in Expert
  BY Zenon, PhaseFacts DEF ColdInRam, ChosenKept
<1>2. NoVram(e)
  BY Zenon DEF ColdInRam, NoVram
<1> QED
  BY Zenon, <1>1, <1>2 DEF Kept

\* The workers, and the adoption of their results, change nothing the model
\* thread decided.
LEMMA QuietControl ==
  ASSUME Control, Kept({}, {}), UNCHANGED <<demand, used, phase, hot, token, layer, reads>>
  PROVE  Control'
<1>1. UNCHANGED <<demand, used, phase, hot, ranking, rank, chosen, asked, cold, target, gpuReads, cpuReads>>
  BY Zenon DEF token, layer, reads
<1>2. DemandTyped' /\ RankingTyped'
  BY Zenon, <1>1 DEF Control, DemandTyped, RankingTyped
<1>3. ReadsKept' /\ ChosenKept'
  BY Zenon, <1>1, ReadsFrame, ChosenFrame DEF Control
<1>4. ColdInRam'
  <2>1. ASSUME phase \in ColdPhases, NEW e \in cold PROVE \A s \in VramSlot : vramOwner'[s] # e
    BY Zenon, <2>1, ColdFrame DEF Control, NoVram
  <2> QED
    BY Zenon, <1>1, <2>1 DEF Control, ColdInRam
<1>5. HotUntouched'
  <2>1. hot \in Seq(Expert)
    BY Zenon DEF Control, HotUntouched
  <2>2. \A i \in 1..Len(hot) : hot[i] \in Expert
    BY <2>1
  <2>3. \A i \in 2..Len(hot) : hot[i] \in Expert
    BY <2>1
  <2>4. ASSUME phase = "preload" PROVE \A i \in 1..Len(hot) : Untouched(hot[i])'
    BY Zenon, <2>2, <2>4 DEF Control, HotUntouched, Kept
  <2>5. ASSUME phase \in {"preloading", "promoting"} PROVE \A i \in 2..Len(hot) : Untouched(hot[i])'
    BY Zenon, <2>3, <2>5 DEF Control, HotUntouched, Kept
  <2>6. ASSUME phase = "preloading" PROVE \A s \in VramSlot : vramOwner'[s] # hot[1]
    <3>1. Len(hot) > 0 /\ NoVram(hot[1])
      BY Zenon, <2>6 DEF Control, HotUntouched, NoVram
    <3>2. hot[1] \in Expert
      BY <2>1, <3>1
    <3> QED
      BY Zenon, <3>1, <3>2 DEF Kept, NoVram
  <2> QED
    BY Zenon, <1>1, <2>4, <2>5, <2>6 DEF Control, HotUntouched
<1> QED
  BY Zenon, <1>2, <1>3, <1>4, <1>5 DEF Control

\* Of a preload list, the rest.
LEMMA RestOfHot ==
  ASSUME NEW h \in Seq(Expert), IsInjective(h), Len(h) > 0
  PROVE  /\ Head(h) = h[1] /\ h[1] \in Expert
         /\ Tail(h) \in Seq(Expert) /\ IsInjective(Tail(h))
         /\ \A i \in 1..Len(Tail(h)) : i + 1 \in 2..Len(h) /\ Tail(h)[i] = h[i + 1]
         /\ \A i \in 2..Len(h) : i \in 1..Len(h) /\ h[i] \in Expert /\ h[i] # h[1]
<1>1. DOMAIN h = 1..Len(h) /\ 1 \in 1..Len(h)
  OBVIOUS
<1>2. \A i, j \in 1..Len(h) : h[i] = h[j] => i = j
  BY Zenon, <1>1 DEF IsInjective
<1>3. /\ Head(h) = h[1] /\ h[1] \in Expert
      /\ Tail(h) \in Seq(Expert)
      /\ \A i \in 1..Len(Tail(h)) : i + 1 \in 2..Len(h) /\ Tail(h)[i] = h[i + 1]
  OBVIOUS
<1>4. \A i \in 2..Len(h) : i \in 1..Len(h) /\ i # 1 /\ h[i] \in Expert
  OBVIOUS
<1>5. \A i \in 2..Len(h) : h[i] # h[1]
  BY Zenon, <1>1, <1>2, <1>4
<1>6. IsInjective(Tail(h))
  <2>1. DOMAIN Tail(h) = 1..Len(Tail(h))
    BY <1>3
  <2>2. ASSUME NEW i \in 1..Len(Tail(h)), NEW j \in 1..Len(Tail(h)), Tail(h)[i] = Tail(h)[j]
        PROVE  i = j
    <3>1. i + 1 \in 1..Len(h) /\ j + 1 \in 1..Len(h)
      BY Zenon, <1>3, <1>4
    <3>2. h[i + 1] = h[j + 1]
      BY Zenon, <1>3, <2>2
    <3>3. i + 1 = j + 1
      BY Zenon, <1>2, <3>1, <3>2
    <3> QED
      BY <3>3
  <2> QED
    BY Zenon, <2>1, <2>2 DEF IsInjective
<1> QED
  BY Zenon, <1>3, <1>4, <1>5, <1>6

-----------------------------------------------------------------------------
(* The steps of preload.                                                   *)

\* Outside the layers, only what the list says and what is read matters.
LEMMA PreloadControl ==
  ASSUME Control, NEW F, NEW P, Kept(F, P), phase' \in {"preload", "preloading", "promoting", "idle"},
         UNCHANGED <<used, token, layer, reads>>, DemandTyped', HotUntouched'
  PROVE  Control'
<1>1. UNCHANGED <<used, ranking, rank, chosen, asked, cold, target, gpuReads, cpuReads>>
  BY Zenon DEF token, layer, reads
<1>2. phase' \notin LayerPhases /\ phase' \notin ColdPhases /\ phase' \notin {"loading", "computing"}
      /\ phase' # "lost" /\ phase' # "pick"
  BY DEF LayerPhases, ColdPhases
<1>3. RankingTyped'
  BY Zenon, <1>1, <1>2 DEF Control, RankingTyped
<1>4. ReadsKept'
  BY Zenon, <1>1, ReadsFrame DEF Control
<1>5. ChosenKept'
  BY Zenon, <1>2 DEF ChosenKept
<1>6. ColdInRam'
  BY Zenon, <1>2 DEF ColdInRam
<1> QED
  BY Zenon, <1>3, <1>4, <1>5, <1>6 DEF Control

\* Setting an expert's demand.
LEMMA DemandSet ==
  ASSUME DemandTyped, NEW e \in Expert, demand' = [demand EXCEPT ![e] = PromoteAfter]
  PROVE  DemandTyped'
<1>1. PromoteAfter \in Nat
  BY Zenon, ResidencyAssumption
<1> QED
  BY Zenon, <1>1 DEF DemandTyped

\* The head of the list, and the rest.
LEMMA HotFacts ==
  ASSUME HotUntouched, Len(hot) > 0, phase \in {"preload", "preloading", "promoting"}
  PROVE  /\ Head(hot) = hot[1] /\ hot[1] \in Expert
         /\ \A i \in 2..Len(hot) : hot[i] \in Expert /\ hot[i] # hot[1] /\ Untouched(hot[i])
         /\ phase = "preload" => Untouched(hot[1])
<1>1. hot \in Seq(Expert) /\ IsInjective(hot)
  BY Zenon DEF HotUntouched
<1>2. /\ Head(hot) = hot[1] /\ hot[1] \in Expert
      /\ \A i \in 2..Len(hot) : i \in 1..Len(hot) /\ hot[i] \in Expert /\ hot[i] # hot[1]
  BY Zenon, <1>1, RestOfHot
<1>3. 1 \in 1..Len(hot)
  BY <1>1
<1>4. \A i \in 2..Len(hot) : Untouched(hot[i])
  <2>1. CASE phase = "preload"
    BY Zenon, <1>2, <2>1 DEF HotUntouched
  <2>2. CASE phase \in {"preloading", "promoting"}
    BY Zenon, <2>2 DEF HotUntouched
  <2> QED
    BY Zenon, <2>1, <2>2
<1> QED
  BY Zenon, <1>2, <1>3, <1>4 DEF HotUntouched

\* What a step for the head leaves of the rest.
LEMMA RestKept ==
  ASSUME NEW e, NEW F, NEW P, Kept(F, P), F \subseteq {e}, P \subseteq {e}, hot' = hot,
         \A i \in 2..Len(hot) : hot[i] \in Expert /\ hot[i] # e /\ Untouched(hot[i])
  PROVE  \A i \in 2..Len(hot) : Untouched(hot[i])'
<1>1. ASSUME NEW y \in Expert, y # e, Untouched(y) PROVE Untouched(y)'
  BY Zenon, <1>1 DEF Kept
<1>2. ASSUME NEW i \in 2..Len(hot) PROVE Untouched(hot[i])'
  <2> PICK y \in Expert : y = hot[i]
    BY Zenon
  <2>1. Untouched(y)'
    BY Zenon, <1>1
  <2> QED
    BY Zenon, <2>1
<1> QED
  BY Zenon, <1>2

\* preload's load_now of the hottest expert left.
LEMMA PreloadLoadKeeps ==
  ASSUME ResidencyInv, PreloadLoad
  PROVE  ResidencyInv'
<1>1. /\ phase = "preload" /\ Len(hot) > 0 /\ demand' = [demand EXCEPT ![Head(hot)] = PromoteAfter]
      /\ load_now(Head(hot), "preloading", "idle")
      /\ UNCHANGED <<used, doneQ, workers, hot, token, layer, reads>>
  BY Zenon DEF PreloadLoad, PreloadingVram
<1>2. Slots /\ Control /\ HotUntouched /\ DemandTyped
  BY Zenon DEF ResidencyInv, Control
<1>3. /\ Head(hot) = hot[1] /\ hot[1] \in Expert
      /\ \A i \in 2..Len(hot) : hot[i] \in Expert /\ hot[i] # hot[1] /\ Untouched(hot[i])
      /\ phase = "preload" => Untouched(hot[1])
  BY Zenon, <1>1, <1>2, HotFacts
<1> PICK e \in Expert : e = hot[1]
  BY Zenon, <1>3
<1>a. load_now(e, "preloading", "idle") /\ demand' = [demand EXCEPT ![e] = PromoteAfter]
  BY Zenon, <1>1, <1>3
<1>b. \A i \in 2..Len(hot) : hot[i] \in Expert /\ hot[i] # e /\ Untouched(hot[i])
  BY Zenon, <1>3
<1>c. Untouched(e)
  BY Zenon, <1>1, <1>3
<1>4. /\ Kept({e}, {}) /\ Slots'
      /\ phase' = "preloading" \/ phase' = "idle"
  BY Zenon, <1>1, <1>2, <1>a, LoadKept
<1>5. DemandTyped'
  BY Zenon, <1>2, <1>a, DemandSet
<1>6. HotUntouched'
  <2>1. \A i \in 2..Len(hot) : Untouched(hot[i])'
    BY Zenon, <1>1, <1>4, <1>b, RestKept
  <2>2. NoVram(e)
    BY Zenon, <1>2, <1>c, UntouchedFacts
  <2>3. \A s \in VramSlot : vramOwner'[s] # hot[1]
    BY Zenon, <1>4, <2>2 DEF Kept, NoVram
  <2>4. phase' # "preload"
    BY <1>4
  <2> QED
    BY Zenon, <1>1, <1>2, <2>1, <2>3, <2>4 DEF HotUntouched
<1>7. phase' \in {"preload", "preloading", "promoting", "idle"}
  BY Zenon, <1>4
<1> QED
  BY Zenon, <1>1, <1>2, <1>4, <1>5, <1>6, <1>7, PreloadControl DEF ResidencyInv

\* An expert in RAM that owns no VRAM slot has no job.
LEMMA RamOnly ==
  ASSUME Slots, NEW e \in Expert, NoVram(e), Resident(e)
  PROVE  inVram[e] = 0 /\ inRam[e] # 0 /\ e \notin busy
<1>1. inVram[e] = 0
  BY Zenon, MapFacts DEF NoVram
<1>2. inRam[e] # 0
  BY Zenon, <1>1 DEF Resident
<1>3. e \notin busy
  BY Zenon, <1>2 DEF Slots, OwnersBusy, NoVram
<1> QED
  BY Zenon, <1>1, <1>2, <1>3

\* A promotion, or none.
LEMMA PromoteKept ==
  ASSUME Slots, NEW e \in Expert, inVram[e] = 0, inRam[e] # 0, e \notin busy, NEW d,
         try_promote(e, d), UNCHANGED <<doneQ, workers>>
  PROVE  Kept({}, {e}) /\ Slots'
<1>1. PICK s : /\ take_vram_slot(d, s)
               /\ IF s = 0 THEN UNCHANGED <<maps, work>> ELSE start_promote(e, s)
  BY Zenon DEF try_promote
<1>2. CASE s = 0
  <2>1. DataSame /\ WorkerFrame
    BY Zenon, <1>1, <1>2 DEF DataSame, WorkerFrame, maps, work
  <2> QED
    BY Zenon, <2>1, KeptFrame, SlotsSame
<1>3. CASE s # 0
  <2>1. s \in VramSlot /\ (s \in vramFree \/ Evictable(vramOwner[s]))
    BY Zenon, <1>1, <1>3, VramSlotTaken DEF Slots
  <2>2. PromoteOf(e, s)
    BY Zenon, <1>1, <1>3, <2>1 DEF PromoteOf
  <2> QED
    BY Zenon, <2>2, KeptPromote, PromoteKeepsSlots
<1> QED
  BY Zenon, <1>2, <1>3

\* A fetch, or none.
LEMMA FetchKept ==
  ASSUME Slots, NEW e \in Expert, inRam[e] = 0, e \notin busy, NEW d,
         try_fetch(e, d), UNCHANGED <<doneQ, workers>>
  PROVE  Kept({e}, {}) /\ Slots'
<1>1. PICK s : /\ take_ram_slot(d, s)
               /\ IF s = 0 THEN UNCHANGED <<maps, work>> ELSE start_fetch(e, s)
  BY Zenon DEF try_fetch
<1>2. CASE s = 0
  <2>1. DataSame /\ WorkerFrame
    BY Zenon, <1>1, <1>2 DEF DataSame, WorkerFrame, maps, work
  <2> QED
    BY Zenon, <2>1, KeptFrame, SlotsSame
<1>3. CASE s # 0
  <2>1. s \in RamSlot /\ (s \in ramFree \/ Evictable(ramOwner[s]))
    BY Zenon, <1>1, <1>3, RamSlotTaken DEF Slots
  <2>2. FetchOf(e, s)
    BY Zenon, <1>1, <1>3, <2>1 DEF FetchOf
  <2> QED
    BY Zenon, <2>2, KeptFetch, FetchKeepsSlots
<1> QED
  BY Zenon, <1>2, <1>3

\* preload's promotion of the hottest expert left: it waited for RAM alone.
LEMMA PreloadPromoteKeeps ==
  ASSUME ResidencyInv, PreloadPromote
  PROVE  ResidencyInv'
<1>1. /\ phase = "preloading" /\ Resident(Head(hot)) /\ phase' = "promoting"
      /\ try_promote(Head(hot), demand[Head(hot)])
      /\ UNCHANGED <<demand, used, doneQ, workers, hot, token, layer, reads>>
  BY Zenon DEF PreloadPromote
<1>2. Slots /\ Control /\ HotUntouched /\ DemandTyped
  BY Zenon DEF ResidencyInv, Control
<1>3. Len(hot) > 0 /\ NoVram(hot[1])
  BY Zenon, <1>1, <1>2 DEF HotUntouched, NoVram
<1>4. /\ Head(hot) = hot[1] /\ hot[1] \in Expert
      /\ \A i \in 2..Len(hot) : hot[i] \in Expert /\ hot[i] # hot[1] /\ Untouched(hot[i])
      /\ phase = "preload" => Untouched(hot[1])
  BY Zenon, <1>1, <1>2, <1>3, HotFacts
<1> PICK e \in Expert : e = hot[1]
  BY Zenon, <1>4
<1> PICK d : d = demand[hot[1]]
  BY Zenon
<1>5. try_promote(e, d) /\ Resident(e)
  BY Zenon, <1>1, <1>4
<1>6. \A i \in 2..Len(hot) : hot[i] \in Expert /\ hot[i] # e /\ Untouched(hot[i])
  BY Zenon, <1>4
<1>7. inVram[e] = 0 /\ inRam[e] # 0 /\ e \notin busy
  BY Zenon, <1>2, <1>3, <1>5, RamOnly
<1>8. Kept({}, {e}) /\ Slots'
  BY Zenon, <1>1, <1>2, <1>5, <1>7, PromoteKept
<1>9. \A i \in 2..Len(hot) : Untouched(hot[i])'
  BY Zenon, <1>1, <1>6, <1>8, RestKept
<1>10. phase' # "preload" /\ phase' # "preloading"
  BY <1>1
<1>11. HotUntouched'
  BY Zenon, <1>1, <1>2, <1>3, <1>9, <1>10 DEF HotUntouched
<1>12. DemandTyped' /\ phase' \in {"preload", "preloading", "promoting", "idle"}
  BY Zenon, <1>1, <1>2 DEF DemandTyped
<1> QED
  BY Zenon, <1>1, <1>2, <1>8, <1>11, <1>12, PreloadControl DEF ResidencyInv

\* Going on with the rest of the list.
LEMMA HotTail ==
  ASSUME NEW h \in Seq(Expert), IsInjective(h), Len(h) > 0, hot' = Tail(h), phase' = "preload",
         \A i \in 2..Len(h) : Untouched(h[i])'
  PROVE  HotUntouched'
<1>1. /\ Tail(h) \in Seq(Expert) /\ IsInjective(Tail(h))
      /\ \A i \in 1..Len(Tail(h)) : i + 1 \in 2..Len(h) /\ Tail(h)[i] = h[i + 1]
  BY Zenon, RestOfHot
<1>2. ASSUME NEW i \in 1..Len(Tail(h)) PROVE Untouched(Tail(h)[i])'
  BY Zenon, <1>1
<1>3. \A i \in 1..Len(hot') : Untouched(hot[i])'
  BY Zenon, <1>2
<1>4. phase' \notin {"preloading", "promoting"} /\ phase' # "preloading"
  OBVIOUS
<1> QED
  BY Zenon, <1>1, <1>3, <1>4 DEF HotUntouched

\* preload goes on to the next expert.
LEMMA PreloadNextKeeps ==
  ASSUME ResidencyInv, PreloadNext
  PROVE  ResidencyInv'
<1>1. /\ phase = "promoting" /\ phase' = "preload" /\ hot' = Tail(hot)
      /\ UNCHANGED <<maps, demand, used, work, doneQ, workers, token, layer, reads>>
  BY Zenon DEF PreloadNext
<1>2. Slots /\ Control /\ HotUntouched /\ DemandTyped
  BY Zenon DEF ResidencyInv, Control
<1>3. DataSame /\ WorkerFrame
  BY Zenon, <1>1 DEF DataSame, WorkerFrame, maps, work
<1>4. Slots' /\ Kept({}, {})
  BY Zenon, <1>2, <1>3, SlotsSame, KeptFrame
<1>5. hot \in Seq(Expert) /\ IsInjective(hot) /\ Len(hot) > 0
      /\ \A i \in 2..Len(hot) : Untouched(hot[i])
  BY Zenon, <1>1, <1>2 DEF HotUntouched
<1> PICK h \in Seq(Expert) : h = hot
  BY Zenon, <1>5
<1>6. \A i \in 2..Len(h) : Untouched(h[i])'
  BY Zenon, <1>3, <1>5 DEF WorkerFrame, Untouched
<1>7. HotUntouched'
  BY Zenon, <1>1, <1>5, <1>6, HotTail
<1>8. DemandTyped' /\ phase' \in {"preload", "preloading", "promoting", "idle"}
  BY Zenon, <1>1, <1>2 DEF DemandTyped
<1> QED
  BY Zenon, <1>1, <1>2, <1>4, <1>7, <1>8, PreloadControl DEF ResidencyInv

\* preload's fetches to RAM, until no slot is left.
LEMMA PreloadFetchKeeps ==
  ASSUME ResidencyInv, PreloadFetch
  PROVE  ResidencyInv'
<1>1. /\ phase = "preload" /\ hot # <<>> /\ demand' = [demand EXCEPT ![Head(hot)] = PromoteAfter]
      /\ \E s \in RamSlot \cup {0} :
           /\ take_ram_slot(Unlimited, s)
           /\ IF s = 0 THEN hot' = <<>> /\ UNCHANGED <<maps, work>>
              ELSE hot' = Tail(hot) /\ start_fetch(Head(hot), s)
      /\ UNCHANGED <<used, doneQ, workers, phase, token, layer, reads>>
  BY Zenon DEF PreloadFetch
<1>2. Slots /\ Control /\ HotUntouched /\ DemandTyped
  BY Zenon DEF ResidencyInv, Control
<1>3. hot \in Seq(Expert) /\ IsInjective(hot)
  BY Zenon, <1>2 DEF HotUntouched
<1> PICK h \in Seq(Expert) : h = hot
  BY Zenon, <1>3
<1>4. Len(h) > 0
  BY <1>1
<1>5. /\ Head(hot) = hot[1] /\ hot[1] \in Expert
      /\ \A i \in 2..Len(hot) : hot[i] \in Expert /\ hot[i] # hot[1] /\ Untouched(hot[i])
      /\ phase = "preload" => Untouched(hot[1])
  BY Zenon, <1>1, <1>2, <1>4, HotFacts
<1> PICK e \in Expert : e = hot[1]
  BY Zenon, <1>5
<1>6. /\ demand' = [demand EXCEPT ![e] = PromoteAfter]
      /\ try_fetch(e, Unlimited)
      /\ hot' = <<>> \/ hot' = Tail(h)
  BY Zenon, <1>1, <1>5 DEF try_fetch
<1>7. Untouched(e) /\ \A i \in 2..Len(h) : h[i] \in Expert /\ h[i] # e /\ Untouched(h[i])
  BY Zenon, <1>1, <1>5
<1>8. inRam[e] = 0 /\ e \notin busy
  BY Zenon, <1>2, <1>7, UntouchedFacts
<1>9. Kept({e}, {}) /\ Slots'
  BY Zenon, <1>1, <1>2, <1>6, <1>8, FetchKept
<1>10. DemandTyped'
  BY Zenon, <1>2, <1>6, DemandSet
<1>11. HotUntouched'
  <2>1. CASE hot' = <<>>
    <3>1. hot' \in Seq(Expert) /\ DOMAIN hot' = {} /\ \A i \in 1..Len(hot') : FALSE
      BY <2>1
    <3>2. IsInjective(hot')
      BY Zenon, <3>1 DEF IsInjective
    <3>3. phase' \notin {"preloading", "promoting"} /\ phase' # "preloading"
      BY <1>1
    <3> QED
      BY Zenon, <3>1, <3>2, <3>3 DEF HotUntouched
  <2>2. CASE hot' = Tail(h)
    <3>1. \A i \in 2..Len(h) : Untouched(h[i])'
      BY Zenon, <1>7, <1>9 DEF Kept
    <3>2. phase' = "preload" /\ IsInjective(h)
      BY Zenon, <1>1, <1>3
    <3> QED
      BY Zenon, <1>4, <2>2, <3>1, <3>2, HotTail
  <2> QED
    BY Zenon, <1>6, <2>1, <2>2
<1>12. phase' \in {"preload", "preloading", "promoting", "idle"}
  BY Zenon, <1>1
<1> QED
  BY Zenon, <1>1, <1>2, <1>9, <1>10, <1>11, <1>12, PreloadControl DEF ResidencyInv

\* The end of preload.
LEMMA PreloadEndKeeps ==
  ASSUME ResidencyInv, PreloadEnd
  PROVE  ResidencyInv'
<1>1. /\ phase' = "idle"
      /\ UNCHANGED <<maps, demand, used, work, doneQ, workers, hot, token, layer, reads>>
  BY Zenon DEF PreloadEnd
<1>2. Slots /\ Control /\ HotUntouched /\ DemandTyped
  BY Zenon DEF ResidencyInv, Control
<1>3. DataSame /\ WorkerFrame
  BY Zenon, <1>1 DEF DataSame, WorkerFrame, maps, work
<1>4. Slots' /\ Kept({}, {})
  BY Zenon, <1>2, <1>3, SlotsSame, KeptFrame
<1>5. phase' \notin {"preload", "preloading", "promoting"}
  BY <1>1
<1>6. HotUntouched'
  BY Zenon, <1>1, <1>2, <1>5 DEF HotUntouched
<1>7. DemandTyped' /\ phase' \in {"preload", "preloading", "promoting", "idle"}
  BY Zenon, <1>1, <1>2 DEF DemandTyped
<1> QED
  BY Zenon, <1>1, <1>2, <1>4, <1>6, <1>7, PreloadControl DEF ResidencyInv

-----------------------------------------------------------------------------
(* The steps of a layer.                                                   *)

AfterPreload == {"idle", "route", "pick", "running", "load", "loading", "computing"}

\* The preload list is done with.
LEMMA LayerHot ==
  ASSUME HotUntouched, hot' = hot, phase' \in AfterPreload
  PROVE  HotUntouched'
<1>1. phase' \notin {"preload", "preloading", "promoting"}
  BY DEF AfterPreload
<1> QED
  BY Zenon, <1>1 DEF HotUntouched

\* Before the layer is launched nothing is cold.
LEMMA NotCold ==
  ASSUME phase' \in {"idle", "route", "pick"}
  PROVE  ColdInRam'
<1>1. phase' \notin ColdPhases /\ phase' \notin {"loading", "computing"} /\ phase' # "lost"
  BY DEF ColdPhases
<1> QED
  BY Zenon, <1>1 DEF ColdInRam

\* A tick starts: the last layer's reads ended, and nothing is chosen yet.
LEMMA BeginLayerKeeps ==
  ASSUME ResidencyInv, BeginLayer
  PROVE  ResidencyInv'
<1>1. /\ adopt(doneQ) /\ UNCHANGED <<workers, hot>>
      /\ gpuReads' = NoReads /\ cpuReads' = NoReads
      /\ phase' = "route" /\ chosen' = {} /\ asked' = <<>>
      /\ demand' = demand \/ demand' = [e \in Expert |-> demand[e] \div 2]
  BY Zenon DEF BeginLayer
<1>2. Slots /\ HotUntouched /\ DemandTyped
  BY Zenon DEF ResidencyInv, Control
<1>3. Slots'
  <2>1. doneQ \subseteq doneQ
    OBVIOUS
  <2>2. Adopts(doneQ)
    BY Zenon, <1>1, <2>1 DEF Adopts
  <2> QED
    BY Zenon, <1>2, <2>2, AdoptKeepsSlots
<1>4. phase' \in AfterPreload /\ phase' \in {"idle", "route", "pick"} /\ phase' # "pick"
  BY <1>1 DEF AfterPreload
<1>5. ReadsKept'
  BY Zenon, <1>1, NoReadsEmpty DEF ReadsKept
<1>6. ChosenKept'
  BY Zenon, <1>1 DEF ChosenKept
<1>7. RankingTyped'
  <2>1. asked' \in Seq(Expert)
    BY <1>1
  <2> QED
    BY Zenon, <1>4, <2>1 DEF RankingTyped
<1>8. DemandTyped'
  <2>1. CASE demand' = demand
    BY Zenon, <1>2, <2>1 DEF DemandTyped
  <2>2. CASE demand' = [e \in Expert |-> demand[e] \div 2]
    <3>1. \A n \in Nat : n \div 2 \in Nat
      OBVIOUS
    <3> QED
      BY Zenon, <1>2, <2>2, <3>1 DEF DemandTyped
  <2> QED
    BY Zenon, <1>1, <2>1, <2>2
<1>9. HotUntouched' /\ ColdInRam'
  BY Zenon, <1>1, <1>2, <1>4, LayerHot, NotCold
<1> QED
  BY Zenon, <1>3, <1>5, <1>6, <1>7, <1>8, <1>9 DEF ResidencyInv, Control

\* The head of a ranking.
LEMMA HeadOfRanking ==
  ASSUME NEW n \in Nat, NEW m \in Nat, m <= n, NEW r \in [1..n -> Expert]
  PROVE  SubSeq(r, 1, m) \in [1..m -> Expert] /\ SubSeq(r, 1, m) \in Seq(Expert)
<1>1. r \in Seq(Expert) /\ Len(r) = n
  OBVIOUS
<1>2. SubSeq(r, 1, m) \in Seq(Expert) /\ Len(SubSeq(r, 1, m)) = m
  BY <1>1
<1>3. \A q \in Seq(Expert) : q \in [1..Len(q) -> Expert]
  OBVIOUS
<1>4. SubSeq(r, 1, m) \in [1..Len(SubSeq(r, 1, m)) -> Expert]
  BY Zenon, <1>2, <1>3
<1> QED
  BY Zenon, <1>2, <1>4

\* What the router reaches.
LEMMA ReachFacts ==
  /\ Cardinality(Expert) \in Nat /\ Active \in Nat \ {0} /\ Active <= Cardinality(Expert)
  /\ Reach \in Nat \ {0} /\ Reach <= Cardinality(Expert)
<1>1. Cardinality(Expert) \in Nat
  BY Zenon, ResidencyAssumption
<1>2. Active \in Nat /\ Active > 0 /\ Active <= Cardinality(Expert)
  BY Zenon, ResidencyAssumption
<1>3. Reach = Active \/ Reach = Cardinality(Expert)
  BY Zenon DEF Reach
<1> QED
  BY <1>1, <1>2, <1>3

\* pick, first half.
LEMMA PickStartKeeps ==
  ASSUME ResidencyInv, NEW r \in Rankings, PickStart(r)
  PROVE  ResidencyInv'
<1>1. /\ phase = "route" /\ phase' = "pick" /\ ranking' = SubSeq(r, 1, Reach) /\ rank' = 1
      /\ asked' = asked \o Top(r)
      /\ demand' = [e \in Expert |->
           IF e \in Range(Top(r)) /\ demand[e] < MaxDemand THEN demand[e] + 1 ELSE demand[e]]
      /\ UNCHANGED <<maps, used, work, doneQ, workers, hot, chosen, reads>>
  BY Zenon DEF PickStart
<1>2. Slots /\ Control /\ HotUntouched /\ DemandTyped /\ ReadsKept /\ ChosenKept /\ RankingTyped
  BY Zenon DEF ResidencyInv, Control
<1>3. DataSame /\ WorkerFrame
  BY Zenon, <1>1 DEF DataSame, WorkerFrame, maps, work
<1>4. Slots' /\ Kept({}, {})
  BY Zenon, <1>2, <1>3, SlotsSame, KeptFrame
<1>5. /\ phase' \in AfterPreload /\ phase' \in {"idle", "route", "pick"} /\ phase \in LayerPhases
  BY <1>1 DEF AfterPreload, LayerPhases
<1>6. RankingTyped'
  <2>1. r \in [1..Cardinality(Expert) -> Expert]
    BY Zenon DEF Rankings
  <2>2. Reach \in Nat /\ Active \in Nat
    BY Zenon, ReachFacts
  <2>3. ranking' \in [1..Reach -> Expert] /\ Top(r) \in Seq(Expert)
    BY Zenon, <1>1, <2>1, <2>2, ReachFacts, HeadOfRanking DEF Top
  <2>4. asked \in Seq(Expert)
    BY Zenon, <1>2 DEF RankingTyped
  <2>5. asked' \in Seq(Expert) /\ rank' \in Nat \ {0}
    BY <1>1, <2>3, <2>4
  <2> QED
    BY Zenon, <2>3, <2>5 DEF RankingTyped
<1>7. DemandTyped'
  <2>1. \A n \in Nat : n + 1 \in Nat
    OBVIOUS
  <2>2. \A e \in Expert : demand[e] \in Nat
    BY Zenon, <1>2 DEF DemandTyped
  <2>3. \A e \in Expert :
          (IF e \in Range(Top(r)) /\ demand[e] < MaxDemand THEN demand[e] + 1 ELSE demand[e]) \in Nat
    BY Zenon, <2>1, <2>2
  <2> QED
    BY Zenon, <1>1, <2>3 DEF DemandTyped
<1>8. used \subseteq used' /\ UNCHANGED <<gpuReads, cpuReads, chosen>>
  BY Zenon, <1>1 DEF reads
<1>9. ReadsKept' /\ ChosenKept'
  BY Zenon, <1>2, <1>4, <1>5, <1>8, ReadsFrame, ChosenFrame
<1>10. HotUntouched' /\ ColdInRam'
  BY Zenon, <1>1, <1>2, <1>5, LayerHot, NotCold
<1> QED
  BY Zenon, <1>4, <1>6, <1>7, <1>9, <1>10 DEF ResidencyInv, Control

\* A step of the layer before it is launched.
LEMMA RouteControl ==
  ASSUME Control, NEW F, NEW P, Kept(F, P), used \subseteq used', ChosenKept', RankingTyped',
         phase' \in {"idle", "route", "pick"}, UNCHANGED <<demand, hot, reads>>
  PROVE  Control'
<1>1. UNCHANGED <<gpuReads, cpuReads>>
  BY Zenon DEF reads
<1>2. phase' \in AfterPreload
  BY DEF AfterPreload
<1>3. DemandTyped'
  BY Zenon DEF Control, DemandTyped
<1>4. ReadsKept'
  BY Zenon, <1>1, ReadsFrame DEF Control
<1>5. HotUntouched' /\ ColdInRam'
  BY Zenon, <1>2, LayerHot, NotCold DEF Control
<1> QED
  BY Zenon, <1>3, <1>4, <1>5 DEF Control

\* An expert more is chosen; if its load found no slot the layer is given up.
LEMMA ChosenAdd ==
  ASSUME ChosenKept, NEW F, NEW P, Kept(F, P), phase \in LayerPhases, NEW e \in Expert,
         used' = used \cup {e}, chosen' = chosen \cup {e},
         phase' \notin LayerPhases \/ Resident(e)' \/ e \in busy'
  PROVE  ChosenKept'
<1>1. ASSUME NEW y \in chosen
      PROVE  y \in Expert /\ y \in used' /\ (Resident(y)' \/ y \in busy')
  BY Zenon DEF ChosenKept, Kept
<1>2. ASSUME phase' \in LayerPhases, NEW y \in chosen'
      PROVE  y \in Expert /\ y \in used' /\ (Resident(y)' \/ y \in busy')
  <2>1. CASE y \in chosen
    BY Zenon, <1>1, <2>1
  <2>2. CASE y = e
    BY Zenon, <1>2, <2>2
  <2> QED
    BY Zenon, <2>1, <2>2
<1> QED
  BY Zenon, <1>2 DEF ChosenKept

\* An expert of the ranking that runs: resident, or requested.
LEMMA RunsKept ==
  ASSUME Slots, DemandTyped, NEW e \in Expert, NEW next, UNCHANGED <<doneQ, workers>>,
         (Resident(e) /\ Use(e, next)) \/ request(e, next)
  PROVE  /\ Kept({e}, {}) /\ Slots' /\ used' = used \cup {e}
         /\ phase' = next \/ phase' = "idle"
         /\ phase' = "idle" \/ Resident(e)' \/ e \in busy'
<1>1. CASE Resident(e) /\ Use(e, next)
  <2>1. DataSame /\ WorkerFrame /\ phase' = next /\ used' = used \cup {e}
    BY Zenon, <1>1 DEF DataSame, WorkerFrame, maps, work, Use
  <2>2. Resident(e)'
    BY Zenon, <1>1, <2>1 DEF WorkerFrame, Resident
  <2> QED
    BY Zenon, <2>1, <2>2, KeptFrame, SlotsSame
<1>2. CASE request(e, next)
  <2>1. used' = used \cup {e} /\ load_now(e, next, "idle")
    BY Zenon, <1>2 DEF request
  <2>2. /\ Kept({e}, {}) /\ Slots'
        /\ phase' = next \/ phase' = "idle"
        /\ phase' = "idle" \/ Resident(e)' \/ e \in busy'
    BY Zenon, <2>1, LoadKept
  <2> QED
    BY Zenon, <2>1, <2>2
<1> QED
  BY Zenon, <1>1, <1>2

\* pick, one rank.
LEMMA PickRankKeeps ==
  ASSUME ResidencyInv, PickRank
  PROVE  ResidencyInv'
<1>1. /\ phase = "pick" /\ rank <= Reach /\ rank' = rank + 1
      /\ UNCHANGED <<demand, doneQ, workers, hot, ranking, asked, reads>>
  BY Zenon DEF PickRank
<1>2. Slots /\ Control /\ DemandTyped /\ ChosenKept /\ RankingTyped
  BY Zenon DEF ResidencyInv, Control
<1>3. ranking \in [1..Reach -> Expert] /\ rank \in Nat \ {0} /\ asked \in Seq(Expert)
  BY Zenon, <1>1, <1>2 DEF RankingTyped
<1>4. Reach \in Nat \ {0}
  BY Zenon, ReachFacts
<1>5. rank \in 1..Reach /\ rank' \in Nat \ {0}
  BY <1>1, <1>3, <1>4
<1> PICK e \in Expert : e = ranking[rank]
  BY Zenon, <1>3, <1>5
<1>6. \/ ((Resident(e) /\ Use(e, "pick")) \/ request(e, "pick")) /\ chosen' = chosen \cup {e}
      \/ UNCHANGED <<used, maps, work, phase, chosen>>
  BY Zenon DEF PickRank, Resident
<1>7. RankingTyped'
  BY Zenon, <1>1, <1>3, <1>5 DEF RankingTyped
<1>8. phase \in LayerPhases /\ "idle" \notin LayerPhases
  BY <1>1 DEF LayerPhases
<1>9. CASE ((Resident(e) /\ Use(e, "pick")) \/ request(e, "pick")) /\ chosen' = chosen \cup {e}
  <2>1. /\ Kept({e}, {}) /\ Slots' /\ used' = used \cup {e}
        /\ phase' = "pick" \/ phase' = "idle"
        /\ phase' = "idle" \/ Resident(e)' \/ e \in busy'
    BY Zenon, <1>1, <1>2, <1>9, RunsKept
  <2>2. used \subseteq used' /\ phase' \in {"idle", "route", "pick"}
    BY Zenon, <2>1
  <2>3. ChosenKept'
    BY Zenon, <1>2, <1>8, <1>9, <2>1, ChosenAdd
  <2> QED
    BY Zenon, <1>1, <1>2, <1>7, <2>1, <2>2, <2>3, RouteControl DEF ResidencyInv
<1>10. CASE UNCHANGED <<used, maps, work, phase, chosen>>
  <2>1. DataSame /\ WorkerFrame
    BY Zenon, <1>1, <1>10 DEF DataSame, WorkerFrame, maps, work
  <2>2. Slots' /\ Kept({}, {})
    BY Zenon, <1>2, <2>1, SlotsSame, KeptFrame
  <2>3. used \subseteq used' /\ phase' \in {"idle", "route", "pick"}
    BY Zenon, <1>1, <1>10
  <2>4. ChosenKept'
    BY Zenon, <1>2, <1>8, <1>10, <2>2, <2>3, ChosenFrame
  <2> QED
    BY Zenon, <1>1, <1>2, <1>7, <2>2, <2>3, <2>4, RouteControl DEF ResidencyInv
<1> QED
  BY Zenon, <1>6, <1>9, <1>10

\* pick's end: a token nothing was picked for gets its first choice.
LEMMA PickEndKeeps ==
  ASSUME ResidencyInv, PickEnd
  PROVE  ResidencyInv'
<1>1. /\ phase = "pick"
      /\ UNCHANGED <<demand, doneQ, workers, hot, asked, reads>>
  BY Zenon DEF PickEnd
<1>2. Slots /\ Control /\ DemandTyped /\ ChosenKept /\ RankingTyped
  BY Zenon DEF ResidencyInv, Control
<1>3. ranking \in [1..Reach -> Expert] /\ asked \in Seq(Expert)
  BY Zenon, <1>1, <1>2 DEF RankingTyped
<1>4. Reach \in Nat \ {0}
  BY Zenon, ReachFacts
<1>5. 1 \in 1..Reach
  BY <1>4
<1> PICK e \in Expert : e = ranking[1]
  BY Zenon, <1>3, <1>5
<1>6. \/ request(e, "route") /\ chosen' = chosen \cup {e}
      \/ phase' = "route" /\ UNCHANGED <<used, maps, work, chosen>>
  BY Zenon DEF PickEnd
<1>7. phase \in LayerPhases /\ "idle" \notin LayerPhases
  BY <1>1 DEF LayerPhases
<1>8. ASSUME phase' # "pick" PROVE RankingTyped'
  BY Zenon, <1>1, <1>3, <1>8 DEF RankingTyped
<1>9. CASE request(e, "route") /\ chosen' = chosen \cup {e}
  <2>1. /\ Kept({e}, {}) /\ Slots' /\ used' = used \cup {e}
        /\ phase' = "route" \/ phase' = "idle"
        /\ phase' = "idle" \/ Resident(e)' \/ e \in busy'
    BY Zenon, <1>1, <1>2, <1>9, RunsKept
  <2>2. used \subseteq used' /\ phase' \in {"idle", "route", "pick"}
    BY Zenon, <2>1
  <2>3. phase' # "pick"
    BY <2>1
  <2>4. ChosenKept'
    BY Zenon, <1>2, <1>7, <1>9, <2>1, ChosenAdd
  <2> QED
    BY Zenon, <1>1, <1>2, <1>8, <2>1, <2>2, <2>3, <2>4, RouteControl DEF ResidencyInv
<1>10. CASE phase' = "route" /\ UNCHANGED <<used, maps, work, chosen>>
  <2>1. DataSame /\ WorkerFrame
    BY Zenon, <1>1, <1>10 DEF DataSame, WorkerFrame, maps, work
  <2>2. Slots' /\ Kept({}, {})
    BY Zenon, <1>2, <2>1, SlotsSame, KeptFrame
  <2>3. used \subseteq used' /\ phase' \in {"idle", "route", "pick"}
    BY Zenon, <1>10
  <2>4. phase' # "pick"
    BY <1>10
  <2>5. ChosenKept'
    BY Zenon, <1>2, <1>7, <1>10, <2>2, <2>3, ChosenFrame
  <2> QED
    BY Zenon, <1>1, <1>2, <1>8, <2>2, <2>3, <2>4, <2>5, RouteControl DEF ResidencyInv
<1> QED
  BY Zenon, <1>6, <1>9, <1>10

\* want: the background fetch or promotion of an expert.
LEMMA WantKeeps ==
  ASSUME ResidencyInv, Want
  PROVE  ResidencyInv'
<1>1. /\ phase = "route" /\ asked # <<>> /\ asked' = Tail(asked)
      /\ UNCHANGED <<demand, used, doneQ, workers, phase, hot, chosen, reads>>
  BY Zenon DEF Want
<1>2. Slots /\ Control /\ DemandTyped /\ ChosenKept /\ RankingTyped
  BY Zenon DEF ResidencyInv, Control
<1>3. asked \in Seq(Expert)
  BY Zenon, <1>2 DEF RankingTyped
<1>4. Head(asked) \in Expert /\ asked' \in Seq(Expert)
  BY <1>1, <1>3
<1> PICK e \in Expert : e = Head(asked)
  BY Zenon, <1>4
<1> PICK d : d = demand[Head(asked)]
  BY Zenon
<1>5. \/ UNCHANGED <<maps, work>>
      \/ /\ e \notin busy /\ inRam[e] = 0
         /\ try_fetch(e, d)
      \/ /\ e \notin busy /\ inVram[e] = 0 /\ inRam[e] # 0
         /\ try_promote(e, d)
  BY Zenon DEF Want
<1>6. \E F, P : Kept(F, P) /\ Slots'
  <2>1. CASE UNCHANGED <<maps, work>>
    <3>1. DataSame /\ WorkerFrame
      BY Zenon, <1>1, <2>1 DEF DataSame, WorkerFrame, maps, work
    <3> QED
      BY Zenon, <1>2, <3>1, SlotsSame, KeptFrame
  <2>2. CASE e \notin busy /\ inRam[e] = 0 /\ try_fetch(e, d)
    BY Zenon, <1>1, <1>2, <2>2, FetchKept
  <2>3. CASE e \notin busy /\ inVram[e] = 0 /\ inRam[e] # 0 /\ try_promote(e, d)
    BY Zenon, <1>1, <1>2, <2>3, PromoteKept
  <2> QED
    BY Zenon, <1>5, <2>1, <2>2, <2>3
<1>7. PICK F, P : Kept(F, P) /\ Slots'
  BY Zenon, <1>6
<1>8. phase' \in {"idle", "route", "pick"} /\ phase' # "pick" /\ phase \in LayerPhases
  BY <1>1 DEF LayerPhases
<1>9. used \subseteq used' /\ chosen' = chosen
  BY Zenon, <1>1
<1>10. RankingTyped'
  BY Zenon, <1>4, <1>8 DEF RankingTyped
<1>11. ChosenKept'
  BY Zenon, <1>2, <1>7, <1>8, <1>9, ChosenFrame
<1> QED
  BY Zenon, <1>1, <1>2, <1>7, <1>8, <1>9, <1>10, <1>11, RouteControl DEF ResidencyInv

\* A step of the launched layer.
LEMMA LaunchedControl ==
  ASSUME Control, NEW F, NEW P, Kept(F, P), used \subseteq used', chosen' = chosen,
         phase \in LayerPhases, phase' \in AfterPreload, phase' # "pick",
         ReadsKept', ColdInRam', UNCHANGED <<demand, hot, asked>>
  PROVE  Control'
<1>1. DemandTyped' /\ RankingTyped'
  BY Zenon DEF Control, DemandTyped, RankingTyped
<1>2. ChosenKept'
  BY Zenon, ChosenFrame DEF Control
<1>3. HotUntouched'
  BY Zenon, LayerHot DEF Control
<1> QED
  BY Zenon, <1>1, <1>2, <1>3 DEF Control

\* An expert nowhere in memory owns no VRAM slot.
LEMMA AbsentNoVram ==
  ASSUME Slots, NEW e \in Expert, inVram[e] = 0, inRam[e] = 0
  PROVE  NoVram(e)
<1>1. 0 \notin VramSlot
  BY Zenon, SlotFacts
<1> QED
  BY Zenon, <1>1 DEF Slots, OwnersBusy, NoVram

\* The layer starts with every chosen expert that is resident; the others,
\* which are on their way, are cold.
LEMMA LaunchKeeps ==
  ASSUME ResidencyInv, Launch
  PROVE  ResidencyInv'
<1> DEFINE vram == {e \in chosen : inVram[e] # 0}
           ram == {e \in chosen \ vram : inRam[e] # 0}
<1>1. /\ phase = "route" /\ phase' = "running"
      /\ used' = used \cup vram \cup ram
      /\ gpuReads' = [e \in vram |-> inVram[e]] /\ cpuReads' = [e \in ram |-> inRam[e]]
      /\ cold' = chosen \ (vram \cup ram)
      /\ UNCHANGED <<maps, demand, work, doneQ, workers, hot, chosen, asked>>
  BY Zenon DEF Launch
<1>2. Slots /\ Control /\ ChosenKept
  BY Zenon DEF ResidencyInv, Control
<1>3. DataSame /\ WorkerFrame
  BY Zenon, <1>1 DEF DataSame, WorkerFrame, maps, work
<1>4. Slots' /\ Kept({}, {})
  BY Zenon, <1>2, <1>3, SlotsSame, KeptFrame
<1>5. /\ phase \in LayerPhases /\ phase' \in AfterPreload
      /\ phase' \notin {"pick", "loading", "computing", "lost"}
  BY <1>1 DEF LayerPhases, AfterPreload
<1>6. \A e \in chosen : e \in Expert /\ e \in used
  BY Zenon, <1>2, <1>5 DEF ChosenKept
<1>7. used \subseteq used'
  BY Zenon, <1>1
<1>8. ReadsKept'
  <2>1. ASSUME NEW e \in DOMAIN gpuReads'
        PROVE  e \in Expert /\ e \in used' /\ inVram'[e] # 0 /\ gpuReads'[e] = inVram'[e]
    <3>1. e \in chosen /\ inVram[e] # 0 /\ gpuReads'[e] = inVram[e]
      BY Zenon, <1>1
    <3> QED
      BY Zenon, <1>3, <1>6, <1>7, <3>1 DEF WorkerFrame
  <2>2. ASSUME NEW e \in DOMAIN cpuReads'
        PROVE  e \in Expert /\ e \in used' /\ inRam'[e] # 0 /\ cpuReads'[e] = inRam'[e]
    <3>1. e \in chosen /\ inRam[e] # 0 /\ cpuReads'[e] = inRam[e]
      BY Zenon, <1>1
    <3> QED
      BY Zenon, <1>3, <1>6, <1>7, <3>1 DEF WorkerFrame
  <2> QED
    BY Zenon, <2>1, <2>2 DEF ReadsKept
<1>9. ColdInRam'
  <2>1. cold' \subseteq chosen' /\ \A e \in cold' : e \in chosen /\ inVram[e] = 0 /\ inRam[e] = 0
    BY Zenon, <1>1
  <2>2. \A e \in cold' : \A s \in VramSlot : vramOwner[s] # e
    BY Zenon, <1>2, <1>6, <2>1, AbsentNoVram DEF NoVram
  <2>3. vramOwner' = vramOwner
    BY Zenon, <1>3 DEF WorkerFrame
  <2>4. \A e \in cold' : \A s \in VramSlot : vramOwner'[s] # e
    BY Zenon, <2>2, <2>3
  <2> QED
    BY Zenon, <1>5, <2>1, <2>4 DEF ColdInRam
<1>10. phase' # "pick" /\ UNCHANGED <<demand, hot, asked, chosen>>
  BY Zenon, <1>1, <1>5
<1>11. Control'
  BY Zenon, <1>2, <1>4, <1>5, <1>7, <1>8, <1>9, <1>10, LaunchedControl
<1> QED
  BY Zenon, <1>4, <1>11 DEF ResidencyInv

\* A step of the launched layer that ends the CPU's reads, and some of what
\* was cold.
LEMMA ColdStep ==
  ASSUME ResidencyInv, DataSame, phase \in ColdPhases, phase' \in {"idle", "load"},
         gpuReads' = gpuReads, cpuReads' = NoReads, cold' \subseteq cold,
         UNCHANGED <<used, demand, hot, chosen, asked>>
  PROVE  ResidencyInv'
<1>1. Slots /\ Control /\ ChosenKept /\ ReadsKept /\ ColdInRam
  BY Zenon DEF ResidencyInv, Control
<1>2. WorkerFrame
  BY Zenon DEF DataSame, WorkerFrame, maps
<1>3. Slots' /\ Kept({}, {})
  BY Zenon, <1>1, <1>2, SlotsSame, KeptFrame
<1>4. /\ phase \in LayerPhases /\ phase' \in AfterPreload /\ phase' # "pick"
      /\ phase' \notin {"loading", "computing"} /\ phase' # "lost"
  BY DEF LayerPhases, ColdPhases, AfterPreload
<1>5. used \subseteq used'
  BY Zenon
<1>6. ReadsKept'
  BY Zenon, <1>1, <1>3, <1>5, ReadsFrame
<1>7. ColdInRam'
  <2>1. \A e \in cold : \A s \in VramSlot : vramOwner'[s] # e
    BY Zenon, <1>1, <1>3, ColdFrame DEF NoVram
  <2>2. cold \subseteq chosen
    BY Zenon, <1>1 DEF ColdInRam
  <2>3. cold' \subseteq chosen' /\ \A e \in cold' : \A s \in VramSlot : vramOwner'[s] # e
    BY Zenon, <2>1, <2>2
  <2> QED
    BY Zenon, <1>4, <2>3 DEF ColdInRam
<1>8. Control'
  BY Zenon, <1>1, <1>3, <1>4, <1>5, <1>6, <1>7, LaunchedControl
<1> QED
  BY Zenon, <1>3, <1>8 DEF ResidencyInv

\* The burst of RAM experts is done.
LEMMA BurstDoneKeeps ==
  ASSUME ResidencyInv, BurstDone
  PROVE  ResidencyInv'
<1>1. /\ phase = "running" /\ cpuReads' = NoReads /\ gpuReads' = gpuReads
      /\ phase' = "idle" \/ phase' = "load"
      /\ UNCHANGED <<maps, demand, used, work, doneQ, workers, hot, layer>>
  BY Zenon DEF BurstDone
<1>2. DataSame
  BY Zenon, <1>1 DEF DataSame, work
<1>3. UNCHANGED <<used, demand, hot, chosen, asked>> /\ cold' \subseteq cold
  BY Zenon, <1>1 DEF layer
<1>4. phase \in ColdPhases /\ phase' \in {"idle", "load"}
  BY <1>1 DEF ColdPhases
<1> QED
  BY Zenon, <1>1, <1>2, <1>3, <1>4, ColdStep

\* A cold expert ran.
LEMMA ColdDoneKeeps ==
  ASSUME ResidencyInv, ColdDone
  PROVE  ResidencyInv'
<1>1. /\ phase = "computing" /\ cpuReads' = NoReads /\ gpuReads' = gpuReads
      /\ phase' = "idle" \/ phase' = "load"
      /\ cold' = cold \ {target}
      /\ UNCHANGED <<maps, demand, used, work, doneQ, workers, hot, chosen, asked>>
  BY Zenon DEF ColdDone
<1>2. DataSame
  BY Zenon, <1>1 DEF DataSame, work
<1>3. UNCHANGED <<used, demand, hot, chosen, asked>> /\ cold' \subseteq cold
  BY Zenon, <1>1
<1>4. phase \in ColdPhases /\ phase' \in {"idle", "load"}
  BY <1>1 DEF ColdPhases
<1> QED
  BY Zenon, <1>1, <1>2, <1>3, <1>4, ColdStep

\* The load of a cold expert.
LEMMA LoadKeeps ==
  ASSUME ResidencyInv, NEW e, Load(e)
  PROVE  ResidencyInv'
<1>1. /\ phase = "load" /\ e \in cold /\ load_now(e, "loading", "idle") /\ target' = e
      /\ UNCHANGED <<demand, used, doneQ, workers, hot, chosen, asked, cold, reads>>
  BY Zenon DEF Load
<1>2. Slots /\ Control /\ DemandTyped /\ ChosenKept /\ ReadsKept /\ ColdInRam
  BY Zenon DEF ResidencyInv, Control
<1>3. phase \in ColdPhases /\ phase \in LayerPhases
  BY <1>1 DEF ColdPhases, LayerPhases
<1>4. cold \subseteq chosen /\ e \in Expert
  BY Zenon, <1>1, <1>2, <1>3 DEF ColdInRam, ChosenKept
<1>5. /\ Kept({e}, {}) /\ Slots'
      /\ phase' = "loading" \/ phase' = "idle"
      /\ phase' = "idle" \/ Resident(e)' \/ e \in busy'
  BY Zenon, <1>1, <1>2, <1>4, LoadKept
<1>6. phase' \in AfterPreload /\ phase' # "pick" /\ phase' # "lost"
  BY <1>5 DEF AfterPreload
<1>7. used \subseteq used' /\ UNCHANGED <<gpuReads, cpuReads>>
  BY Zenon, <1>1 DEF reads
<1>8. ReadsKept'
  BY Zenon, <1>2, <1>5, <1>7, ReadsFrame
<1>9. ColdInRam'
  <2>1. \A y \in cold : \A s \in VramSlot : vramOwner'[s] # y
    BY Zenon, <1>2, <1>3, <1>5, ColdFrame DEF NoVram
  <2>2. cold' = cold /\ chosen' = chosen /\ target' \in cold
    BY Zenon, <1>1
  <2> QED
    BY Zenon, <1>4, <1>6, <2>1, <2>2 DEF ColdInRam
<1>10. chosen' = chosen /\ UNCHANGED <<demand, hot, asked>>
  BY Zenon, <1>1
<1>11. Control'
  BY Zenon, <1>2, <1>3, <1>5, <1>6, <1>7, <1>8, <1>9, <1>10, LaunchedControl
<1> QED
  BY Zenon, <1>5, <1>11 DEF ResidencyInv

\* A cold expert is there, in RAM, and runs.
LEMMA LoadedKeeps ==
  ASSUME ResidencyInv, Loaded
  PROVE  ResidencyInv'
<1>1. /\ phase = "loading" /\ Resident(target)
      /\ IF inRam[target] = 0 THEN phase' = "lost" /\ UNCHANGED cpuReads
           ELSE phase' = "computing" /\ cpuReads' = [e \in {target} |-> inRam[e]]
      /\ UNCHANGED <<maps, demand, used, work, doneQ, workers, hot, layer, gpuReads>>
  BY Zenon DEF Loaded
<1>2. Slots /\ Control /\ ChosenKept /\ ReadsKept /\ ColdInRam
  BY Zenon DEF ResidencyInv, Control
<1>3. phase \in ColdPhases /\ phase \in LayerPhases /\ phase \in {"loading", "computing"}
  BY <1>1 DEF ColdPhases, LayerPhases
<1>4. target \in cold /\ cold \subseteq chosen
  BY Zenon, <1>2, <1>3 DEF ColdInRam
<1>5. target \in Expert /\ target \in used
  BY Zenon, <1>2, <1>3, <1>4 DEF ChosenKept
<1> PICK t \in Expert : t = target
  BY Zenon, <1>5
<1>6. NoVram(t)
  BY Zenon, <1>2, <1>3, <1>4 DEF ColdInRam, NoVram
<1>7. inRam[t] # 0
  BY Zenon, <1>1, <1>2, <1>6, RamOnly
<1>8. phase' = "computing" /\ cpuReads' = [e \in {t} |-> inRam[e]]
  BY Zenon, <1>1, <1>7
<1>9. DataSame /\ WorkerFrame
  BY Zenon, <1>1 DEF DataSame, WorkerFrame, maps, work
<1>10. Slots' /\ Kept({}, {})
  BY Zenon, <1>2, <1>9, SlotsSame, KeptFrame
<1>11. UNCHANGED <<used, demand, hot, chosen, asked, cold, target, gpuReads>>
  BY Zenon, <1>1 DEF layer
<1>12. ReadsKept'
  <2>1. ASSUME NEW e \in DOMAIN gpuReads
        PROVE  e \in Expert /\ e \in used /\ inVram[e] # 0 /\ gpuReads[e] = inVram[e]
    BY Zenon, <1>2 DEF ReadsKept
  <2>2. ASSUME NEW e \in DOMAIN cpuReads'
        PROVE  e \in Expert /\ e \in used /\ inRam[e] # 0 /\ cpuReads'[e] = inRam[e]
    BY Zenon, <1>5, <1>7, <1>8
  <2>3. inVram' = inVram /\ inRam' = inRam
    BY Zenon, <1>9 DEF WorkerFrame
  <2> QED
    BY Zenon, <1>11, <2>1, <2>2, <2>3 DEF ReadsKept
<1>13. phase' \in AfterPreload /\ phase' # "pick" /\ phase' # "lost"
  BY <1>8 DEF AfterPreload
<1>14. ColdInRam'
  <2>1. \A y \in cold : \A s \in VramSlot : vramOwner'[s] # y
    BY Zenon, <1>2, <1>3, <1>10, ColdFrame DEF NoVram
  <2> QED
    BY Zenon, <1>4, <1>11, <1>13, <2>1 DEF ColdInRam
<1>15. used \subseteq used' /\ chosen' = chosen /\ UNCHANGED <<demand, hot, asked>>
  BY Zenon, <1>11
<1>16. Control'
  BY Zenon, <1>2, <1>3, <1>10, <1>12, <1>13, <1>14, <1>15, LaunchedControl
<1> QED
  BY Zenon, <1>10, <1>16 DEF ResidencyInv

-----------------------------------------------------------------------------
(* Every step, and the theorems.                                           *)

\* The workers, between two steps of the model thread.
LEMMA WorkerStep ==
  ASSUME ResidencyInv,
         (\E j \in fetchQ : FetchStart(j)) \/ FetchDone \/ FetchFails
         \/ (\E j \in copyQ : CopyStart(j)) \/ CopyDone
  PROVE  ResidencyInv'
<1>1. Slots /\ Control
  BY Zenon DEF ResidencyInv
<1>2. Slots'
  BY Zenon, <1>1, FetchStartKeepsSlots, FetchDoneKeepsSlots, FetchFailsKeepsSlots,
     CopyStartKeepsSlots, CopyDoneKeepsSlots
<1>3. WorkerFrame /\ UNCHANGED <<demand, used, phase, hot, token, layer, reads>>
  <2>1. CASE \E j \in fetchQ : FetchStart(j)
    BY Zenon, <2>1 DEF FetchStart, WorkerFrame, maps
  <2>2. CASE FetchDone
    BY Zenon, <2>2 DEF FetchDone, WorkerFrame, maps, work
  <2>3. CASE FetchFails
    BY Zenon, <2>3 DEF FetchFails, WorkerFrame, maps, work
  <2>4. CASE \E j \in copyQ : CopyStart(j)
    BY Zenon, <2>4 DEF CopyStart, WorkerFrame, maps
  <2>5. CASE CopyDone
    BY Zenon, <2>5 DEF CopyDone, WorkerFrame, maps, work
  <2> QED
    BY Zenon, <2>1, <2>2, <2>3, <2>4, <2>5
<1>4. Control'
  BY Zenon, <1>1, <1>3, KeptFrame, QuietControl
<1> QED
  BY Zenon, <1>2, <1>4 DEF ResidencyInv

\* A result that is waited for.
LEMMA ReceiveKeeps ==
  ASSUME ResidencyInv, NEW d, Receive(d)
  PROVE  ResidencyInv'
<1>1. Slots /\ Control
  BY Zenon DEF ResidencyInv
<1>2. d \in doneQ /\ adopt({d}) /\ UNCHANGED <<demand, used, workers, phase, hot, token, layer, reads>>
  BY Zenon DEF Receive
<1>3. {d} \subseteq doneQ
  BY Zenon, <1>2
<1>4. Adopts({d})
  BY Zenon, <1>2, <1>3 DEF Adopts
<1>5. Slots' /\ Kept({}, {})
  BY Zenon, <1>1, <1>4, AdoptKeepsSlots, KeptAdopt
<1>6. Control'
  BY Zenon, <1>1, <1>2, <1>5, QuietControl
<1> QED
  BY Zenon, <1>5, <1>6 DEF ResidencyInv

\* A step that changes nothing.
LEMMA StutterKeeps ==
  ASSUME ResidencyInv, UNCHANGED vars
  PROVE  ResidencyInv'
<1>1. Slots /\ Control
  BY Zenon DEF ResidencyInv
<1>2. UNCHANGED <<maps, demand, used, work, doneQ, workers, phase, hot, token, layer, reads>>
  BY Zenon DEF vars
<1>3. DataSame /\ WorkerFrame
  BY Zenon, <1>2 DEF DataSame, WorkerFrame, maps, work
<1>4. Slots' /\ Kept({}, {})
  BY Zenon, <1>1, <1>3, SlotsSame, KeptFrame
<1>5. Control'
  BY Zenon, <1>1, <1>2, <1>4, QuietControl
<1> QED
  BY Zenon, <1>4, <1>5 DEF ResidencyInv

\* The appliance starts with every slot free and the whole preload list to do.
LEMMA InitResidency == Init => ResidencyInv
<1> SUFFICES ASSUME Init PROVE ResidencyInv
  BY Zenon
<1>1. /\ inVram = [e \in Expert |-> 0] /\ inRam = [e \in Expert |-> 0]
      /\ vramOwner = [s \in VramSlot |-> NoExpert] /\ ramOwner = [s \in RamSlot |-> NoExpert]
      /\ vramFree = VramSlot /\ ramFree = RamSlot
      /\ demand = [e \in Expert |-> 0] /\ busy = {}
      /\ fetchQ = {} /\ copyQ = {} /\ doneQ = {} /\ fetching = NoJob /\ copying = NoJob
      /\ ramMem = [s \in RamSlot |-> Torn] /\ vramMem = [s \in VramSlot |-> Torn]
      /\ phase = "preload" /\ hot = Hot /\ asked = <<>>
      /\ gpuReads = NoReads /\ cpuReads = NoReads
  BY Zenon DEF Init
<1>2. NoExpert \notin Expert /\ Hot \in Seq(Expert) /\ IsInjective(Hot)
  BY Zenon, ResidencyAssumption
<1>3. \A e \in Expert : inRam[e] = 0 /\ inVram[e] = 0 /\ e # NoExpert
  BY Zenon, <1>1, <1>2
<1>4. /\ \A s \in RamSlot : ramOwner[s] = NoExpert
      /\ \A s \in VramSlot : vramOwner[s] = NoExpert
  BY Zenon, <1>1
<1>5. Fetches = {} /\ Copies = {} /\ \A e : ~Fetched(e) /\ ~Copied(e)
  BY Zenon, <1>1 DEF Fetches, Copies, Fetched, Copied
<1>6. Typed
  BY Zenon, <1>1 DEF Typed
<1>7. OneSlot
  BY Zenon, <1>1, <1>4 DEF OneSlot
<1>8. MapsWhole /\ OwnersBusy
  BY Zenon, <1>1, <1>3, <1>4 DEF MapsWhole, OwnersBusy
<1>9. FetchesOwn /\ CopiesOwn
  BY Zenon, <1>1, <1>5 DEF FetchesOwn, CopiesOwn
<1>10. DemandTyped
  <2>1. 0 \in Nat
    OBVIOUS
  <2> QED
    BY Zenon, <1>1, <2>1 DEF DemandTyped
<1>11. ReadsKept
  BY Zenon, <1>1, NoReadsEmpty DEF ReadsKept
<1>12. /\ phase \notin LayerPhases /\ phase \notin ColdPhases /\ phase \notin {"loading", "computing"}
       /\ phase # "lost" /\ phase # "pick" /\ phase \notin {"preloading", "promoting"}
       /\ phase # "preloading" /\ asked \in Seq(Expert)
  BY <1>1 DEF LayerPhases, ColdPhases
<1>13. ChosenKept /\ ColdInRam /\ RankingTyped
  BY Zenon, <1>12 DEF ChosenKept, ColdInRam, RankingTyped
<1>14. HotUntouched
  <2>1. \A i \in 1..Len(Hot) : Hot[i] \in Expert
    BY <1>2
  <2>2. \A i \in 1..Len(hot) : Untouched(hot[i])
    BY Zenon, <1>1, <1>2, <1>4, <2>1 DEF Untouched
  <2> QED
    BY Zenon, <1>1, <1>2, <1>12, <2>2 DEF HotUntouched
<1> QED
  BY Zenon, <1>6, <1>7, <1>8, <1>9, <1>10, <1>11, <1>13, <1>14 DEF ResidencyInv, Slots, Control

\* Every step of the model thread, the fetcher and the copier.
LEMMA ResidencyStep ==
  ASSUME ResidencyInv, [Next]_vars
  PROVE  ResidencyInv'
<1>1. CASE (\E j \in fetchQ : FetchStart(j)) \/ FetchDone \/ FetchFails
           \/ (\E j \in copyQ : CopyStart(j)) \/ CopyDone
  BY Zenon, <1>1, WorkerStep
<1>2. CASE Preload
  BY Zenon, <1>2, PreloadLoadKeeps, PreloadPromoteKeeps, PreloadNextKeeps, PreloadFetchKeeps,
     PreloadEndKeeps DEF Preload
<1>3. CASE BeginLayer
  BY Zenon, <1>3, BeginLayerKeeps
<1>4. CASE Compute
  BY Zenon, <1>4, PickStartKeeps, PickRankKeeps, PickEndKeeps, WantKeeps, LaunchKeeps,
     BurstDoneKeeps, LoadKeeps, LoadedKeeps, ColdDoneKeeps DEF Compute
<1>5. CASE Wait
  BY Zenon, <1>5, ReceiveKeeps DEF Wait
<1>6. CASE UNCHANGED vars
  BY Zenon, <1>6, StutterKeeps
<1> QED
  BY Zenon, <1>1, <1>2, <1>3, <1>4, <1>5, <1>6 DEF Next, Fetcher, Copier

\* For any experts, slots, tokens and failed reads: no expert owns two slots of
\* a kind, what the maps publish is owned and whole, every job of a worker is
\* its busy expert's only one (residency.rs: start_fetch, start_promote, adopt),
\* and what a layer chose or reads is protected by its tick.
THEOREM ResidencyInvariant == Spec => []ResidencyInv
<1>1. ResidencyInv /\ [Next]_vars => ResidencyInv'
  BY Zenon, ResidencyStep
<1> QED
  BY <1>1, InitResidency, PTL DEF Spec

\* For any experts, slots, tokens and failed reads: every slot a running layer
\* reads holds the whole expert it was claimed for, a chosen expert is in memory
\* or on its way until it ran, and run_ram_experts never finds that one left.
THEOREM ExpertsStayWhole == Spec => []ChosenExpertsAreWhole
<1>1. ResidencyInv => ChosenExpertsAreWhole
  <2> SUFFICES ASSUME ResidencyInv PROVE ChosenExpertsAreWhole
    BY Zenon
  <2>1. Slots /\ ReadsKept /\ ChosenKept /\ ColdInRam
    BY Zenon DEF ResidencyInv, Control
  <2>2. ASSUME NEW e \in DOMAIN gpuReads PROVE vramMem[gpuReads[e]] = e
    <3>1. e \in Expert /\ inVram[e] # 0 /\ gpuReads[e] = inVram[e]
      BY Zenon, <2>1 DEF ReadsKept
    <3>2. vramMem[inVram[e]] = e
      BY Zenon, <2>1, <3>1, MapFacts
    <3> QED
      BY Zenon, <3>1, <3>2
  <2>3. ASSUME NEW e \in DOMAIN cpuReads PROVE ramMem[cpuReads[e]] = e
    <3>1. e \in Expert /\ inRam[e] # 0 /\ cpuReads[e] = inRam[e]
      BY Zenon, <2>1 DEF ReadsKept
    <3>2. ramMem[inRam[e]] = e
      BY Zenon, <2>1, <3>1, MapFacts
    <3> QED
      BY Zenon, <3>1, <3>2
  <2>4. phase # "lost"
    BY Zenon, <2>1 DEF ColdInRam
  <2>5. {"pick", "route", "running", "load", "loading"} \subseteq LayerPhases
    BY DEF LayerPhases
  <2>6. phase \in LayerPhases => \A e \in chosen : Resident(e) \/ e \in busy
    BY Zenon, <2>1 DEF ChosenKept
  <2> QED
    BY Zenon, <2>2, <2>3, <2>4, <2>5, <2>6 DEF ChosenExpertsAreWhole
<1> QED
  BY <1>1, ResidencyInvariant, PTL
=============================================================================
