------------------------------- MODULE GpuPass -------------------------------
(***************************************************************************)
(* The forward pass of chatty-metal/src/gpu_model.rs: the packets it       *)
(* queues, the barriers between them, the tables and buffers the CPU       *)
(* writes and reads meanwhile, and the rings and stores that stay.         *)
(*                                                                         *)
(* A buffer is an array of cells <<name, index>> that hold terms of        *)
(* ReferencePass.  A step is a record: `f` says from which cells each cell *)
(* it writes is computed, `fn` how, `t` which tables it reads, and `o` is  *)
(* the packet's Order ("after" a barrier, or "overlap"), or "cpu", "put"   *)
(* or "sync" for what the CPU does itself.                                 *)
(*                                                                         *)
(* A value is right when it is the reference's term; whether the order of  *)
(* packets lets it be right is NoRace and CpuAlone.                        *)
(***************************************************************************)
EXTENDS ReferencePass, TLC

CONSTANTS MaxChunk,          \* MAX_CHUNK
          Context,           \* CONTEXT
          MaxPending,        \* MAX_PENDING, in packets
          Routed,            \* names of the routed experts
          RouteLayers,       \* bound: the layers in which every routing is explored
          MaxConversations,  \* bounds the resets
          MaxFails           \* bounds the expert reads that fail

VARIABLES
  pass,   \* [on, c, start, m, layer, routed, fails]: the call of forward
  todo,   \* the steps up to the next decision of the CPU
  val,    \* the cells that have been written
  host,   \* HostArena: [used, at]: where each table of this layer is
  queue,  \* [pending, open, reads, writes]: packets not known to be done
  count   \* SourceStore.count of each source layer

gpuVars == <<pass, todo, val, host, queue, count>>

\* A ring of the window alone: a chunk overwrites what its first rows see.
RingOfWindow == Window

Ring == Window + MaxChunk
PairRing == MaxChunk + 2
Cell(l, i) == 100 * l + i

-----------------------------------------------------------------------------
(* Steps *)

Step(fn, o, w, t, f) == [fn |-> fn, o |-> o, w |-> w, t |-> t, f |-> f]

\* A kernel that works row by row.
Each(fn, o, t, out, ins, R) ==
  Step(fn, o, "", t, [a \in {out} \X R |-> [i \in DOMAIN ins |-> <<ins[i], a[2]>>]])

\* HostArena::put of a table whose rows are `rows`.
Put(label, rows) == Step("put", "put", rows, {label}, << >>)
Sync == Step("sync", "sync", "", {}, << >>)
NoRows == [r \in {} |-> 0]

\* put_rows and take_rows with a table.
PutRows(o, t, dst, Slot(_), src, R) ==
  Step("copy", o, "", t, [a \in {<<dst, Slot(r)>> : r \in R} |->
                            <<<<src, CHOOSE r \in R : Slot(r) = a[2]>>>>])

Quantized(src, dst, R) == Each("q8", "after", {}, dst, <<src>>, R)
QuantInPlace(kind, buf, R) == Each(kind, "after", {}, buf, <<buf>>, R)
Gemm(w, o, out, x, R) == Each(w, o, {}, out, <<x>>, R)
Rope(fn, buf, table, R) == Each(fn, "after", {table}, buf, <<buf, table>>, R)

\* norm_begin and norm_end share norm_partial.
NormBegin(o, buf, R) == Each("norm_partial", o, {}, "norm_partial", <<buf>>, R)
NormEnd(w, buf, R) ==
  [Each("norm_apply", "after", {}, buf, <<"norm_partial", buf>>, R) EXCEPT !.w = "norm." \o w]


Norm(w, buf, R) == <<NormBegin("after", buf, R), NormEnd(w, buf, R)>>

\* The first of a list of packets waits for a barrier, the others overlap it.
Phase(steps) == [i \in DOMAIN steps |-> [steps[i] EXCEPT !.o = IF i = 1 THEN "after" ELSE "overlap"]]

\* Per row, in row order.
PerRow(S(_), m) == [i \in 1..m |-> S(i - 1)]

-----------------------------------------------------------------------------
(* The packets of a layer, for rows 0 .. m-1 at positions start + row *)

RopeTable(start, R) == [r \in R |-> Pos(start + r)]

\* engram: the rows are looked up, quantized and written by the CPU.
EngramSteps(l, c, start, R) ==
  <<Step("cpu_write", "cpu", [r \in R |-> Op("q8", <<Op("rows", <<c, l, start + r>>)>>)], {},
         [a \in {"engram_x"} \X R |-> << >>]),
    Gemm("engram.wkv", "after", "engram_kv", "engram_x", R),
    Each("engram_gate", "after", {}, "h0", <<"h0", "engram_kv">>, R)>>

\* mix_project and hc_pre overlap, and so do the two steps that need them.
MixSteps(which, h, mixIn, mixTable, mixOut, R) ==
  <<Each("project." \o which, "after", {}, "mix_raw", <<h>>, R),
    Each("hc_pre", "overlap", mixTable, "x", <<h, mixIn>>, R),
    Each("sinkhorn." \o which, "after", {}, mixOut, <<"mix_raw">>, R),
    NormBegin("overlap", "x", R),
    NormEnd(which, "x", R)>>

\* attention up to the ring.
ProjectSteps(l, start, R) ==
  <<Put("rope", RopeTable(start, R)),
    Quantized("x", "xq", R),
    Gemm("wq_a", "after", "qr", "xq", R),
    Gemm("wkv", "overlap", "kv_new", "xq", R)>>
  \o Norm("q", "qr", R)
  \o <<Quantized("qr", "qrq", R),
       Gemm("wq_b", "after", "q", "qrq", R),
       Rope("rope", "q", "rope", R)>>
  \o Norm("kv", "kv_new", R)
  \o <<Rope("rope", "kv_new", "rope", R),
       QuantInPlace("q8", "kv_new", R),
       Put("slots", NoRows),
       PutRows("after", {"slots"}, "ring", LAMBDA r : Cell(l, (start + r) % Ring), "kv_new", R)>>

\* compress: this chunk's completed groups, numbered from 0.
CompressSteps(l, start, m, R) ==
  LET ratio == Layers[l].ratio
      ends == {r \in R : (start + r + 1) % ratio = 0}
      groups == [i \in 0..Cardinality(ends) - 1 |->
                   start + (CHOOSE r \in ends : Cardinality({q \in ends : q < r}) = i) + 1 - ratio]
      G == DOMAIN groups
      Pair(name, g) == [i \in 1..ratio |-> <<name, Cell(l, ((groups[g] % PairRing) + i - 1) % PairRing)>>]
      Slot(r) == Cell(l, (start + r) % PairRing)
      Line(g) == Cell(l, count[l] + g)
      fill == <<Gemm("compressor.wkv", "after", "pair_kv_tmp", "x", R),
                Gemm("compressor.wgate", "overlap", "pair_score_tmp", "x", R),
                Put("pair_slots", NoRows),
                PutRows("after", {"pair_slots"}, "pair_kv", Slot, "pair_kv_tmp", R),
                PutRows("overlap", {"pair_slots"}, "pair_score", Slot, "pair_score_tmp", R)>>
      pool == <<Put("first_rows", NoRows),
                Step("pool", "after", "", {"first_rows"},
                     [a \in {"latent"} \X G |-> Pair("pair_kv", a[2]) \o Pair("pair_score", a[2])])>>
      finish == Norm("compressor", "latent", G)
                \o <<Gemm("indexer.wk", "after", "keys", "latent", G)>>
                \o Norm("k", "keys", G)
                \o <<Put("group_rope", [g \in G |-> Pos(groups[g])]),
                     Rope("rope", "keys", "group_rope", G),
                     QuantInPlace("q4", "keys", G),
                     Rope("rope", "latent", "group_rope", G),
                     QuantInPlace("q4e", "latent", G),
                     Put("rows", NoRows),
                     PutRows("after", {"rows"}, "key_store", Line, "keys", G),
                     PutRows("overlap", {"rows"}, "kv_store", Line, "latent", G)>>
  IN IF ratio = 1 THEN <<Gemm("compressor.wkv", "after", "latent", "x", R)>> \o finish
     ELSE IF G = {} THEN fill
     ELSE fill \o pool \o finish

\* The indexer: scores of the visible groups, and the CPU's pick.
IndexSteps(l, start, m, R) ==
  LET seen == {r \in R : Visible(l, start + r) > 0}
      Keys(r) == [i \in 1..Visible(l, start + r) |-> <<"key_store", Cell(StoreOf(l), i - 1)>>]
      Score(r) == Step("index", "", "", {},
                       [a \in {<<"score_host", r>>} |-> <<<<"index_q", r>>, <<"index_w", r>>>> \o Keys(r)])
      Ins(r) == IF r \notin seen THEN << >>
                ELSE IF Layers[l].cand = "use" THEN <<<<"score_host", r>>, <<"candidates", r>>>>
                ELSE <<<<"score_host", r>>>>
  IN <<Gemm("indexer.wq_b", "after", "index_q", "qrq", R),
       Put("index_rope", RopeTable(start, R)),
       Rope("rope", "index_q", "index_rope", R),
       QuantInPlace("q4", "index_q", R),
       Gemm("weights_proj", "after", "index_w", "x", R),
       QuantInPlace("scale", "index_w", R)>>
     \o Phase([i \in 1..Cardinality(seen) |-> Score(m - Cardinality(seen) + i - 1)])
     \o <<Sync>>
     \o (IF Layers[l].cand = "make"
         THEN <<Each("blocks", "cpu", {}, "candidates", <<"score_host">>, seen)>> ELSE << >>)
     \o <<Step("top", "cpu", "", {}, [a \in {"topk"} \X R |-> Ins(a[2])])>>

\* attention's three overlapping steps per query, and the projection of the
\* heads, whose GROUPS products write separate parts of `flat`.
AttendSteps(l, start, m, R) ==
  LET First(p) == IF p >= Window THEN p - Window + 1 ELSE 0
      Sources(r) ==
        [i \in 1..start + r - First(start + r) + 1 |->
           <<"ring", Cell(l, (First(start + r) + i - 1) % Ring)>>]
        \o (IF Layers[l].ratio = 0 THEN << >>
            ELSE <<<<"topk", r>>>>
                 \o [i \in 1..Visible(l, start + r) |-> <<"kv_store", Cell(StoreOf(l), i - 1)>>])
      Label(r) == <<"sources0", "sources1", "sources2", "sources3">>[r + 1]
      Call(fn, out, first, sources, r) ==
        Step(fn, "", "", {Label(r)}, [a \in {<<out, r>>} |-> <<<<first, r>>>> \o sources])
  IN PerRow(LAMBDA r : Put(Label(r), NoRows), m)
     \o Phase(PerRow(LAMBDA r : Call("dots", "scores", "q", Sources(r), r), m))
     \o Phase(PerRow(LAMBDA r : Call("softmax", "scores", "scores", << >>, r), m))
     \o Phase(PerRow(LAMBDA r : Call("wsum", "o", "scores", Sources(r), r), m))
     \o <<Rope("unrope", "o", "rope", R),
          QuantInPlace("q8", "o", R),
          Gemm("wo_a", "after", "flat", "o", R),
          QuantInPlace("q8", "flat", R),
          Gemm("wo_b", "after", "out", "flat", R)>>

\* moe up to the gate's results.
GateSteps(R) ==
  <<Gemm("gate", "after", "gate_out", "x", R),
    Quantized("x", "xq", R),
    Each("copy", "after", {}, "x_host", <<"xq">>, R),
    Sync,
    Each("copy", "cpu", {}, "raw", <<"gate_out">>, R)>>

MixBuffer(l) == IF l % 2 = 0 THEN "mix_ffn0" ELSE "mix_ffn1"

\* forward's body for layer l, up to the routing.
LayerSteps(l, c, start, m) ==
  LET R == 0..m - 1
      mixIn == IF l = 1 THEN "identity_mix" ELSE MixBuffer(l - 1)
      mixTable == IF l = 1 THEN {"identity_mix"} ELSE {}
  IN (IF Layers[l].engram THEN EngramSteps(l, c, start, R) ELSE << >>)
     \o MixSteps("attn", "h0", mixIn, mixTable, "mix_attn", R)
     \o ProjectSteps(l, start, R)
     \o (IF Layers[l].source THEN CompressSteps(l, start, m, R) ELSE << >>)
     \o (IF Layers[l].index THEN IndexSteps(l, start, m, R) ELSE << >>)
     \o AttendSteps(l, start, m, R)
     \o <<Each("hc_post", "after", {}, "h1", <<"out", "h0", "mix_attn">>, R)>>
     \o MixSteps("ffn", "h1", "mix_attn", {}, MixBuffer(l), R)
     \o GateSteps(R)

\* run_experts: `rows` are the rows of each expert in VRAM.
ExpertSteps(vram, m) ==
  LET R == 0..m - 1
      jobs == SetToSeq(DOMAIN vram)
      Buf(name, e) == name \o "." \o e
      Input(e) == IF vram[e] = R THEN "xq" ELSE Buf("input", e)
      ForJobs(S(_)) == [i \in DOMAIN jobs |-> S(jobs[i])]
      OfJob(fn, out, ins, t, e) == Each(fn, "", t, out, ins, vram[e])
      weights == ForJobs(LAMBDA e : Put(Buf("weights", e), [r \in vram[e] |-> RefWeight(e, val[<<"raw", r>>])]))
      tables == ForJobs(LAMBDA e : Put(Buf("table", e), NoRows))
      copies == SelectSeq(ForJobs(LAMBDA e : OfJob("copy", Buf("input", e), <<"xq">>, {Buf("table", e)}, e)),
                          LAMBDA d : \A e \in DOMAIN vram : vram[e] = R => Buf("input", e) \notin {a[1] : a \in DOMAIN d.f})
      gates == ForJobs(LAMBDA e : OfJob("w1." \o e, Buf("gate", e), <<Input(e)>>, {}, e))
      ups == ForJobs(LAMBDA e : OfJob("w3." \o e, Buf("up", e), <<Input(e)>>, {}, e))
      mids == ForJobs(LAMBDA e : OfJob("swiglu_quant", Buf("mid", e),
                                       <<Buf("gate", e), Buf("up", e), Buf("weights", e)>>, {Buf("weights", e)}, e))
      outs == ForJobs(LAMBDA e : OfJob("w2." \o e, Buf("out", e), <<Buf("mid", e)>>, {}, e))
      adds == ForJobs(LAMBDA e : Each("add", "after", {Buf("table", e)}, "out", <<"out", Buf("out", e)>>, vram[e]))
      total == IF m = 1
               THEN <<Put("summands", NoRows),
                      Step("sum", "after", "", {"summands"},
                           [a \in {<<"out", 0>>} |-> <<<<"out.shared", 0>>>> \o ForJobs(LAMBDA e : <<Buf("out", e), 0>>)])>>
               ELSE <<Each("start", "after", {}, "out", <<"out.shared">>, R)>> \o adds
  IN tables \o weights
     \o Phase(copies)
     \o Phase(<<Gemm("w1.shared", "", "gate.shared", "xq", R), Gemm("w3.shared", "", "up.shared", "xq", R)>>
              \o gates \o ups)
     \o Phase(<<Each("swiglu_quant", "", {}, "mid.shared", <<"gate.shared", "up.shared">>, R)>> \o mids)
     \o Phase(<<Gemm("w2.shared", "", "out.shared", "mid.shared", R)>> \o outs)
     \o total

\* run_ram_experts: the CPU computes while the GPU works, and the sum of what
\* it computed is added to the GPU's.
RamSteps(ram, m) ==
  LET R == 0..m - 1
      mine == [r \in R |-> {e \in DOMAIN ram : r \in ram[e]}]
  IN IF DOMAIN ram = {} THEN << >>
     ELSE <<Step("ram_experts", "cpu", mine, {}, [a \in {"cpu_out"} \X R |-> <<<<"x_host", a[2]>>, <<"raw", a[2]>>>>]),
            Each("add_all", "after", {}, "out", <<"out", "cpu_out">>, R)>>

\* The rest of the layer, once the CPU knows where each picked expert is.
RoutedSteps(l, m, vram, ram) ==
  ExpertSteps(vram, m) \o RamSteps(ram, m)
  \o <<Each("hc_post", "after", {}, "h0", <<"out", "h1", MixBuffer(l)>>, 0..m - 1), Sync>>

\* forward before and after the layers.
EmbedSteps(c, start, R) ==
  <<Put("ids", [r \in R |-> Op("id", <<c, start + r>>)]),
    Each("embed", "after", {"ids"}, "h0", <<"ids">>, R),
    Put("identity_mix", [r \in R |-> Op("identity", << >>)])>>

HeadSteps(m) ==
  LET R == 0..m - 1
  IN <<Each("hc_pre", "after", {}, "x", <<"h0", MixBuffer(Len(Layers))>>, R)>>
     \o Norm("out", "x", R)
     \o <<Gemm("head", "after", "logits", "x", {m - 1}), Sync,
          Each("copy", "cpu", {}, "answer", <<"logits">>, {m - 1})>>

-----------------------------------------------------------------------------
(* The machine *)

\* Tables live in the host arena, a hundred cells apart.
Place(a) == IF a[1] \in DOMAIN host.at THEN <<"host", Cell(host.at[a[1]], a[2])>> ELSE a
TablesOf(t) == {<<"host", Cell(host.at[x], 0)>> : x \in t}
Stale == Op("stale", << >>)
Value(a) == IF Place(a) \in DOMAIN val THEN val[Place(a)] ELSE Stale

Reads(d) == {Place(x) : x \in UNION {Range(d.f[a]) : a \in DOMAIN d.f}} \cup TablesOf(d.t)
Writes(d) == DOMAIN d.f

Summands(v) == IF v[1] = "sum" THEN v[2][1] ELSE {v}

\* What a kernel (or the CPU) computes for cell a from the values vs.
Result(d, a, vs) ==
  CASE d.fn = "copy" -> vs[1]
    [] d.fn = "norm_apply" ->
         IF vs[1] = Op("norm_partial", <<vs[2]>>) THEN Op(d.w, <<vs[2]>>) ELSE Stale
    [] d.fn = "swiglu_quant" -> Op("q8", <<Op("swiglu", vs)>>)
    [] d.fn = "start" -> Op("sum", <<{vs[1]}>>)
    [] d.fn = "sum" -> Op("sum", <<Range(vs)>>)
    [] d.fn = "add" -> Op("sum", <<Summands(vs[1]) \cup {vs[2]}>>)
    [] d.fn = "add_all" -> Op("sum", <<Summands(vs[1]) \cup Summands(vs[2])>>)
    [] d.fn = "ram_experts" -> Op("sum", <<{RefExpert(e, vs[1], <<RefWeight(e, vs[2])>>) : e \in d.w[a[2]]}>>)
    [] d.fn = "cpu_write" -> d.w[a[2]]
    [] OTHER -> Op(d.fn, vs)

Results(d) == [a \in DOMAIN d.f |-> Result(d, a, [i \in DOMAIN d.f[a] |-> Value(d.f[a][i])])]

IdleQueue == [pending |-> 0, open |-> << >>, reads |-> {}, writes |-> {}]

\* Commands::go, which syncs first when too much is pending, and orders the
\* packet behind a barrier or not.
Submit(d) ==
  LET q == IF queue.pending >= MaxPending THEN IdleQueue ELSE queue
      packet == [r |-> Reads(d), w |-> Writes(d)]
      after == d.o = "after"
  IN /\ queue' = [pending |-> q.pending + (IF after THEN 2 ELSE 1),
                  open |-> IF after THEN <<packet>> ELSE Append(q.open, packet),
                  reads |-> q.reads \cup packet.r, writes |-> q.writes \cup packet.w]
     /\ val' = Results(d) @@ val
     /\ UNCHANGED host

\* Commands::sync.
SyncQueue == queue' = IdleQueue /\ UNCHANGED <<val, host>>

\* HostArena::put.
PutTable(d) ==
  LET label == CHOOSE x \in d.t : TRUE
  IN /\ host' = [used |-> host.used + 1, at |-> (label :> host.used) @@ host.at]
     /\ val' = [a \in {<<"host", Cell(host.used, r)>> : r \in DOMAIN d.w} |-> d.w[a[2] % 100]] @@ val
     /\ UNCHANGED queue

CpuStep(d) == val' = Results(d) @@ val /\ UNCHANGED <<queue, host>>

\* The next step of the pass.
Run ==
  /\ pass.on /\ todo # << >>
  /\ LET d == Head(todo)
     IN CASE d.o = "sync" -> SyncQueue
          [] d.o = "put" -> PutTable(d)
          [] d.o = "cpu" -> CpuStep(d)
          [] OTHER -> Submit(d)
  /\ todo' = Tail(todo)
  /\ UNCHANGED <<pass, count>>

NoPass == [on |-> FALSE, c |-> 1, start |-> 0, m |-> 0, layer |-> 0, routed |-> << >>, fails |-> 0]
GpuInit ==
  /\ pass = NoPass /\ todo = << >> /\ val = << >> /\ queue = IdleQueue
  /\ host = [used |-> 1, at |-> << >>]
  /\ count = [l \in DOMAIN Layers |-> 0]

\* What outlives a layer: the rings, the stores, and the CPU's picks.
Lasting == {"ring", "pair_kv", "pair_score", "kv_store", "key_store", "topk", "candidates"}
Kept == {a \in DOMAIN val : a[1] \in Lasting}

\* forward begins.  pass.start is GpuModel::position.  The arena restarts
\* behind the identity table.
Forward ==
  /\ ~pass.on
  /\ \E m \in 1..MaxChunk :
       LET R == 0..m - 1
       IN /\ pass.start + m <= Context
          /\ pass' = [pass EXCEPT !.on = TRUE, !.m = m, !.layer = 0, !.routed = << >>]
          /\ todo' = EmbedSteps(pass.c, pass.start, R)
          /\ val' = [a \in {"topk"} \X R |-> Op("top", << >>)] @@ Restrict(val, {a \in Kept : a[1] \notin {"topk", "candidates"}})
  /\ host' = [used |-> 1, at |-> << >>]
  /\ UNCHANGED <<queue, count>>

\* The next layer begins.  The stream and the mix that reach it have been
\* compared with the reference's, and get names of their own; every other
\* buffer of the layer before is stale.
NextLayer ==
  /\ pass.on /\ todo = << >> /\ pass.layer < Len(Layers)
  /\ pass.layer = 0 \/ pass.routed # << >>
  /\ LET l == pass.layer + 1
         R == 0..pass.m - 1
         stream == [a \in {"h0"} \X R |-> Tok(pass.c, l, pass.start + a[2])]
         mix == [a \in {MixBuffer(pass.layer)} \X R |-> MixIn(pass.c, l, pass.start + a[2])]
     IN /\ pass' = [pass EXCEPT !.layer = l, !.routed = << >>]
        /\ todo' = LayerSteps(l, pass.c, pass.start, pass.m)
        /\ IF l = 1 THEN UNCHANGED <<val, host>>
           ELSE /\ val' = stream @@ mix @@ Restrict(val, Kept)
                /\ host' = [used |-> 1, at |-> << >>]
        /\ count' = IF Layers[l].source
                    THEN [count EXCEPT ![l] = @ + Cardinality({r \in R : (pass.start + r + 1) % Layers[l].ratio = 0})]
                    ELSE count
  /\ UNCHANGED queue

\* moe: the gate picked experts for every row, and each is in VRAM, in RAM,
\* or still to be read, which the pass survives or not (load_now).
Route ==
  /\ pass.on /\ todo = << >> /\ pass.layer \in DOMAIN Layers /\ pass.routed = << >>
  /\ \E picks \in [0..pass.m - 1 -> SUBSET Routed \ {{}}], vram \in SUBSET Routed :
       LET RowsOf(e) == {r \in DOMAIN picks : e \in picks[r]}
           used == UNION {picks[r] : r \in DOMAIN picks}
       IN /\ vram \subseteq used
          /\ pass.layer \notin RouteLayers => vram = Routed /\ picks = [r \in DOMAIN picks |-> Routed]
          /\ pass' = [pass EXCEPT !.routed = <<picks>>]
          /\ todo' = RoutedSteps(pass.layer, pass.m, [e \in vram |-> RowsOf(e)], [e \in used \ vram |-> RowsOf(e)])
  /\ UNCHANGED <<val, host, queue, count>>

\* load_now fails: forward returns with packets in the queue.  The job ends,
\* and the next one resets the model first.
LoadFails ==
  /\ pass.on /\ todo # << >> /\ Head(todo).fn = "ram_experts" /\ pass.fails < MaxFails
  /\ pass.c < MaxConversations
  /\ pass' = [NoPass EXCEPT !.c = pass.c + 1, !.fails = pass.fails + 1]
  /\ todo' = << >>
  /\ queue' = IdleQueue
  /\ count' = [l \in DOMAIN Layers |-> 0]
  /\ UNCHANGED <<val, host>>

\* reset, before another conversation.
Reset ==
  /\ ~pass.on /\ pass.c < MaxConversations /\ pass.start > 0
  /\ pass' = [NoPass EXCEPT !.c = pass.c + 1, !.fails = pass.fails]
  /\ count' = [l \in DOMAIN Layers |-> 0]
  /\ UNCHANGED <<todo, val, host, queue>>

\* After the last layer: the head, and the logits are returned.
FinishLayers ==
  /\ pass.on /\ todo = << >> /\ pass.layer = Len(Layers) /\ pass.routed # << >>
  /\ LET R == 0..pass.m - 1
         l == Len(Layers) + 1
     IN /\ val' = [a \in {"h0"} \X R |-> Tok(pass.c, l, pass.start + a[2])]
                  @@ [a \in {MixBuffer(Len(Layers))} \X R |-> MixIn(pass.c, l, pass.start + a[2])]
                  @@ Restrict(val, Kept)
        /\ pass' = [pass EXCEPT !.layer = l]
  /\ host' = [used |-> 1, at |-> << >>]
  /\ todo' = HeadSteps(pass.m)
  /\ UNCHANGED <<queue, count>>

Return ==
  /\ pass.on /\ todo = << >> /\ pass.layer = Len(Layers) + 1
  /\ pass' = [pass EXCEPT !.on = FALSE, !.start = @ + pass.m, !.m = 0, !.layer = 0, !.routed = << >>]
  /\ val' = Restrict(val, Kept)
  /\ UNCHANGED <<todo, host, queue, count>>

GpuNext == Forward \/ NextLayer \/ Route \/ Run \/ LoadFails \/ Reset \/ FinishLayers \/ Return
-----------------------------------------------------------------------------
(* Properties *)

\* gpu_model.rs mirrors reference.rs: after every layer the stream and the
\* mix of each row are what the reference computes at that position, and the
\* logits at the end are the reference's, whatever the chunks, the rings' and
\* stores' state, the picked experts and the tier each one runs in.
MirrorsReference ==
  /\ (pass.on /\ todo = << >> /\ pass.routed # << >> /\ pass.layer \in DOMAIN Layers) =>
       \A r \in 0..pass.m - 1 :
         LET ref == RefLayer(pass.c, pass.layer, pass.start + r, pass.routed[1][r])
         IN /\ Value(<<"h0", r>>) = ref.stream
            /\ Value(<<MixBuffer(pass.layer), r>>) = ref.mix
  /\ (pass.on /\ todo = << >> /\ pass.layer = Len(Layers) + 1) =>
       Value(<<"answer", pass.m - 1>>) = RefLogits(pass.c, pass.start + pass.m - 1)

CpuWrites(d) ==
  CASE d.o = "cpu" -> Writes(d)
    [] d.o = "put" -> {<<"host", Cell(host.used, 0)>>}
    [] OTHER -> {}
CpuReads(d) == IF d.o = "cpu" THEN Reads(d) ELSE {}

=============================================================================
