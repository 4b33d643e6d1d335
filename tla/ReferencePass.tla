---------------------------- MODULE ReferencePass ----------------------------
(***************************************************************************)
(* What chatty-metal/src/reference.rs computes, as terms: a term is the    *)
(* name of an operation and the terms it is applied to.  Weights are part  *)
(* of the operation's name, numbers never appear.  gpu_model.rs "mirrors"  *)
(* this (its first line), which GpuPass checks.                            *)
(*                                                                         *)
(* Tok(c, l, p) is the stream that reaches layer l at position p of        *)
(* conversation c, and MixIn(c, l, p) the mix that comes with it: the      *)
(* layers are compared one by one.                                         *)
(***************************************************************************)
EXTENDS Naturals, Sequences, FiniteSets, SequencesExt

CONSTANTS Window,  \* WINDOW
          Layers   \* a record per layer: ratio, engram, source (KV_SOURCES),
                   \* index (INDEX_SOURCES), cand ("no", "make", "use")

Op(f, args) == <<f, args>>

Tok(c, l, p) == IF l = 1 THEN Op("embed", <<Op("id", <<c, p>>)>>) ELSE Op("stream", <<c, l, p>>)
MixIn(c, l, p) == IF l = 1 THEN Op("identity", <<>>) ELSE Op("mix_in", <<c, l, p>>)
Pos(p) == Op("position", <<p>>)

\* linear_q quantizes what it multiplies; linear_f does not.
LinearQ(w, x) == Op(w, <<Op("q8", <<x>>)>>)
Linear(w, x) == Op(w, <<x>>)
RmsNorm(w, x) == Op("norm." \o w, <<x>>)
RopeAt(x, p) == Op("rope", <<x, Pos(p)>>)

\* engram_values and apply_engram: gate the looked-up rows into the stream.
RefStream(c, l, p) ==
  IF Layers[l].engram
  THEN Op("engram_gate", <<Tok(c, l, p), LinearQ("engram.wkv", Op("rows", <<c, l, p>>))>>)
  ELSE Tok(c, l, p)

\* HcWeights::mixes, hc_pre and hc_post.
RefMixes(which, h) == Op("sinkhorn." \o which, <<Op("project." \o which, <<h>>)>>)
RefHcPre(h, mix) == Op("hc_pre", <<h, mix>>)
RefHcPost(x, h, mix) == Op("hc_post", <<x, h, mix>>)

\* What attention works on.
RefX(c, l, p) == RmsNorm("attn", RefHcPre(RefStream(c, l, p), MixIn(c, l, p)))
RefQr(c, l, p) == RmsNorm("q", LinearQ("wq_a", RefX(c, l, p)))
RefQ(c, l, p) == RopeAt(LinearQ("wq_b", RefQr(c, l, p)), p)
RefKv(c, l, p) == Op("q8", <<RopeAt(RmsNorm("kv", LinearQ("wkv", RefX(c, l, p))), p)>>)

\* The layer whose store, and whose picks, layer l uses.
LastWith(P(_), l) == CHOOSE k \in 1..l : P(Layers[k]) /\ \A j \in k + 1..l : ~P(Layers[j])
StoreOf(l) == LastWith(LAMBDA kind : kind.source, l)
PicksOf(l) == LastWith(LAMBDA kind : kind.index, l)
CandidateSource == CHOOSE k \in DOMAIN Layers : Layers[k].cand = "make"

Visible(l, p) == (p + 1) \div Layers[l].ratio

\* The compressor of source layer s: group g pools positions g*ratio to
\* (g+1)*ratio - 1 (pool_group), and with ratio 1 there is nothing to pool.
RefLatent(c, s, g) ==
  LET ratio == Layers[s].ratio
      Each(w) == [i \in 1..ratio |-> Linear(w, RefX(c, s, g * ratio + i - 1))]
  IN RmsNorm("compressor", IF ratio = 1 THEN Head(Each("compressor.wkv"))
                           ELSE Op("pool", Each("compressor.wkv") \o Each("compressor.wgate")))

RefKey(c, s, g) ==
  Op("q4", <<RopeAt(RmsNorm("k", Linear("indexer.wk", RefLatent(c, s, g))), g * Layers[s].ratio)>>)
RefCompressed(c, s, g) == Op("q4e", <<RopeAt(RefLatent(c, s, g), g * Layers[s].ratio)>>)

\* The scores an index source gives the visible groups, and what it picks.
RefScores(c, l, p) ==
  Op("index", <<Op("q4", <<RopeAt(LinearQ("indexer.wq_b", RefQr(c, l, p)), p)>>),
                Op("scale", <<Linear("weights_proj", RefX(c, l, p))>>)>>
              \o [g \in 1..Visible(l, p) |-> RefKey(c, StoreOf(l), g - 1)])

RefTop(c, l, p) ==
  LET visible == Visible(l, p) > 0
      blocks == IF Visible(CandidateSource, p) > 0 THEN <<Op("blocks", <<RefScores(c, CandidateSource, p)>>)>>
                ELSE <<>>
  IN Op("top", IF ~visible THEN <<>>
               ELSE IF Layers[l].cand = "use" THEN <<RefScores(c, l, p)>> \o blocks
               ELSE <<RefScores(c, l, p)>>)

\* attention: the window of the ring, then the picked compressed positions
\* (which they are is up to the scores, so the term has the picks and all
\* the visible groups).
RefAttention(c, l, p) ==
  LET first == IF p >= Window THEN p - Window + 1 ELSE 0
      window == [i \in 1..p - first + 1 |-> RefKv(c, l, first + i - 1)]
      picked == IF Layers[l].ratio = 0 THEN <<>>
                ELSE <<RefTop(c, PicksOf(l), p)>>
                     \o [g \in 1..Visible(l, p) |-> RefCompressed(c, StoreOf(l), g - 1)]
      weights == Op("softmax", <<Op("dots", <<RefQ(c, l, p)>> \o window \o picked)>>)
      o == Op("q8", <<Op("unrope", <<Op("wsum", <<weights>> \o window \o picked), Pos(p)>>)>>)
  IN Linear("wo_b", Op("q8", <<Linear("wo_a", o)>>))

\* expert_forward, route's weight, and moe: the shared expert and the picked
\* experts of a row, in any order.
RefExpert(e, xq, weight) ==
  Op("w2." \o e, <<Op("q8", <<Op("swiglu", <<Op("w1." \o e, <<xq>>), Op("w3." \o e, <<xq>>)>> \o weight)>>)>>)
RefWeight(e, gate) == Op("route." \o e, <<gate>>)

RefMoe(x, experts) ==
  LET xq == Op("q8", <<x>>)
  IN Op("sum", <<{RefExpert("shared", xq, <<>>)}
                 \cup {RefExpert(e, xq, <<RefWeight(e, Linear("gate", x))>>) : e \in experts}>>)

\* One layer of forward at position p: the stream and the mix it passes on.
RefLayer(c, l, p, experts) ==
  LET h == RefStream(c, l, p)
      mixA == RefMixes("attn", h)
      h1 == RefHcPost(RefAttention(c, l, p), h, mixA)
      mixF == RefMixes("ffn", h1)
      x == RmsNorm("ffn", RefHcPre(h1, mixA))
  IN [stream |-> RefHcPost(RefMoe(x, experts), h1, mixF), mix |-> mixF]

\* forward's head: the logits of the last position.
RefLogits(c, p) ==
  LET l == Len(Layers) + 1 IN Linear("head", RmsNorm("out", RefHcPre(Tok(c, l, p), MixIn(c, l, p))))
=============================================================================
