----------------------------- MODULE EngramCache -----------------------------
(***************************************************************************)
(* The set-associative row cache of chatty-metal/src/store.rs: lookup_batch*)
(* answers a batch of rows from the cache and reads the others once, then  *)
(* keeps them, evicting by a clock per set.                                *)
(*                                                                         *)
(* A row stands for its tag (never 0) and for its bytes; Skip is           *)
(* ENGRAM_SKIP_ROW, answered by zeros.                                     *)
(***************************************************************************)
EXTENDS Naturals, Sequences, FiniteSets, SequencesExt

CONSTANTS
  Row, Skip,        \* 1..n, and 0
  EngramSet, Ways,  \* sets, and ENGRAM_WAYS
  SetIndex(_),      \* mix64 of a tag, scaled to the sets
  MaxBatch,         \* rows of a batch
  MaxLookups, MaxFailedLookups

VARIABLES
  tags, payloads,   \* of [set][way]; 0 is empty
  used, hand,       \* the clock: reference bits and hand of a set
  asked, out,       \* the last batch and its answer
  lookups, failedLookups

engramVars == <<tags, payloads, used, hand, asked, out, lookups, failedLookups>>

EngramInit ==
  /\ tags = [s \in EngramSet |-> [w \in 1..Ways |-> 0]] /\ payloads = tags
  /\ used = [s \in EngramSet |-> {}] /\ hand = [s \in EngramSet |-> 1]
  /\ asked = <<>> /\ out = <<>> /\ lookups = 0 /\ failedLookups = 0

WayOf(c, r) == {w \in 1..Ways : c.tags[SetIndex(r)][w] = r}

\* probe_hit marks the way it finds.
Probe(c, r) ==
  IF r = Skip THEN c ELSE [c EXCEPT !.used[SetIndex(r)] = @ \cup WayOf(c, r)]

\* The victim of a full set: the first way from the hand that is not marked;
\* the marked ones it passes lose their mark.
RECURSIVE ClockFrom(_, _)
ClockFrom(marks, h) ==
  IF h \in marks THEN ClockFrom(marks \ {h}, (h % Ways) + 1)
  ELSE [victim |-> h, marks |-> marks \cup {h}, hand |-> (h % Ways) + 1]

Keep(c, s, w, r) == [c EXCEPT !.tags[s][w] = r, !.payloads[s][w] = r, !.used[s] = @ \cup {w}]

\* insert_row: the first way that is empty or has the tag, else the clock's.
InsertRow(c, r) ==
  LET s == SetIndex(r)
      room == {w \in 1..Ways : c.tags[s][w] \in {0, r}}
      clock == ClockFrom(c.used[s], c.hand[s])
  IN IF room # {} THEN Keep(c, s, CHOOSE w \in room : \A x \in room : w <= x, r)
     ELSE Keep([c EXCEPT !.used[s] = clock.marks, !.hand[s] = clock.hand], s, clock.victim, r)

\* lookup_batch: probe all, read the rows that missed (once each, in the
\* order of their first miss), keep them.
LookupBatch(rows) ==
  LET c0 == [tags |-> tags, payloads |-> payloads, used |-> used, hand |-> hand]
      c1 == FoldLeft(Probe, c0, rows)
      hit(r) == r # Skip /\ WayOf(c0, r) # {}
      first == SelectSeq(rows, LAMBDA r : r # Skip /\ ~hit(r))
      missed == FoldLeft(LAMBDA acc, r : IF r \in ToSet(acc) THEN acc ELSE Append(acc, r), <<>>, first)
      c2 == FoldLeft(InsertRow, c1, missed)
      answer == [i \in 1..Len(rows) |->
                   IF rows[i] = Skip THEN 0
                   ELSE IF hit(rows[i])
                        THEN c0.payloads[SetIndex(rows[i])][CHOOSE w \in WayOf(c0, rows[i]) : TRUE]
                        ELSE rows[i]]
  IN /\ lookups < MaxLookups /\ lookups' = lookups + 1
     /\ \/ /\ missed # <<>> /\ failedLookups < MaxFailedLookups /\ failedLookups' = failedLookups + 1
           /\ used' = c1.used /\ asked' = <<>> /\ out' = <<>> /\ UNCHANGED <<tags, payloads, hand>>
        \/ /\ tags' = c2.tags /\ payloads' = c2.payloads /\ used' = c2.used /\ hand' = c2.hand
           /\ asked' = rows /\ out' = answer /\ UNCHANGED failedLookups

EngramNext == \E n \in 1..MaxBatch : \E rows \in [1..n -> Row \cup {Skip}] : LookupBatch(rows)

-----------------------------------------------------------------------------
\* lookup_batch answers every row by its own bytes, whatever was evicted in
\* between, and a row is cached at most once.
RowsAreExact ==
  /\ \A i \in 1..Len(asked) : out[i] = asked[i]
  /\ \A s \in EngramSet : \A v, w \in 1..Ways :
       /\ tags[s][v] # 0 => payloads[s][v] = tags[s][v] /\ SetIndex(tags[s][v]) = s
       /\ v # w /\ tags[s][v] # 0 => tags[s][v] # tags[s][w]
=============================================================================
