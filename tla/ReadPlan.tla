------------------------------ MODULE ReadPlan ------------------------------
(***************************************************************************)
(* How chatty-metal/src/store.rs cuts a batch of extents into aligned      *)
(* chunk tasks for its reader (plan_read_tasks).  A file is its byte       *)
(* positions.                                                              *)
(***************************************************************************)
EXTENDS Naturals, Sequences, FiniteSets, SequencesExt

CONSTANTS Chunk, Align, Gap   \* CHUNK_BYTES, DIRECT_ALIGN, COALESCE_GAP

VARIABLE plan   \* the extents of a batch and their destinations

Least(a, b) == IF a < b THEN a ELSE b
Most(a, b) == IF a > b THEN a ELSE b
AlignDown(n) == (n \div Align) * Align
AlignUp(n) == ((n + Align - 1) \div Align) * Align

\* The pieces of extent [shard, offset, len] that is to be stored at dst: it
\* is cut where a chunk of the file ends.
SubOps(extent, dst) ==
  LET end == extent.offset + extent.len
      cut == {extent.offset} \cup {b \in extent.offset..end - 1 : b % Chunk = 0}
      starts == SetToSortSeq(cut, <)
  IN IF extent.len = 0 THEN <<>>
     ELSE [i \in 1..Len(starts) |->
             LET off == starts[i] IN
             [shard |-> extent.shard, offset |-> off, dst |-> dst + (off - extent.offset),
              len |-> Least(end, (off \div Chunk + 1) * Chunk) - off]]

Before(a, b) == a.shard < b.shard \/ (a.shard = b.shard /\ a.offset < b.offset)

\* finish_chunk over the group of operations g.
FinishChunk(shard, start, end, g) ==
  [shard |-> shard, offset |-> AlignDown(start), len |-> AlignUp(end) - AlignDown(start),
   required |-> end - AlignDown(start), ops |-> g]

\* One turn of the coalescing loop: the operation joins the open span when
\* it is near and the span still fits a bounce buffer.
Coalesce(acc, op) ==
  LET end == Most(acc.end, op.offset + op.len) IN
  IF /\ op.shard = acc.shard /\ op.offset <= acc.end + Gap
     /\ AlignUp(end) - AlignDown(acc.start) <= Chunk
  THEN [acc EXCEPT !.end = end, !.group = Append(@, op)]
  ELSE [shard |-> op.shard, start |-> op.offset, end |-> op.offset + op.len, group |-> <<op>>,
        tasks |-> Append(acc.tasks, FinishChunk(acc.shard, acc.start, acc.end, acc.group))]

PlanReadTasks(ops) ==
  LET subs == SortSeq(FlattenSeq([i \in 1..Len(ops) |-> SubOps(ops[i].extent, ops[i].dst)]), Before)
      first == Head(subs)
      last == FoldLeft(Coalesce,
                [shard |-> first.shard, start |-> first.offset, end |-> first.offset + first.len,
                 group |-> <<first>>, tasks |-> <<>>], Tail(subs))
  IN IF subs = <<>> THEN <<>>
     ELSE Append(last.tasks, FinishChunk(last.shard, last.start, last.end, last.group))

\* What execute copies for a task: <<destination, shard, file byte>>.
Copied(task) ==
  UNION {{<<op.dst + b, op.shard, op.offset + b>> : b \in 0..op.len - 1}
           : op \in {task.ops[i] : i \in 1..Len(task.ops)}}

-----------------------------------------------------------------------------
\* plan_read_tasks: every byte of every extent is copied from its place in
\* the file to its place in memory, by exactly one task; a task is aligned,
\* fits the bounce buffer, and asks for no byte past what it needs.
PlanIsExact ==
  LET tasks == PlanReadTasks(plan)
      wanted == UNION {{<<plan[i].dst + b, plan[i].extent.shard, plan[i].extent.offset + b>>
                          : b \in 0..plan[i].extent.len - 1} : i \in 1..Len(plan)}
  IN /\ wanted = UNION {Copied(tasks[k]) : k \in 1..Len(tasks)}
     /\ \A j, k \in 1..Len(tasks) : j # k => Copied(tasks[j]) \cap Copied(tasks[k]) = {}
     /\ \A k \in 1..Len(tasks) :
          /\ tasks[k].offset % Align = 0 /\ tasks[k].len <= Chunk /\ tasks[k].required <= tasks[k].len
          /\ \A x \in Copied(tasks[k]) :
               x[2] = tasks[k].shard /\ x[3] \in tasks[k].offset..tasks[k].offset + tasks[k].required - 1
=============================================================================
