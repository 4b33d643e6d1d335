----------------------------- MODULE ShardReader -----------------------------
(***************************************************************************)
(* The parallel weight reader of chatty-metal/src/store.rs: the pool of    *)
(* worker threads that share the tasks of the calling thread through a raw *)
(* pointer and one atomic cursor (read_raw, worker_loop, drain_tasks).     *)
(*                                                                         *)
(* A batch is known by its generation, and its tasks (see ReadPlan) by     *)
(* their number; `live` are the batches whose task list is still in scope  *)
(* in read_raw.                                                            *)
(***************************************************************************)
EXTENDS Naturals, Sequences, FiniteSets

CONSTANTS
  ReadCaller,      \* threads that call read_raw
  ReadWorker,      \* background threads of the pool
  MaxTasks,        \* tasks of a batch
  MaxReads,        \* batches
  MaxBadReads      \* tasks that fail

ASSUME ReaderAssumption ==
  /\ {MaxTasks, MaxReads, MaxBadReads} \subseteq Nat
  /\ IsFiniteSet(ReadWorker) /\ ReadCaller \cap ReadWorker = {}

VARIABLES
  pool,      \* [cursor, batch, lock, live, generation, open, bad]
  reading,   \* what a caller or a worker does, and on which batch
  finished,  \* tasks executed, per batch
  result     \* tasks of the batches for which read_raw returned Ok

readerVars == <<pool, reading, finished, result>>

ReadThread == ReadCaller \cup ReadWorker
NoBatch == [generation |-> 0, tasks |-> 0, remaining |-> 0, error |-> FALSE]
Idle == [at |-> "idle", generation |-> 0, tasks |-> 0, task |-> 0, error |-> FALSE]

ReaderInit ==
  /\ pool = [cursor |-> 0, batch |-> NoBatch, lock |-> FALSE, live |-> {}, generation |-> 0,
             open |-> TRUE, bad |-> 0]
  /\ reading = [t \in ReadThread |-> Idle]
  /\ finished = [g \in 1..MaxReads |-> <<>>] /\ result = [g \in 1..MaxReads |-> 0]

Move(t, r) == reading' = [reading EXCEPT ![t] = r]

\* read_raw takes caller_bounce and publishes the batch; with one task, or
\* no workers, the caller keeps it to itself.
ReadRaw(c) ==
  /\ reading[c].at = "idle" /\ pool.open /\ ~pool.lock /\ pool.generation < MaxReads
  /\ \E n \in 1..MaxTasks :
       LET g == pool.generation + 1 IN
       /\ pool' = [pool EXCEPT !.lock = TRUE, !.cursor = 0, !.generation = g, !.live = @ \cup {g},
                               !.batch = IF n = 1 \/ ReadWorker = {} THEN NoBatch
                                         ELSE [generation |-> g, tasks |-> n, error |-> FALSE,
                                               remaining |-> Cardinality(ReadWorker)]]
       /\ Move(c, [Idle EXCEPT !.at = "claim", !.generation = g, !.tasks = n])
  /\ UNCHANGED <<finished, result>>

\* drain_tasks: fetch_add on the cursor.
Claim(t) ==
  /\ reading[t].at = "claim" /\ pool' = [pool EXCEPT !.cursor = @ + 1]
  /\ Move(t, IF pool.cursor >= reading[t].tasks THEN [reading[t] EXCEPT !.at = "drained"]
             ELSE [reading[t] EXCEPT !.at = "execute", !.task = pool.cursor + 1])
  /\ UNCHANGED <<finished, result>>

\* ShardHandle::execute: read (direct, or buffered when the file system
\* refuses) and copied, or an error that ends this thread's draining.
Execute(t) ==
  /\ reading[t].at = "execute"
  /\ \/ /\ finished' = [finished EXCEPT ![reading[t].generation] = Append(@, reading[t].task)]
        /\ Move(t, [reading[t] EXCEPT !.at = "claim"]) /\ UNCHANGED pool
     \/ /\ pool.bad < MaxBadReads /\ pool' = [pool EXCEPT !.bad = @ + 1]
        /\ Move(t, [reading[t] EXCEPT !.at = "drained", !.error = TRUE]) /\ UNCHANGED finished
  /\ UNCHANGED result

\* worker_loop sees a batch it has not seen.
WorkerWakes(w) ==
  /\ reading[w].at = "idle" /\ pool.open
  /\ pool.batch # NoBatch /\ pool.batch.generation # reading[w].generation
  /\ Move(w, [Idle EXCEPT !.at = "claim", !.generation = pool.batch.generation, !.tasks = pool.batch.tasks])
  /\ UNCHANGED <<pool, finished, result>>

\* A worker that reports the batch it finds, without telling generations apart.
WorkerReportsAny(w) ==
  /\ reading[w].at = "drained" /\ Move(w, [Idle EXCEPT !.generation = reading[w].generation])
  /\ IF pool.batch # NoBatch
     THEN pool' = [pool EXCEPT !.batch.remaining = @ - 1] ELSE UNCHANGED pool
  /\ UNCHANGED <<finished, result>>

\* The worker reports its error, and that it is through.
WorkerReports(w) ==
  /\ reading[w].at = "drained" /\ Move(w, [Idle EXCEPT !.generation = reading[w].generation])
  /\ IF pool.batch # NoBatch /\ pool.batch.generation = reading[w].generation
     THEN pool' = [pool EXCEPT !.batch.remaining = @ - 1, !.batch.error = @ \/ reading[w].error]
     ELSE UNCHANGED pool
  /\ UNCHANGED <<finished, result>>

\* The caller waits for every worker, takes the batch away and returns.
ReadReturns(c) ==
  /\ reading[c].at = "drained" /\ pool.batch.remaining = 0
  /\ pool' = [pool EXCEPT !.batch = NoBatch, !.lock = FALSE, !.live = @ \ {reading[c].generation}]
  /\ result' = [result EXCEPT ![reading[c].generation] =
                  IF reading[c].error \/ pool.batch.error THEN 0 ELSE reading[c].tasks]
  /\ Move(c, Idle) /\ UNCHANGED finished

\* Drop for Reader: nobody reads any more; the workers are woken and joined.
DropReader ==
  /\ pool.open /\ \A c \in ReadCaller : reading[c].at = "idle"
  /\ pool' = [pool EXCEPT !.open = FALSE] /\ UNCHANGED <<reading, finished, result>>

WorkerExits(w) ==
  /\ ~pool.open /\ reading[w].at = "idle" /\ Move(w, [Idle EXCEPT !.at = "exit"])
  /\ UNCHANGED <<pool, finished, result>>

CallerSteps(c) == Claim(c) \/ Execute(c) \/ ReadReturns(c)
WorkerSteps(w) == WorkerWakes(w) \/ Claim(w) \/ Execute(w) \/ WorkerReports(w) \/ WorkerExits(w)

ReaderNext ==
  \/ \E c \in ReadCaller : ReadRaw(c) \/ CallerSteps(c)
  \/ \E w \in ReadWorker : WorkerSteps(w)
  \/ DropReader

ReaderSpec == ReaderInit /\ [][ReaderNext]_readerVars

\* A waiting worker is notified under the lock; threads run.
ReaderFairness ==
  /\ \A c \in ReadCaller : WF_readerVars(CallerSteps(c))
  /\ \A w \in ReadWorker : WF_readerVars(WorkerSteps(w))

-----------------------------------------------------------------------------
\* read_raw's promise: when it says Ok, every task ran, and ran once.  And the
\* SAFETY comment of worker_loop: whoever holds the pointer to a task list is
\* done with it before read_raw gives the list up.
ReadIsWhole ==
  /\ \A g \in 1..MaxReads : result[g] # 0 =>
       Len(finished[g]) = result[g] /\ {finished[g][i] : i \in 1..Len(finished[g])} = 1..result[g]
  /\ \A t \in ReadThread : reading[t].at \in {"claim", "execute"} => reading[t].generation \in pool.live
=============================================================================
