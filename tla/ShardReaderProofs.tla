------------------------- MODULE ShardReaderProofs --------------------------
(***************************************************************************)
(* The shard reader for any number of threads, callers, tasks and batches: *)
(* a read that succeeds has every task done, each once.                    *)
(*                                                                         *)
(* ReaderInv is inductive.  What it adds to ReadIsWhole is that one batch  *)
(* is in scope at a time and every busy thread works on it, that           *)
(* `remaining' is the number of workers that have not reported it, and     *)
(* that a task below the cursor is done, under way in one thread, or       *)
(* failed with an error that will reach the caller.                        *)
(***************************************************************************)
EXTENDS ShardReader, FiniteSetTheorems, TLAPS

-----------------------------------------------------------------------------
(* Shard reader: the invariant.                                            *)

BatchRow == [generation : Nat, tasks : Nat, remaining : Nat, error : BOOLEAN]
PoolRow == [cursor : Nat, batch : BatchRow, lock : BOOLEAN, live : SUBSET Nat, generation : Nat,
            open : BOOLEAN, bad : Nat]
ThreadRow == [at : {"idle", "claim", "execute", "drained", "exit"}, generation : Nat, tasks : Nat,
              task : Nat, error : BOOLEAN]

ReaderTyped ==
  /\ pool \in PoolRow /\ reading \in [ReadThread -> ThreadRow]
  /\ finished \in [1..MaxReads -> Seq(Nat)] /\ result \in [1..MaxReads -> Nat]

At == {"claim", "execute", "drained"}
Busy(t) == reading[t].at \in At
Executing(t) == reading[t].at = "execute"

\* The tasks of a list, and that it has none twice.
Entries(c) == {c[i] : i \in 1..Len(c)}
Once(c) == \A i, j \in 1..Len(c) : c[i] = c[j] => i = j

Done(g) == Entries(finished[g])

\* caller_bounce: one caller at a time, and only its batch is in scope.
OneBatch ==
  /\ pool.live = IF pool.lock THEN {pool.generation} ELSE {}
  /\ pool.lock => pool.open /\ pool.generation \in 1..MaxReads /\ \E c \in ReadCaller : Busy(c)
  /\ \A c, d \in ReadCaller : Busy(c) /\ Busy(d) => c = d
  /\ \A t \in ReadThread : Busy(t) => pool.lock /\ reading[t].generation = pool.generation
  /\ pool.batch # NoBatch => pool.lock /\ pool.batch.generation = pool.generation
  /\ \A t \in ReadThread : ~Busy(t) => ~reading[t].error

\* A worker is busy only with the batch that is published, and its tasks.
Published ==
  /\ \A w \in ReadWorker : Busy(w) => pool.batch # NoBatch
  /\ \A t \in ReadThread : Busy(t) /\ pool.batch # NoBatch => reading[t].tasks = pool.batch.tasks
  /\ \A w \in ReadWorker : reading[w].generation <= pool.generation

\* The workers that have not reported the batch.
Missing == {w \in ReadWorker : reading[w].at # "idle" \/ reading[w].generation # pool.generation}
Reports == pool.batch # NoBatch => pool.batch.remaining = Cardinality(Missing)

\* An error that will reach the caller.
Flagged == pool.batch.error \/ \E t \in ReadThread : reading[t].error

\* No task is done twice, or before it is claimed.
DoneOnce(g) ==
  /\ Once(finished[g])
  /\ \A k \in Done(g) : k <= pool.cursor

\* A task under way is of the batch, not done, and held by one thread.
HeldOnce(g) ==
  \A t \in ReadThread : Executing(t) =>
    /\ reading[t].task \in 1..reading[t].tasks /\ reading[t].task <= pool.cursor
    /\ reading[t].task \notin Done(g)
    /\ \A s \in ReadThread : Executing(s) /\ reading[s].task = reading[t].task => s = t

\* The task is done, under way or failed.
Held(g, k) == k \in Done(g) \/ (\E s \in ReadThread : Executing(s) /\ reading[s].task = k) \/ Flagged

\* No task below the cursor is lost.
NoneLost(g) ==
  \A t \in ReadThread : Busy(t) =>
    /\ Done(g) \subseteq 1..reading[t].tasks
    /\ \A k \in 1..reading[t].tasks : k <= pool.cursor => Held(g, k)
    /\ reading[t].at = "drained" /\ ~reading[t].error => reading[t].tasks <= pool.cursor

TasksOnce(g) == DoneOnce(g) /\ HeldOnce(g) /\ NoneLost(g)

\* A batch is known to be read only after it is given up, and is not touched again.
Results ==
  \A g \in 1..MaxReads :
    /\ g > pool.generation => finished[g] = <<>> /\ result[g] = 0
    /\ g \in pool.live => result[g] = 0
    /\ result[g] # 0 => Len(finished[g]) = result[g] /\ Done(g) = 1..result[g]

ReaderInv ==
  /\ ReaderTyped /\ OneBatch /\ Published /\ Reports /\ Results
  /\ pool.lock => TasksOnce(pool.generation)

-----------------------------------------------------------------------------
(* Shard reader: records, sequences and cardinalities.                     *)

\* The batch that is published stays.
Kept(p, q) ==
  /\ q.batch = p.batch /\ q.lock = p.lock /\ q.live = p.live /\ q.generation = p.generation
  /\ q.open = p.open

\* fetch_add moves the cursor and nothing else.
LEMMA CursorMoves ==
  ASSUME NEW p \in PoolRow, NEW q, q = [p EXCEPT !.cursor = @ + 1]
  PROVE  q \in PoolRow /\ q.cursor = p.cursor + 1 /\ Kept(p, q)
  BY DEF PoolRow, Kept

\* A failed read is counted and nothing else.
LEMMA BadIsCounted ==
  ASSUME NEW p \in PoolRow, NEW q, q = [p EXCEPT !.bad = @ + 1]
  PROVE  q \in PoolRow /\ q.cursor = p.cursor /\ Kept(p, q)
  BY DEF PoolRow, Kept

\* The fields of the pool.
LEMMA PoolFields ==
  ASSUME NEW p \in PoolRow
  PROVE  /\ p.cursor \in Nat /\ p.generation \in Nat /\ p.batch \in BatchRow
         /\ p.lock \in BOOLEAN
  BY DEF PoolRow

\* No batch is published.
LEMMA NoBatchFacts ==
  NoBatch \in BatchRow /\ NoBatch.remaining = 0 /\ NoBatch.generation = 0 /\ ~NoBatch.error
  BY DEF NoBatch, BatchRow

\* What read_raw publishes under the lock.
Begun(p, g, b) == [p EXCEPT !.lock = TRUE, !.cursor = 0, !.generation = g, !.live = @ \cup {g}, !.batch = b]
BegunFits(p, q, g, b) ==
  /\ q \in PoolRow /\ q.cursor = 0 /\ q.lock /\ q.generation = g /\ q.live = p.live \cup {g}
  /\ q.batch = b /\ q.open = p.open

\* read_raw starts the cursor anew and publishes its batch alone.
LEMMA PoolPublishes ==
  ASSUME NEW p \in PoolRow, NEW g \in Nat, NEW b \in BatchRow, NEW q, q = Begun(p, g, b)
  PROVE  BegunFits(p, q, g, b)
  BY ZenonT(30) DEF PoolRow, Begun, BegunFits

\* What a worker reports, with its error or without.
Reported(p, e) == [p EXCEPT !.batch.remaining = @ - 1, !.batch.error = @ \/ e]

\* It changes the published batch alone.
ReportedFits(p, q, e) ==
  /\ q \in PoolRow /\ q.cursor = p.cursor /\ q.lock = p.lock /\ q.live = p.live
  /\ q.generation = p.generation /\ q.open = p.open /\ q.batch.generation = p.batch.generation
  /\ q.batch.tasks = p.batch.tasks /\ q.batch.remaining = p.batch.remaining - 1
  /\ (q.batch.error <=> p.batch.error \/ e)

\* worker_loop's report is of the published batch alone.
LEMMA PoolReports ==
  ASSUME NEW p \in PoolRow, NEW e \in BOOLEAN, p.batch.remaining # 0, NEW q, q = Reported(p, e)
  PROVE  ReportedFits(p, q, e)
<1>1. PICK r \in Nat : r = p.batch.remaining - 1
  <2>1. p.batch.remaining \in Nat
    BY Zenon DEF PoolRow, BatchRow
  <2> QED
    BY <2>1
<1>2. (p.batch.error \/ e) \in BOOLEAN
  BY Zenon
<1>3. PICK b : b = [p.batch EXCEPT !.remaining = r, !.error = @ \/ e]
  BY Zenon
<1>4. /\ b \in BatchRow /\ b.generation = p.batch.generation /\ b.tasks = p.batch.tasks
      /\ b.remaining = r /\ (b.error <=> p.batch.error \/ e)
  BY Zenon, <1>2, <1>3 DEF PoolRow, BatchRow
<1>5. q = [p EXCEPT !.batch = b]
  BY Zenon, <1>1, <1>3 DEF PoolRow, Reported
<1> QED
  BY Zenon, <1>1, <1>4, <1>5 DEF PoolRow, ReportedFits

\* What read_raw leaves when it returns.
Given(p, g) == [p EXCEPT !.batch = NoBatch, !.lock = FALSE, !.live = @ \ {g}]
GivenFits(p, q, g) ==
  /\ q \in PoolRow /\ ~q.lock /\ q.live = p.live \ {g} /\ q.generation = p.generation
  /\ q.batch = NoBatch

\* read_raw takes the batch away and gives the lock up.
LEMMA PoolReleases ==
  ASSUME NEW p \in PoolRow, NEW g, NEW q, q = Given(p, g)
  PROVE  GivenFits(p, q, g)
  BY ZenonT(30), NoBatchFacts DEF PoolRow, Given, GivenFits

\* The fields of a thread.
LEMMA ThreadFields ==
  ASSUME NEW r \in ThreadRow
  PROVE  r.generation \in Nat /\ r.tasks \in Nat /\ r.task \in Nat /\ r.error \in BOOLEAN
  BY DEF ThreadRow

\* A thread that has no batch.
LEMMA IdleFacts ==
  Idle \in ThreadRow /\ Idle.at = "idle" /\ Idle.generation = 0 /\ ~Idle.error
  BY Zenon DEF ThreadRow, Idle

\* What a thread may be at.
LEMMA Places ==
  /\ "claim" \in At /\ "execute" \in At /\ "drained" \in At /\ "idle" \notin At /\ "exit" \notin At
  /\ "claim" # "execute" /\ "drained" # "execute" /\ "claim" # "drained" /\ "idle" # "exit"
  BY Zenon DEF At

\* One thread moves.
LEMMA MoveFacts ==
  ASSUME ReaderTyped, NEW t \in ReadThread, NEW r \in ThreadRow, Move(t, r)
  PROVE  /\ reading' \in [ReadThread -> ThreadRow] /\ reading'[t] = r
         /\ \A s \in ReadThread : s # t => reading'[s] = reading[s]
  BY Zenon DEF ReaderTyped, Move

\* One more task is done.
LEMMA OneMoreDone ==
  ASSUME NEW c \in Seq(Nat), NEW k \in Nat
  PROVE  /\ Append(c, k) \in Seq(Nat)
         /\ Entries(Append(c, k)) = Entries(c) \cup {k}
         /\ Once(c) /\ k \notin Entries(c) => Once(Append(c, k))
<1>0. PICK d : d = Append(c, k)
  BY Zenon
<1>1. d \in Seq(Nat) /\ Len(d) = Len(c) + 1 /\ Len(c) \in Nat /\ d[Len(d)] = k /\ \A i \in 1..Len(c) : d[i] = c[i]
  BY <1>0
<1>2. \A i \in 1..Len(d) : i \in 1..Len(c) \/ i = Len(d)
  BY <1>1
<1>3. \A i \in 1..Len(c) : i \in 1..Len(d) /\ i # Len(d)
  BY <1>1
<1>4. Len(d) \in 1..Len(d)
  BY <1>1
<1>5. Entries(d) = Entries(c) \cup {k}
  BY Zenon, <1>1, <1>2, <1>3, <1>4 DEF Entries
<1>6. ASSUME Once(c), k \notin Entries(c), NEW i \in 1..Len(d), NEW j \in 1..Len(d), d[i] = d[j]
      PROVE  i = j
  <2>1. CASE i \in 1..Len(c) /\ j \in 1..Len(c)
    BY Zenon, <1>1, <1>6, <2>1 DEF Once
  <2>2. ASSUME NEW m \in 1..Len(c), d[m] = k
        PROVE  FALSE
    <3>1. c[m] = k
      BY Zenon, <1>1, <2>2
    <3> QED
      BY Zenon, <1>6, <3>1 DEF Entries
  <2> QED
    BY Zenon, <1>1, <1>2, <1>6, <2>1, <2>2
<1> QED
  BY Zenon, <1>0, <1>1, <1>5, <1>6 DEF Once

\* A list without repetition of the tasks 1..n has n entries.
LEMMA AllTasksOnce ==
  ASSUME NEW c \in Seq(Nat), Once(c), NEW n \in Nat, Entries(c) = 1..n
  PROVE  Len(c) = n
<1>1. Len(c) \in Nat /\ DOMAIN c = 1..Len(c)
  OBVIOUS
<1>2. c \in [1..Len(c) -> 1..n]
  BY <1>1 DEF Entries
<1>3. c \in Bijection(1..Len(c), 1..n)
  BY Zenon, <1>2 DEF Bijection, Injection, Surjection, IsInjective, Once, Entries
<1>4. ExistsBijection(1..Len(c), 1..n)
  BY Zenon, <1>3 DEF ExistsBijection
<1>5. IsFiniteSet(1..n) /\ Cardinality(1..n) = n
  BY FS_Interval
<1>6. Cardinality(1..n) = Len(c)
  BY Zenon, <1>1, <1>4, FS_CountingElements
<1> QED
  BY Zenon, <1>5, <1>6

-----------------------------------------------------------------------------
(* Shard reader: the threads of a batch.                                   *)

\* The threads busy with a batch agree on its tasks.
LEMMA SameTasks ==
  ASSUME ReaderInv, NEW s \in ReadThread, NEW t \in ReadThread, Busy(s), Busy(t)
  PROVE  reading[s].tasks = reading[t].tasks
<1>1. CASE pool.batch # NoBatch
  BY Zenon, <1>1 DEF ReaderInv, Published
<1>2. CASE pool.batch = NoBatch
  <2>1. s \in ReadCaller /\ t \in ReadCaller
    BY Zenon, <1>2 DEF ReaderInv, Published, ReadThread
  <2> QED
    BY Zenon, <2>1 DEF ReaderInv, OneBatch
<1> QED
  BY Zenon, <1>1, <1>2

\* A thread goes on with its batch (drain_tasks).
LEMMA GoesOn ==
  ASSUME ReaderInv, NEW t \in ReadThread, Busy(t), NEW r \in ThreadRow, Move(t, r), r.at \in At,
         r.generation = reading[t].generation, r.tasks = reading[t].tasks,
         pool' \in PoolRow, Kept(pool, pool'), result' = result,
         finished' \in [1..MaxReads -> Seq(Nat)],
         \A h \in 1..MaxReads : h # pool.generation => finished'[h] = finished[h],
         TasksOnce(pool.generation)'
  PROVE  ReaderInv'
<1>1. ReaderTyped /\ OneBatch /\ Published /\ Reports /\ Results
  BY Zenon DEF ReaderInv
<1>2. /\ reading' \in [ReadThread -> ThreadRow] /\ reading'[t] = r
      /\ \A s \in ReadThread : s # t => reading'[s] = reading[s]
  BY Zenon, <1>1, MoveFacts
<1>3. \A s \in ReadThread : /\ Busy(s)' <=> Busy(s)
                           /\ reading'[s].generation = reading[s].generation
                           /\ reading'[s].tasks = reading[s].tasks
  BY Zenon, <1>2 DEF Busy
<1>4. /\ pool'.batch = pool.batch /\ pool'.lock = pool.lock /\ pool'.live = pool.live
      /\ pool'.generation = pool.generation /\ pool'.open = pool.open
  BY Zenon DEF Kept
<1>5. pool.lock /\ ReadCaller \subseteq ReadThread /\ ReadWorker \subseteq ReadThread
  BY Zenon, <1>1 DEF OneBatch, ReadThread
<1>6. ReaderTyped'
  BY Zenon, <1>1, <1>2 DEF ReaderTyped
<1>7. OneBatch'
  <2>1. \A s \in ReadThread : ~Busy(s)' => ~reading'[s].error
    BY Zenon, <1>1, <1>2, <1>3 DEF OneBatch
  <2>2. \A s \in ReadThread : Busy(s)' => pool'.lock /\ reading'[s].generation = pool'.generation
    BY ZenonT(30), <1>1, <1>3, <1>4 DEF OneBatch
  <2>3. /\ pool'.lock => pool'.open /\ pool'.generation \in 1..MaxReads /\ \E c \in ReadCaller : Busy(c)'
        /\ \A c, d \in ReadCaller : Busy(c)' /\ Busy(d)' => c = d
    BY Zenon, <1>1, <1>3, <1>4, <1>5 DEF OneBatch
  <2>4. /\ pool'.live = IF pool'.lock THEN {pool'.generation} ELSE {}
        /\ pool'.batch # NoBatch => pool'.lock /\ pool'.batch.generation = pool'.generation
    BY Zenon, <1>1, <1>4 DEF OneBatch
  <2> QED
    BY Zenon, <2>1, <2>2, <2>3, <2>4 DEF OneBatch, Busy, NoBatch
<1>8. Published'
  BY ZenonT(30), <1>1, <1>3, <1>4, <1>5 DEF Published, NoBatch
<1>9. Reports'
  <2>1. ASSUME NEW w \in ReadWorker
        PROVE  (reading'[w].at # "idle" \/ reading'[w].generation # pool'.generation)
               <=> (reading[w].at # "idle" \/ reading[w].generation # pool.generation)
    <3>1. CASE w = t
      BY Zenon, <1>2, <3>1, Places DEF Busy
    <3>2. CASE w # t
      BY Zenon, <1>2, <1>4, <1>5, <3>2
    <3> QED
      BY Zenon, <3>1, <3>2
  <2>2. Missing' = Missing
    BY Zenon, <2>1 DEF Missing
  <2> QED
    BY Zenon, <1>1, <1>4, <2>2 DEF Reports, NoBatch
<1>10. Results'
  <2> SUFFICES ASSUME NEW h \in 1..MaxReads
               PROVE  /\ h > pool'.generation => finished'[h] = <<>> /\ result'[h] = 0
                      /\ h \in pool'.live => result'[h] = 0
                      /\ result'[h] # 0 => Len(finished'[h]) = result'[h] /\ Done(h)' = 1..result'[h]
    BY Zenon DEF Results
  <2>1. CASE h = pool.generation
    <3>1. result'[h] = 0
      BY Zenon, <1>1, <1>5, <2>1 DEF OneBatch, Results
    <3>2. ~(h > pool'.generation)
      <4>1. pool.generation \in Nat
        BY Zenon, <1>1, PoolFields DEF ReaderTyped
      <4> QED
        BY <1>4, <2>1, <4>1
    <3> QED
      BY Zenon, <3>1, <3>2
  <2>2. CASE h # pool.generation
    <3>1. finished'[h] = finished[h] /\ Done(h)' = Done(h)
      BY Zenon, <2>2 DEF Done
    <3> QED
      BY Zenon, <1>1, <1>4, <3>1 DEF Results
  <2> QED
    BY Zenon, <2>1, <2>2
<1> QED
  BY Zenon, <1>6, <1>7, <1>8, <1>9, <1>10 DEF ReaderInv

\* The facts a busy thread starts from.
LEMMA BusyFacts ==
  ASSUME ReaderInv, NEW t \in ReadThread, Busy(t)
  PROVE  /\ reading[t] \in ThreadRow /\ reading[t].tasks \in Nat /\ reading[t].task \in Nat
         /\ pool \in PoolRow /\ pool.cursor \in Nat /\ pool.lock
         /\ pool.generation \in 1..MaxReads /\ reading[t].generation = pool.generation
         /\ finished \in [1..MaxReads -> Seq(Nat)] /\ finished[pool.generation] \in Seq(Nat)
         /\ TasksOnce(pool.generation)
<1>1. pool \in PoolRow /\ reading[t] \in ThreadRow /\ finished \in [1..MaxReads -> Seq(Nat)]
  BY Zenon DEF ReaderInv, ReaderTyped
<1>2. pool.lock /\ pool.generation \in 1..MaxReads /\ reading[t].generation = pool.generation
  BY Zenon DEF ReaderInv, OneBatch
<1> QED
  BY Zenon, <1>1, <1>2, PoolFields, ThreadFields DEF ReaderInv

\* Done tasks are numbers.
LEMMA DoneIsNat ==
  ASSUME NEW g \in 1..MaxReads, finished \in [1..MaxReads -> Seq(Nat)]
  PROVE  Done(g) \subseteq Nat
<1>1. finished[g] \in Seq(Nat)
  BY Zenon
<1>2. \A c \in Seq(Nat) : \A i \in 1..Len(c) : c[i] \in Nat
  OBVIOUS
<1> QED
  BY Zenon, <1>1, <1>2 DEF Done, Entries

\* The cursor does not go back, and shows the threads nothing they have not seen.
CursorFits ==
  /\ \A k \in Nat : k <= pool.cursor => k <= pool'.cursor
  /\ \A s \in ReadThread : Busy(s)' =>
       /\ \E u \in ReadThread : Busy(u) /\ reading[u].tasks = reading'[s].tasks
       /\ \A k \in 1..reading'[s].tasks : k <= pool'.cursor => k <= pool.cursor
       /\ reading'[s].at = "drained" /\ ~reading'[s].error => reading'[s].tasks <= pool'.cursor

\* A thread that holds no task moves, and takes none.
LEMMA StepsAside ==
  ASSUME ReaderTyped, NEW g \in 1..MaxReads, TasksOnce(g), NEW t \in ReadThread, NEW r \in ThreadRow,
         Move(t, r), ~Executing(t), r.at # "execute", finished' = finished, Flagged => Flagged', CursorFits
  PROVE  TasksOnce(g)'
<1>1. DoneOnce(g) /\ HeldOnce(g) /\ NoneLost(g) /\ Done(g) \subseteq Nat
  BY Zenon, DoneIsNat DEF TasksOnce, ReaderTyped
<1>2. Done(g)' = Done(g)
  BY Zenon DEF Done
<1>3. reading'[t] = r /\ \A s \in ReadThread : s # t => reading'[s] = reading[s]
  BY Zenon, MoveFacts
<1>4. \A s \in ReadThread :
        (Executing(s)' <=> Executing(s)) /\ (Executing(s) => reading'[s] = reading[s])
  BY Zenon, <1>3 DEF Executing
<1>5. \A s \in ReadThread : reading[s].task \in Nat
  BY Zenon, ThreadFields DEF ReaderTyped
<1>6. DoneOnce(g)'
  BY Zenon, <1>1, <1>2 DEF DoneOnce, CursorFits
<1>7. HeldOnce(g)'
  <2> SUFFICES ASSUME NEW s \in ReadThread, Executing(s)'
               PROVE  /\ reading'[s].task \in 1..reading'[s].tasks /\ reading'[s].task <= pool'.cursor
                      /\ reading'[s].task \notin Done(g)'
                      /\ \A u \in ReadThread : Executing(u)' /\ reading'[u].task = reading'[s].task => u = s
    BY Zenon DEF HeldOnce
  <2>1. Executing(s) /\ reading'[s] = reading[s]
    BY Zenon, <1>4
  <2>2. /\ reading[s].task \in 1..reading[s].tasks /\ reading[s].task <= pool.cursor
        /\ reading[s].task \notin Done(g)
        /\ \A u \in ReadThread : Executing(u) /\ reading[u].task = reading[s].task => u = s
    BY Zenon, <1>1, <2>1 DEF HeldOnce
  <2> QED
    <3>1. reading'[s].task <= pool'.cursor
      BY Zenon, <1>5, <2>1, <2>2 DEF CursorFits
    <3>2. \A u \in ReadThread : Executing(u)' /\ reading'[u].task = reading'[s].task => u = s
      BY Zenon, <1>4, <2>1, <2>2
    <3> QED
      BY Zenon, <1>2, <2>1, <2>2, <3>1, <3>2
<1>8. \A k : Held(g, k) => Held(g, k)'
  BY Zenon, <1>2, <1>4 DEF Held
<1>9. NoneLost(g)'
  <2> SUFFICES ASSUME NEW s \in ReadThread, Busy(s)'
               PROVE  /\ Done(g)' \subseteq 1..reading'[s].tasks
                      /\ \A k \in 1..reading'[s].tasks : k <= pool'.cursor => Held(g, k)'
                      /\ reading'[s].at = "drained" /\ ~reading'[s].error => reading'[s].tasks <= pool'.cursor
    BY Zenon DEF NoneLost
  <2>1. PICK u \in ReadThread : Busy(u) /\ reading[u].tasks = reading'[s].tasks
    BY Zenon DEF CursorFits
  <2>2. Done(g) \subseteq 1..reading[u].tasks /\ \A k \in 1..reading[u].tasks : k <= pool.cursor => Held(g, k)
    BY Zenon, <1>1, <2>1 DEF NoneLost
  <2> QED
    BY Zenon, <1>2, <1>8, <2>1, <2>2 DEF CursorFits
<1> QED
  BY Zenon, <1>6, <1>7, <1>9 DEF TasksOnce

\* drain_tasks takes the next task, or finds none left.
LEMMA ClaimKeeps ==
  ASSUME ReaderInv, NEW t \in ReadThread, Claim(t)
  PROVE  ReaderInv'
<1>1. reading[t].at = "claim" /\ Busy(t)
  BY Zenon, Places DEF Claim, Busy
<1>2. PICK n \in Nat, c \in Nat, g \in 1..MaxReads :
        n = reading[t].tasks /\ c = pool.cursor /\ g = pool.generation
  BY Zenon, <1>1, BusyFacts
<1>3. pool' \in PoolRow /\ pool'.cursor = c + 1 /\ Kept(pool, pool') /\ pool'.generation = g
      /\ pool'.batch = pool.batch
  <2>1. pool \in PoolRow /\ pool' = [pool EXCEPT !.cursor = @ + 1]
    BY Zenon DEF ReaderInv, ReaderTyped, Claim
  <2> QED
    BY ZenonT(30), <1>2, <2>1, CursorMoves DEF Kept
<1>4. finished' = finished /\ result' = result /\ Done(g)' = Done(g)
  BY Zenon DEF Claim, Done
<1>5. DoneOnce(g) /\ HeldOnce(g) /\ NoneLost(g) /\ Done(g) \subseteq Nat /\ ReaderTyped
  BY Zenon, <1>1, <1>2, BusyFacts, DoneIsNat DEF TasksOnce, ReaderInv
<1>6. \A k \in Nat : (k <= c => k <= c + 1) /\ (k <= c + 1 => k <= c \/ k = c + 1) /\ ~(c + 1 <= c)
  OBVIOUS
<1>7. DoneOnce(g)'
  BY Zenon, <1>2, <1>3, <1>4, <1>5, <1>6 DEF DoneOnce
<1>8. \A s \in ReadThread : reading[s].task \in Nat /\ reading[s].tasks \in Nat
  BY Zenon, <1>5, ThreadFields DEF ReaderTyped
<1>9. \A m \in Nat : \A k \in 1..m : k \in Nat
  OBVIOUS
<1>10. CASE ~(c >= n)
  <2>1. PICK r : r = [reading[t] EXCEPT !.at = "execute", !.task = c + 1]
    BY Zenon
  <2>2. /\ r \in ThreadRow /\ r.at = "execute" /\ r.generation = reading[t].generation
        /\ r.tasks = n /\ r.task = c + 1 /\ r.error = reading[t].error
    <3>1. c + 1 \in Nat
      OBVIOUS
    <3>2. PICK o \in ThreadRow : o = reading[t]
      BY Zenon, <1>5 DEF ReaderTyped
    <3>3. /\ r \in ThreadRow /\ r.at = "execute" /\ r.generation = o.generation
          /\ r.tasks = o.tasks /\ r.error = o.error /\ r.task = c + 1
      BY Zenon, <2>1, <3>1, <3>2 DEF ThreadRow
    <3> QED
      BY Zenon, <1>2, <3>2, <3>3
  <2>3. Move(t, r)
    BY Zenon, <1>2, <1>10, <2>1 DEF Claim
  <2>4. reading'[t] = r /\ \A s \in ReadThread : s # t => reading'[s] = reading[s]
    BY Zenon, <1>5, <2>2, <2>3, MoveFacts
  <2>5. c + 1 \in 1..n /\ c + 1 <= c + 1
    BY <1>10
  <2>6. ~Executing(t) /\ Executing(t)' /\ \A s \in ReadThread : s # t => (Executing(s)' <=> Executing(s))
    BY Zenon, <1>1, <2>2, <2>4, Places DEF Executing
  <2>7. HeldOnce(g)'
    <3>1. /\ reading'[t].task \in 1..reading'[t].tasks /\ reading'[t].task <= pool'.cursor
          /\ reading'[t].task \notin Done(g)'
      BY Zenon, <1>2, <1>3, <1>4, <1>5, <1>6, <2>2, <2>4, <2>5 DEF DoneOnce
    <3>2. ASSUME NEW s \in ReadThread, s # t, Executing(s)'
          PROVE  /\ reading'[s].task \in 1..reading'[s].tasks /\ reading'[s].task <= pool'.cursor
                 /\ reading'[s].task \notin Done(g)' /\ reading'[s].task # c + 1
                 /\ \A u \in ReadThread : u # t /\ Executing(u)' /\ reading'[u].task = reading'[s].task => u = s
      <4>1. Executing(s) /\ reading'[s] = reading[s]
        BY Zenon, <2>4, <2>6, <3>2
      <4>2. reading[s].task \in 1..reading[s].tasks /\ reading[s].task <= c /\ reading[s].task \notin Done(g)
        BY Zenon, <1>2, <1>5, <4>1 DEF HeldOnce
      <4>3. reading[s].task <= c + 1 /\ reading[s].task # c + 1
        BY Zenon, <1>6, <1>8, <4>2
      <4>4. \A u \in ReadThread : u # t /\ Executing(u)' /\ reading'[u].task = reading'[s].task => u = s
        BY Zenon, <1>5, <2>4, <2>6, <4>1 DEF HeldOnce
      <4> QED
        BY Zenon, <1>3, <1>4, <4>1, <4>2, <4>3, <4>4
    <3> QED
      BY ZenonT(30), <2>2, <2>4, <3>1, <3>2 DEF HeldOnce
  <2>8. NoneLost(g)'
    <3>1. ASSUME NEW k \in Nat, k <= c => Held(g, k), k <= c + 1
          PROVE  Held(g, k)'
      <4>1. CASE k = c + 1
        BY Zenon, <2>2, <2>4, <2>6, <4>1 DEF Held
      <4>2. CASE k <= c
        <5>1. CASE Flagged
          <6>1. Flagged'
            BY Zenon, <1>3, <2>2, <2>4, <5>1 DEF Flagged
          <6> QED
            BY Zenon, <6>1 DEF Held
        <5>2. CASE k \in Done(g)
          BY Zenon, <1>4, <5>2 DEF Held
        <5>3. ASSUME NEW s \in ReadThread, Executing(s), reading[s].task = k
              PROVE  Held(g, k)'
          BY Zenon, <2>4, <2>6, <5>3 DEF Held
        <5> QED
          BY Zenon, <3>1, <4>2, <5>1, <5>2, <5>3 DEF Held
      <4> QED
        BY Zenon, <1>6, <3>1, <4>1, <4>2
    <3>2. ASSUME NEW s \in ReadThread, Busy(s)'
          PROVE  /\ Done(g)' \subseteq 1..reading'[s].tasks
                 /\ \A k \in 1..reading'[s].tasks : k <= pool'.cursor => Held(g, k)'
                 /\ reading'[s].at = "drained" /\ ~reading'[s].error => reading'[s].tasks <= pool'.cursor
      <4>1. Busy(s) /\ reading'[s].tasks = reading[s].tasks
        BY Zenon, <1>1, <1>2, <2>2, <2>4, <3>2 DEF Busy
      <4>2. /\ Done(g) \subseteq 1..reading[s].tasks
            /\ \A k \in 1..reading[s].tasks : k <= c => Held(g, k)
        BY Zenon, <1>2, <1>5, <4>1 DEF NoneLost
      <4>3. reading'[s].at = "drained" /\ ~reading'[s].error => reading'[s].tasks <= pool'.cursor
        BY ZenonT(30), <1>2, <1>3, <1>5, <1>6, <1>8, <2>2, <2>4, <4>1, Places DEF NoneLost
      <4> QED
        BY Zenon, <1>3, <1>4, <1>8, <1>9, <3>1, <4>1, <4>2, <4>3
    <3> QED
      BY ZenonT(30), <3>2 DEF NoneLost
  <2>9. TasksOnce(pool.generation)'
    BY Zenon, <1>3, <1>7, <2>7, <2>8 DEF TasksOnce
  <2> QED
    BY Zenon, <1>1, <1>2, <1>3, <1>4, <2>2, <2>3, <2>9, BusyFacts, GoesOn, Places
<1>11. CASE c >= n
  <2>1. PICK r : r = [reading[t] EXCEPT !.at = "drained"]
    BY Zenon
  <2>2. /\ r \in ThreadRow /\ r.at = "drained" /\ r.generation = reading[t].generation
        /\ r.tasks = n /\ r.error = reading[t].error
    <3>1. PICK o \in ThreadRow : o = reading[t]
      BY Zenon, <1>5 DEF ReaderTyped
    <3>2. /\ r \in ThreadRow /\ r.at = "drained" /\ r.generation = o.generation
          /\ r.tasks = o.tasks /\ r.error = o.error 
      BY Zenon, <2>1, <3>1 DEF ThreadRow
    <3> QED
      BY Zenon, <1>2, <3>1, <3>2
  <2>3. Move(t, r)
    BY Zenon, <1>2, <1>11, <2>1 DEF Claim
  <2>4. reading'[t] = r /\ \A s \in ReadThread : s # t => reading'[s] = reading[s]
    BY Zenon, <1>5, <2>2, <2>3, MoveFacts
  <2>5. Flagged => Flagged'
    BY Zenon, <1>3, <2>2, <2>4 DEF Flagged
  <2>6. n <= c + 1 /\ \A k \in 1..n : k <= c
    BY <1>11
  <2>7. ASSUME NEW s \in ReadThread, Busy(s)'
        PROVE  /\ Busy(s) /\ reading[s].tasks = reading'[s].tasks
               /\ \A k \in 1..reading'[s].tasks : k <= pool'.cursor => k <= pool.cursor
               /\ reading'[s].at = "drained" /\ ~reading'[s].error => reading'[s].tasks <= pool'.cursor
    <3>1. Busy(s) /\ reading[s].tasks = reading'[s].tasks
      BY Zenon, <1>1, <1>2, <2>2, <2>4, <2>7 DEF Busy
    <3>2. reading'[s].tasks = n
      BY Zenon, <1>1, <1>2, <3>1, SameTasks
    <3> QED
      BY Zenon, <1>2, <1>3, <2>6, <3>1, <3>2
  <2>8. ~Executing(t) /\ r.at # "execute"
    BY Zenon, <1>1, <2>2, Places DEF Executing
  <2>9. CursorFits
    BY Zenon, <1>2, <1>3, <1>6, <2>7 DEF CursorFits
  <2>10. TasksOnce(g)'
    BY Zenon, <1>4, <1>5, <2>2, <2>3, <2>5, <2>7, <2>8, <2>9, StepsAside DEF TasksOnce
  <2>11. TasksOnce(pool.generation)'
    BY Zenon, <1>3, <2>10
  <2> QED
    BY Zenon, <1>1, <1>2, <1>3, <1>4, <2>2, <2>3, <2>11, BusyFacts, GoesOn, Places
<1> QED
  BY Zenon, <1>10, <1>11

\* A task is read and copied.
LEMMA ExecuteKeeps ==
  ASSUME ReaderInv, NEW t \in ReadThread, Executing(t), UNCHANGED <<pool, result>>,
         finished' = [finished EXCEPT ![reading[t].generation] = Append(@, reading[t].task)],
         Move(t, [reading[t] EXCEPT !.at = "claim"])
  PROVE  ReaderInv'
<1>1. Busy(t)
  BY Zenon, Places DEF Executing, Busy
<1>2. PICK n \in Nat, c \in Nat, g \in 1..MaxReads, x \in Nat :
        n = reading[t].tasks /\ c = pool.cursor /\ g = pool.generation /\ x = reading[t].task
  BY Zenon, <1>1, BusyFacts
<1>3. DoneOnce(g) /\ HeldOnce(g) /\ NoneLost(g) /\ ReaderTyped
  BY Zenon, <1>1, <1>2, BusyFacts DEF TasksOnce, ReaderInv
<1>4. x \in 1..n /\ x <= c /\ x \notin Done(g)
  BY Zenon, <1>2, <1>3 DEF HeldOnce
<1>5. PICK r : r = [reading[t] EXCEPT !.at = "claim"]
  BY Zenon
<1>6. /\ r \in ThreadRow /\ r.at = "claim" /\ r.generation = reading[t].generation
      /\ r.tasks = reading[t].tasks /\ r.error = reading[t].error
  <2>1. PICK o \in ThreadRow : o = reading[t]
    BY Zenon, <1>3 DEF ReaderTyped
  <2>2. /\ r \in ThreadRow /\ r.at = "claim" /\ r.generation = o.generation
        /\ r.tasks = o.tasks /\ r.error = o.error
    BY Zenon, <1>5, <2>1 DEF ThreadRow
  <2> QED
    BY Zenon, <2>1, <2>2
<1>7. reading'[t] = r /\ \A s \in ReadThread : s # t => reading'[s] = reading[s]
  BY Zenon, <1>3, <1>5, <1>6, MoveFacts
<1>8. /\ finished' \in [1..MaxReads -> Seq(Nat)] /\ finished'[g] = Append(finished[g], x)
      /\ finished[g] \in Seq(Nat) /\ \A h \in 1..MaxReads : h # g => finished'[h] = finished[h]
  <2>1. finished \in [1..MaxReads -> Seq(Nat)] /\ finished[g] \in Seq(Nat)
    BY Zenon, <1>3 DEF ReaderTyped
  <2>2. finished' = [finished EXCEPT ![g] = Append(finished[g], x)]
    BY Zenon, <1>1, <1>2, BusyFacts
  <2>3. Append(finished[g], x) \in Seq(Nat)
    BY Zenon, <2>1, OneMoreDone
  <2> QED
    BY Zenon, <2>1, <2>2, <2>3
<1>9. Done(g)' = Done(g) \cup {x} /\ Once(finished'[g])
  BY ZenonT(30), <1>3, <1>4, <1>8, OneMoreDone DEF DoneOnce, Done
<1>10. DoneOnce(g)'
  BY Zenon, <1>2, <1>3, <1>4, <1>9 DEF DoneOnce
<1>11. ~Executing(t)' /\ \A s \in ReadThread : s # t => (Executing(s)' <=> Executing(s))
  BY Zenon, <1>6, <1>7, Places DEF Executing
<1>12. HeldOnce(g)'
  <2> SUFFICES ASSUME NEW s \in ReadThread, Executing(s)'
               PROVE  /\ reading'[s].task \in 1..reading'[s].tasks /\ reading'[s].task <= pool'.cursor
                      /\ reading'[s].task \notin Done(g)'
                      /\ \A u \in ReadThread : Executing(u)' /\ reading'[u].task = reading'[s].task => u = s
    BY Zenon DEF HeldOnce
  <2>1. s # t /\ Executing(s) /\ reading'[s] = reading[s]
    BY Zenon, <1>7, <1>11
  <2>2. /\ reading[s].task \in 1..reading[s].tasks /\ reading[s].task <= pool.cursor
        /\ reading[s].task \notin Done(g)
        /\ \A u \in ReadThread : Executing(u) /\ reading[u].task = reading[s].task => u = s
    BY Zenon, <1>3, <2>1 DEF HeldOnce
  <2>3. reading[s].task # x
    BY Zenon, <1>2, <2>1, <2>2
  <2>4. \A u \in ReadThread : Executing(u)' /\ reading'[u].task = reading'[s].task => u = s
    BY Zenon, <1>7, <1>11, <2>1, <2>2
  <2> QED
    BY Zenon, <1>9, <2>1, <2>2, <2>3, <2>4
<1>13. \A k : Held(g, k) => Held(g, k)'
  <2>1. Flagged => Flagged'
    BY Zenon, <1>6, <1>7 DEF Flagged
  <2>2. ASSUME NEW k, NEW s \in ReadThread, Executing(s), reading[s].task = k
        PROVE  Held(g, k)'
    BY Zenon, <1>2, <1>7, <1>9, <1>11, <2>2 DEF Held
  <2> QED
    BY Zenon, <1>9, <2>1, <2>2 DEF Held
<1>14. NoneLost(g)'
  <2> SUFFICES ASSUME NEW s \in ReadThread, Busy(s)'
               PROVE  /\ Done(g)' \subseteq 1..reading'[s].tasks
                      /\ \A k \in 1..reading'[s].tasks : k <= pool'.cursor => Held(g, k)'
                      /\ reading'[s].at = "drained" /\ ~reading'[s].error => reading'[s].tasks <= pool'.cursor
    BY Zenon DEF NoneLost
  <2>1. Busy(s) /\ reading'[s].tasks = reading[s].tasks
    BY Zenon, <1>1, <1>6, <1>7 DEF Busy
  <2>2. reading[s].tasks = n
    BY Zenon, <1>1, <1>2, <2>1, SameTasks
  <2>3. /\ Done(g) \subseteq 1..n
        /\ \A k \in 1..n : k <= pool.cursor => Held(g, k)
        /\ reading[s].at = "drained" /\ ~reading[s].error => n <= pool.cursor
    BY Zenon, <1>3, <2>1, <2>2 DEF NoneLost
  <2>4. reading'[s].at = "drained" => reading'[s] = reading[s]
    BY Zenon, <1>6, <1>7, Places
  <2> QED
    BY Zenon, <1>4, <1>9, <1>13, <2>1, <2>2, <2>3, <2>4
<1>15. TasksOnce(pool.generation)'
  BY Zenon, <1>2, <1>10, <1>12, <1>14 DEF TasksOnce
<1>16. pool' \in PoolRow /\ Kept(pool, pool') /\ r.at \in At
  BY Zenon, <1>3, <1>6, Places DEF ReaderTyped, Kept
<1> QED
  BY Zenon, <1>1, <1>2, <1>5, <1>6, <1>8, <1>15, <1>16, GoesOn

\* A task fails; its thread stops with the error.
LEMMA FailureKeeps ==
  ASSUME ReaderInv, NEW t \in ReadThread, Executing(t), UNCHANGED <<finished, result>>,
         pool' = [pool EXCEPT !.bad = @ + 1],
         Move(t, [reading[t] EXCEPT !.at = "drained", !.error = TRUE])
  PROVE  ReaderInv'
<1>1. Busy(t)
  BY Zenon, Places DEF Executing, Busy
<1>2. PICK c \in Nat, g \in 1..MaxReads : c = pool.cursor /\ g = pool.generation
  BY Zenon, <1>1, BusyFacts
<1>3. DoneOnce(g) /\ HeldOnce(g) /\ NoneLost(g) /\ ReaderTyped
  BY Zenon, <1>1, <1>2, BusyFacts DEF TasksOnce, ReaderInv
<1>4. pool' \in PoolRow /\ pool'.cursor = pool.cursor /\ Kept(pool, pool')
  BY Zenon, <1>3, BadIsCounted DEF ReaderTyped
<1>5. PICK r : r = [reading[t] EXCEPT !.at = "drained", !.error = TRUE]
  BY Zenon
<1>6. /\ r \in ThreadRow /\ r.at = "drained" /\ r.generation = reading[t].generation
      /\ r.tasks = reading[t].tasks /\ r.error
  <2>1. PICK o \in ThreadRow : o = reading[t]
    BY Zenon, <1>3 DEF ReaderTyped
  <2>2. /\ r \in ThreadRow /\ r.at = "drained" /\ r.generation = o.generation
        /\ r.tasks = o.tasks /\ r.error
    BY Zenon, <1>5, <2>1 DEF ThreadRow
  <2> QED
    BY Zenon, <2>1, <2>2
<1>7. reading'[t] = r /\ \A s \in ReadThread : s # t => reading'[s] = reading[s]
  BY Zenon, <1>3, <1>5, <1>6, MoveFacts
<1>8. Done(g)' = Done(g) /\ DoneOnce(g)' /\ Flagged'
  BY Zenon, <1>3, <1>4, <1>6, <1>7 DEF Done, DoneOnce, Flagged
<1>9. ~Executing(t)' /\ \A s \in ReadThread : s # t => (Executing(s)' <=> Executing(s))
  BY Zenon, <1>6, <1>7, Places DEF Executing
<1>10. HeldOnce(g)'
  <2> SUFFICES ASSUME NEW s \in ReadThread, Executing(s)'
               PROVE  /\ reading'[s].task \in 1..reading'[s].tasks /\ reading'[s].task <= pool'.cursor
                      /\ reading'[s].task \notin Done(g)'
                      /\ \A u \in ReadThread : Executing(u)' /\ reading'[u].task = reading'[s].task => u = s
    BY Zenon DEF HeldOnce
  <2>1. s # t /\ Executing(s) /\ reading'[s] = reading[s]
    BY Zenon, <1>7, <1>9
  <2>2. /\ reading[s].task \in 1..reading[s].tasks /\ reading[s].task <= pool.cursor
        /\ reading[s].task \notin Done(g)
        /\ \A u \in ReadThread : Executing(u) /\ reading[u].task = reading[s].task => u = s
    BY Zenon, <1>3, <2>1 DEF HeldOnce
  <2>3. \A u \in ReadThread : Executing(u)' /\ reading'[u].task = reading'[s].task => u = s
    BY Zenon, <1>7, <1>9, <2>1, <2>2
  <2> QED
    BY Zenon, <1>4, <1>8, <2>1, <2>2, <2>3
<1>11. NoneLost(g)'
  <2> SUFFICES ASSUME NEW s \in ReadThread, Busy(s)'
               PROVE  /\ Done(g)' \subseteq 1..reading'[s].tasks
                      /\ \A k \in 1..reading'[s].tasks : k <= pool'.cursor => Held(g, k)'
                      /\ reading'[s].at = "drained" /\ ~reading'[s].error => reading'[s].tasks <= pool'.cursor
    BY Zenon DEF NoneLost
  <2>1. Busy(s) /\ reading'[s].tasks = reading[s].tasks
    BY Zenon, <1>1, <1>6, <1>7 DEF Busy
  <2>2. ~reading'[s].error => reading'[s] = reading[s]
    BY Zenon, <1>6, <1>7
  <2>3. /\ Done(g) \subseteq 1..reading[s].tasks
        /\ reading[s].at = "drained" /\ ~reading[s].error => reading[s].tasks <= pool.cursor
    BY Zenon, <1>3, <2>1 DEF NoneLost
  <2>4. \A k : Held(g, k)'
    BY Zenon, <1>8 DEF Held
  <2> QED
    BY Zenon, <1>4, <1>8, <2>1, <2>2, <2>3, <2>4
<1>12. TasksOnce(pool.generation)'
  BY Zenon, <1>2, <1>4, <1>8, <1>10, <1>11 DEF TasksOnce, Kept
<1>13. finished' \in [1..MaxReads -> Seq(Nat)] /\ r.at \in At
  BY Zenon, <1>3, <1>6, Places DEF ReaderTyped
<1> QED
  BY Zenon, <1>1, <1>4, <1>5, <1>6, <1>12, <1>13, GoesOn

-----------------------------------------------------------------------------
(* Shard reader: batches begin and end.                                    *)

\* worker_loop takes up the batch that is published.
LEMMA WakeKeeps ==
  ASSUME ReaderInv, NEW w \in ReadWorker, WorkerWakes(w)
  PROVE  ReaderInv'
<1>1. ReaderTyped /\ OneBatch /\ Published /\ Reports /\ Results /\ w \in ReadThread
  BY Zenon DEF ReaderInv, ReadThread
<1>2. /\ UNCHANGED <<pool, finished, result>> /\ reading[w].at = "idle" /\ pool.batch # NoBatch
      /\ pool.batch.generation # reading[w].generation
  BY Zenon DEF WorkerWakes
<1>3. pool.lock /\ pool.batch.generation = pool.generation /\ pool.generation \in 1..MaxReads
  BY Zenon, <1>1, <1>2 DEF OneBatch
<1>4. PICK g \in Nat, n \in Nat : g = pool.batch.generation /\ n = pool.batch.tasks
  BY Zenon, <1>1, PoolFields DEF ReaderTyped, BatchRow
<1>5. PICK r : r = [Idle EXCEPT !.at = "claim", !.generation = g, !.tasks = n]
  BY Zenon
<1>6. r \in ThreadRow /\ r.at = "claim" /\ r.generation = g /\ r.tasks = n /\ ~r.error
  BY Zenon, <1>5 DEF ThreadRow, Idle
<1>7. Move(w, r)
  BY Zenon, <1>4, <1>5 DEF WorkerWakes
<1>8. /\ reading' \in [ReadThread -> ThreadRow] /\ reading'[w] = r
      /\ \A s \in ReadThread : s # w => reading'[s] = reading[s]
  BY Zenon, <1>1, <1>6, <1>7, MoveFacts
<1>9. /\ ReadCaller \subseteq ReadThread /\ ReadWorker \subseteq ReadThread /\ w \notin ReadCaller
      /\ NoBatch' = NoBatch
  BY Zenon, ReaderAssumption DEF ReadThread, NoBatch
<1>10. ~Busy(w) /\ Busy(w)' /\ \A s \in ReadThread : s # w => (Busy(s)' <=> Busy(s))
  BY Zenon, <1>2, <1>6, <1>8, Places DEF Busy
<1>11. ReaderTyped'
  BY Zenon, <1>1, <1>2, <1>8 DEF ReaderTyped
<1>12. OneBatch'
  <2>1. \A s \in ReadThread : /\ (~Busy(s)' => ~reading'[s].error)
                             /\ (Busy(s)' => reading'[s].generation = pool.generation)
    BY ZenonT(30), <1>1, <1>3, <1>4, <1>6, <1>8, <1>10 DEF OneBatch
  <2>2. /\ \E c \in ReadCaller : Busy(c)'
        /\ \A c, d \in ReadCaller : Busy(c)' /\ Busy(d)' => c = d
    BY Zenon, <1>1, <1>3, <1>9, <1>10 DEF OneBatch
  <2>3. /\ pool.live = IF pool.lock THEN {pool.generation} ELSE {}
        /\ pool.open
    BY Zenon, <1>1, <1>3 DEF OneBatch
  <2> QED
    BY Zenon, <1>2, <1>3, <2>1, <2>2, <2>3 DEF OneBatch, Busy
<1>13. Published'
  <2>1. \A t \in ReadThread : Busy(t)' => reading'[t].tasks = pool.batch.tasks
    BY Zenon, <1>1, <1>2, <1>4, <1>6, <1>8, <1>10 DEF Published
  <2>2. \A v \in ReadWorker : reading'[v].generation <= pool.generation
    <3>1. pool.generation <= pool.generation
      BY <1>3
    <3> QED
      BY Zenon, <1>1, <1>3, <1>4, <1>6, <1>8, <1>9, <3>1 DEF Published
  <2> QED
    BY Zenon, <1>2, <1>9, <2>1, <2>2 DEF Published, Busy
<1>14. Reports'
  <2>1. ASSUME NEW v \in ReadWorker
        PROVE  (reading'[v].at # "idle" \/ reading'[v].generation # pool.generation)
               <=> (reading[v].at # "idle" \/ reading[v].generation # pool.generation)
    <3>1. CASE v = w
      <4>1. reading'[v].at # "idle"
        BY Zenon, <1>6, <1>8, <3>1, Places
      <4> QED
        BY Zenon, <1>2, <1>3, <3>1, <4>1
    <3>2. CASE v # w
      BY Zenon, <1>8, <1>9, <3>2
    <3> QED
      BY Zenon, <3>1, <3>2
  <2>2. Missing' = Missing
    BY Zenon, <1>2, <2>1 DEF Missing
  <2> QED
    BY Zenon, <1>1, <1>2, <2>2 DEF Reports, NoBatch
<1>15. Results'
  BY Zenon, <1>1, <1>2 DEF Results, Done
<1>16. TasksOnce(pool.generation)'
  <2>1. PICK c \in ReadThread : Busy(c) /\ reading[c].tasks = n
    BY Zenon, <1>1, <1>2, <1>3, <1>4, <1>9 DEF OneBatch, Published
  <2>2. Flagged => Flagged'
    BY Zenon, <1>1, <1>2, <1>8, <1>10 DEF Flagged, OneBatch
  <2>3. ASSUME NEW s \in ReadThread, Busy(s)'
        PROVE  /\ \E u \in ReadThread : Busy(u) /\ reading[u].tasks = reading'[s].tasks
               /\ reading'[s].at = "drained" /\ ~reading'[s].error => reading'[s].tasks <= pool.cursor
    <3>1. CASE s = w
      BY Zenon, <1>6, <1>8, <2>1, <3>1, Places
    <3>2. CASE s # w
      <4>1. Busy(s) /\ reading'[s] = reading[s]
        BY Zenon, <1>8, <1>10, <2>3, <3>2
      <4> QED
        BY Zenon, <1>3, <4>1 DEF ReaderInv, TasksOnce, NoneLost
    <3> QED
      BY Zenon, <3>1, <3>2
  <2>4. CursorFits
    BY Zenon, <1>2, <2>3 DEF CursorFits
  <2>5. ~Executing(w) /\ r.at # "execute"
    BY Zenon, <1>6, <1>10, Places DEF Executing, Busy
  <2>6. PICK h \in 1..MaxReads : h = pool.generation
    BY Zenon, <1>3
  <2>7. TasksOnce(h)'
    BY Zenon, <1>1, <1>2, <1>3, <1>6, <1>7, <2>2, <2>4, <2>5, <2>6, StepsAside DEF ReaderInv
  <2> QED
    BY Zenon, <1>2, <2>6, <2>7
<1> QED
  BY Zenon, <1>11, <1>12, <1>13, <1>14, <1>15, <1>16 DEF ReaderInv

\* A worker is through with the batch and says so.
LEMMA ReportKeeps ==
  ASSUME ReaderInv, NEW w \in ReadWorker, WorkerReports(w)
  PROVE  ReaderInv'
<1>1. ReaderTyped /\ OneBatch /\ Published /\ Reports /\ Results /\ w \in ReadThread
  BY Zenon DEF ReaderInv, ReadThread
<1>2. reading[w].at = "drained" /\ Busy(w) /\ UNCHANGED <<finished, result>>
  BY Zenon, Places DEF WorkerReports, Busy
<1>3. /\ pool.lock /\ pool.generation \in 1..MaxReads /\ pool.batch # NoBatch
      /\ pool.batch.generation = pool.generation /\ reading[w].generation = pool.generation
  BY Zenon, <1>1, <1>2 DEF OneBatch, Published
<1>4. PICK g \in Nat, e \in BOOLEAN : g = reading[w].generation /\ e = reading[w].error
  BY Zenon, <1>1, ThreadFields DEF ReaderTyped
<1>5. IsFiniteSet(Missing) /\ w \in Missing
  <2>1. IsFiniteSet(Missing)
    BY Zenon, ReaderAssumption, FS_Subset DEF Missing
  <2>2. reading[w].at # "idle"
    BY Zenon, <1>2, Places DEF Busy
  <2> QED
    BY Zenon, <2>1, <2>2 DEF Missing
<1>6. PICK m \in Nat : m = Cardinality(Missing) /\ m = pool.batch.remaining /\ m # 0
  BY Zenon, <1>1, <1>3, <1>5, FS_CardinalityType, FS_EmptySet DEF Reports
<1>7. /\ pool' \in PoolRow /\ pool'.cursor = pool.cursor /\ pool'.lock = pool.lock
      /\ pool'.live = pool.live /\ pool'.generation = pool.generation /\ pool'.open = pool.open
      /\ pool'.batch.generation = pool.batch.generation /\ pool'.batch.tasks = pool.batch.tasks
      /\ pool'.batch.remaining = m - 1 /\ (pool'.batch.error <=> pool.batch.error \/ e)
  <2>1. pool' = Reported(pool, e) /\ pool \in PoolRow
    BY Zenon, <1>1, <1>3, <1>4 DEF WorkerReports, ReaderTyped, Reported
  <2>2. pool.batch.remaining # 0
    BY Zenon, <1>6
  <2>3. ReportedFits(pool, pool', e)
    BY Zenon, <2>1, <2>2, PoolReports
  <2> QED
    BY Zenon, <1>6, <2>3 DEF ReportedFits
<1>8. PICK r : r = [Idle EXCEPT !.generation = g]
  BY Zenon
<1>9. r \in ThreadRow /\ r.at = "idle" /\ r.generation = g /\ ~r.error
  BY Zenon, <1>8 DEF ThreadRow, Idle
<1>10. Move(w, r)
  BY Zenon, <1>4, <1>8 DEF WorkerReports
<1>11. /\ reading' \in [ReadThread -> ThreadRow] /\ reading'[w] = r
       /\ \A s \in ReadThread : s # w => reading'[s] = reading[s]
  BY Zenon, <1>1, <1>9, <1>10, MoveFacts
<1>12. /\ ReadCaller \subseteq ReadThread /\ ReadWorker \subseteq ReadThread /\ w \notin ReadCaller
       /\ NoBatch' = NoBatch
  BY Zenon, ReaderAssumption DEF ReadThread, NoBatch
<1>13. ~Busy(w)' /\ \A s \in ReadThread : s # w => (Busy(s)' <=> Busy(s))
  BY Zenon, <1>9, <1>11, Places DEF Busy
<1>14. ReaderTyped'
  BY Zenon, <1>1, <1>2, <1>7, <1>11 DEF ReaderTyped
<1>15. pool'.batch # NoBatch
  <2>1. pool'.batch.generation # 0
    BY <1>3, <1>7
  <2> QED
    BY Zenon, <2>1, NoBatchFacts
<1>16. OneBatch'
  <2>1. \A s \in ReadThread : /\ (~Busy(s)' => ~reading'[s].error)
                             /\ (Busy(s)' => reading'[s].generation = pool.generation)
    BY ZenonT(30), <1>1, <1>9, <1>11, <1>13 DEF OneBatch
  <2>2. /\ \E c \in ReadCaller : Busy(c)'
        /\ \A c, d \in ReadCaller : Busy(c)' /\ Busy(d)' => c = d
    BY Zenon, <1>1, <1>3, <1>12, <1>13 DEF OneBatch
  <2>3. /\ pool.live = IF pool.lock THEN {pool.generation} ELSE {}
        /\ pool.open
    BY Zenon, <1>1, <1>3 DEF OneBatch
  <2> QED
    BY Zenon, <1>3, <1>7, <2>1, <2>2, <2>3 DEF OneBatch, Busy
<1>17. Published'
  <2>1. \A t \in ReadThread : Busy(t)' => reading'[t].tasks = pool.batch.tasks
    BY Zenon, <1>1, <1>3, <1>11, <1>13 DEF Published
  <2>2. \A v \in ReadWorker : reading'[v].generation <= pool.generation
    <3>1. pool.generation <= pool.generation
      BY <1>3
    <3> QED
      BY Zenon, <1>1, <1>3, <1>4, <1>9, <1>11, <1>12, <3>1 DEF Published
  <2> QED
    BY Zenon, <1>7, <1>12, <1>15, <2>1, <2>2 DEF Published, Busy
<1>18. Reports'
  <2>1. ASSUME NEW v \in ReadWorker, v # w
        PROVE  reading'[v] = reading[v]
    BY Zenon, <1>11, <1>12, <2>1
  <2>2. Missing' = Missing \ {w}
    BY ZenonT(30), <1>3, <1>4, <1>7, <1>9, <1>11, <2>1 DEF Missing
  <2>3. Cardinality(Missing \ {w}) = m - 1
    BY Zenon, <1>5, <1>6, FS_RemoveElement
  <2> QED
    BY Zenon, <1>7, <2>2, <2>3 DEF Reports
<1>19. Results'
  BY Zenon, <1>1, <1>2, <1>7 DEF Results, Done
<1>20. TasksOnce(pool.generation)'
  <2>1. Flagged => Flagged'
    <3>1. CASE pool.batch.error \/ reading[w].error
      BY Zenon, <1>4, <1>7, <3>1 DEF Flagged
    <3>2. ASSUME NEW s \in ReadThread, s # w, reading[s].error
          PROVE  Flagged'
      BY Zenon, <1>11, <3>2 DEF Flagged
    <3> QED
      BY Zenon, <3>1, <3>2 DEF Flagged
  <2>2. ASSUME NEW s \in ReadThread, Busy(s)'
        PROVE  /\ \E u \in ReadThread : Busy(u) /\ reading[u].tasks = reading'[s].tasks
               /\ reading'[s].at = "drained" /\ ~reading'[s].error => reading'[s].tasks <= pool.cursor
    <3>1. Busy(s) /\ reading'[s] = reading[s]
      BY Zenon, <1>11, <1>13, <2>2
    <3> QED
      BY Zenon, <1>3, <3>1 DEF ReaderInv, TasksOnce, NoneLost
  <2>3. CursorFits
    BY Zenon, <1>7, <2>2 DEF CursorFits
  <2>4. ~Executing(w) /\ r.at # "execute"
    <3>1. r.at \notin At
      BY Zenon, <1>9, Places
    <3> QED
      BY Zenon, <1>2, <3>1, Places DEF Executing
  <2>5. PICK h \in 1..MaxReads : h = pool.generation
    BY Zenon, <1>3
  <2>6. TasksOnce(h)'
    BY Zenon, <1>1, <1>2, <1>3, <1>9, <1>10, <2>1, <2>3, <2>4, <2>5, StepsAside DEF ReaderInv
  <2> QED
    BY Zenon, <1>7, <2>5, <2>6
<1> QED
  BY Zenon, <1>14, <1>16, <1>17, <1>18, <1>19, <1>20 DEF ReaderInv

\* Nobody is busy, and nothing is published, while no caller holds the lock.
LEMMA NobodyBusy ==
  ASSUME ReaderInv, ~pool.lock
  PROVE  /\ \A t \in ReadThread : ~Busy(t) /\ ~reading[t].error
         /\ pool.batch = NoBatch /\ pool.live = {}
  BY Zenon DEF ReaderInv, OneBatch

\* Steps that leave the lock free: a worker exits, or the reader is dropped.
LEMMA RestKeeps ==
  ASSUME ReaderInv, ~pool.lock, UNCHANGED <<finished, result>>, pool' \in PoolRow,
         pool'.batch = pool.batch, pool'.lock = pool.lock, pool'.live = pool.live,
         pool'.generation = pool.generation, reading' \in [ReadThread -> ThreadRow],
         \A t \in ReadThread : reading'[t] = reading[t]
            \/ (reading'[t].at \notin At /\ ~reading'[t].error /\ reading'[t].generation = 0)
  PROVE  ReaderInv'
<1>1. ReaderTyped /\ Published /\ Results /\ pool.batch = NoBatch /\ pool.live = {}
  BY Zenon, NobodyBusy DEF ReaderInv
<1>2. \A t \in ReadThread : ~Busy(t)' /\ ~reading'[t].error
  BY Zenon, NobodyBusy DEF Busy
<1>3. ReadCaller \subseteq ReadThread /\ ReadWorker \subseteq ReadThread /\ NoBatch' = NoBatch
  BY Zenon DEF ReadThread, NoBatch
<1>4. ReaderTyped'
  BY Zenon, <1>1 DEF ReaderTyped
<1>5. OneBatch'
  BY Zenon, <1>1, <1>2, <1>3 DEF OneBatch
<1>6. Published'
  <2>1. 0 <= pool.generation
    <3>1. pool.generation \in Nat
      BY Zenon, <1>1, PoolFields DEF ReaderTyped
    <3> QED
      BY <3>1
  <2>2. \A w \in ReadWorker : reading'[w].generation <= pool'.generation
    BY Zenon, <1>1, <1>3, <2>1 DEF Published
  <2> QED
    BY Zenon, <1>2, <1>3, <2>2 DEF Published
<1>7. Reports'
  BY Zenon, <1>1, <1>3 DEF Reports
<1>8. Results'
  BY Zenon, <1>1 DEF Results, Done
<1> QED
  BY Zenon, <1>4, <1>5, <1>6, <1>7, <1>8 DEF ReaderInv

\* Drop for Reader, and the workers it joins.
LEMMA DropKeeps ==
  ASSUME ReaderInv, DropReader \/ \E w \in ReadWorker : WorkerExits(w)
  PROVE  ReaderInv'
<1>1. ReaderTyped /\ OneBatch
  BY Zenon DEF ReaderInv
<1>2. CASE DropReader
  <2>1. ~pool.lock
    <3>1. \A c \in ReadCaller : ~Busy(c)
      BY Zenon, <1>2, Places DEF DropReader, Busy
    <3> QED
      BY Zenon, <1>1, <3>1 DEF OneBatch
  <2>2. UNCHANGED <<reading, finished, result>> /\ pool' = [pool EXCEPT !.open = FALSE] /\ pool \in PoolRow
    BY Zenon, <1>1, <1>2 DEF DropReader, ReaderTyped
  <2>3. PICK p, q : p = pool /\ q = pool' /\ p \in PoolRow /\ q = [p EXCEPT !.open = FALSE]
    BY Zenon, <2>2
  <2>4. /\ q \in PoolRow /\ q.batch = p.batch /\ q.lock = p.lock /\ q.live = p.live
        /\ q.generation = p.generation
    BY Zenon, <2>3 DEF PoolRow
  <2>5. reading' \in [ReadThread -> ThreadRow] /\ \A t \in ReadThread : reading'[t] = reading[t]
    BY Zenon, <1>1, <2>2 DEF ReaderTyped
  <2> QED
    BY Zenon, <2>1, <2>2, <2>3, <2>4, <2>5, RestKeeps
<1>3. ASSUME NEW w \in ReadWorker, WorkerExits(w)
      PROVE  ReaderInv'
  <2>1. ~pool.lock /\ UNCHANGED <<pool, finished, result>> /\ w \in ReadThread
    BY Zenon, <1>1, <1>3 DEF OneBatch, WorkerExits, ReadThread
  <2>2. PICK r : r = [Idle EXCEPT !.at = "exit"]
    BY Zenon
  <2>3. r \in ThreadRow /\ r.at = "exit" /\ r.generation = 0 /\ ~r.error /\ r.at \notin At
    <3>1. r \in ThreadRow /\ r.at = "exit" /\ r.generation = 0 /\ ~r.error
      BY Zenon, <2>2 DEF ThreadRow, Idle
    <3> QED
      BY Zenon, <3>1, Places
  <2>4. /\ reading' \in [ReadThread -> ThreadRow] /\ reading'[w] = r
        /\ \A s \in ReadThread : s # w => reading'[s] = reading[s]
    BY Zenon, <1>1, <1>3, <2>1, <2>2, <2>3, MoveFacts DEF WorkerExits
  <2>5. pool' \in PoolRow /\ pool' = pool
    BY Zenon, <1>1, <2>1 DEF ReaderTyped
  <2> QED
    BY Zenon, <2>1, <2>3, <2>4, <2>5, RestKeeps
<1> QED
  BY Zenon, <1>2, <1>3

\* When read_raw may return, no thread but the caller is busy.
LEMMA OnlyTheCaller ==
  ASSUME ReaderInv, NEW c \in ReadCaller, Busy(c), pool.batch.remaining = 0,
         NEW t \in ReadThread, t # c
  PROVE  ~Busy(t) /\ ~reading[t].error
<1>1. ~Busy(t)
  <2>1. CASE t \in ReadCaller
    BY Zenon, <2>1 DEF ReaderInv, OneBatch
  <2>2. CASE t \in ReadWorker /\ pool.batch # NoBatch
    <3>1. IsFiniteSet(Missing) /\ Cardinality(Missing) = 0
      BY Zenon, <2>2, ReaderAssumption, FS_Subset DEF Missing, ReaderInv, Reports
    <3>2. Missing = {}
      BY Zenon, <3>1, FS_EmptySet
    <3>3. reading[t].at = "idle"
      BY Zenon, <2>2, <3>2 DEF Missing
    <3> QED
      BY Zenon, <3>3, Places DEF Busy
  <2>3. CASE t \in ReadWorker /\ pool.batch = NoBatch
    BY Zenon, <2>3 DEF ReaderInv, Published
  <2> QED
    BY Zenon, <2>1, <2>2, <2>3 DEF ReadThread
<1> QED
  BY Zenon, <1>1 DEF ReaderInv, OneBatch

\* When read_raw may return without an error, its tasks are done.
LEMMA AllDone ==
  ASSUME ReaderInv, NEW c \in ReadCaller, reading[c].at = "drained", pool.batch.remaining = 0,
         ~reading[c].error, ~pool.batch.error
  PROVE  /\ Done(pool.generation) = 1..reading[c].tasks
         /\ Len(finished[pool.generation]) = reading[c].tasks
<1>1. Busy(c) /\ c \in ReadThread /\ ~Executing(c)
  BY Zenon, Places DEF Busy, Executing, ReadThread
<1>2. PICK n \in Nat, g \in 1..MaxReads : n = reading[c].tasks /\ g = pool.generation
  BY Zenon, <1>1, BusyFacts
<1>3. DoneOnce(g) /\ NoneLost(g) /\ finished[g] \in Seq(Nat) /\ pool.cursor \in Nat
  BY Zenon, <1>1, <1>2, BusyFacts DEF TasksOnce
<1>4. \A t \in ReadThread : ~Executing(t) /\ ~reading[t].error
  BY Zenon, <1>1, OnlyTheCaller, Places DEF Executing, Busy
<1>5. ~Flagged
  BY Zenon, <1>4 DEF Flagged
<1>6. /\ Done(g) \subseteq 1..n /\ n <= pool.cursor
      /\ \A k \in 1..n : k <= pool.cursor => Held(g, k)
  BY Zenon, <1>1, <1>2, <1>3 DEF NoneLost
<1>7. \A k \in 1..n : k <= pool.cursor
  BY <1>3, <1>6
<1>8. \A k \in 1..n : k \in Done(g)
  BY Zenon, <1>4, <1>5, <1>6, <1>7 DEF Held
<1>9. Done(g) = 1..n
  BY Zenon, <1>6, <1>8
<1>10. Len(finished[g]) = n
  BY Zenon, <1>3, <1>9, AllTasksOnce DEF Done, DoneOnce
<1> QED
  BY Zenon, <1>2, <1>9, <1>10

\* read_raw returns.
LEMMA ReturnKeeps ==
  ASSUME ReaderInv, NEW c \in ReadCaller, ReadReturns(c)
  PROVE  ReaderInv'
<1>1. ReaderTyped /\ OneBatch /\ Published /\ Results /\ c \in ReadThread
  BY Zenon DEF ReaderInv, ReadThread
<1>2. reading[c].at = "drained" /\ Busy(c) /\ pool.batch.remaining = 0 /\ finished' = finished
  BY Zenon, Places DEF ReadReturns, Busy
<1>3. PICK n \in Nat, g \in 1..MaxReads : n = reading[c].tasks /\ g = pool.generation
  BY Zenon, <1>1, <1>2, BusyFacts
<1>4. reading[c].generation = g /\ pool.live = {g} /\ pool \in PoolRow
  BY Zenon, <1>1, <1>2, <1>3 DEF OneBatch, ReaderTyped
<1>5. /\ pool' \in PoolRow /\ ~pool'.lock /\ pool'.live = {} /\ pool'.generation = g
      /\ pool'.batch = NoBatch
  <2>1. pool' = Given(pool, g)
    BY Zenon, <1>4 DEF ReadReturns, Given
  <2>2. GivenFits(pool, pool', g)
    BY Zenon, <1>4, <2>1, PoolReleases
  <2> QED
    BY Zenon, <1>3, <1>4, <2>2 DEF GivenFits
<1>6. /\ reading' \in [ReadThread -> ThreadRow] /\ reading'[c] = Idle
      /\ \A s \in ReadThread : s # c => reading'[s] = reading[s]
  BY Zenon, <1>1, IdleFacts, MoveFacts DEF ReadReturns
<1>7. \A t \in ReadThread : ~Busy(t)' /\ ~reading'[t].error
  <2>1. ~Busy(c)' /\ ~reading'[c].error
    BY Zenon, <1>6, IdleFacts, Places DEF Busy
  <2>2. ASSUME NEW t \in ReadThread, t # c
        PROVE  ~Busy(t)' /\ ~reading'[t].error
    BY Zenon, <1>2, <1>6, <2>2, OnlyTheCaller DEF Busy
  <2> QED
    BY Zenon, <2>1, <2>2
<1>8. ReadCaller \subseteq ReadThread /\ ReadWorker \subseteq ReadThread /\ NoBatch' = NoBatch
  BY Zenon DEF ReadThread, NoBatch
<1>9. PICK m \in Nat : /\ result' = [result EXCEPT ![g] = m]
                       /\ m # 0 => m = n /\ ~reading[c].error /\ ~pool.batch.error
  <2>1. result' = [result EXCEPT ![g] = IF reading[c].error \/ pool.batch.error THEN 0 ELSE n]
    BY Zenon, <1>3, <1>4 DEF ReadReturns
  <2>2. 0 \in Nat
    OBVIOUS
  <2>3. CASE reading[c].error \/ pool.batch.error
    BY Zenon, <2>1, <2>2, <2>3
  <2>4. CASE ~(reading[c].error \/ pool.batch.error)
    BY Zenon, <2>1, <2>4
  <2> QED
    BY Zenon, <2>3, <2>4
<1>10. /\ result' \in [1..MaxReads -> Nat] /\ result'[g] = m
       /\ \A h \in 1..MaxReads : h # g => result'[h] = result[h]
  BY Zenon, <1>1, <1>9 DEF ReaderTyped
<1>11. ReaderTyped'
  BY Zenon, <1>1, <1>2, <1>5, <1>6, <1>10 DEF ReaderTyped
<1>12. OneBatch'
  BY Zenon, <1>5, <1>7, <1>8 DEF OneBatch
<1>13. Published'
  <2>1. 0 <= g
    OBVIOUS
  <2>2. \A w \in ReadWorker : reading'[w].generation <= pool'.generation
    BY Zenon, <1>1, <1>3, <1>5, <1>6, <1>8, <2>1, IdleFacts DEF Published
  <2> QED
    BY Zenon, <1>7, <1>8, <2>2 DEF Published
<1>14. Reports'
  BY Zenon, <1>5, <1>8 DEF Reports
<1>15. Results'
  <2> SUFFICES ASSUME NEW h \in 1..MaxReads
               PROVE  /\ h > pool'.generation => finished'[h] = <<>> /\ result'[h] = 0
                      /\ h \in pool'.live => result'[h] = 0
                      /\ result'[h] # 0 => Len(finished'[h]) = result'[h] /\ Done(h)' = 1..result'[h]
    BY Zenon DEF Results
  <2>1. Done(h)' = Done(h)
    BY Zenon, <1>2 DEF Done
  <2>2. CASE h # g
    BY Zenon, <1>1, <1>2, <1>3, <1>5, <1>10, <2>1, <2>2 DEF Results
  <2>3. CASE h = g
    <3>1. ~(h > pool'.generation)
      BY <1>5, <2>3
    <3>2. m # 0 => Done(g) = 1..m /\ Len(finished[g]) = m
      BY Zenon, <1>2, <1>3, <1>9, AllDone
    <3> QED
      BY Zenon, <1>2, <1>5, <1>10, <2>1, <2>3, <3>1, <3>2
  <2> QED
    BY Zenon, <2>2, <2>3
<1> QED
  BY Zenon, <1>5, <1>11, <1>12, <1>13, <1>14, <1>15 DEF ReaderInv

\* What read_raw has for the workers.
NewBatch(g, n) ==
  IF n = 1 \/ ReadWorker = {} THEN NoBatch
  ELSE [generation |-> g, tasks |-> n, error |-> FALSE, remaining |-> Cardinality(ReadWorker)]
NewBatchFits(b, g, n) ==
  /\ b \in BatchRow /\ ~b.error
  /\ b # NoBatch => b.generation = g /\ b.tasks = n /\ b.remaining = Cardinality(ReadWorker)

\* The workers of a batch that has just been published have not reported it.
LEMMA BatchBegins ==
  ASSUME NEW g \in Nat, g # 0, NEW n \in Nat
  PROVE  NewBatchFits(NewBatch(g, n), g, n)
<1>0. PICK b : b = NewBatch(g, n)
  BY Zenon
<1>1. PICK m \in Nat : m = Cardinality(ReadWorker)
  BY Zenon, ReaderAssumption, FS_CardinalityType
<1>2. CASE b = NoBatch
  BY Zenon, <1>0, <1>2, NoBatchFacts DEF NewBatchFits
<1>3. CASE b = [generation |-> g, tasks |-> n, error |-> FALSE, remaining |-> m]
  <2>1. b \in BatchRow /\ ~b.error /\ b.generation = g /\ b.tasks = n /\ b.remaining = m
    BY <1>1, <1>3 DEF BatchRow
  <2> QED
    BY Zenon, <1>0, <1>1, <2>1 DEF NewBatchFits
<1> QED
  BY Zenon, <1>0, <1>1, <1>2, <1>3 DEF NewBatch

\* read_raw starts a batch.
LEMMA ReadKeepsInv ==
  ASSUME ReaderInv, NEW c \in ReadCaller, ReadRaw(c)
  PROVE  ReaderInv'
<1>1. ReaderTyped /\ OneBatch /\ Published /\ Results /\ c \in ReadThread
  BY Zenon DEF ReaderInv, ReadThread
<1>2. /\ ~pool.lock /\ pool.open /\ UNCHANGED <<finished, result>> /\ pool.generation < MaxReads
  BY Zenon DEF ReadRaw
<1>3. PICK g \in 1..MaxReads : g = pool.generation + 1
  <2>1. pool.generation \in Nat
    BY Zenon, <1>1, PoolFields DEF ReaderTyped
  <2> QED
    BY <1>2, <2>1, ReaderAssumption
<1>4. /\ g \in Nat /\ g # 0 /\ g > pool.generation
      /\ \A x \in Nat : (x <= pool.generation => x # g /\ x <= g) /\ (x > g => x > pool.generation)
  <2>1. pool.generation \in Nat
    BY Zenon, <1>1, PoolFields DEF ReaderTyped
  <2> QED
    BY <1>3, <2>1
<1>5. PICK n, b :
        /\ n \in 1..MaxTasks
        /\ b = NewBatch(g, n)
        /\ pool' = Begun(pool, g, b)
        /\ Move(c, [Idle EXCEPT !.at = "claim", !.generation = g, !.tasks = n])
  BY Zenon, <1>3 DEF ReadRaw, Begun, NewBatch
<1>6. n \in Nat /\ b \in BatchRow /\ ~b.error
      /\ (b # NoBatch => b.generation = g /\ b.tasks = n /\ b.remaining = Cardinality(ReadWorker))
  <2>1. n \in Nat
    BY <1>5, ReaderAssumption
  <2> QED
    <3>1. NewBatchFits(b, g, n)
      BY Zenon, <1>4, <1>5, <2>1, BatchBegins
    <3> QED
      BY Zenon, <2>1, <3>1 DEF NewBatchFits
<1>7. /\ pool' \in PoolRow /\ pool'.cursor = 0 /\ pool'.lock /\ pool'.generation = g
      /\ pool'.live = {g} /\ pool'.batch = b /\ pool'.open
  <2>1. pool \in PoolRow /\ pool.live = {}
    BY Zenon, <1>1, <1>2, NobodyBusy DEF ReaderTyped
  <2>2. BegunFits(pool, pool', g, b)
    BY Zenon, <1>4, <1>5, <1>6, <2>1, PoolPublishes
  <2>3. pool.live \cup {g} = {g}
    BY Zenon, <2>1
  <2> QED
    BY Zenon, <1>2, <2>2, <2>3 DEF BegunFits
<1>8. PICK r : r = [Idle EXCEPT !.at = "claim", !.generation = g, !.tasks = n]
  BY Zenon
<1>9. r \in ThreadRow /\ r.at = "claim" /\ r.generation = g /\ r.tasks = n /\ ~r.error
  BY Zenon, <1>4, <1>6, <1>8 DEF ThreadRow, Idle
<1>10. /\ reading' \in [ReadThread -> ThreadRow] /\ reading'[c] = r
       /\ \A s \in ReadThread : s # c => reading'[s] = reading[s]
  BY Zenon, <1>1, <1>5, <1>8, <1>9, MoveFacts
<1>11. Busy(c)' /\ \A s \in ReadThread : ~reading'[s].error /\ (s # c => ~Busy(s)')
  <2>1. ASSUME NEW s \in ReadThread, s # c
        PROVE  ~Busy(s)' /\ ~reading'[s].error
    BY Zenon, <1>2, <1>10, <2>1, NobodyBusy DEF Busy
  <2>2. Busy(c)' /\ ~reading'[c].error
    BY Zenon, <1>9, <1>10, Places DEF Busy
  <2> QED
    BY Zenon, <2>1, <2>2
<1>12. /\ ReadCaller \subseteq ReadThread /\ ReadWorker \subseteq ReadThread /\ c \notin ReadWorker
       /\ NoBatch' = NoBatch
  BY Zenon, ReaderAssumption DEF ReadThread, NoBatch
<1>13. ReaderTyped'
  BY Zenon, <1>1, <1>2, <1>7, <1>10 DEF ReaderTyped
<1>14. OneBatch'
  <2>1. \A s \in ReadThread : Busy(s)' => reading'[s].generation = pool'.generation
    BY Zenon, <1>7, <1>9, <1>10, <1>11
  <2>2. /\ \E d \in ReadCaller : Busy(d)'
        /\ \A d, e \in ReadCaller : Busy(d)' /\ Busy(e)' => d = e
    BY Zenon, <1>11, <1>12
  <2>3. pool'.batch # NoBatch => pool'.batch.generation = pool'.generation
    BY Zenon, <1>6, <1>7
  <2>4. pool'.live = IF pool'.lock THEN {pool'.generation} ELSE {}
    BY Zenon, <1>7
  <2>5. \A s \in ReadThread : ~Busy(s)' => ~reading'[s].error
    BY Zenon, <1>11
  <2> QED
    BY Zenon, <1>7, <1>12, <2>1, <2>2, <2>3, <2>4, <2>5 DEF OneBatch, Busy
<1>15. \A w \in ReadWorker : reading'[w].generation <= g /\ reading'[w].generation # g
  <2> SUFFICES ASSUME NEW w \in ReadWorker
               PROVE  reading'[w].generation <= g /\ reading'[w].generation # g
    BY Zenon
  <2>1. reading'[w] = reading[w] /\ reading[w].generation \in Nat
    BY Zenon, <1>1, <1>10, <1>12, ThreadFields DEF ReaderTyped
  <2> QED
    BY Zenon, <1>1, <1>4, <2>1 DEF Published
<1>16. Published'
  <2>1. \A w \in ReadWorker : ~Busy(w)'
    BY Zenon, <1>11, <1>12
  <2>2. \A t \in ReadThread : Busy(t)' /\ pool'.batch # NoBatch => reading'[t].tasks = pool'.batch.tasks
    BY Zenon, <1>6, <1>7, <1>9, <1>10, <1>11
  <2>3. \A w \in ReadWorker : reading'[w].generation <= pool'.generation
    BY Zenon, <1>7, <1>15
  <2> QED
    BY Zenon, <1>12, <2>1, <2>2, <2>3 DEF Published, Busy
<1>17. Reports'
  <2>1. Missing' = ReadWorker
    BY Zenon, <1>7, <1>15 DEF Missing
  <2> QED
    BY Zenon, <1>6, <1>7, <1>12, <2>1 DEF Reports
<1>18. Results'
  <2> SUFFICES ASSUME NEW h \in 1..MaxReads
               PROVE  /\ h > pool'.generation => finished'[h] = <<>> /\ result'[h] = 0
                      /\ h \in pool'.live => result'[h] = 0
                      /\ result'[h] # 0 => Len(finished'[h]) = result'[h] /\ Done(h)' = 1..result'[h]
    BY Zenon DEF Results
  <2>1. Done(h)' = Done(h) /\ h \in Nat
    <3>1. h \in Nat
      BY ReaderAssumption
    <3> QED
      BY Zenon, <1>2, <3>1 DEF Done
  <2> QED
    BY ZenonT(30), <1>1, <1>2, <1>4, <1>7, <2>1 DEF Results
<1>19. TasksOnce(g)'
  <2>1. finished'[g] = <<>>
    BY Zenon, <1>1, <1>2, <1>4 DEF Results
  <2>2. Once(<<>>) /\ Entries(<<>>) = {}
    BY DEF Once, Entries
  <2>3. Done(g)' = {}
    BY Zenon, <2>1, <2>2 DEF Done
  <2>4. DoneOnce(g)'
    BY Zenon, <2>1, <2>2, <2>3 DEF DoneOnce
  <2>5. \A t \in ReadThread : ~Executing(t)'
    <3>1. ASSUME NEW t \in ReadThread, t # c
          PROVE  ~Executing(t)'
      BY Zenon, <1>11, <3>1, Places DEF Busy, Executing
    <3>2. ~Executing(c)'
      BY Zenon, <1>9, <1>10, Places DEF Executing
    <3> QED
      BY Zenon, <3>1, <3>2
  <2>6. HeldOnce(g)'
    BY Zenon, <2>5 DEF HeldOnce
  <2>7. ASSUME NEW t \in ReadThread, Busy(t)'
        PROVE  /\ Done(g)' \subseteq 1..reading'[t].tasks
               /\ \A k \in 1..reading'[t].tasks : ~(k <= pool'.cursor)
               /\ reading'[t].at # "drained"
    <3>1. t = c /\ reading'[t].tasks = n /\ reading'[t].at = "claim"
      BY Zenon, <1>9, <1>10, <1>11, <2>7
    <3>2. \A k \in 1..n : ~(k <= 0)
      BY <1>6
    <3> QED
      BY Zenon, <1>7, <2>3, <3>1, <3>2, Places
  <2>8. NoneLost(g)'
    BY Zenon, <2>7 DEF NoneLost
  <2> QED
    BY Zenon, <2>4, <2>6, <2>8 DEF TasksOnce
<1>20. TasksOnce(pool.generation)'
  BY Zenon, <1>7, <1>19
<1> QED
  BY Zenon, <1>13, <1>14, <1>16, <1>17, <1>18, <1>20 DEF ReaderInv

-----------------------------------------------------------------------------
(* Shard reader: the theorems.                                             *)

\* No step of a caller or a worker, however they interleave, breaks the invariant.
LEMMA ReaderStep ==
  ASSUME ReaderInv, [ReaderNext]_readerVars
  PROVE  ReaderInv'
<1>0. ReadCaller \subseteq ReadThread /\ ReadWorker \subseteq ReadThread
  BY Zenon DEF ReadThread
<1>1. CASE UNCHANGED readerVars
  <2>1. UNCHANGED <<pool, reading, finished, result>>
    BY Zenon, <1>1 DEF readerVars
  <2>2. ReaderTyped' /\ OneBatch' /\ Published' /\ Reports' /\ Results'
    BY Zenon, <2>1 DEF ReaderInv, ReaderTyped, OneBatch, Published, Reports, Results, Busy, Missing, Done
  <2>3. pool.lock => TasksOnce(pool.generation)'
    BY Zenon, <2>1 DEF ReaderInv, TasksOnce, DoneOnce, HeldOnce, NoneLost, Held, Flagged, Done, Busy, Executing
  <2> QED
    BY Zenon, <2>1, <2>2, <2>3 DEF ReaderInv
<1>2. ASSUME NEW t \in ReadThread, Claim(t) \/ Execute(t)
      PROVE  ReaderInv'
  <2>1. CASE Execute(t)
    BY Zenon, <2>1, ExecuteKeeps, FailureKeeps DEF Execute, Executing
  <2> QED
    BY Zenon, <1>2, <2>1, ClaimKeeps
<1>3. ASSUME NEW c \in ReadCaller, ReadRaw(c) \/ CallerSteps(c)
      PROVE  ReaderInv'
  BY Zenon, <1>0, <1>2, <1>3, ReadKeepsInv, ReturnKeeps DEF CallerSteps
<1>4. ASSUME NEW w \in ReadWorker, WorkerSteps(w)
      PROVE  ReaderInv'
  BY Zenon, <1>0, <1>2, <1>4, WakeKeeps, ReportKeeps, DropKeeps DEF WorkerSteps
<1>5. CASE DropReader
  BY Zenon, <1>5, DropKeeps
<1> QED
  BY Zenon, <1>1, <1>3, <1>4, <1>5 DEF ReaderNext

\* At first nobody reads.
LEMMA ReaderStart ==
  ASSUME ReaderInit
  PROVE  ReaderInv
<1>1. PICK p : p = pool /\ p = [cursor |-> 0, batch |-> NoBatch, lock |-> FALSE, live |-> {},
                                generation |-> 0, open |-> TRUE, bad |-> 0]
  BY Zenon DEF ReaderInit
<1>2. p \in PoolRow /\ p.batch = NoBatch /\ ~p.lock /\ p.live = {} /\ p.generation = 0
  <2>1. 0 \in Nat
    OBVIOUS
  <2> QED
    BY <1>1, <2>1, NoBatchFacts DEF PoolRow
<1>3. reading \in [ReadThread -> ThreadRow] /\ \A t \in ReadThread : reading[t] = Idle
  BY Zenon, IdleFacts DEF ReaderInit
<1>4. finished \in [1..MaxReads -> Seq(Nat)] /\ \A g \in 1..MaxReads : finished[g] = <<>>
  <2>1. <<>> \in Seq(Nat)
    OBVIOUS
  <2> QED
    BY Zenon, <2>1 DEF ReaderInit
<1>5. result \in [1..MaxReads -> Nat] /\ \A g \in 1..MaxReads : result[g] = 0
  <2>1. 0 \in Nat
    OBVIOUS
  <2> QED
    BY Zenon, <2>1 DEF ReaderInit
<1>6. \A t \in ReadThread : ~Busy(t) /\ ~reading[t].error
  BY Zenon, <1>3, IdleFacts, Places DEF Busy
<1>7. ReadCaller \subseteq ReadThread /\ ReadWorker \subseteq ReadThread /\ 0 <= 0
  BY DEF ReadThread
<1>8. ReaderTyped /\ OneBatch
  BY Zenon, <1>1, <1>2, <1>3, <1>4, <1>5, <1>6, <1>7 DEF ReaderTyped, OneBatch
<1>9. Published /\ Reports
  BY Zenon, <1>1, <1>2, <1>3, <1>6, <1>7, IdleFacts DEF Published, Reports
<1>10. Results
  BY Zenon, <1>1, <1>2, <1>4, <1>5 DEF Results
<1> QED
  BY Zenon, <1>1, <1>2, <1>8, <1>9, <1>10 DEF ReaderInv

\* The parallel reader of store.rs: one batch at a time is in scope, every
\* thread that works is on it, the workers yet to report are counted, and no
\* task that the cursor has passed is lost or taken twice.
THEOREM ReaderInvariant == ReaderSpec => []ReaderInv
<1>1. ReaderInit => ReaderInv
  BY ReaderStart
<1>2. ReaderInv /\ [ReaderNext]_readerVars => ReaderInv'
  BY ReaderStep
<1> QED
  BY <1>1, <1>2, PTL DEF ReaderSpec

\* When read_raw says Ok, every task ran, and ran once; and no thread holds
\* the pointer to a task list that read_raw has given up (the SAFETY comment of
\* worker_loop).
THEOREM ReadsAreWhole == ReaderSpec => []ReadIsWhole
<1>1. ReaderInv => ReadIsWhole
  <2> SUFFICES ASSUME ReaderInv
               PROVE  ReadIsWhole
    BY Zenon
  <2>1. \A t \in ReadThread : reading[t].at \in {"claim", "execute"} => Busy(t)
    BY Zenon DEF Busy, At
  <2>2. \A t \in ReadThread : Busy(t) => reading[t].generation \in pool.live
    BY Zenon DEF ReaderInv, OneBatch
  <2>3. \A g \in 1..MaxReads : result[g] # 0 =>
          Len(finished[g]) = result[g] /\ {finished[g][i] : i \in 1..Len(finished[g])} = 1..result[g]
    BY Zenon DEF ReaderInv, Results, Done, Entries
  <2> QED
    BY Zenon, <2>1, <2>2, <2>3 DEF ReadIsWhole
<1> QED
  BY <1>1, ReaderInvariant, PTL

=============================================================================
