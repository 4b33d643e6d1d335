----------------------------- MODULE MemoryJobs -----------------------------
(***************************************************************************)
(* Automatic memory extraction for one conversation: the background job    *)
(* that a reply schedules, the follow-up that overlapping replies leave to *)
(* it, and the checkpoint up to which messages count as read               *)
(* (schedule_automatic_memory, wait_for_quiet_chat,                        *)
(* maybe_extract_automatic_memory and extract_memories in                  *)
(* systems/inference.rs).                                                  *)
(*                                                                         *)
(* What the model is sent and what it answers is left out; a message is    *)
(* its revision.  The rows a run takes are the oldest changed ones, as     *)
(* many as the row limit and the token budget let through.                 *)
(***************************************************************************)
EXTENDS Naturals, FiniteSets

CONSTANTS
  Msg,           \* messages of the conversation
  Char,          \* characters that reply
  Task,          \* spawned jobs
  Rows,          \* ROWS: messages one run may take (40)
  MaxDeferrals,  \* MEMORY_SWAP_MAX_DEFERRALS (6)
  Swaps,         \* a dedicated memory model is configured
  MaxRev         \* bound on the writes

ASSUME MemoryAssumption ==
  /\ IsFiniteSet(Msg)
  /\ Rows \in Nat /\ MaxDeferrals \in Nat /\ MaxRev \in Nat
  /\ Swaps \in BOOLEAN
  /\ {"absent", "none"} \cap Char = {}

VARIABLES
  row,         \* revision of each message, 0 when it is not there
  lastRev,     \* last revision given out
  due,         \* characters whose reply is stored and not yet scheduled
  entry,       \* memory_jobs: "absent", "none", or the follow-up's character
  task,        \* [stage, char, defers, read, latest] of each job
  checkpoint,  \* last_message_revision
  covered,     \* <<message, revision>> pairs whose memories are stored
  owed         \* a scheduled reply that no run has looked for yet

memVars == <<row, lastRev, due, entry, task, checkpoint, covered, owed>>

Dormant == [stage |-> "dormant", char |-> "none", defers |-> 0, read |-> {}, latest |-> 0]

MemInit ==
  /\ row = [m \in Msg |-> 0]
  /\ lastRev = 0
  /\ due = {}
  /\ entry = "absent"
  /\ task = [t \in Task |-> Dormant]
  /\ checkpoint = 0
  /\ covered = {}
  /\ owed = FALSE

Active == {t \in Task : task[t].stage # "dormant"}

-----------------------------------------------------------------------------
\* A message is sent or edited: it gets a new revision.
Store(m) ==
  /\ lastRev < MaxRev
  /\ lastRev' = lastRev + 1
  /\ row' = [row EXCEPT ![m] = lastRev + 1]

WriteMessage(m) ==
  /\ Store(m)
  /\ UNCHANGED <<due, entry, task, checkpoint, covered, owed>>

\* generate stores a completed root reply; the job is scheduled only after
\* the reply has been sent.
Reply(m, c) ==
  /\ row[m] = 0
  /\ Store(m)
  /\ due' = due \cup {c}
  /\ UNCHANGED <<entry, task, checkpoint, covered, owed>>

\* schedule_automatic_memory: one job per conversation, later replies are
\* coalesced into its follow-up.
Schedule(c, t) ==
  /\ c \in due /\ task[t] = Dormant
  /\ due' = due \ {c}
  /\ owed' = TRUE
  /\ IF entry # "absent"
     THEN entry' = c /\ UNCHANGED task
     ELSE /\ entry' = "none"
          /\ task' = [task EXCEPT ![t] = [Dormant EXCEPT !.stage = "begin", !.char = c]]
  /\ UNCHANGED <<row, lastRev, checkpoint, covered>>

\* The top of the job's loop.
Begin(t) ==
  /\ task[t].stage = "begin"
  /\ task' = [task EXCEPT ![t] = [@ EXCEPT !.stage = IF Swaps THEN "wait" ELSE "extract",
                                          !.defers = 0]]
  /\ UNCHANGED <<row, lastRev, due, entry, checkpoint, covered, owed>>

\* Mutant: the follow-up is looked at and left where it is.
QuietPeriodEndsPeeking(t) ==
  /\ task[t].stage = "wait"
  /\ entry \notin Char
  /\ task' = [task EXCEPT ![t].stage = "extract"]
  /\ UNCHANGED <<row, lastRev, due, entry, checkpoint, covered, owed>>

\* wait_for_quiet_chat: a period of sleep is over.  A reply during it starts
\* another period, up to the bound.
QuietPeriodEnds(t) ==
  /\ task[t].stage = "wait"
  /\ IF task[t].defers < MaxDeferrals /\ entry \in Char
     THEN /\ entry' = "none"
          /\ task' = [task EXCEPT ![t] =
                        [@ EXCEPT !.char = entry, !.defers = task[t].defers + 1,
                                  !.stage = IF task[t].defers + 1 < MaxDeferrals
                                            THEN "wait" ELSE "extract"]]
     ELSE /\ task' = [task EXCEPT ![t].stage = "extract"]
          /\ UNCHANGED entry
  /\ UNCHANGED <<row, lastRev, due, checkpoint, covered, owed>>

-----------------------------------------------------------------------------
Changed == {m \in Msg : row[m] > checkpoint}
UpTo(top) == {m \in Changed : row[m] <= row[top]}

\* Mutant: the checkpoint of a run is the newest change, read or not.
LatestChange(top) == lastRev

\* "Advance only past rows the model read."
LatestRead(top) == row[top]

\* The run takes the changed rows up to `top'; the rest stays pending.
TakeRows(t, top) ==
  /\ task[t].stage = "extract"
  /\ top \in Changed
  /\ Cardinality(UpTo(top)) <= Rows
  /\ task' = [task EXCEPT ![t] = [@ EXCEPT !.stage = "model",
                                          !.read = {<<m, row[m]>> : m \in UpTo(top)},
                                          !.latest = LatestRead(top)]]
  /\ owed' = FALSE
  /\ UNCHANGED <<row, lastRev, due, entry, checkpoint, covered>>

\* Nothing changed since the checkpoint, or nothing fits the budget.
TakeNothing(t) ==
  /\ task[t].stage = "extract"
  /\ task' = [task EXCEPT ![t].stage = "end"]
  /\ owed' = FALSE
  /\ UNCHANGED <<row, lastRev, due, entry, checkpoint, covered>>

\* The model has answered and every new fact is stored.
SaveMemories(t) ==
  /\ task[t].stage = "model"
  /\ task' = [task EXCEPT ![t].stage = "saved"]
  /\ covered' = covered \cup task[t].read
  /\ UNCHANGED <<row, lastRev, due, entry, checkpoint, owed>>

Advance(t) ==
  /\ task[t].stage = "saved"
  /\ task' = [task EXCEPT ![t].stage = "end"]
  /\ checkpoint' = IF task[t].latest > checkpoint THEN task[t].latest ELSE checkpoint
  /\ UNCHANGED <<row, lastRev, due, entry, covered, owed>>

\* The model call, a write or the conversation itself is gone: the error is
\* logged and the checkpoint stays.
RunFails(t) ==
  /\ task[t].stage \in {"extract", "model", "saved"}
  /\ task' = [task EXCEPT ![t].stage = "end"]
  /\ owed' = IF task[t].stage = "extract" THEN FALSE ELSE owed
  /\ UNCHANGED <<row, lastRev, due, entry, checkpoint, covered>>

\* Mutant: the job ends without a look at its follow-up.
EndForgetting(t) ==
  /\ task[t].stage = "end"
  /\ entry' = "absent"
  /\ task' = [task EXCEPT ![t] = Dormant]
  /\ UNCHANGED <<row, lastRev, due, checkpoint, covered, owed>>

\* One critical section takes the follow-up or removes the job.
End(t) ==
  /\ task[t].stage = "end"
  /\ IF entry \in Char
     THEN /\ entry' = "none"
          /\ task' = [task EXCEPT ![t] = [Dormant EXCEPT !.stage = "begin", !.char = entry]]
     ELSE /\ entry' = "absent"
          /\ task' = [task EXCEPT ![t] = Dormant]
  /\ UNCHANGED <<row, lastRev, due, checkpoint, covered, owed>>

\* The broker restarts: the jobs are in memory only.
Restart ==
  /\ Active # {} \/ due # {}
  /\ due' = {}
  /\ entry' = "absent"
  /\ task' = [t \in Task |-> Dormant]
  /\ owed' = FALSE
  /\ UNCHANGED <<row, lastRev, checkpoint, covered>>

-----------------------------------------------------------------------------
Step(t) ==
  \/ Begin(t) \/ QuietPeriodEnds(t)
  \/ TakeNothing(t) \/ \E top \in Msg : TakeRows(t, top)
  \/ SaveMemories(t) \/ Advance(t) \/ RunFails(t) \/ End(t)

MemNext ==
  \/ \E m \in Msg : WriteMessage(m) \/ \E c \in Char : Reply(m, c)
  \/ \E c \in Char, t \in Task : Schedule(c, t)
  \/ \E t \in Task : Step(t)
  \/ Restart

\* The runtime runs every spawned task; sleeps and model calls (which have a
\* timeout) end.
MemFairness == \A t \in Task : WF_memVars(Step(t))

MemSpec == MemInit /\ [][MemNext]_memVars /\ MemFairness

-----------------------------------------------------------------------------
(* Properties.                                                             *)

MemStage == {"dormant", "begin", "wait", "extract", "model", "saved", "end"}

MemTypeOK ==
  /\ row \in [Msg -> Nat]
  /\ lastRev \in Nat
  /\ due \in SUBSET Char
  /\ entry \in Char \cup {"absent", "none"}
  /\ task \in [Task -> [stage : MemStage, char : Char \cup {"none"}, defers : Nat,
                        read : SUBSET (Msg \X Nat), latest : Nat]]
  /\ \A t \in Active : task[t].char \in Char
  /\ checkpoint \in Nat
  /\ covered \in SUBSET (Msg \X Nat)
  /\ owed \in BOOLEAN

\* ARCHITECTURE.md 142 and inference.rs 869: a message counts as read only
\* when a run has taken its present text and stored its facts, whatever is
\* sent or edited, fails or restarts meanwhile.
NothingSkipped ==
  \A m \in Msg : row[m] # 0 /\ row[m] <= checkpoint => <<m, row[m]>> \in covered

\* "One background job per owner/conversation": the entry of memory_jobs is
\* there exactly while a job is, and there is never a second one.
OneJob ==
  /\ \A t, u \in Active : t = u
  /\ entry = "absent" <=> Active = {}

\* inference.rs 886, "Coalesce replies arriving during extraction into one
\* follow-up job": a scheduled reply is never forgotten between the end of a
\* run and the removal of the job.
ReplyNotForgotten ==
  owed => \/ entry \in Char
          \/ \E t \in Task : task[t].stage \in {"begin", "wait", "extract"}

\* Every scheduled reply is followed by a run that looks for changed rows
\* (OPERATIONS.md 104, "so long sessions still save memories").
ReplyIsExtracted == owed ~> ~owed

=============================================================================
