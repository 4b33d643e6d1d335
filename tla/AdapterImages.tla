--------------------------- MODULE AdapterImages ---------------------------
(***************************************************************************)
(* Waiting for an image: WasmAdapter::generate_image submits one job to an *)
(* image server that queues it (ComfyUI), polls it until it is ready or    *)
(* the deadline would pass, and fetches the pictures.  Dropping the wait,  *)
(* or an error while the job is pending, starts a detached cancellation of *)
(* two concurrent requests.                                                *)
(* Source: chatty-broker/src/adapters/runtime/mod.rs,                      *)
(* chatty-adapters/comfyui/src/lib.rs.                                     *)
(***************************************************************************)
EXTENDS Integers, FiniteSets

CONSTANTS ImageCaller,   \* waits, each for one job
          WaitBudget     \* the deadline, in poll intervals

ASSUME ImageAssumption == WaitBudget \in Nat

VARIABLES wait,          \* the host's futures: where they are, the job they know of, intervals left
          job,           \* the server's jobs, one per wait
          cancels         \* the cancellations: requests under way and those that took effect

imageVars == <<wait, job, cancels>>

CancelRequests == {"delete", "interrupt"}

NoCancel == [way |-> {}, landed |-> {}, lost |-> FALSE, slipped |-> FALSE]

Active == {"submitting", "sleeping", "polling", "fetching"}

----------------------------------------------------------------------------
(* The host *)

\* Drop for PendingImage: a job the host knows of and has not seen finish.
DropPending(i) ==
  cancels' = IF wait[i].knows THEN [cancels EXCEPT ![i].way = CancelRequests] ELSE cancels

End(i, at) == wait' = [wait EXCEPT ![i] = [@ EXCEPT !.at = at, !.knows = FALSE]]

StartWait(i) ==
  /\ wait[i].at = "idle"
  /\ wait' = [wait EXCEPT ![i].at = "submitting"]
  /\ job' = [job EXCEPT ![i] = "sent"]
  /\ UNCHANGED cancels

\* Sleep until the next poll, unless that would pass the deadline.
Sleep(i, w) ==
  IF w.left <= 1
    THEN /\ wait' = [wait EXCEPT ![i] = [w EXCEPT !.at = "failed", !.knows = FALSE]]
         /\ cancels' = [cancels EXCEPT ![i].way = CancelRequests]
         /\ UNCHANGED job
    ELSE /\ wait' = [wait EXCEPT ![i] = [w EXCEPT !.at = "sleeping"]]
         /\ UNCHANGED <<job, cancels>>

\* The submit call's answer carries the job's id.
SubmitAnswered(i) ==
  /\ wait[i].at = "submitting" /\ job[i] \notin {"sent", "refused"}
  /\ Sleep(i, [wait[i] EXCEPT !.knows = TRUE])

\* The submit call fails: the server rejected the workflow, or the answer was
\* lost or came too late.  The host then knows of no job.
SubmitFails(i) ==
  /\ wait[i].at = "submitting"
  /\ End(i, "failed")
  /\ UNCHANGED <<job, cancels>>

PollJob(i) ==
  /\ wait[i].at = "sleeping"
  /\ wait' = [wait EXCEPT ![i].at = "polling", ![i].left = IF @ = 0 THEN 0 ELSE @ - 1]
  /\ UNCHANGED <<job, cancels>>

\* ComfyUI's history: nothing before the job ends, then its pictures or its
\* error (a job without pictures counts as one).
PollAnswered(i) ==
  /\ wait[i].at = "polling"
  /\ \/ job[i] \in {"queued", "running"} /\ Sleep(i, wait[i])
     \/ /\ job[i] = "done"
        /\ wait' = [wait EXCEPT ![i] = [@ EXCEPT !.at = "fetching", !.knows = FALSE]]
        /\ UNCHANGED <<job, cancels>>
     \/ job[i] = "error" /\ End(i, "failed") /\ DropPending(i) /\ UNCHANGED job

PollFails(i) ==
  /\ wait[i].at = "polling"
  /\ End(i, "failed") /\ DropPending(i) /\ UNCHANGED job

Fetch(i) ==
  /\ wait[i].at = "fetching"
  /\ \E at \in {"done", "failed"} : End(i, at)
  /\ UNCHANGED <<job, cancels>>

\* The request that wanted the image is cancelled or its client goes away.
DropWait(i) ==
  /\ wait[i].at \in Active
  /\ End(i, "dropped") /\ DropPending(i) /\ UNCHANGED job

\* A cancellation request fails; try_join_all drops the other with it.
CancelFails(i) ==
  /\ cancels[i].way # {}
  /\ cancels' = [cancels EXCEPT ![i] = [@ EXCEPT !.way = {}, !.lost = TRUE]]
  /\ UNCHANGED <<wait, job>>

----------------------------------------------------------------------------
(* The image server, as the code uses it *)

\* The submission arrives, perhaps after the host gave up on it.
ServerAccepts(i) ==
  /\ job[i] = "sent"
  /\ \E r \in {"queued", "refused"} : job' = [job EXCEPT ![i] = r]
  /\ UNCHANGED <<wait, cancels>>

ServerStarts(i) ==
  /\ job[i] = "queued" /\ \A j \in ImageCaller : job[j] # "running"
  /\ job' = [job EXCEPT ![i] = "running"]
  /\ cancels' = [cancels EXCEPT ![i].slipped = cancels[i].landed = {"interrupt"}]
  /\ UNCHANGED wait

ServerEnds(i) ==
  /\ job[i] = "running"
  /\ \E r \in {"done", "error"} : job' = [job EXCEPT ![i] = r]
  /\ UNCHANGED <<wait, cancels>>

CancelOnlyDeletes(i, request) ==
  /\ request \in cancels[i].way
  /\ cancels' = [cancels EXCEPT ![i].way = @ \ {request}, ![i].landed = @ \union {request}]
  /\ job' = [job EXCEPT ![i] = IF request = "delete" /\ @ = "queued" THEN "cancelled" ELSE @]
  /\ UNCHANGED wait

\* ImageCancel: delete the job from the queue, and interrupt it if it is the
\* one running.  The two arrive in any order.
CancelLands(i, request) ==
  /\ request \in cancels[i].way
  /\ cancels' = [cancels EXCEPT ![i].way = @ \ {request}, ![i].landed = @ \union {request}]
  /\ job' = [job EXCEPT ![i] = IF (request = "delete" /\ @ = "queued") \/ (request = "interrupt" /\ @ = "running")
                                 THEN "cancelled" ELSE @]
  /\ UNCHANGED wait

----------------------------------------------------------------------------
ImageInit ==
  /\ wait = [i \in ImageCaller |-> [at |-> "idle", knows |-> FALSE, left |-> WaitBudget]]
  /\ job = [i \in ImageCaller |-> "none"]
  /\ cancels = [i \in ImageCaller |-> NoCancel]

HostStep(i) ==
  SubmitAnswered(i) \/ SubmitFails(i) \/ PollJob(i) \/ PollAnswered(i) \/ PollFails(i) \/ Fetch(i)

ImageNext ==
  \E i \in ImageCaller :
    \/ StartWait(i) \/ HostStep(i) \/ DropWait(i)
    \/ CancelFails(i) \/ (\E r \in CancelRequests : CancelLands(i, r))
    \/ ServerAccepts(i) \/ ServerStarts(i) \/ ServerEnds(i)

ImageSpec == ImageInit /\ [][ImageNext]_imageVars

\* Every request the host sends has a time limit, and its sleeps end; a
\* cancellation lands or fails.  The server may keep a job running for ever.
ImageFairness ==
  \A i \in ImageCaller :
    /\ WF_imageVars(HostStep(i))
    /\ WF_imageVars(CancelFails(i) \/ (\E r \in CancelRequests : CancelLands(i, r)))

----------------------------------------------------------------------------
(* Properties *)

\* An abandoned job does not keep the image server busy: once both requests of
\* its cancellation have taken effect the job is neither queued nor running,
\* unless it started after the interrupt and before the deletion, which no
\* request of the guest covers (PendingImage, comfyui ImageCancel).
CancelReachesTheJob ==
  \A i \in ImageCaller :
    cancels[i].landed = CancelRequests /\ ~cancels[i].slipped => job[i] \notin {"queued", "running"}
=============================================================================
