----------------------------- MODULE ClientJobs -----------------------------
(***************************************************************************)
(* The client's pending work: image jobs (scene, portrait and emotion      *)
(* batch, administrator's test), message images, model downloads, other    *)
(* model operations and the emotion model installation.  The application   *)
(* learns the id of a request only when the network task has written it    *)
(* (the "started" events of network/mod.rs), so every answer, cancellation *)
(* and loss of the link races the event that says which request it is      *)
(* about.  update.rs, character_editor.rs and admin/mod.rs start the work; *)
(* events.rs ends it.                                                      *)
(*                                                                         *)
(* Image data are left out; a portrait carries the draft it was asked for. *)
(* `wanted` is the image messages of the open chat.  Cancelling in the     *)
(* broker is external: a cancelled request is answered like any other.     *)
(***************************************************************************)
EXTENDS Naturals, Sequences, FiniteSets, SequencesExt

CONSTANTS
  Img,           \* message images
  Model,         \* models that may be downloaded
  NoBatch,       \* no emotion batch runs
  MaxAttempts,   \* MAX_MESSAGE_IMAGE_ATTEMPTS
  MaxPics,       \* MAX_CHARACTER_IMAGES
  MaxDownloads,  \* MAX_PARALLEL_DOWNLOADS
  Emotions,      \* emotions a draft lacks
  MaxWork, MaxLoss

VARIABLES
  jobs,       \* scene_image, portrait_image, image_test, emotion_install, models
  batch,      \* emotion_batch: how many are queued behind the current one
  draft,      \* the draft in the editor, numbered as drafts are opened
  pics,       \* its images
  pulls,      \* models.downloads
  im,         \* the message images: see NoImages
  signed,     \* the user is signed in
  queue, inbox, net, next_request, up,
  stalled,    \* a link ended without an "Offline" status
  work, loss

ui == <<jobs, batch, draft, pics, pulls, im, signed>>
lines == <<queue, inbox, net, next_request, up>>
jobVars == <<ui, lines, stalled, work, loss>>

NoJob == [pending |-> FALSE, id |-> 0]
Asked == [pending |-> TRUE, id |-> 0]
NoPull == [state |-> "none", id |-> 0, cancelling |-> FALSE]
\* message_images (with bytes, and marked unavailable), message_image_requests,
\* message_image_failures, message_image_request_ids, retry_scheduled.
NoImages == [wanted |-> {}, loaded |-> {}, gone |-> {}, marks |-> {},
             fails |-> [i \in Img |-> 0], owner |-> {}, timer |-> FALSE]

JobsInit ==
  /\ jobs = [j \in {"scene", "portrait", "test", "install", "model"} |-> NoJob]
  /\ batch = NoBatch /\ draft = 0 /\ pics = 0
  /\ pulls = [m \in Model |-> NoPull] /\ im = NoImages /\ signed = TRUE
  /\ queue = <<>> /\ inbox = <<>> /\ net = {} /\ next_request = 0 /\ up = TRUE
  /\ stalled = FALSE /\ work = 0 /\ loss = 0

Cmd(op, arg) == [op |-> op, arg |-> arg]
Cancel(ids) == SetToSeq({Cmd("cancel", i) : i \in ids \ {0}})
Queue(seq) == queue' = queue \o seq
Work == signed /\ work < MaxWork /\ work' = work + 1 /\ UNCHANGED <<stalled, loss>>

-----------------------------------------------------------------------------
(* What the user starts and stops.                                         *)

\* GenerateSceneImage, GeneratePortrait, TestImageGeneration,
\* InstallEmotionModel, and the model operations (RefreshOllama, SearchModels,
\* load, unload, delete): one of each kind at a time.
StartJob(j) ==
  /\ Work /\ ~jobs[j].pending
  /\ jobs' = [jobs EXCEPT ![j] = Asked]
  /\ Queue(<<Cmd(j, IF j = "portrait" THEN draft ELSE 0)>>)
  /\ UNCHANGED <<signed, batch, draft, pics, pulls, im, inbox, net, next_request, up>>

CancelScene ==
  /\ Work /\ jobs.scene.id # 0
  /\ Queue(Cancel({jobs.scene.id}))
  /\ UNCHANGED <<ui, inbox, net, next_request, up>>

\* cancel_portrait_generation
DropPortrait ==
  /\ Queue(Cancel({jobs.portrait.id}))
  /\ jobs' = [jobs EXCEPT !.portrait = NoJob] /\ batch' = NoBatch

CancelImageGeneration ==
  /\ Work /\ DropPortrait
  /\ UNCHANGED <<signed, draft, pics, pulls, im, inbox, net, next_request, up>>

\* Select, New and import_character put another draft in the editor.
SelectDraft ==
  /\ Work /\ DropPortrait /\ draft' = draft + 1 /\ pics' = 0
  /\ UNCHANGED <<signed, pulls, im, inbox, net, next_request, up>>

\* OpenCharactersDialog and CharacterImportPreview call set_draft alone.
OpenCharacters ==
  /\ Work /\ draft' = draft + 1 /\ pics' = 0
  /\ UNCHANGED <<signed, jobs, batch, pulls, im, lines>>

\* start_emotion_batch, and its send_next_emotion.
StartBatch ==
  /\ Work /\ ~jobs.portrait.pending /\ batch = NoBatch /\ pics < Emotions
  /\ batch' = Emotions - pics - 1
  /\ jobs' = [jobs EXCEPT !.portrait = Asked]
  /\ Queue(<<Cmd("portrait", draft)>>)
  /\ UNCHANGED <<signed, draft, pics, pulls, im, inbox, net, next_request, up>>

\* OllamaPull: can_download, queue_download.
Pull(m) ==
  /\ Work /\ pulls[m].state # "active"
  /\ Cardinality({n \in Model : pulls[n].state = "active"}) < MaxDownloads
  /\ pulls' = [pulls EXCEPT ![m] = [NoPull EXCEPT !.state = "active"]]
  /\ Queue(<<Cmd("pull", m)>>)
  /\ UNCHANGED <<signed, jobs, batch, draft, pics, im, inbox, net, next_request, up>>

\* CancelDownload: without an id yet, download_started sends the Cancel.
CancelDownload(m) ==
  /\ Work /\ pulls[m].state = "active" /\ ~pulls[m].cancelling
  /\ pulls' = [pulls EXCEPT ![m].cancelling = TRUE]
  /\ Queue(Cancel({pulls[m].id}))
  /\ UNCHANGED <<signed, jobs, batch, draft, pics, im, inbox, net, next_request, up>>

ClearFinished ==
  /\ Work /\ \E m \in Model : pulls[m].state = "finished"
  /\ pulls' = [m \in Model |-> IF pulls[m].state = "finished" THEN NoPull ELSE pulls[m]]
  /\ UNCHANGED <<signed, jobs, batch, draft, pics, im, lines>>

\* SignOut and SessionExpired: cancel_model_downloads, clear_account; the user
\* signs in again.
ForgetAccount ==
  /\ Work /\ signed' = FALSE
  /\ Queue(Cancel({pulls[m].id : m \in {n \in Model : pulls[n].state = "active"}})
           \o <<Cmd("login", 0)>>)
  /\ pulls' = [m \in Model |-> NoPull]
  /\ jobs' = [jobs EXCEPT !.scene = NoJob, !.portrait = NoJob, !.model = NoJob]
  /\ batch' = NoBatch
  /\ im' = [NoImages EXCEPT !.timer = im.timer, !.wanted = im.wanted]
  /\ UNCHANGED <<draft, pics, inbox, net, next_request, up>>

\* request_message_images: forget what left the chat, ask for what is missing.
RequestImages(s) ==
  [s EXCEPT !.loaded = @ \cap s.wanted, !.gone = @ \cap s.wanted,
            !.marks = s.wanted \ (s.loaded \cup s.gone),
            !.fails = [i \in Img |-> IF i \in s.wanted THEN @[i] ELSE 0]]

Fetches(s) ==
  SetToSeq({Cmd("fetch", i) : i \in s.wanted \ (s.loaded \cup s.gone \cup s.marks)})

\* A ConversationView or a message delta shows the images of a set of messages.
ShowImages(w) ==
  /\ Work
  /\ LET s == [im EXCEPT !.wanted = w]
     IN im' = RequestImages(s) /\ Queue(Fetches(s))
  /\ UNCHANGED <<signed, jobs, batch, draft, pics, pulls, inbox, net, next_request, up>>

\* The markers of the images that wait for a retry are taken off.
Retry(s) ==
  [s EXCEPT !.timer = FALSE, !.marks = @ \ {i \in Img : s.fails[i] > 0}]

\* RetryMessageImages, two to eight seconds after a failure.
RetryTimer ==
  /\ im.timer
  /\ im' = RequestImages(Retry(im)) /\ Queue(Fetches(Retry(im)))
  /\ UNCHANGED <<signed, jobs, batch, draft, pics, pulls, inbox, net, next_request, up,
                 stalled, work, loss>>

-----------------------------------------------------------------------------
(* The network task and the broker.                                        *)

\* A queued command is written; a request's id is announced before the write.
WriteCommand ==
  LET c == Head(queue)
  IN /\ up /\ queue # <<>> /\ queue' = Tail(queue)
     /\ IF c.op = "cancel"
          THEN /\ net' = {IF q.id = c.arg THEN [q EXCEPT !.cancel = TRUE] ELSE q : q \in net}
               /\ UNCHANGED <<next_request, inbox>>
          ELSE /\ next_request' = next_request + 1
             /\ inbox' = Append(inbox, [kind |-> "started", op |-> c.op,
                                          id |-> next_request', arg |-> c.arg])
             /\ net' = net \cup {[op |-> c.op, id |-> next_request', arg |-> c.arg,
                                   cancel |-> FALSE]}
     /\ UNCHANGED <<ui, up, stalled, work, loss>>

\* The write fails: the announced request is lost, and no status is sent.
WriteFails ==
  LET c == Head(queue)
  IN /\ up /\ queue # <<>> /\ queue' = Tail(queue)
     /\ loss < MaxLoss /\ loss' = loss + 1
     /\ IF c.op = "cancel" THEN UNCHANGED <<next_request, inbox>>
        ELSE /\ next_request' = next_request + 1
             /\ inbox' = Append(inbox, [kind |-> "started", op |-> c.op,
                                          id |-> next_request', arg |-> c.arg])
     /\ net' = {} /\ up' = FALSE /\ stalled' = TRUE
     /\ UNCHANGED <<ui, work>>

\* The broker answers, requests in any order; a cancelled one does not succeed.
Answer(q, result) ==
  /\ result = "ok" => ~q.cancel
  /\ result = "retry" => q.op = "fetch"
  /\ net' = net \ {q}
  /\ inbox' = Append(inbox, [kind |-> result, op |-> q.op, id |-> q.id, arg |-> q.arg])
  /\ UNCHANGED <<ui, queue, next_request, up, stalled, work, loss>>

\* The link breaks ("Offline", which is an event the application reacts to) or
\* is closed by the broker ("Idle").
LinkEnds(status) ==
  /\ up /\ loss < MaxLoss /\ loss' = loss + 1
  /\ up' = FALSE /\ net' = {}
  /\ inbox' = Append(inbox, [kind |-> status, op |-> "", id |-> 0, arg |-> 0])
  /\ stalled' = (stalled \/ status = "idle")
  /\ UNCHANGED <<ui, queue, next_request, work>>

\* The next command brings the link back; the resumed session's SyncComplete
\* reloads the open chat.
Redial ==
  /\ ~up /\ queue # <<>> /\ up' = TRUE
  /\ inbox' = Append(inbox, [kind |-> "view", op |-> "", id |-> 0, arg |-> 0])
  /\ UNCHANGED <<ui, queue, net, next_request, stalled, work, loss>>

RedialFails ==
  /\ ~up /\ queue # <<>> /\ loss < MaxLoss /\ loss' = loss + 1
  /\ inbox' = Append(inbox, [kind |-> "offline", op |-> "", id |-> 0, arg |-> 0])
  /\ UNCHANGED <<ui, queue, net, next_request, up, stalled, work>>

-----------------------------------------------------------------------------
(* The application: handle_event and handle_frame, on the first event.     *)

Take(kinds) ==
  /\ inbox # <<>> /\ Head(inbox).kind \in kinds /\ inbox' = Tail(inbox)
  /\ UNCHANGED <<net, next_request, up, stalled, work, loss>>

Unnamed(j) == jobs[j].pending /\ jobs[j].id = 0
Owner(id) == {j \in DOMAIN jobs : jobs[j].pending /\ jobs[j].id = id}

\* download_started: must a Cancel follow?
DownloadStarted(m, id) == pulls[m].state # "active" \/ pulls[m].cancelling

\* The "started" events give a job the id of its request.
Started ==
  LET e == Head(inbox)
      name(j) == [jobs EXCEPT ![j].id = e.id]
  IN /\ Take({"started"})
     /\ jobs' =
          CASE e.op = "scene" /\ Unnamed("scene") -> name("scene")
            [] e.op \in {"portrait", "test"} /\ Unnamed("portrait") -> name("portrait")
            [] e.op \in {"portrait", "test"} /\ ~Unnamed("portrait") /\ Unnamed("test")
                 -> name("test")
            [] e.op = "install" /\ jobs.install.pending -> name("install")
            [] e.op = "model" -> [jobs EXCEPT !.model = [pending |-> TRUE, id |-> e.id]]
            [] OTHER -> jobs
     /\ IF e.op = "pull"
          THEN /\ pulls' = IF pulls[e.arg].state = "active"
                             THEN [pulls EXCEPT ![e.arg].id = e.id] ELSE pulls
               /\ Queue(IF DownloadStarted(e.arg, e.id) THEN Cancel({e.id}) ELSE <<>>)
          ELSE UNCHANGED <<pulls, queue>>
     /\ im' = IF e.op = "fetch" THEN [im EXCEPT !.owner = @ \cup {<<e.id, e.arg>>}] ELSE im
     /\ UNCHANGED <<signed, batch, draft, pics>>

\* An answer to a job.  A finished portrait is added to the draft in the editor
\* and the next emotion asked for, unless the image is unusable or the limit
\* is reached; a failed one ends the batch.
JobAnswered(usable) ==
  LET e == Head(inbox)
      mine == Owner(e.id)
      portrait == "portrait" \in mine
      add == portrait /\ e.kind = "ok" /\ usable /\ pics < MaxPics
      more == add /\ batch # NoBatch /\ batch # 0
  IN /\ Take({"ok", "retry", "error"}) /\ e.op \notin {"fetch", "pull"}
     /\ jobs' = [j \in DOMAIN jobs |->
                   IF j = "portrait" /\ more THEN Asked
                   ELSE IF j \in mine THEN NoJob ELSE jobs[j]]
     /\ batch' = IF more THEN batch - 1 ELSE IF portrait THEN NoBatch ELSE batch
     /\ pics' = IF add THEN pics + 1 ELSE pics
     /\ Queue(IF more THEN <<Cmd("portrait", draft)>> ELSE <<>>)
     /\ signed' = (signed \/ (e.op = "login" /\ e.kind = "ok"))
     /\ UNCHANGED <<draft, pulls, im>>

\* ModelDownloadFinished, or the download's error; a complete one refreshes
\* the list of models.
DownloadAnswered ==
  LET e == Head(inbox)
      mine == {m \in Model : pulls[m].state = "active" /\ pulls[m].id = e.id}
  IN /\ Take({"ok", "retry", "error"}) /\ e.op = "pull"
     /\ pulls' = [m \in Model |-> IF m \in mine THEN [NoPull EXCEPT !.state = "finished"]
                                  ELSE pulls[m]]
     /\ Queue(IF mine # {} /\ e.kind = "ok" THEN <<Cmd("model", 0)>> ELSE <<>>)
     /\ UNCHANGED <<signed, jobs, batch, draft, pics, im>>

\* MessageImage: the bytes are kept if the image is still waited for.
ImageArrived ==
  LET e == Head(inbox)
  IN /\ Take({"ok"}) /\ e.op = "fetch"
     /\ im' = IF e.arg \in im.marks
                THEN [im EXCEPT !.owner = @ \ {<<e.id, e.arg>>}, !.marks = @ \ {e.arg},
                                !.fails[e.arg] = 0, !.loaded = @ \cup {e.arg}]
                ELSE [im EXCEPT !.owner = @ \ {<<e.id, e.arg>>}]
     /\ UNCHANGED <<signed, jobs, batch, draft, pics, pulls, queue>>

\* An image fetch fails.  A temporary failure keeps the marker and starts the
\* timer, or gives up after MaxAttempts; another one marks it unavailable.
ImageFailed ==
  LET e == Head(inbox)
      known == <<e.id, e.arg>> \in im.owner
      flying == e.arg \in im.marks
      n == im.fails[e.arg] + 1
      rest == [im EXCEPT !.owner = @ \ {<<e.id, e.arg>>}, !.marks = @ \ {e.arg}]
  IN /\ Take({"retry", "error"}) /\ e.op = "fetch"
     /\ im' = CASE ~known -> im
                [] known /\ ~flying -> rest
                [] known /\ flying /\ e.kind = "retry" /\ n < MaxAttempts ->
                     [rest EXCEPT !.marks = im.marks, !.fails[e.arg] = n, !.timer = TRUE]
                [] OTHER -> [rest EXCEPT !.fails[e.arg] = IF e.kind = "retry" THEN 0 ELSE @,
                                         !.gone = @ \cup {e.arg}]
     /\ UNCHANGED <<signed, jobs, batch, draft, pics, pulls, queue>>

\* Mutant: the model operations are not ended with the link.
OfflineKeepsModels ==
  jobs' = [j \in DOMAIN jobs |-> IF j \in {"install", "model"} THEN jobs[j] ELSE NoJob]

\* What the "Offline" status ends.
OfflineJobs ==
  jobs' = [j \in DOMAIN jobs |-> IF j = "install" THEN jobs[j] ELSE NoJob]

\* Status: an "Offline" one ends the image jobs and (interrupt_models) the
\* model operations; an "Idle" one is only shown.
StatusShown ==
  /\ Take({"offline", "idle"})
  /\ IF Head(inbox).kind = "idle" THEN UNCHANGED ui
     ELSE /\ OfflineJobs /\ batch' = NoBatch
          /\ im' = [im EXCEPT !.marks = {}, !.owner = {}]
          /\ pulls' = [m \in Model |-> IF pulls[m].state = "active"
                         THEN [pulls[m] EXCEPT !.state = "finished", !.id = 0] ELSE pulls[m]]
          /\ UNCHANGED <<draft, pics, signed>>
  /\ UNCHANGED queue

\* The chat is shown again.
ViewShown ==
  /\ Take({"view"})
  /\ im' = RequestImages(im) /\ Queue(Fetches(im))
  /\ UNCHANGED <<signed, jobs, batch, draft, pics, pulls>>

HandleJobEvent ==
  \/ Started \/ \E b \in BOOLEAN : JobAnswered(b)
  \/ DownloadAnswered \/ ImageArrived \/ ImageFailed \/ StatusShown \/ ViewShown

-----------------------------------------------------------------------------
PortraitWork == StartJob("portrait") \/ CancelImageGeneration \/ SelectDraft
                \/ OpenCharacters \/ StartBatch \/ StartJob("test")
ImageWork == \E w \in SUBSET Img : ShowImages(w)
ModelWork ==
  \/ StartJob("scene") \/ CancelScene \/ StartJob("model") \/ StartJob("install")
  \/ \E m \in Model : Pull(m) \/ CancelDownload(m)
  \/ ClearFinished \/ ForgetAccount

BrokerAnswers == \E q \in net, result \in {"ok", "retry", "error"} : Answer(q, result)
JobLinkLost == WriteFails \/ \E s \in {"offline", "idle"} : LinkEnds(s)
LinkFault == JobLinkLost \/ RedialFails
JobsRun == RetryTimer \/ WriteCommand \/ BrokerAnswers \/ Redial \/ HandleJobEvent

\* The event loop, the timer and the network task run; the broker answers.
JobsFairness ==
  /\ WF_jobVars(RetryTimer) /\ WF_jobVars(WriteCommand) /\ WF_jobVars(BrokerAnswers)
  /\ WF_jobVars(Redial) /\ WF_jobVars(HandleJobEvent)

-----------------------------------------------------------------------------
(* Properties.                                                             *)

Quiet == queue = <<>> /\ inbox = <<>> /\ net = {}

\* Nothing waits for an answer that cannot come: once every command, request
\* and event is dealt with, no image job, model operation or download is shown
\* as running, whichever ids the jobs were given in between (app/events.rs;
\* without the emotion model's installation and links that end silently).  And a
\* download the broker runs can be cancelled: it is listed with its id, or the
\* event that brings the id or a Cancel is on its way, or it was sent one.  (A
\* pull still queued when the link breaks is shown as interrupted; asked for
\* again, it runs twice and one of the two is not listed: loss # 0.)
PendingWorkEnds ==
  /\ Quiet /\ ~stalled =>
       /\ \A j \in DOMAIN jobs \ {"install"} : ~jobs[j].pending
       /\ batch = NoBatch /\ \A m \in Model : pulls[m].state # "active"
  /\ loss = 0 => \A q \in net : q.op = "pull" =>
       \/ pulls[q.arg].state = "active" /\ pulls[q.arg].id = q.id
       \/ \E k \in DOMAIN inbox : inbox[k].kind = "started" /\ inbox[k].id = q.id
       \/ q.cancel \/ Cmd("cancel", q.id) \in Range(queue)
=============================================================================
