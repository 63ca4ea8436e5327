---------------------------- MODULE AutoPipeline ----------------------------
(***************************************************************************)
(* The automatic pipeline: one worker thread drives the singleton pipeline *)
(* row from an accepted job through assets, T2I frames, I2V clips and the  *)
(* final stitch to the next request, while the GUI approves or cancels,    *)
(* ComfyUI runs, loses or fails prompts, and processes die and restart.    *)
(* Each action is one SQLite transaction or one blocking call.  Scenes are *)
(* on the single-graph I2V route, QC and Discord delivery are off.         *)
(***************************************************************************)
EXTENDS Naturals, FiniteSets

CONSTANTS
  Jobs,          \* job ids that may arrive by mail
  Scenes,        \* scene ids of every job, processed in increasing order
  Prompts,       \* ComfyUI prompt ids; an id nobody refers to may recur
  NoJob, NoPrompt,
  MaxAttempts,   \* SupervisorSettings.max_stage_attempts
  MaxFaults,     \* bound on crashes, lost servers and lost replies
  ReviewFirst,   \* --hold-new-jobs-for-review
  AllowRestart   \* FALSE models run_supervisor.py --no-restart

NoScene == 0
Stages == {"t2i", "i2v"}

ASSUME ConstantsAssumption ==
  /\ Scenes \subseteq Nat \ {NoScene} /\ Scenes # {} /\ IsFiniteSet(Scenes)
  /\ NoJob \notin Jobs /\ NoPrompt \notin Prompts
  /\ MaxAttempts \in Nat \ {0} /\ MaxFaults \in Nat
  /\ ReviewFirst \in BOOLEAN /\ AllowRestart \in BOOLEAN

VARIABLES
  pipe,      \* the pipeline_state row: state, owning job, active scene
  status,    \* jobs.status; "absent" before the job is claimed
  scene,     \* the scenes rows
  revision,  \* state of revision 1 of each scene; "absent" before the insert
  files,     \* <<job, scene, stage>> whose deterministic frame or clip exists
  prompts,   \* ComfyUI's queue and history
  comfyUp,   \* whether ComfyUI answers HTTP
  asked,     \* jobs after which the next-job request was mailed
  w,         \* the worker thread
  g,         \* one GUI cancel/interrupt request
  up,        \* whether the supervisor process runs
  faults     \* faults spent so far

rows  == <<pipe, status, scene, revision>>
comfy == <<files, prompts, comfyUp>>
vars  == <<pipe, status, scene, revision, files, prompts, comfyUp, asked, w, g,
           up, faults>>

RenderStates == {"downloading_assets", "running_t2i", "running_i2v", "stitching"}
FreeStates   == {"idle", "waiting_for_grok"}
PipeStates   == RenderStates \cup FreeStates \cup {"awaiting_review", "error"}
Cancellable  == RenderStates \cup {"awaiting_review", "error"}
SceneStates  == {"pending", "running", "succeeded", "failed", "cancelled"}
JobStates    == {"absent", "awaiting_review", "queued", "running", "partial",
                 "succeeded", "failed", "cancelled"}
RunningState == [t \in Stages |-> IF t = "t2i" THEN "running_t2i" ELSE "running_i2v"]

WorkerSteps == {"idle", "start", "revisions", "download", "assets", "assetfail",
  "batch", "scene", "prompt", "lookup", "bind", "check", "wait", "harvest", "commit",
  "mark", "owner", "err", "errset", "collect", "stitching", "stitch", "finish",
  "giveup", "giveupjob", "send", "sent", "fatal", "fatalerror", "restart",
  "recover", "resume", "dead"}

FreshScene == [state |-> "pending", frame |-> FALSE, video |-> FALSE,
               tries |-> [t \in Stages |-> 0], prompt |-> NoPrompt, stage |-> "none"]
NoPipe == [state |-> "idle", job |-> NoJob, scene |-> NoScene]
IdleWorker == [pc |-> "idle", job |-> NoJob, todo |-> {}, failed |-> {},
               stage |-> "t2i", scene |-> NoScene, prompt |-> NoPrompt,
               mark |-> "pending", back |-> "owner", complete |-> FALSE,
               snap |-> NoPipe]
IdleGui == [pc |-> "idle", job |-> NoJob, active |-> FALSE]

PipeRows == [state : PipeStates, job : Jobs \cup {NoJob}, scene : Scenes \cup {NoScene}]
SceneRows == [state : SceneStates, frame : BOOLEAN, video : BOOLEAN,
              tries : [Stages -> 0 .. MaxAttempts], prompt : Prompts \cup {NoPrompt},
              stage : Stages \cup {"none"}]
PromptRecords == [st : {"live", "done", "failed", "gone"}, job : Jobs \cup {NoJob},
                  scene : Scenes \cup {NoScene}, stage : Stages]
WorkerStates == [pc : WorkerSteps, job : Jobs \cup {NoJob}, todo : SUBSET Scenes,
                 failed : SUBSET Scenes, stage : Stages, scene : Scenes \cup {NoScene},
                 prompt : Prompts \cup {NoPrompt}, mark : SceneStates,
                 back : {"owner", "assetfail"}, complete : BOOLEAN, snap : PipeRows]
GuiStates == [pc : {"idle", "abandon", "prompts"}, job : Jobs \cup {NoJob},
              active : BOOLEAN]

TypeOK ==
  /\ pipe \in PipeRows
  /\ status \in [Jobs -> JobStates]
  /\ scene \in [Jobs -> [Scenes -> SceneRows]]
  /\ revision \in [Jobs -> [Scenes -> SceneStates \cup {"absent"}]]
  /\ files \subseteq Jobs \X Scenes \X Stages
  /\ prompts \in [Prompts -> PromptRecords]
  /\ comfyUp \in BOOLEAN /\ asked \subseteq Jobs
  /\ w \in WorkerStates /\ g \in GuiStates
  /\ up \in BOOLEAN /\ faults \in 0 .. MaxFaults

Init ==
  /\ pipe = NoPipe
  /\ status = [j \in Jobs |-> "absent"]
  /\ scene = [j \in Jobs |-> [s \in Scenes |-> FreshScene]]
  /\ revision = [j \in Jobs |-> [s \in Scenes |-> "absent"]]
  /\ files = {}
  /\ prompts = [p \in Prompts |-> [st |-> "gone", job |-> NoJob,
                                   scene |-> NoScene, stage |-> "t2i"]]
  /\ comfyUp = TRUE /\ asked = {}
  /\ w = IdleWorker /\ g = IdleGui /\ up = TRUE /\ faults = 0

-----------------------------------------------------------------------------
\* Ownership checks and helpers

\* _assert_active_automatic_job_connection without and with a scene
Owns(j) == j \in Jobs /\ pipe.job = j /\ status[j] \notin {"absent", "cancelled"}
CanWrite_Unchecked(j, s) == j \in Jobs
CanWrite(j, s) == Owns(j) /\ scene[j][s].state # "cancelled"

HasFile(j, s, t) == <<j, s, t>> \in files
IsNext(s) == s \in w.todo /\ \A r \in w.todo : s <= r
At(step) == up /\ w.pc = step
GoTo(step) == w' = [w EXCEPT !.pc = step]
\* process_job returned, or raised into the worker loop's except Exception
Leave == w' = IdleWorker
\* transition(state, job_id=w.job): moves the pipeline row or raises
Transition(state, step) ==
  IF Owns(w.job)
  THEN pipe' = [state |-> state, job |-> w.job, scene |-> NoScene] /\ GoTo(step)
  ELSE Leave /\ UNCHANGED pipe

Fault == faults < MaxFaults /\ faults' = faults + 1
Live(p) == prompts[p].st = "live"
Cancelled(P) == [p \in Prompts |-> IF p \in P /\ Live(p)
                                   THEN [prompts[p] EXCEPT !.st = "gone"]
                                   ELSE prompts[p]]
Lost == [p \in Prompts |-> [prompts[p] EXCEPT !.st = "gone"]]
\* an id of a prompt that neither ComfyUI, a scene row nor the worker names
FreePrompt(p) == ~Live(p) /\ w.prompt # p
                 /\ \A j \in Jobs, s \in Scenes : scene[j][s].prompt # p

-----------------------------------------------------------------------------
\* Mailbox polling and the next-job request

PollAccept_AnyState(j) ==
  /\ At("idle") /\ status[j] = "absent"
  /\ status' = [status EXCEPT ![j] = IF ReviewFirst THEN "awaiting_review" ELSE "queued"]
  /\ scene' = [scene EXCEPT ![j] = [s \in Scenes |-> FreshScene]]
  /\ pipe' = [state |-> IF ReviewFirst THEN "awaiting_review" ELSE "downloading_assets",
              job |-> j, scene |-> NoScene]
  /\ UNCHANGED <<revision, comfy, asked, w, g, up, faults>>

PollAccept(j) ==
  /\ At("idle") /\ pipe.state \in FreeStates /\ status[j] = "absent"
  /\ status' = [status EXCEPT ![j] = IF ReviewFirst THEN "awaiting_review" ELSE "queued"]
  /\ scene' = [scene EXCEPT ![j] = [s \in Scenes |-> FreshScene]]
  /\ pipe' = [state |-> IF ReviewFirst THEN "awaiting_review" ELSE "downloading_assets",
              job |-> j, scene |-> NoScene]
  /\ UNCHANGED <<revision, comfy, asked, w, g, up, faults>>

PollNothing ==
  /\ At("idle") /\ pipe.state = "idle"
  /\ w' = [IdleWorker EXCEPT !.pc = "send"]
  /\ UNCHANGED <<rows, comfy, asked, g, up, faults>>

SendRequest ==
  /\ At("send")
  /\ asked' = asked \cup ({w.job} \ {NoJob})
  /\ GoTo("sent")
  /\ UNCHANGED <<rows, comfy, g, up, faults>>

SendFails ==
  /\ At("send") /\ Leave
  /\ UNCHANGED <<rows, comfy, asked, g, up, faults>>

RequestSent ==
  /\ At("sent") /\ Leave
  /\ IF w.job = NoJob
     THEN pipe' = [pipe EXCEPT !.state = "waiting_for_grok", !.scene = NoScene]
     ELSE IF Owns(w.job)
     THEN pipe' = [state |-> "waiting_for_grok", job |-> w.job, scene |-> NoScene]
     ELSE UNCHANGED pipe
  /\ UNCHANGED <<status, scene, revision, comfy, asked, g, up, faults>>

-----------------------------------------------------------------------------
\* process_job up to the render batches

TickProcess ==
  /\ At("idle") /\ pipe.state \in RenderStates /\ pipe.job # NoJob
  /\ w' = [IdleWorker EXCEPT !.pc = "start", !.job = pipe.job]
  /\ UNCHANGED <<rows, comfy, asked, g, up, faults>>

TickNoJob ==
  /\ At("idle") /\ pipe.state \in RenderStates \cup {"error"} /\ pipe.job = NoJob
  /\ w' = [IdleWorker EXCEPT !.pc = "fatal"]
  /\ UNCHANGED <<rows, comfy, asked, g, up, faults>>

StartJob ==
  /\ At("start")
  /\ IF Owns(w.job)
     THEN status' = [status EXCEPT ![w.job] = "running"] /\ GoTo("revisions")
     ELSE Leave /\ UNCHANGED status
  /\ UNCHANGED <<pipe, scene, revision, comfy, asked, g, up, faults>>

EnsureRevisions ==
  /\ At("revisions") /\ GoTo("download")
  /\ revision' = [revision EXCEPT ![w.job] = [s \in Scenes |->
       IF @[s] = "absent" THEN scene[w.job][s].state ELSE @[s]]]
  /\ UNCHANGED <<pipe, status, scene, comfy, asked, g, up, faults>>

BeginAssets ==
  /\ At("download") /\ Transition("downloading_assets", "assets")
  /\ UNCHANGED <<status, scene, revision, comfy, asked, g, up, faults>>

\* a LoRA of the character fails every scene, one of a scene only that scene
AssetFailures == SUBSET Scenes
\* the blocking resolution, then the snapshot read that follows it
ResolveAssets ==
  /\ At("assets")
  /\ \E F \in AssetFailures :
       IF pipe.job = w.job
       THEN w' = [w EXCEPT !.pc = "assetfail", !.todo = F, !.failed = F]
       ELSE Leave
  /\ UNCHANGED <<rows, comfy, asked, g, up, faults>>

\* set_scene_state; the revision update that follows is MarkRevision
FailAssets(s) ==
  /\ At("assetfail") /\ IsNext(s)
  /\ IF CanWrite(w.job, s)
     THEN /\ scene' = [scene EXCEPT ![w.job][s].state = "failed"]
          /\ w' = [w EXCEPT !.pc = "mark", !.todo = w.todo \ {s}, !.scene = s,
                            !.mark = "failed", !.back = "assetfail"]
     ELSE Leave /\ UNCHANGED scene
  /\ UNCHANGED <<pipe, status, revision, comfy, asked, g, up, faults>>

AssetsDone ==
  /\ At("assetfail") /\ w.todo = {}
  /\ w' = [IdleWorker EXCEPT !.pc = IF w.failed = Scenes THEN "giveup" ELSE "batch",
                             !.job = w.job]
  /\ UNCHANGED <<rows, comfy, asked, g, up, faults>>

\* the pipeline enters error in one transaction, the job fails in the next
GiveUp ==
  /\ At("giveup") /\ Transition("error", "giveupjob")
  /\ UNCHANGED <<status, scene, revision, comfy, asked, g, up, faults>>

GiveUpJob ==
  /\ At("giveupjob") /\ Leave
  /\ status' = IF Owns(w.job) THEN [status EXCEPT ![w.job] = "failed"] ELSE status
  /\ UNCHANGED <<pipe, scene, revision, comfy, asked, g, up, faults>>

-----------------------------------------------------------------------------
\* One render batch over the scenes as read when it opens

OpenBatch_TakesFailed ==
  /\ At("batch")
  /\ w' = [w EXCEPT !.pc = "scene", !.todo =
       {s \in Scenes : scene[w.job][s].state # "cancelled"
                         /\ ~(scene[w.job][s].state = "succeeded" /\ HasFile(w.job, s, "i2v"))}]
  /\ UNCHANGED <<rows, comfy, asked, g, up, faults>>

OpenBatch ==
  /\ At("batch")
  /\ w' = [w EXCEPT !.pc = "scene", !.todo =
       {s \in Scenes : LET r == scene[w.job][s] IN
          /\ r.state \notin {"failed", "cancelled"}
          /\ ~(r.state = "succeeded" /\ r.video /\ HasFile(w.job, s, "i2v"))}]
  /\ UNCHANGED <<rows, comfy, asked, g, up, faults>>

BatchDone ==
  /\ At("scene") /\ w.todo = {}
  /\ w' = IF w.stage = "t2i" THEN [w EXCEPT !.stage = "i2v", !.pc = "batch"]
          ELSE [w EXCEPT !.pc = "collect"]
  /\ UNCHANGED <<rows, comfy, asked, g, up, faults>>

Recorded(r, t) == IF t = "t2i" THEN r.frame ELSE r.video
\* the scene row a finished stage leaves behind
\* (the frame of a clip was recorded by its T2I stage)
Finished(r, t) == IF t = "t2i" THEN [r EXCEPT !.state = "pending", !.frame = TRUE]
                  ELSE [r EXCEPT !.state = "succeeded", !.video = TRUE]
Outcome(t) == IF t = "t2i" THEN "pending" ELSE "succeeded"

\* a recorded frame only refreshes revision 1
ReuseFrame(s) ==
  /\ At("scene") /\ IsNext(s) /\ w.stage = "t2i"
  /\ scene[w.job][s].frame /\ HasFile(w.job, s, "t2i")
  /\ w' = [w EXCEPT !.pc = "mark", !.scene = s, !.mark = "pending", !.back = "owner"]
  /\ UNCHANGED <<rows, comfy, asked, g, up, faults>>

\* a frame or clip found on disk is adopted without rendering; a recorded clip too
AdoptFile(s) ==
  /\ At("scene") /\ IsNext(s) /\ HasFile(w.job, s, w.stage)
  /\ w.stage = "t2i" => ~scene[w.job][s].frame
  /\ IF CanWrite(w.job, s)
     THEN /\ scene' = [scene EXCEPT ![w.job][s] = Finished(@, w.stage)]
          /\ w' = [w EXCEPT !.pc = "mark", !.scene = s, !.mark = Outcome(w.stage),
                            !.back = "owner"]
     ELSE Leave /\ UNCHANGED scene
  /\ UNCHANGED <<pipe, status, revision, comfy, asked, g, up, faults>>

MustRender_ByState(s) == At("scene") /\ IsNext(s) /\ scene[w.job][s].state # "succeeded"
MustRender(s) == At("scene") /\ IsNext(s) /\ ~HasFile(w.job, s, w.stage)
Resumes(r, t) == r.prompt # NoPrompt /\ r.stage = t /\ r.tries[t] > 0

AttemptsSpent(s) ==
  /\ MustRender(s)
  /\ ~Resumes(scene[w.job][s], w.stage)
  /\ scene[w.job][s].tries[w.stage] >= MaxAttempts
  /\ w' = [w EXCEPT !.pc = "err", !.scene = s]
  /\ UNCHANGED <<rows, comfy, asked, g, up, faults>>

BegunScene_SpendsOnResume(r, t) ==
  [r EXCEPT !.state = "running", !.tries[t] = @ + 1, !.stage = t,
            !.prompt = IF Resumes(r, t) THEN @ ELSE NoPrompt]
BegunScene_KeepsPrompt(r, t) ==
  [r EXCEPT !.state = "running", !.tries[t] = IF Resumes(r, t) THEN @ ELSE @ + 1,
            !.stage = t]

\* begin_scene_stage: a resumed stage keeps its prompt and its attempt number
BegunScene(r, t) ==
  IF Resumes(r, t) THEN [r EXCEPT !.state = "running"]
  ELSE [r EXCEPT !.state = "running", !.tries[t] = @ + 1, !.prompt = NoPrompt,
                 !.stage = t]

BeginStage(s) ==
  /\ MustRender(s)
  /\ LET r == scene[w.job][s] IN
     /\ Resumes(r, w.stage) \/ r.tries[w.stage] < MaxAttempts
     /\ IF CanWrite(w.job, s)
        THEN /\ scene' = [scene EXCEPT ![w.job][s] = BegunScene(@, w.stage)]
             /\ pipe' = [state |-> RunningState[w.stage], job |-> w.job, scene |-> s]
             /\ w' = [w EXCEPT !.pc = "prompt", !.scene = s,
                        !.prompt = BegunScene(r, w.stage).prompt]
        ELSE Leave /\ UNCHANGED <<scene, pipe>>
  /\ UNCHANGED <<status, revision, comfy, asked, g, up, faults>>

-----------------------------------------------------------------------------
\* run_or_reclaim_prompt

\* a persisted prompt is looked for in the history, then in the queue; one that
\* finishes between the two reads counts as absent and is queued again
LookupHistory ==
  /\ At("prompt") /\ comfyUp /\ w.prompt # NoPrompt
  /\ GoTo(IF prompts[w.prompt].st \in {"done", "failed"} THEN "wait" ELSE "lookup")
  /\ UNCHANGED <<rows, comfy, asked, g, up, faults>>

LookupQueue ==
  /\ At("lookup") /\ comfyUp
  /\ w' = IF Live(w.prompt) THEN [w EXCEPT !.pc = "wait"]
          ELSE [w EXCEPT !.pc = "prompt", !.prompt = NoPrompt]
  /\ UNCHANGED <<rows, comfy, asked, g, up, faults>>

MustQueue == w.prompt = NoPrompt
Enqueued(p) == [prompts EXCEPT ![p] = [st |-> "live", job |-> w.job,
                                       scene |-> w.scene, stage |-> w.stage]]

QueuePrompt(p) ==
  /\ At("prompt") /\ comfyUp /\ MustQueue /\ FreePrompt(p)
  /\ prompts' = Enqueued(p)
  /\ w' = [w EXCEPT !.pc = "bind", !.prompt = p]
  /\ UNCHANGED <<rows, files, comfyUp, asked, g, up, faults>>

QueueRejected ==
  /\ At("prompt") /\ comfyUp /\ MustQueue
  /\ w' = [w EXCEPT !.pc = "err", !.prompt = NoPrompt]
  /\ UNCHANGED <<rows, comfy, asked, g, up, faults>>

\* ComfyUI accepted the prompt, the reply was lost: nobody learns its id
QueueAmbiguous(p) ==
  /\ At("prompt") /\ comfyUp /\ MustQueue /\ FreePrompt(p) /\ Fault
  /\ prompts' = Enqueued(p)
  /\ w' = [w EXCEPT !.pc = "err", !.prompt = NoPrompt]
  /\ UNCHANGED <<rows, files, comfyUp, asked, g, up>>

BindPrompt_LeavesPrompt ==
  /\ At("bind")
  /\ IF CanWrite(w.job, w.scene)
     THEN /\ scene' = [scene EXCEPT ![w.job][w.scene] =
                          [@ EXCEPT !.prompt = w.prompt, !.stage = w.stage]]
          /\ GoTo("check")
     ELSE Leave /\ UNCHANGED scene
  /\ UNCHANGED <<pipe, status, revision, comfy, asked, g, up, faults>>

\* set_scene_prompt_id; on refusal the prompt is cancelled and the error escapes
BindPrompt ==
  /\ At("bind")
  /\ IF CanWrite(w.job, w.scene)
     THEN /\ scene' = [scene EXCEPT ![w.job][w.scene] =
                          [@ EXCEPT !.prompt = w.prompt, !.stage = w.stage]]
          /\ GoTo("check") /\ UNCHANGED prompts
     ELSE /\ prompts' = IF comfyUp THEN Cancelled({w.prompt}) ELSE prompts
          /\ Leave /\ UNCHANGED scene
  /\ UNCHANGED <<pipe, status, revision, files, comfyUp, asked, g, up, faults>>

\* active_check: a cancel that slipped in after the bind takes the prompt down
CheckOwner ==
  /\ At("check")
  /\ IF CanWrite(w.job, w.scene) THEN GoTo("wait") /\ UNCHANGED prompts
     ELSE /\ prompts' = IF comfyUp THEN Cancelled({w.prompt}) ELSE prompts
          /\ GoTo("err")
  /\ UNCHANGED <<rows, files, comfyUp, asked, g, up, faults>>

PromptSucceeded ==
  /\ At("wait") /\ comfyUp /\ prompts[w.prompt].st = "done"
  /\ w' = [w EXCEPT !.pc = IF w.stage = "t2i" THEN "commit" ELSE "harvest"]
  /\ UNCHANGED <<rows, comfy, asked, g, up, faults>>

PromptFailed ==
  /\ At("wait") /\ comfyUp /\ prompts[w.prompt].st = "failed"
  /\ GoTo("err")
  /\ UNCHANGED <<rows, comfy, asked, g, up, faults>>

PromptTimeout_NoCancel ==
  /\ At("wait") /\ comfyUp /\ prompts[w.prompt].st \in {"live", "gone"}
  /\ GoTo("err")
  /\ UNCHANGED <<rows, comfy, asked, g, up, faults>>

\* the deadline passed: wait_for_prompt cancels its own prompt and raises
PromptTimeout ==
  /\ At("wait") /\ comfyUp /\ prompts[w.prompt].st \in {"live", "gone"}
  /\ prompts' = Cancelled({w.prompt}) /\ GoTo("err")
  /\ UNCHANGED <<rows, files, comfyUp, asked, g, up, faults>>

\* one history poll fails although ComfyUI is alive and the prompt still runs
PollHiccup ==
  /\ At("wait") /\ comfyUp /\ Fault /\ GoTo("err")
  /\ UNCHANGED <<rows, comfy, asked, g, up>>

ComfyUnreachable ==
  /\ w.pc \in {"prompt", "lookup", "wait", "harvest"} /\ up /\ ~comfyUp /\ GoTo("err")
  /\ UNCHANGED <<rows, comfy, asked, g, up, faults>>

HarvestClip_NoDownload ==
  /\ At("harvest") /\ comfyUp /\ GoTo("commit")
  /\ UNCHANGED <<rows, comfy, asked, g, up, faults>>

\* download_output writes the clip whether or not the job is still owned
HarvestClip ==
  /\ At("harvest") /\ comfyUp
  /\ files' = files \cup {<<w.job, w.scene, "i2v">>} /\ GoTo("commit")
  /\ UNCHANGED <<rows, prompts, comfyUp, asked, g, up, faults>>

HarvestFails ==
  /\ At("harvest") /\ comfyUp /\ GoTo("err")
  /\ UNCHANGED <<rows, comfy, asked, g, up, faults>>

-----------------------------------------------------------------------------
\* The end of a stage, of a scene and of a job

CommitStage ==
  /\ At("commit")
  /\ IF CanWrite(w.job, w.scene)
     THEN /\ scene' = [scene EXCEPT ![w.job][w.scene] = Finished(@, w.stage)]
          /\ w' = [w EXCEPT !.pc = "mark", !.mark = Outcome(w.stage), !.back = "owner",
                            !.prompt = NoPrompt]
     ELSE Leave /\ UNCHANGED scene
  /\ UNCHANGED <<pipe, status, revision, comfy, asked, g, up, faults>>

\* _update_original_revision, a transaction of its own after set_scene_state
MarkRevision ==
  /\ At("mark")
  /\ IF CanWrite(w.job, w.scene) /\ revision[w.job][w.scene] # "cancelled"
     THEN revision' = [revision EXCEPT ![w.job][w.scene] = w.mark] /\ GoTo(w.back)
     ELSE Leave /\ UNCHANGED revision
  /\ UNCHANGED <<pipe, status, scene, comfy, asked, g, up, faults>>

\* the batch goes on only while its job owns the pipeline
CheckBatchOwner ==
  /\ At("owner")
  /\ IF pipe.job = w.job
     THEN w' = [IdleWorker EXCEPT !.pc = "scene", !.job = w.job, !.stage = w.stage,
                                  !.todo = w.todo \ {w.scene}]
     ELSE Leave
  /\ UNCHANGED <<rows, comfy, asked, g, up, faults>>

\* except ComfyHttpError: a dead server is fatal, a lost owner just stops
StageError ==
  /\ At("err")
  /\ IF ~comfyUp THEN GoTo("fatal") /\ UNCHANGED scene
     ELSE IF CanWrite(w.job, w.scene)
     THEN /\ scene' = [scene EXCEPT ![w.job][w.scene].prompt = NoPrompt]
          /\ w' = [w EXCEPT !.pc = "errset", !.prompt = NoPrompt]
     ELSE GoTo("owner") /\ UNCHANGED scene
  /\ UNCHANGED <<pipe, status, revision, comfy, asked, g, up, faults>>

RetryStage_Unbounded ==
  /\ At("errset")
  /\ IF CanWrite(w.job, w.scene)
     THEN scene' = [scene EXCEPT ![w.job][w.scene].state = "pending"] /\ GoTo("scene")
     ELSE Leave /\ UNCHANGED scene
  /\ UNCHANGED <<pipe, status, revision, comfy, asked, g, up, faults>>

RetryStage ==
  /\ At("errset")
  /\ IF ~CanWrite(w.job, w.scene) THEN Leave /\ UNCHANGED scene
     ELSE IF scene[w.job][w.scene].tries[w.stage] < MaxAttempts
     THEN /\ scene' = [scene EXCEPT ![w.job][w.scene].state = "pending"]
          /\ GoTo("scene")
     ELSE /\ scene' = [scene EXCEPT ![w.job][w.scene].state = "failed"]
          /\ w' = [w EXCEPT !.pc = "mark", !.mark = "failed", !.back = "owner"]
  /\ UNCHANGED <<pipe, status, revision, comfy, asked, g, up, faults>>

\* except Exception: a graph that cannot be built, a reply cut short or a disk
\* error fails the scene at once and leaves its prompt id in the row
StageBreaks ==
  /\ w.pc \in {"prompt", "harvest"} /\ up
  /\ IF CanWrite(w.job, w.scene)
     THEN /\ scene' = [scene EXCEPT ![w.job][w.scene].state = "failed"]
          /\ w' = [w EXCEPT !.pc = "mark", !.mark = "failed", !.back = "owner"]
     ELSE Leave /\ UNCHANGED scene
  /\ UNCHANGED <<pipe, status, revision, comfy, asked, g, up, faults>>

Succeeded(j) == {s \in Scenes : scene[j][s].state = "succeeded" /\ scene[j][s].video}

CollectScenes_AnyIsComplete ==
  /\ At("collect")
  /\ w' = [w EXCEPT !.pc = IF Succeeded(w.job) = {} THEN "giveup" ELSE "stitching",
                    !.complete = TRUE]
  /\ UNCHANGED <<rows, comfy, asked, g, up, faults>>

CollectScenes ==
  /\ At("collect")
  /\ w' = [w EXCEPT !.pc = IF Succeeded(w.job) = {} THEN "giveup" ELSE "stitching",
                    !.complete = (Succeeded(w.job) = Scenes)]
  /\ UNCHANGED <<rows, comfy, asked, g, up, faults>>

BeginStitch ==
  /\ At("stitching") /\ Transition("stitching", "stitch")
  /\ UNCHANGED <<status, scene, revision, comfy, asked, g, up, faults>>

Stitch_RequestsFirst ==
  /\ At("stitch") /\ GoTo("send")
  /\ UNCHANGED <<rows, comfy, asked, g, up, faults>>

Stitch ==
  /\ At("stitch") /\ GoTo("finish")
  /\ UNCHANGED <<rows, comfy, asked, g, up, faults>>

StitchFails ==
  /\ At("stitch") /\ GoTo("giveup")
  /\ UNCHANGED <<rows, comfy, asked, g, up, faults>>

FinishJob ==
  /\ At("finish")
  /\ IF Owns(w.job)
     THEN /\ status' = [status EXCEPT ![w.job] =
                          IF w.complete THEN "succeeded" ELSE "partial"]
          /\ GoTo("send")
     ELSE Leave /\ UNCHANGED status
  /\ UNCHANGED <<pipe, scene, revision, comfy, asked, g, up, faults>>

-----------------------------------------------------------------------------
\* handle_fatal: it runs inside the worker loop's except clause, so that an
\* exception raised here ends the thread

FatalSnapshot ==
  /\ At("fatal") /\ w' = [IdleWorker EXCEPT !.pc = "fatalerror", !.snap = pipe]
  /\ UNCHANGED <<rows, comfy, asked, g, up, faults>>

Recovering(step) ==
  w' = [IdleWorker EXCEPT !.pc = step, !.snap = IF step = "restart" THEN w.snap ELSE NoPipe]
FatalTransition(state, sc, step) ==
  IF w.snap.job = NoJob
  THEN pipe' = [pipe EXCEPT !.state = state, !.scene = sc] /\ Recovering(step)
  ELSE IF Owns(w.snap.job) /\ (sc # NoScene => CanWrite(w.snap.job, sc))
  THEN pipe' = [state |-> state, job |-> w.snap.job, scene |-> sc] /\ Recovering(step)
  ELSE Recovering("dead") /\ UNCHANGED pipe

FatalError ==
  /\ At("fatalerror") /\ FatalTransition("error", w.snap.scene, "restart")
  /\ UNCHANGED <<status, scene, revision, comfy, asked, g, up, faults>>

\* restart_comfyui.ps1 stops ComfyUI, losing queue and history, and starts it
RestartSucceeds ==
  /\ At("restart") /\ AllowRestart
  /\ comfyUp' = TRUE /\ prompts' = Lost /\ GoTo("recover")
  /\ UNCHANGED <<rows, files, asked, g, up, faults>>

\* no restart configured, or one that left ComfyUI down
RestartFails ==
  /\ At("restart") /\ Leave
  /\ IF AllowRestart THEN comfyUp' = FALSE /\ prompts' = Lost
     ELSE UNCHANGED <<comfyUp, prompts>>
  /\ UNCHANGED <<rows, files, asked, g, up, faults>>

\* requeue_unfinished_scenes has no ownership check
RequeueUnfinished ==
  /\ At("recover") /\ w.snap.job # NoJob /\ w.snap.state \in RenderStates
  /\ scene' = [scene EXCEPT ![w.snap.job] = [s \in Scenes |->
       IF @[s].state = "succeeded" THEN @[s] ELSE [@[s] EXCEPT !.state = "pending"]]]
  /\ GoTo("resume")
  /\ UNCHANGED <<pipe, status, revision, comfy, asked, g, up, faults>>

ResumeRender ==
  /\ At("resume") /\ FatalTransition("downloading_assets", NoScene, "idle")
  /\ UNCHANGED <<status, scene, revision, comfy, asked, g, up, faults>>

RestoreState ==
  /\ At("recover") /\ w.snap.state \in FreeStates \cup {"awaiting_review"}
  /\ FatalTransition(w.snap.state, NoScene, "idle")
  /\ UNCHANGED <<status, scene, revision, comfy, asked, g, up, faults>>

StayInError ==
  /\ At("recover") /\ Leave
  /\ w.snap.state = "error" \/ (w.snap.state \in RenderStates /\ w.snap.job = NoJob)
  /\ UNCHANGED <<rows, comfy, asked, g, up, faults>>

-----------------------------------------------------------------------------
\* The GUI

ApproveJob ==
  /\ up /\ pipe.state = "awaiting_review" /\ pipe.job # NoJob
  /\ status' = [status EXCEPT ![pipe.job] = "queued"]
  /\ pipe' = [pipe EXCEPT !.state = "downloading_assets", !.scene = NoScene]
  /\ UNCHANGED <<scene, revision, comfy, asked, w, g, up, faults>>

\* cancel_current_project and interrupt_current_job begin with a snapshot
GuiCancel ==
  /\ up /\ g.pc = "idle" /\ pipe.state \in Cancellable /\ pipe.job # NoJob
  /\ g' = [pc |-> "abandon", job |-> pipe.job, active |-> pipe.state \in RenderStates]
  /\ UNCHANGED <<rows, comfy, asked, w, up, faults>>

Abandon_KeepsOwner(j) ==
  /\ scene' = [scene EXCEPT ![j] = [s \in Scenes |->
       IF @[s].state = "succeeded" THEN @[s]
       ELSE [@[s] EXCEPT !.state = "cancelled", !.prompt = NoPrompt, !.stage = "none"]]]
  /\ pipe' = [pipe EXCEPT !.state = "idle"]
  /\ status' = [status EXCEPT ![j] = "cancelled"]

\* abandon_job of the pipeline's own job
Abandon(j) ==
  /\ scene' = [scene EXCEPT ![j] = [s \in Scenes |->
       IF @[s].state = "succeeded" THEN @[s]
       ELSE [@[s] EXCEPT !.state = "cancelled", !.prompt = NoPrompt, !.stage = "none"]]]
  /\ pipe' = NoPipe
  /\ status' = [status EXCEPT ![j] = "cancelled"]

GuiAbandon ==
  /\ up /\ g.pc = "abandon"
  /\ IF pipe.job = g.job
     THEN Abandon(g.job) /\ g' = IF g.active THEN [g EXCEPT !.pc = "prompts"] ELSE IdleGui
     ELSE g' = IdleGui /\ UNCHANGED <<scene, pipe, status>>
  /\ UNCHANGED <<revision, comfy, asked, w, up, faults>>

\* cancel_project_prompts: a dead server turns this into an HTTP error
GuiCancelPrompts ==
  /\ up /\ g.pc = "prompts" /\ g' = IdleGui
  /\ prompts' = IF comfyUp THEN Cancelled(Prompts) ELSE prompts
  /\ UNCHANGED <<rows, files, comfyUp, asked, w, up, faults>>

-----------------------------------------------------------------------------
\* ComfyUI

\* the T2I graph itself writes the deterministic frame into project storage
PromptCompletes(p) ==
  /\ comfyUp /\ Live(p)
  /\ prompts' = [prompts EXCEPT ![p].st = "done"]
  /\ files' = IF prompts[p].stage = "t2i"
              THEN files \cup {<<prompts[p].job, prompts[p].scene, "t2i">>} ELSE files
  /\ UNCHANGED <<rows, comfyUp, asked, w, g, up, faults>>

PromptErrors(p) ==
  /\ comfyUp /\ Live(p)
  /\ prompts' = [prompts EXCEPT ![p].st = "failed"]
  /\ UNCHANGED <<rows, files, comfyUp, asked, w, g, up, faults>>

\* queue and history live in ComfyUI's memory
ComfyCrash ==
  /\ comfyUp /\ Fault
  /\ comfyUp' = FALSE
  /\ prompts' = Lost
  /\ UNCHANGED <<rows, files, asked, w, g, up>>

\* somebody starts ComfyUI again
ComfyReturns ==
  /\ ~comfyUp /\ comfyUp' = TRUE
  /\ UNCHANGED <<rows, files, prompts, asked, w, g, up, faults>>

-----------------------------------------------------------------------------
\* Process crash, and the launchers

Crash ==
  /\ up /\ Fault
  /\ up' = FALSE /\ w' = IdleWorker /\ g' = IdleGui
  /\ UNCHANGED <<rows, comfy, asked>>

\* run_gui.py, and a one-click start with nothing to offer
Launch ==
  /\ ~up /\ up' = TRUE /\ comfyUp' = TRUE
  /\ UNCHANGED <<rows, files, prompts, asked, w, g, faults>>

Unfinished(j) == {s \in Scenes : scene[j][s].state # "succeeded"}
\* offer_saved_job_retry: the one-click launcher finds a saved job
SavedJob(j) ==
  /\ ~up /\ pipe.job = j /\ pipe.state # "idle"
  /\ ~(Unfinished(j) = {} /\ pipe.state = "waiting_for_grok")

\* a prompt survives retry_job only if the stop interrupted that very prompt
Interrupted(r, s) ==
  /\ r.state = "running" /\ r.prompt # NoPrompt /\ r.stage \in Stages
  /\ pipe.scene = s /\ pipe.state \in {RunningState[r.stage], "error"}
Renewed(r) ==
  LET stage == IF r.frame THEN r.stage ELSE "t2i" IN
  [r EXCEPT !.prompt = NoPrompt, !.stage = stage,
            !.tries = [t \in Stages |-> IF ~r.frame \/ t = stage THEN 0 ELSE @[t]]]
Retried(r, s) ==
  IF r.state = "succeeded" THEN r
  ELSE [(IF Interrupted(r, s) THEN r ELSE Renewed(r)) EXCEPT !.state = "pending"]

\* retry_job
LaunchRetry(j) ==
  /\ SavedJob(j) /\ Unfinished(j) # {}
  /\ scene' = [scene EXCEPT ![j] = [s \in Scenes |-> Retried(@[s], s)]]
  /\ status' = [status EXCEPT ![j] = "queued"]
  /\ pipe' = [state |-> "downloading_assets", job |-> j, scene |-> NoScene]
  /\ up' = TRUE /\ comfyUp' = TRUE
  /\ UNCHANGED <<revision, files, prompts, asked, w, g, faults>>

LaunchFinish(j) ==
  /\ SavedJob(j) /\ Unfinished(j) = {} /\ Owns(j)
  /\ pipe' = [state |-> "downloading_assets", job |-> j, scene |-> NoScene]
  /\ up' = TRUE /\ comfyUp' = TRUE
  /\ UNCHANGED <<status, scene, revision, files, prompts, asked, w, g, faults>>

\* declining: ComfyUI is asked first, then abandon_job
LaunchAbandon(j) ==
  /\ SavedJob(j) /\ Abandon(j)
  /\ prompts' = Cancelled(Prompts)
  /\ up' = TRUE /\ comfyUp' = TRUE
  /\ UNCHANGED <<revision, files, asked, w, g, faults>>

-----------------------------------------------------------------------------
Tick ==
  \/ \E j \in Jobs : PollAccept(j)
  \/ PollNothing \/ SendRequest \/ SendFails \/ RequestSent
  \/ TickProcess \/ TickNoJob \/ StartJob \/ EnsureRevisions
  \/ BeginAssets \/ ResolveAssets \/ AssetsDone \/ GiveUp \/ GiveUpJob
  \/ \E s \in Scenes : FailAssets(s)

Render ==
  \/ OpenBatch \/ BatchDone
  \/ \E s \in Scenes : ReuseFrame(s) \/ AdoptFile(s) \/ AttemptsSpent(s) \/ BeginStage(s)
  \/ LookupHistory \/ LookupQueue \/ QueueRejected
  \/ \E p \in Prompts : QueuePrompt(p) \/ QueueAmbiguous(p)
  \/ BindPrompt \/ CheckOwner \/ PromptSucceeded \/ PromptFailed \/ PromptTimeout
  \/ PollHiccup \/ ComfyUnreachable \/ HarvestClip \/ HarvestFails
  \/ CommitStage \/ MarkRevision \/ CheckBatchOwner \/ StageError \/ RetryStage
  \/ StageBreaks
  \/ CollectScenes \/ BeginStitch \/ Stitch \/ StitchFails \/ FinishJob

Recovery ==
  \/ FatalSnapshot \/ FatalError \/ RestartSucceeds \/ RestartFails
  \/ RequeueUnfinished \/ ResumeRender \/ RestoreState \/ StayInError

Worker == Tick \/ Render \/ Recovery
Gui == ApproveJob \/ GuiCancel \/ GuiAbandon \/ GuiCancelPrompts
ComfyUI == ComfyCrash \/ ComfyReturns \/ \E p \in Prompts : PromptCompletes(p) \/ PromptErrors(p)
Process ==
  \/ Crash \/ Launch
  \/ \E j \in Jobs : LaunchRetry(j) \/ LaunchFinish(j) \/ LaunchAbandon(j)

Next == Worker \/ Gui \/ ComfyUI \/ Process

Spec == Init /\ [][Next]_vars

\* The worker thread keeps being scheduled, each blocking call of it has a
\* deadline, and the mail server does not refuse every request for ever.
Fairness ==
  /\ WF_vars(Worker) /\ SF_vars(SendRequest)
FairSpec == Spec /\ Fairness

-----------------------------------------------------------------------------
\* Properties

\* The job that owns the pipeline row was accepted and is not cancelled: the
\* guard that late work is checked against never points at a dead job.
OwnerNotCancelled ==
  pipe.job # NoJob => status[pipe.job] \notin {"absent", "cancelled"}

\* No accepted job is lost: a job whose status still promises work is the one
\* the pipeline row names, through cancels, crashes, retries and recoveries.
NoJobLost ==
  \A j \in Jobs : status[j] \in {"awaiting_review", "queued", "running", "failed"}
                    => pipe.job = j

\* A succeeded scene has its clip on disk, and a recorded frame exists.
SucceededHasClip ==
  \A j \in Jobs, s \in Scenes :
    /\ scene[j][s].state = "succeeded" => scene[j][s].video
    /\ scene[j][s].video => HasFile(j, s, "i2v")
    /\ scene[j][s].frame => HasFile(j, s, "t2i")

\* The I2V batch never meets a scene without its T2I frame, whatever failed,
\* was requeued or retried before: "I2V requires a cached T2I frame" is not raised.
FrameBeforeClip ==
  (At("scene") /\ w.stage = "i2v") => \A s \in w.todo : HasFile(w.job, s, "t2i")

\* The job outcome agrees with its scenes although the scene list is read long
\* before the status is written: "succeeded" only if every scene succeeded,
\* "partial" only if some did and some did not.
OutcomeMatchesScenes ==
  \A j \in Jobs :
    /\ status[j] = "succeeded" => Unfinished(j) = {}
    /\ status[j] = "partial" => Unfinished(j) \notin {{}, Scenes}

\* A persisted prompt id is that of the very scene and stage it is stored for,
\* so that a restart never reclaims another scene's or stage's render.
PromptMatchesScene ==
  \A j \in Jobs, s \in Scenes :
    LET r == scene[j][s] IN r.prompt # NoPrompt =>
      LET p == prompts[r.prompt] IN p.job = j /\ p.scene = s /\ p.stage = r.stage

\* The rows, the files and the worker agree: recorded media exist, no stage meets a scene
\* without its input, prompt ids are of their scene, and the outcome is that of the scenes.
ScenesConsistent == /\ SucceededHasClip /\ FrameBeforeClip
                    /\ PromptMatchesScene /\ OutcomeMatchesScenes

\* Renders are not duplicated: beyond one live prompt, each further one costs a
\* crash, a lost reply or a failed poll.
LivePrompts == {p \in Prompts : Live(p)}
RendersBounded == Cardinality(LivePrompts) <= 1 + faults

\* Once a cancel has run and the worker has noticed, ComfyUI renders nothing
\* for a job that does not own the pipeline, again but for one prompt a fault.
QuietAfterCancel ==
  (up /\ w.pc = "idle" /\ g.pc = "idle") =>
    Cardinality({p \in LivePrompts : prompts[p].job # pipe.job}) <= faults

\* Late work of a cancelled job: it stays cancelled, and none of its scenes
\* starts, succeeds, records media, binds a prompt or spends an attempt.  The
\* requeue of handle_fatal alone may still set one of them to pending.
LateWorkRejected ==
  \A j \in Jobs : status[j] = "cancelled" =>
    /\ status'[j] = "cancelled"
    /\ \A s \in Scenes :
         \/ scene'[j][s] = scene[j][s]
         \/ scene'[j][s] = [scene[j][s] EXCEPT !.state = "pending"]
NoLateWork == [][LateWorkRejected]_vars

\* The next job is requested only after this one has its outcome.
RequestAfterOutcome ==
  [][\A j \in asked' \ asked : status[j] \in {"succeeded", "partial", "cancelled"}]_vars

\* Completed work is not bought twice: no prompt is queued for a frame or clip that its scene
\* row records, whatever marked the scene failed, pending or running in between.
RecordedNotRendered ==
  [][\A p \in Prompts : ~Live(p) /\ Live(p)' =>
       LET q == prompts'[p] IN ~Recorded(scene[q.job][q.scene], q.stage)]_vars

\* Nothing is asked for early and nothing is bought twice.
WorkInOrder == RequestAfterOutcome /\ RecordedNotRendered

\* A render that is under way ends: the job reaches its outcome, an error to be
\* retried or a cancel, and the worker is not stuck in a stage for ever.
RenderSettles == (up /\ pipe.state \in RenderStates) ~> (~up \/ pipe.state \notin RenderStates)
=============================================================================
