# TLA+ models of 10MinVideoMaker

10MinVideoMaker turns a video job that arrives by Gmail into a finished film: it
resolves LoRA assets, renders one T2I frame and one I2V clip a scene on a local
ComfyUI server, stitches the clips and asks by mail for the next job. One Python
process runs it, one SQLite file holds its state, and a browser GUI approves,
cancels and remakes while it works. This directory holds models of that control
logic, the TLC configurations that check them, and proofs for TLAPS.

`source:line` below is relative to the repository root (`tenminvideomaker/`,
`scripts/`, `docs/`).

## 1. Inventory

| Component | State it keeps | Operations | Talks to |
|---|---|---|---|
| Supervisor (`supervisor.py`) | none of its own: everything durable is in the store | `tick`, `process_job`, the T2I and I2V batches, `run_or_reclaim_prompt`, `handle_fatal` | store, ComfyUI, mail, assets, assembler |
| State store (`state_store.py`) | SQLite: `pipeline_state` (one row), `jobs`, `scenes`, `scene_revisions`, `mail_messages`, QC tables, continuation plans and chunk attempts, remake batches, manual finals | one `BEGIN IMMEDIATE` transaction a call; automatic writes check ownership of the pipeline row | - |
| GUI service (`gui_service.py`) | worker thread, wake event, last error | approve, interrupt, cancel, remake batches, manual finals, the worker loop | store, supervisor, ComfyUI |
| ComfyUI client (`comfy_http.py`) | none | queue, history, wait, cancel, download | ComfyUI (queue and history in memory) |
| Mailbox (`mail.py`) | `mail_messages` rows, the seen flag of a message | poll, claim, request the next job | Gmail, store |
| QC controller (`qc_controller.py`, `qc_repair.py`, `adaptive_qc.py`) | QC candidates, evaluations, the GPU it borrows | register, evaluate, route, repair, human review | store, llama server, supervisor |
| QC finalization (`supervisor.py:963`, `state_store.py:4996`) | finalization plan and its steps | deliver, assemble, commit, request | Discord through ComfyUI, ffmpeg, Gmail |
| Remakes and manual finals (`gui_service.py:1419`) | remake batches and items, manual final requests | queue, render, promote, recover | store, supervisor |
| Continuation (`continuation.py`, `continuation_renderer.py`, `chunk_*.py`) | chunk plans, attempts, artifacts | plan, render chunk, accept, invalidate, assemble | store, ComfyUI |
| Launchers (`scripts/run_gui.py`, `run_supervisor.py`, `setup_and_start.py`) | the instance lock | start, offer to resume or abandon, restart ComfyUI | store, ComfyUI |
| Contracts, workflows, storage, assets, OAuth, Drive, web UI | files and settings | parsing, graph templates, downloads, presentation | - |

What is hard in it: the worker thread spends minutes in blocking calls between
transactions, and the GUI thread cancels in between; ComfyUI loses its queue when
it dies; a reply or a poll is lost although the prompt runs; the process dies
between any two transactions, and the launcher then resumes with the rows it
finds; a fatal error restarts ComfyUI on a snapshot taken minutes before. The
list of hazards, each at its line and with the properties that cover it, is in
`PROJECT.json`.

What makes each component correct:

- pipeline: an accepted job is never lost, a cancelled one never comes back, the
  job outcome agrees with its scenes, a render that started settles;
- ComfyUI client: no render runs twice except for a lost reply, none runs on for a
  job that was cancelled;
- mailbox: every message is accepted at most once, none is lost;
- QC finalization: each scene is delivered and the next job requested at most
  once, whatever crashes, and a plan that cannot tell is blocked, not repeated;
  switching quality control off does not undo what is recorded as done;
- QC controller: one candidate of a scene is accepted, the GPU has one user;
- remakes: a batch resumes where it stopped and promotes whole revisions only;
- continuation: an accepted chunk has an accepted parent of the same plan, and the
  frames of the chunks add up to the frames of the scene.

## 2. The models

| Module | Models | Composes with | Proofs |
|---|---|---|---|
| `AutoPipeline` | worker, supervisor tick, batches, recovery, GUI cancel, launchers, ComfyUI | - | `AutoPipelineProofs` |
| `QcFinalization` | deliver, assemble, request under crashes | refines `FinalEffects` | `QcFinalizationProofs` |
| `QcCandidates` | quality control of one scene until its selection | hands a selection to `QcFinalization`, whose first state it reaches (`STITCHING`) | `QcCandidatesProofs` |
| `ContinuationPlan` | the frame arithmetic of a continuation scene | gives `ContinuationChunks` its number of chunks | `ContinuationPlanProofs` |
| `ContinuationChunks` | the chunk attempts of one scene revision | refines `ChunkChain` | `ChunkStoreProofs`, `ContinuationChunksProofs` |
| `RemakeBatches` | remake batches and manual finals of a project, beside the automatic pipeline | takes a continuation render as one prompt with a durable plan | `RemakeBatchesProofs` |
| `Mailbox` | from a mail to a job, two pollers | replaces the one-step `PollAccept` of `AutoPipeline` | `MailboxProofs` |

`MC*` modules hold the instances. The modules were split where the code has a durable
boundary: what one module takes from another is a row that is written in one
transaction and read in another. Every module has the two things that make this program
hard, a worker that may die between any two writes and an environment that acts between
them.

Twelve runs check forty properties. A few of them are conjunctions of named parts
(`ScenesConsistent`, `LineageWhole`, `RemakesConsistent`, ...): the parts are stated and
commented one by one in the module, and each part has a mutant of its own that breaks
the conjunction. What is left to do is at the end of section 10.

## 3. AutoPipeline

### State

| Variable | Code |
|---|---|
| `pipe` | the `pipeline_state` row: `state`, `job_id`, `active_scene_id` |
| `status` | `jobs.status`; `absent` before `claim_inbound_job` |
| `scene` | the `scenes` rows: state, whether `frame_path`/`video_path` are recorded, `t2i_attempts`/`i2v_attempts`, `prompt_id`, `prompt_stage` |
| `revision` | the state of revision 1 in `scene_revisions` |
| `files` | the deterministic frame and clip files |
| `prompts`, `comfyUp` | ComfyUI: a prompt is live, done, failed or gone; whether it answers |
| `asked` | jobs after which the next request was mailed |
| `w` | the worker thread: its position in `tick`, `process_job` or `handle_fatal` and what it remembers (job, scenes to do, prompt, snapshot) |
| `g` | one cancel or interrupt request of the GUI between its snapshot and its last call |
| `up`, `faults` | the process; the crashes, lost servers and lost replies so far |

### Actions

Each action is one transaction or one blocking call; whatever else may happen
happens between them. A refused transaction (`StateTransitionError`) ends the job
for this tick: the worker loop logs it and goes on (`Leave`).

- `PollAccept` to `RequestSent`: `tick` in `idle` and `waiting_for_grok`, the
  mail before the row that records it (`_request_next_job`).
- `TickProcess` to `GiveUpJob`: `process_job` up to the batches. `ResolveAssets`
  is the download of all LoRAs, with any set of failing scenes.
- `OpenBatch` to `BeginStage`: the batch over the scene list read when it opens; a
  frame or clip on disk is adopted; a stage begins with a new attempt, or resumes
  the attempt of a persisted prompt.
- `LookupHistory` to `HarvestFails`: `run_or_reclaim_prompt`, `wait_for_prompt`,
  `download_output`, with rejected and ambiguous POSTs, errors, timeouts, failed
  polls and a dead server.
- `CommitStage` to `FinishJob`: the row and its revision in two transactions, the
  retry, the failure that is not ComfyUI's, the stitch and the outcome.
- `FatalSnapshot` to `StayInError`: `handle_fatal`. It runs inside the `except`
  clause of the worker loop, so that what it raises ends the thread (`dead`).
- `GuiCancel`, `GuiAbandon`, `GuiCancelPrompts`: `cancel_current_project` and
  `interrupt_current_job`, which share their calls; `ApproveJob`.
- `PromptCompletes` to `ComfyReturns`: ComfyUI. The T2I graph itself writes the
  frame, the clip is downloaded by the worker.
- `Crash`, `Launch`, `LaunchRetry`, `LaunchFinish`, `LaunchAbandon`: the process
  dies; `run_gui.py`, or `setup_and_start.py` with its offer to resume
  (`retry_job`) or to abandon a saved job. The launchers start ComfyUI first.

Abstracted: scenes are on the single-graph I2V route; QC and Discord delivery
are off; payloads, paths, LoRAs and error texts are left out; a prompt id may
recur once ComfyUI, the rows and the worker have forgotten it; `error` of a row is
never read by the control. A T2I graph that succeeds without writing its frame and
an `alive()` probe that times out on a live server are not modelled.

### Runs

Bounds: `MaxAttempts` is a setting of the code (2 by default); 1 and 2 reach both
the retry and the exhaustion. `MaxFaults` bounds crashes, lost servers, lost
replies and failed polls together. Three prompt ids are enough for one live prompt
and one orphan a fault. `IdSymmetry` permutes job and prompt ids, which no action
tells apart. `RelevantView` forgets the record of a prompt that nobody names and
that is not live: it can only be overwritten. The liveness runs use neither.
Deadlock is not checked, because the program may stop for good: no further mail,
a job held for review, a dead worker thread.

| Run | Instance | Shows |
|---|---|---|
| `auto_scenes` | 1 job, 2 scenes, 2 attempts, 1 fault | `TypeOK`, `ScenesConsistent` (recorded media exist, no I2V without a frame, prompt ids are those of their scene, the outcome is that of the scenes), `RendersBounded`, `WorkInOrder` (no request before the outcome, nothing recorded is rendered again) |
| `auto_jobs` | 2 jobs held for review, 1 scene, 2 faults | `OwnerNotCancelled`, `NoJobLost`, `QuietAfterCancel`, `NoLateWork` |
| `auto_liveness` | 1 job, 1 scene, 2 attempts, 1 fault | `RenderSettles` under `FairSpec` |

The properties and their comments are at the end of `AutoPipeline.tla`. Two of
them say less than one might hope, because the code promises no more:
`RendersBounded` and `QuietAfterCancel` allow one further live prompt a fault,
since a POST whose reply is lost leaves a prompt that nobody can name, and
`NoLateWork` allows a cancelled scene to go back to `pending` (see below).

### Where the code and its texts disagree

Behaviours of the model that contradict a sentence of the repository:

| Sentence | What happens |
|---|---|
| `gui_service.py:1397` "GUI supervisor worker tick failed; state was preserved." | a cancel inside `handle_fatal` makes its transition raise out of the `except` clause, and the worker thread ends (`dead`) |
| `gui_service.py:1025` "Abandon the held project so the worker can accept the next Gmail job." | a cancel just before the snapshot of `handle_fatal` leaves `error` without a job; every tick raises, also after a restart |
| `state_store.py:7821` "Atomically resume a saved job without replacing completed scenes." | assets are resolved for succeeded scenes too, and their failure marks them failed; their media are kept and not rendered again (`RecordedNotRendered`) |
| `state_store.py:1634` "A cancelled automatic scene cannot be resurrected by late work." | the requeue of `handle_fatal` has no ownership check and sets cancelled scenes to `pending` |
| `docs/architecture.md:375` (attempt counters are durable) | `retry_job` resets them |
| `docs/architecture.md:386` (prompts are cancelled, then the job) | a cancel abandons the job before it cancels its prompts, and on a snapshot, so that a job that has finished meanwhile is cancelled too (`gui_service.py:1033`) |

Hazards that are in the code and in no property: the cancel that acts on a stale
snapshot (`gui_service.py:1030`); a crash between a scene's success and the update of
its revision 1 (`supervisor.py:2193`), and `ensure_original_scene_revision` without an
ownership check (`state_store.py:1917`): `revision` is in the model and nothing in it
reads what is behind; a prompt that completes between the history read and the queue
read (`supervisor.py:1684`), which `RendersBounded` counts as a fault.

### Fairness

`FairSpec` asks for `WF(Worker)`: the worker thread is an operating-system thread
whose every blocking call has a deadline (`wait_for_prompt` gives up and cancels,
HTTP calls and the restart script time out), so that some step of it is always
taken. Nothing is assumed of ComfyUI, the GUI or the launcher. It also asks for
`SF(SendRequest)`: a mail server that refuses the request every time would have
the finished job processed again for ever, and the code has no answer to that.

### Proofs

`AutoPipelineProofs` proves for every set of jobs, scenes and prompts and for
every `MaxAttempts` and `MaxFaults`, from `ConstantsAssumption` alone:

- `Inductive`: `Spec => []IInv`;
- `TypeCorrect`: `Spec => []TypeOK`, with the bound on attempt counters;
- `OwnerAlive`: `Spec => []OwnerNotCancelled`;
- `LateWorkIsRejected`: `Spec => NoLateWork`;
- `SoundThroughout`: `Spec => [](Sound /\ PaidFor)`, the invariant of the next five;
- `NoJobIsLost`: `Spec => []NoJobLost`;
- `ScenesStayConsistent`: `Spec => []ScenesConsistent`;
- `RendersStayBounded`: `Spec => []RendersBounded`;
- `CancelIsQuiet`: `Spec => []QuietAfterCancel`;
- `WorkStaysInOrder`: `Spec => WorkInOrder`.

`TypeOK` alone is not inductive: a clip is recorded for the worker's job and
scene, a frame for those of a live prompt. `IInv` therefore adds `WorkerOK` (at
each step that uses them, the worker has a job and a scene) and
`LivePromptsOwned` (a live prompt has a job and a scene), and `OwnerNotCancelled`,
from which late work is rejected: a cancelled job is not the owner, and every
action but the requeue touches only rows of the owner or of a job not claimed yet
(`WritesAreOwned`). There is one lemma for each group of actions (`TickIInv`,
`RenderIInv`, `RecoveryIInv`, `GuiIInv`, `ComfyUIIInv`, `ProcessIInv`) with one
case an action.

The second half adds, one layer on top of the other, what the worker knows:

- `OwnerInv`, for `NoJobLost`: what the steps that finish a job or recover from an
  error may find in the pipeline row. The snapshot `handle_fatal` took may be stale
  by the time it is restored; it never frees a row whose job came after it.
- `PaidFor`, for the two bounds on renders: live prompts number at most `faults`,
  not counting the one the worker holds at `bind`, `check` and `wait`. A prompt
  leaves the worker's hands because it ended, because it was cancelled, or at the
  price of a fault.
- `RowsInv`, the part of `ScenesConsistent` that ties scene rows to files and prompts,
  with two facts more: a finished T2I prompt has its frame on disk, and a scene is
  cancelled only with its job.
- `PromptInv`: the prompt in the worker's hand is of its job, scene and stage, and
  none of a stage that the row already records (`RecordedNotRendered`).
- `BatchInv`, for `FrameBeforeClip`: the T2I batch leaves every scene it is done with
  *covered* (a frame on disk, or an outcome), so that the I2V batch finds what it
  needs although it reads the rows anew.

Each layer was run by TLC on both instances before it was proved. A layer has one
lemma a group of actions, as above; the steps that leave its variables alone are
dismissed together by a lemma that says what may change (`QuietSettles`, `FewerPaid`,
`InnerMoves`).

Only model-checked: `RenderSettles`.

## 4. QcFinalization

When every scene of a quality-controlled job has an accepted candidate,
`_finalize_qc_job` (`supervisor.py:963`) posts each scene to Discord, assembles the
film and mails the request for the next job. It may die anywhere and is called
again by the next tick; a row for every effect and a marker file for every
delivery say what was begun, and what cannot be told apart is held for a human.
With quality control switched off, `process_job` has a route of its own to the same
effects (`supervisor.py:532`), which reads the markers but neither plan nor steps.

### State

| Variable | Code |
|---|---|
| `pipe`, `status` | the `pipeline_state` row while it names the job (`free` when not), `jobs.status` |
| `plan` | the row of `qc_finalization_plans`: selection mode and state |
| `step`, `bound` | `deliver-scene-N` in `qc_finalization_steps`: its state, the last of the `prompt_ids` in its receipt |
| `assemble`, `request` | the steps `assemble-final` and `request-next-job` |
| `marker` | `discord-delivery.json` of each scene and revision: status, prompt, and the clip it was signed for |
| `film` | `assembled.mp4` under the hash of the plan, the published copy, and whether that still is the film of the plan |
| `prompts` | ComfyUI: a delivery prompt is live, has posted, is done, failed or gone |
| `posts`, `sentModes` | Discord: posts of each scene, the selections they came from |
| `mails`, `extra` | Gmail: requests of the finalization, requests of the legacy route |
| `enabled` | `quality_control_enabled`, read when the process starts |
| `w`, `g`, `up`, `faults` | the supervisor thread, the cancel of the GUI, the process, the fault budget |
| `legacy`, `late` | history, which no action reads: the legacy route has taken the job; the deliveries begun after its cancel |

A delivery is signed with its clip and revision (`continuation_renderer.py:1780`), which `Clip` and
`Rev` give for each route. The plan of the accepted selection posts a repaired scene as
revision 2. The legacy route posts `scenes.video_path`, which an accepted repair has
replaced (`Repaired`), and always as revision 1; the final of a reviewed draft (`Drafted`)
is a clip of its own. A scene that is neither has one signature in both routes.

### Actions

- `ProcessJob`, `RunEpoch`, `ResumePlan`: the three ways into a finalization, with
  quality control on or off; `Discard`, `EnsurePlan` fix its selection.
- `Transition`, `AdvancePlan`, `JobStatus`: the single-row writes, one action each
  for all the places of `_finalize_qc_job` that make them; the step of the thread
  says which write it is and where it leads.
- `BeginDelivery` to `ConfirmDelivery`: the loop over the scenes. `CheckDelivery`,
  `ReuseMarker`, `StartDelivery`, `CheckDispatch` and `WriteIntent` are `_deliver_scene`
  before its POST: each look at the rows of the job is a step of its own, so a cancel may
  come between a check and the write it permits. `QueuePrompt` to `MarkQueued` are the POST
  and the two records of its prompt id; `SeeDone` to `CommitSent` the wait and the reclaim,
  with the history and the queue read in two steps, as the code reads them.
- `BeginAssembly` to `RecordRequest`: the film and the mail.
- `ProcessJobLegacy`, `LegacyScene`, `LegacyNext`, `LegacyStitch`, `LegacyAsk`: the route of a
  job with quality control off. It delivers through the same actions, goes on after a
  failed delivery, encodes straight onto the published film and asks without a lookup.
- `LateWorkRejected`: any of the calls above refused because the job was cancelled.
- `PromptPosts` and `PromptEnds` are separate: a prompt can be interrupted, or its
  server restarted, after its post and before its end.
- `LaunchFinish` is the offer of `setup_and_start.py` to finish a saved job.

Abstracted: the quality control before the finalization (every scene is accepted
when the model starts), the renders of `process_job` (every clip is in place), the artifacts
and their hashes (nothing but the legacy stitch changes them on disk), the never-QC path of
`_finalize_qc_result`, a marker file that cannot be written. The check and the file write of
`MarkQueued` are one step: the marker says `queued` on both sides of a cancel.

### Runs

Two scenes. The finalization queues at most two prompts for a scene; three prompt ids let
either scene be tried twice beside the other, or leave one for the legacy route after both,
which has no bound of its own and stops in the model when the ids are used up. Up to two
faults: a crash within the recovery from a crash, or a mail outage in it. A
webhook is configured in every run, `DeliveryOn` false is left to the proofs. Prompts
are symmetric in `qcfin_crash`. Deadlock is not checked: a job that is
held, finished or cancelled ends the model.

| Run | Instance | Shows |
|---|---|---|
| `qcfin_crash` | ComfyUI answers every poll; restarts switch quality control; one repaired scene | `PostsConsistent` (one selection, and one post an original scene unless the legacy route takes the job), `ConfirmedStands` (what is recorded as delivered is not asked for again by any route), `OneLateDelivery`, `MailedAtMostOnce` |
| `qcfin_trouble` | ComfyUI times out, restarts or is polled in vain; a repaired and a drafted scene; quality control stays on | `PlanTruthful` (`TypeOK`; what is confirmed was posted, what is unresolved blocks the rest, what is completed is done), `EffectsInOrder` (the refinement of `FinalEffects`), and `FinalizationSettles` under `FairSpec` |

`EffectsInOrder` maps `posts`, `film.published` and all requests to the three variables of
`FinalEffects`. Its limit is one post for an original scene without trouble at ComfyUI
(`Once`), and two otherwise: a failed delivery is tried once more, and no chain of
crashes and restarts makes it three. A repaired scene may be posted twice without any
trouble: the renderer of a later revision does not see the cancel of the job, so a prompt
that the cancel interrupts after its upload counts as failed and is posted again.

`OneLateDelivery` counts the deliveries of a first revision that are begun in spite of a
cancel. It is one and not none: the cancel may come between the second `_require_active`
(`continuation_renderer.py:1896`) and the marker. That it is one needs every later step of
the thread to see the cancel, a retry and the next scene included.

The legacy route keeps the promises of the plan only as far as the markers carry them. It
does not post a scene again whose step is completed, if the scene is neither repaired nor
drafted: its marker says `sent` for the same signature (`ConfirmedStands`). A repaired or
drafted scene it posts again, any scene may be posted twice when its step was not completed,
and it mails each time. `MailedAtMostOnce` is what remains: the finalization before and after
it mails once, and `CompletedIsDone` counts a mail of either.

Behaviours of the model that contradict a sentence of the repository:

| Sentence | What happens |
|---|---|
| `supervisor.py:260` "The accepted QC plan will not be resumed; manual reconciliation is required before restoring the immutable pre-QC baseline." | finished from the launcher (`setup_and_start.py:789`) with quality control off, the job is delivered, assembled and asked for by the legacy route, without a look at the plan it has begun |
| `docs/user-guide.md:270` "uncertain delivery history blocks automatic resend so a Patreon post is not silently duplicated." | a prompt that is in neither history nor queue counts as failed and is sent again, although it may have posted |
| `continuation_renderer.py:437` "was cancelled; late continuation work will not be committed." | for a repaired scene the renderer checks the revision row, which a cancel (`state_store.py:2042`) leaves alone, and delivers |

The plan itself is immutable: after a switch of quality control `ensure_...plan`
(`state_store.py:5019`) raises at every tick. `FinalizationSettles` is therefore checked
without the switch.

### Fairness

`FairSpec` has `WF(Worker)` as above, `WF` of each prompt of ComfyUI, which works its
queue off, and `WF(Launch)`: somebody starts a stopped program again.

### Proofs

`QcFinalizationProofs` proves every property of the two runs but liveness, for every
set of scenes and prompts, with and without a webhook, every set of repaired and drafted
scenes and every `MaxFaults`. All but the last hold however quality control is switched:

| Theorem | Property |
|---|---|
| `TypeCorrect` | `TypeOK`, a part of `PlanTruthful` |
| `OneRequest` | `MailedAtMostOnce` |
| `OnePost` | `PostsConsistent` |
| `ReceiptsStand` | `ConfirmedStands` |
| `Truthful` | `PlanTruthful` |
| `OneLate` | `OneLateDelivery` |
| `EffectsRefined` | `EffectsInOrder`, assuming `~MayToggle` |

The first invariant, `IInv`: `mails <= 1` is not inductive. `MailOK` adds that no mail has
left while the request step is absent or at its intent, and that the thread reaches `send`
only by having just moved the step to `DISPATCHING`; a thread that finds it there
already never gets to `send`. `WorkerOK` and `SceneOK` say that the thread has a
scene whenever it reads the row or the marker of one. A step that neither touches
the request nor enters its last stretch keeps `MailOK` (`MailKept`); the others are
taken one by one.

The second, `EffectsOK`, is inductive on top of `IInv`. Its parts on how often (`AskedOK`,
`AskingOK`, `OnceOK`, `AgainOK`) and on whose the markers are (`FilesOK`) hold until the
legacy route takes the job, the others throughout:

- `SelectedOK`, `WorkingOK`: every prompt is of the selection of the plan and of a step
  that was begun, or of the legacy route, and the thread works for the one or the other. A
  plan is replaced only while no step was begun (`Replanned`), so nothing of the other
  selection is left.
- `LinksOK`: a prompt id in a marker, a receipt or the thread is of a prompt of the scene.
- `SentOK`: a prompt that ended well, a marker `sent` and a thread at its commit stand
  for a post, and so does every completed step (`ConfirmedMeansPosted`).
- `LateOK`: the finalization past the deliveries has every step completed, past the
  publication a film, past the request a mail.
- `AskedOK`, `AskingOK`: at most two prompts were ever queued for a scene. A receipt
  without prompt id means at most one, no marker means none, and the thread that may
  still post (`Postable`) has seen the first one fail. `posts <= 2` needs it: posts are
  counted by prompts that are no longer `live` (`Spent`).
- `OnceOK`, `AgainOK`: the same for one post. Without trouble and with a cancel that is
  seen, the scene is asked for again only when nothing was posted and every earlier
  prompt is dead (`Unsent`), which the thread knows from the history it has read.

The prompts change without the thread: `Aged` says what a cancel, an end or a restart of
ComfyUI may do to them, and `AgedKeeps` that the facts survive it. Three lemmas hold for
every writing step of the delivery (`MarkerWritten`, `BoundWritten`, `StepWritten`), so
each action is left with what the thread knows; `TakenOver` is the hand-over to the legacy
route. `StepRefines` then maps `PromptPosts` to `Post`, `Publish` to `Publish` or a stutter,
the two sends to `Ask` or a stutter and everything else to a stutter.

`OneLate` has an invariant of its own, `WindowOK`: nothing is counted before the cancel, and a
thread that has begun its late delivery is not between check and write again, because only a
check that sees the job active leads there (`Windows`). So has `ReceiptsStand`: in
`StandsOK` a completed step of a scene with one signature stands for a marker `sent` of that
signature, and every thread that renders the scene afterwards is still at the reading of it.

Only model-checked: `FinalizationSettles`.

## 5. QcCandidates

Before a job is finalized, `Phase1QcController.run_epoch` (`qc_controller.py`) judges the
clip of each scene with a llama server, and repairs what fails through a ladder of
candidates: A1 and A2 vary the seed, B1 and B2 change prompts by a planner model, C and D
the strategy, a defective starting frame is rendered anew. The operator approves, rejects,
holds, pauses, resumes and remakes while the worker is between two of its transactions.
The model has one scene: scenes share the worker, the devices and nothing else.

| Variable | Code |
|---|---|
| `cands` | `qc_candidates` in creation order, each with the rows and files that hang on it: lease and frame owner, evaluation and its artifacts (`RUNNING`, `raw`, `manifest`), verdict, human decision, planner claim and patch, FINAL row, strategy ledger |
| `revs` | the highest row of `scene_revisions` |
| `setting` | `auto_advance_pass`; whether the original clip is a draft or a legacy final clip |
| `pstate` | the state of the pipeline row |
| `w` | the worker inside `run_epoch`: step, list read, candidate in hand, decision |
| `comfy`, `server` | ComfyUI runs a prompt; the llama server is down, owned, or orphaned by a crash |
| `faults`, `ops` | the budgets |

`Epoch` is the loop, its start and the selection; `Render` the FINAL and repair renders of
the supervisor; `Evaluate` the barrier before the server starts, the judgement and its
records; `Route` what is done with a verdict: promotion, deferral, the schedulers of A1 to
D, the claim and patch of the planner, the ledger. `Failures` are the except clauses and a
crash; `Operator` is the GUI; `OrphanEnds` and `ComfyEnds` the devices. Each action is one
transaction or one blocking call.

| Run | Instance | Shows |
|---|---|---|
| `qc_candidates` | manual decisions with drafts or automatic without, 6 candidates, 6 revisions, 1 fault, 1 operation (1.8 million states; `Narrowing`) | `LineageWhole` (types, revisions distinct, ledger complete, never orphaned), `PlannerOnce`, `GpuExclusive`, `DecisionHolds` (FINALs of approved drafts only, one accepted but for two exceptions, a selection stands) |
| `qc_liveness` | manual decisions with drafts, 4 candidates, 6 revisions, 1 fault | `ApprovedDelivers`, `WorkDrains` under `FairSpec` |

Six candidates reach the longest path without A repairs, and the D after a D that `OneAccepted`
is about; six revisions leave room for a remake between the shorter paths. Up to four
candidates the fault and the operation occur in every order. `Narrowing` keeps the run within
minutes: from the fifth candidate on it follows a fault or an operation and not both, the
sixth candidate only in a lineage without A repairs, and the sixth revision only with the
sixth candidate. What the constraint leaves out is covered by the proofs below for the safety
properties; the liveness ones were also explored with five candidates, without a violation.
`AtBound` excepts a worker that would
insert a candidate for which the bound leaves no room. Deadlock is not checked: a scene
that waits for its operator ends the model.

`FairSpec` is `WF` of the worker thread, of the end of an orphaned llama server (the code
waits for its port) and of a ComfyUI prompt; nothing is assumed of the operator.

"Resolve exactly one durable ACCEPTED candidate for every scene.", says `qc_final_selection`
(`state_store.py:4897`), and refuses anything else: "QC finalization requires one ACCEPTED
candidate for every required scene." (`state_store.py:4919`). The code does not keep it: two
candidates of a scene can be accepted, and the scene is then not selectable. The attempt to
prove the plain statement led to two ways, and TLC confirmed them on wider instances:

- two Ds (six candidates, one crash). The crash falls between the insert of a D and
  `SUPERSEDED` of its parent, itself a D, which is then repaired again. The operator approves
  the first of the siblings; the worker, with an older list, gives the other, superseded, a
  verdict and with it a new state (`set_qc_candidate_state` checks none,
  `state_store.py:3580`), and it is approved too before the FINAL of the first is stored
  (`state_store.py:4696`). With `auto_advance_pass` promotion leaves an accepted sibling
  as it is (`state_store.py:5804`);
- an override of a hold while the rejected patch of its planner is recorded
  (`state_store.py:4560`; four candidates, two faults). C is scheduled all the same, passes by
  itself after a crash, and joins the approved A2.

`OneAccepted` states what does hold: two are accepted only if one of them was approved without
a verdict of `PASS`, or both are of tier D. `ApprovedDelivers` excepts `Rivals`, two approved
candidates of which one gives way to the other.

Behaviours the model shows and no property forbids, because the code has no answer to them:

- a candidate paused while its FINAL is pending and then resumed never gets it;
- with `auto_advance_pass` and drafts an accepted draft never gets a FINAL;
- a FINAL of a project with a legacy clip overwrites its own baseline and is never selectable;
- a remake from the GUI makes the revision planned for B1 or B2 stale, and `raw.txt`, once
  written, refuses the next answer for the same evaluation;
- "A human-paused scene cannot schedule repair." (`state_store.py:3269`) is checked for one
  scheduler; after a pause the others (`state_store.py:2820`) still insert a candidate.

Not modelled: `quality_control_enabled` off inside `run_epoch`, a failure of the source
identity check, the contents of patches and seeds, the order of the candidate list (any
order is allowed). The frame of a recipe is named after the candidate that rendered it.

### Proofs

`QcCandidatesProofs` proves `LineageStaysWhole`, `PlannerAskedOnce`, `GpuStaysExclusive` and
`DecisionStands` (the four properties of `qc_candidates`) for every settings, every number of
candidates, revisions, faults and operations, from `BoundAssumption`. None of them is
inductive. `IInv` has four parts beside types and the worker's shape:

- `TableOK`, what the rows say of each other. A row knows why it has its state (`RowOK`: a
  FINAL or an acceptance has an approval, or a pass of a job that advances by itself).
  `LineageOK` is the heart: tiers rise, only D may repeat, and up to the first D each candidate is
  the repair of the one before and of the tier its verdict asks for (`Heir`). Without it a
  scheduler that runs again after a crash could insert a second child, and two of a
  scene could pass. `RevisionsOK` keeps the revision reserved for a B2 (`b2row`) from anyone
  else, `SupersededOK` that whoever was chosen stays so (`Firm`), `AliveOK` that
  a candidate without a repair is alive: a superseded one has a child or a rival, but
  only the last in the lineage shows that somebody is left.
- `KnownOK`, what the worker may rely on at each step, although an operator may have changed
  the candidate since it was read: its evidence and the tier it must lead to
  (`EvidenceOK`), how far the planner got (`PlannerOK`: the call is made only from a
  claim just made), the child it inserted (`ChildOK`), the approval behind a FINAL (`FinalOK`).
- `DevicesOK`: ComfyUI is launched where the server is down and the server started where ComfyUI
  has no prompt. An orphan of a crash is why this is not obvious.
- `SelectionOK`: a job in `STITCHING` has left the epoch.

Lemmas about the row-changing operators (`Set_OK` to `Insert_OK`) say which row changes and
what stays (`Kept`); `TableKept` and `TableFrom` carry the table over such a change, so that
the lemma of an action has only to say which change it is. `HeirFound`, `TierOnce` and
`NextRevision` are the facts about lineages behind the schedulers: a repair that exists is
found again, and a new one is new. There is one lemma for each action.

Only model-checked: `ApprovedDelivers` and `WorkDrains`.

## 6. ContinuationPlan

`build_scene_frame_plan` and `assembly_spans` (`continuation.py`, `chunk_assembly.py`) turn
the duration of a scene into a timeline, windows of the model and committed spans. They are
pure, and full of rounding: durations to frames, frames to a grid of `8n+1`, beats to whole
frames with an allowance, windows that overlap by one frame.

The variables are the data the loops build (`frames`, `total`, `beats`, `chunks`, `spans`)
and `pc`, the loop; one action is one iteration. Loops rather than recursive definitions
let TLAPS prove things about plans of every length. `Rounded` is Python's `round`, halves
to even.

| Run | Instance | Shows |
|---|---|---|
| `plan` | step 2, window 6, half-frame ticks, requests of 1 to 54 ticks, up to 4 beats of 9 durations or 4 transition counts (2.9 million states) | `TypeOK`, `Tiles` (the committed spans are the master, without gap or overlap, and just long enough), `Placed` (each frame where it was rendered for, each window starts from a frame the last one commits, the planner's own checks never fire), `BeatsKept` (beats partition the timeline, every beat is spoken, consistent durations are accepted), `RouteMatchesPlan` |

The real values are 8 and 120; the small ones have the same divisibility, and windows of
three steps give plans of up to five windows.

`ContinuationPlanProofs` proves all five properties (`TypeCorrect`, `PlanTiles`, `PlanPlaced`,
`PlanKeepsBeats`, `PlanRoute`) for every step, every window it divides, every precision,
duration and number of beats, from `PlanAssumption`. `IInv` says of every loop what it has built so far: lengths and types
(`Types`), the beats and the loop's place (`BeatsOK`, `Phases`), each window and each span as a
function of its index (`ChunksOK`, `SpansOK`), their order (`Sorted`) and reach
(`Covered`). The arithmetic is in lemmas of their own (`DivideByStep`,
`TransitionsBound`, `AlignedDifference`, `BorderOfWindow`), because the SMT solver is not
to be trusted with `%` and `\div` of two variables.

`BeatsKept` needs a second invariant, `BInv`: the beats lie end to end (`Laid`), each is within
half a frame of what it asked for until the last is fitted (`AsAsked`), they fill the
timeline of the request once fitted (`Fitted`), a refusal states what is still true
(`Reasons`), and a window speaks of what it overlaps (`Speaks`). The rest is induction over
the beats, done with least elements: `<` is well-founded on the naturals, so a set of
counterexamples has a least member (`LeastNatural`), whose predecessor is none. In this way
`AskedSums` shows what the recursive function `Asked` computes, `RoundingAddsUp` that `i`
roundings add up to `i` half frames at most, hence to no more than the allowance, and
`WindowSpeaks` and `BeatSpoken` find the beat of each window and a window for each beat.

Seen in the model: the first window, frames 0 to 120, overlaps a beat that begins at frame
120, so that its prompt also speaks the second beat; beats shorter than the allowance can be
refused as collapsed although the durations add up (`ConsistentAccepted` says when not).
Not modelled: prompts, derived seeds, fingerprints, floating-point error.

## 7. ContinuationChunks

`render_scene` (`continuation_renderer.py`) renders one scene revision as a chain of chunks,
each attempt of a chunk by three ComfyUI prompts (two diffusion stages and a decode), with
checkpoints that are validated by hash before anything is used. The rows `scene_chunks` and
`chunk_attempts` and the files say after a crash what can be kept.

| Variable | Code |
|---|---|
| `db` | the scene's state, the plan, chunk rows (state, accepted attempt), attempt rows (state, upstream, inputs, prompt ids) |
| `disk`, `clip` | valid files of each attempt; the assembled scene and its `COMPLETE.json` |
| `prompts`, `comfy` | the queue and history of ComfyUI, and whether it runs |
| `contract` | the identity of the generation code and the node contracts |
| `w` | the worker inside `render_scene`; `env`: faults, the cancel of the GUI, whether a prompt id was lost |

The actions follow `render_scene`: the plan, the validation of what is accepted, recovery or
a new attempt, the three stages with their queueing, binding, waiting and reclaiming, the
validation and acceptance, the assembly and the publication. Around it act ComfyUI, a crash
and a new start, an explicit retry, the two steps of a cancellation, damage to a file and an
upgrade of the generation contract.

| Run | Instance | Shows |
|---|---|---|
| `chunks` | 2 chunks, 2 attempts, any 2 faults of 9 kinds (400 thousand states) | `ChainConsistent` (types, accepted bottom-up, one active attempt, budget), `PromptsAccounted` (no graph queued twice, none left of a cancelled scene), `ResultsStand` (acceptance withdrawn only for a cause, no commit after a cancel), `Publishes` (the refinement of `ChunkChain`), `RenderEnds` |

Two chunks are the least with an upstream; two faults are a fault in the recovery from
another. Three faults were explored for three mixes of kinds, without a violation.
`ChunkChain` is what the renderer promises: a chain that grows at its end, may lose a
tail, and is published once and as it stands. Deadlock is off because rendering ends.

`FairSpec`: the worker and the GUI handler are threads (`WF`), ComfyUI serves its queue,
and the worker restarts a dead ComfyUI; nobody promises to start a crashed process.

Seen in the model: when a prompt id is lost between `/prompt` and its record, the hash of
its first-stage checkpoint is never recorded, and the next resume throws the accepted,
intact chunk away, although `docs/user-guide.md:262` promises a restart "from the earliest
invalid chunk" (`continuation_renderer.py:1490`): hence `env.lost` in `Reason` and
`NoDuplicateWork`. An attempt whose first stage was queued again after
ComfyUI died can leave that prompt behind, and it may write a damaged checkpoint back between
the look at it and the withdrawal (one chunk, seven faults): `AcceptedStands` therefore asks for
the reason when the worker looks, and at the withdrawal only that it begins at that chunk. Failures of validation are errors of the client class too and take its
transport recoveries; discarding a mismatched attempt cancels the prompts of its two
diffusion stages, not its decode; stale attempts leave their prompts running. Not
modelled: a changed plan, a corrupted extracted frame, prompt timeouts, the abandon of the
launcher, the delivery to Discord (section 4).

### Proofs

`ContinuationChunksProofs` proves `ChainStaysConsistent`, `PromptsStayAccounted`,
`ResultsStayRecorded` and `ImplementsChunkChain` (`ChainConsistent`, `PromptsAccounted`,
`ResultsStand` and the refinement `Publishes`, the safety properties of `chunks`) for any number
of chunks, attempts and faults of any kinds. The parts of its inductive invariant:

- `StoreOK`, `ShapeOK` and `LengthsOK`: the rows agree with each other (an accepted chunk has
  an accepted attempt made from the accepted one below, at most one attempt is active), and the
  worker, files and prompts have their form;
- `PlaceOK`: at each step of `_execute_attempt` the worker's attempt exists and, unless somebody
  cancelled it meanwhile, is the active one of the chunk in hand, in the state that step expects;
- `CleanOK`: what a step has checked is not older than the row it is about to write, so that
  only a resume which found a cause withdraws an acceptance;
- `SceneOK`: where the scene is rendered and published, all chunks are accepted;
- `PromptsOK`: `Recorded` and `Saved` (a prompt is bound to its attempt, or about to be, or its
  id was lost), `Owned`, `Fresh` and `Posted` (a stage without a prompt id has no prompt in the
  queue: why no graph is queued twice), `Silent` and `Hushed` (a cancelled scene
  has no worker that queues, and nothing left that nobody cancelled).

`ChunkStoreProofs` holds the lemmas about the operators of the store: what `BeginAttempt`,
`UpdateAttempt`, `SelectAttempt`, `InvalidateFrom`, `RetryJob` and `AbandonJob` make of rows that
agree. The action properties and the refinement come from one classification: every step leaves
the chunk rows alone, accepts the next chunk, or withdraws a tail (`StepWrites`). A scene
that is published while a file of it was damaged after the last look shows no chain, which is a
stutter of `ChunkChain`.

Only model-checked: `RenderEnds`.

## 8. RemakeBatches

The GUI remakes scenes as new revisions in batches, and assembles manual finals
(`gui_service.py:1419` on). The worker thread of the pipeline does both between its ticks;
HTTP handlers create and submit beside it, and a submit may first interrupt the automatic job.

| Variable | Code |
|---|---|
| `batch`, `item` | `remake_batches` (state, collision policy), `remake_items` (state, prompt and stage) |
| `rev` | `scene_revisions` above 1: state, number, continuation plan |
| `disk` | frame, clip and generation manifest of a revision, named by the prompt that made them |
| `final` | `manual_final_requests`, with the selection frozen at the request |
| `pipe`, `route` | the automatic pipeline as far as it excludes remakes; the continuation setting of the process |
| `prompts`, `comfy`, `posted` | ComfyUI and Discord |
| `gui`, `w`, `env` | the handler inside `queue_batch`, the worker, the faults so far and what they cost: a prompt id that was lost, a prompt that finished unseen |

| Run | Instance | Shows |
|---|---|---|
| `remakes` | one batch that remakes a scene twice (video only, and with a new image), 1 final, 1 automatic job, 2 faults of 8 kinds (2.8 million states) | `RemakesConsistent` (types, a clip and its frame belong together, the verdict is that of the items), `PostedOnce`, `RouteKept`, `FinalIsSnapshot`, `WorkOnce` (frames first, no diffusion again, a succeeded revision stands) |
| `remakes_end` | two batches, 1 automatic job, 1 fault | `BatchEnds` under `FairSpec` |

Two remakes of one scene are what revision numbers, selections and the reuse of frames can
get wrong; two batches what the hand-over can. `BatchEnds` was also explored on the first
instance, the others on the second, without a violation. `FairSpec` is `WF` of the worker,
of ComfyUI's queue and of a handler that has started; nothing is assumed of a click or of
a new start of the program.

Three of the properties name an exception that takes more faults than the run allows.
Each was found while its invariant was looked for, and is what the code does:

- `RouteKept`. The docstring of `_remake_uses_continuation` (`gui_service.py:1749`) promises
  to keep an interrupted revision on its selected route. A legacy revision whose frame is
  damaged while the program is down renders the frame again, and the stage `t2i` of that
  prompt overwrites `i2v_legacy` in the row; after a second crash and a changed setting
  the revision goes on as a continuation (three faults).
- `ClipOfItsFrame`. Two T2I prompts whose ids were lost at crashes are both in the queue; a
  clip rendered from the first frame is reclaimed and bound before the second frame
  arrives and replaces it (four faults).
- `DiffusionOnce`. `run_or_reclaim_prompt` reads the history and then the queue
  (`supervisor.py:1684`); a prompt that finishes in between is in neither answer and is
  sent again. `env.unseen` marks that window; from it on the rows and the queue may differ,
  so that with further crashes a prompt is sent beside a live one of the same stage (five
  faults).

`BatchEnds` excepts a process that is down and `env.stuck`: when ComfyUI cannot be restarted,
or dies again before the recovery (`gui_service.py:1385`), the batch stays `RUNNING` and
nobody works on it until the GUI is started again. A manual final that is `RUNNING` at a
crash is never run again and is returned to every later click (`state_store.py:6316`),
although `docs/architecture.md:251` calls the requests durable. A crash between the
failure of an item and that of its revision leaves the revision `RUNNING`. `queue_batch`
with interruption abandons the automatic job before it checks the draft and ComfyUI
(`gui_service.py:998`), and its `cancel_project_prompts` also kills prompts of a remake
batch that runs; `abandon_job` cancels chunk attempts of remakes too.

Merged: a manifest and the update of its revision, the stitch of a final and its outcome; a
stop of the GUI is a crash at the boundary of an item. Damage happens while the worker is
down or idle. Not modelled: the sorting of image families, manifest write failures, the
states no path reaches (a cancelled remake); the chunks of a continuation render and the
marker of a delivery have sections 7 and 4.

### Proofs

`RemakeBatchesProofs` proves all five properties of the run `remakes` for any batches and
items, and any number of finals, jobs and faults. From `RemakeAssumption` alone: the
batches are sequences of items, the bounds are numbers.

None of the properties is inductive. `RowsOK`, say, is about three tables that are written in
different transactions, and what holds of them between two depends on where the worker
stands. The invariant is therefore built in layers, each inductive on top of the ones
it names, and each run by TLC, on instances with up to five faults, before it was proved:

| Layer | What it says | Rests on | For |
|---|---|---|---|
| `Shape` | types, where the worker may be with which local state, and that an id in a row or in its hand names a prompt of that item and stage | - | `TypeOK` |
| `Agree` | `RowsOK`: the rows of batch, item and revision; `HandOK`: every item of the batch in hand is done, in hand, or ahead and due | `Shape` | `VerdictTrue`, `SucceededStands` |
| `SnapOK` | a selection names succeeded revisions by their clip, or the clip was damaged | `Agree` | `FinalIsSnapshot` |
| `HoldOK` | what the worker read at the start is what the row still says when it acts on it | `Agree` | the next ones |
| `PostsOK` | clips, markers and posts follow the order of the prompts | `HoldOK` | `PostedOnce` |
| `RoutesOK` | the route of a prompt is in the row, in the plan or in the worker's hand | `HoldOK` | `RouteKept` |
| `OrderOK` | prompts end in the order they were queued | `Shape` | `ClipsOK` |
| `FramesOK` | a prepared item has its frame, has failed, or is still to be visited | `Agree` | `FramesFirst` |
| `ClipsOK` | a manifest that vouches for a clip names the frame on disk, and no prompt that could replace it is due | all but `SnapOK`, `PostsOK`, `RoutesOK` | `ClipOfItsFrame` |
| `StagesOK` | which items may be in an image prompt, and until when | `HoldOK` | `OnceOK` |
| `OnceOK` | as long as nothing was lost or unseen, the rows know every prompt in the queue | `RoutesOK`, `ClipsOK`, `StagesOK` | `DiffusionOnce` |
| `NumbersOK` | the numbers of a scene's revisions are distinct and number no more than they are | `Agree` | `TypeOK` |

The proof has one lemma for what each action changes (`PrepareDoes`, `GotDoes`, ...), stated
without `EXCEPT` so that later steps need not open the action; one for each variable on
the actions that change it (`RevChanges`, `PromptChanges`, ...); and for each layer one
lemma a fact, by the actions that may disturb it. `NumbersOK` is about cardinalities: a
position of the new batch counts what is taken and what comes before it in the batch, and
these sets grow strictly along the batch (`NumbersMade`). `BatchEnds` is liveness and stays
with TLC.

## 9. Mailbox

`GmailPollingService.poll_once` (`mail.py:514`) turns a job mail into a job. The supervisor
polls, and the poll node of a ComfyUI graph (`nodes.py:228`) is a second poller in another
process.

| Variable | Code |
|---|---|
| `inbox`, `seen`, `broken` | the mails of Gmail by UID, their `\Seen` flag, those whose payload is malformed |
| `record` | `mail_messages` by Message-ID: none, rejected (`job_id` NULL) or claimed |
| `jobs` | `jobs`: name (job_id and local suffix), content, message |
| `pipe` | the pipeline row: idle, waiting, or anything else |
| `poll`, `faults` | each poller and the mails it still has to look at; crashes and failing transports |

`StartPoll` and `Fetch` read the row and the inbox, `Read` parses the next mail, `Reject` is
`claim_message`, `Refuse`, `Skip` and `Accept` are the outcomes of the one transaction of
`claim_inbound_job`, `MarkSeen` tells Gmail, `EndPoll` lets a supervisor that found the
pipeline idle write `WAITING_FOR_GROK` without looking again. `FetchMisses`, `TransportFails`
and `Crash` end or spoil a poll anywhere; `Deliver` and `Correct` are the author.

| Run | Instance | Shows |
|---|---|---|
| `mail` | a mail malformed at first, its job_id with other content, its job_id and content in a second message, a stranger; 2 pollers, 1 fault (240 thousand states) | `MailConsistent` (a message becomes at most one job, names stay distinct, nothing is put away that was not dealt with, strangers are ignored) and `MailHandled` (a readable mail is dealt with) |

`FairSpec`: the supervisor polls every few minutes whatever happened to its last poll, and a
job ends some time (section 3 says when). The fault bound carries `MailHandled`: a Drive
file that is permanently missing raises out of every poll and starves all mails behind it.

`MailboxProofs` proves `MailsAccountedFor` (`Spec => []MailConsistent`) for every set of
mails and any number of faults. `MailConsistent` is not inductive: a rejected mail could be
put away for nothing and a claimed one forgotten. `IInv` adds that a poller about to put a
mail away holds one that was malformed when it came or has a job (`InHand`) and that the
message of a job stays claimed (`Recorded`); that a free suffix exists for a reused job_id
is a pigeonhole argument (`SuffixIsFree`). `StoreKept`, `LettingGo` and `GoingOn` are the
lemmas on what a step may leave alone, and each claiming action has one of its own.

Seen in the model: "A repeated email containing a `job_id` already present in the durable
job history is correctly skipped" (`docs/user-guide.md:457`) holds only if its content is
also that of the original: with other content it becomes a job of its own, and a repetition
of that one becomes a third, because only the original is compared. A crash
between the claim and `mark_seen` leaves the mail unread for ever; a mail rejected and marked
as read is not read again after a correction. `EndPoll` and the request node may overwrite
the row of a job that the other poller has just accepted, which then keeps its rows and
loses its owner: `AutoPipeline` has one poller, and there `NoJobLost` holds.

## 10. Not modelled

Left out for good, as pure functions over documents or files without state of the pipeline:
payload and settings validation, graph templates, storage layout, downloads (their failures
are choices of `AutoPipeline`), OAuth and Drive, QC contracts, frame measurements, the
acceptance and review tools, the web UI, and operator scripts that run by hand while
everything else is stopped. The instance lock is one lock of the operating system; every
model assumes the single owner it enforces. `components` in `PROJECT.json` lists each with
its sources.

Every safety and action property of the runs is proved. Only model-checked is liveness, since
fairness and `ENABLED` are out of the prover's reach: `RenderSettles`, `WorkDrains`,
`FinalizationSettles`, `ApprovedDelivers`, `RenderEnds`, `BatchEnds` and `MailHandled`.

Next in order of worth: a composition of `QcCandidates` and `QcFinalization` over two scenes,
and of `RemakeBatches` with `ContinuationChunks`, whose attempts a remake owns.
