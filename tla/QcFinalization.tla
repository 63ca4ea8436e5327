---------------------------- MODULE QcFinalization ----------------------------
(* The finalization of a quality-controlled job: a durable plan row, one step   *)
(* row per external effect, and the delivery marker of every scene let          *)
(* _finalize_qc_job of supervisor.py resume after a crash.  The effects are the *)
(* Discord post of each scene (a ComfyUI prompt), the assembled film and the    *)
(* mail that asks for the next job.                                             *)
EXTENDS Integers, FiniteSets

CONSTANTS
  Scenes,        \* the scene ids of the job, delivered in increasing order
  Repaired,      \* the scenes whose selected revision is above 1
  Drafted,       \* the scenes whose accepted clip is the final of a reviewed draft
  Prompts,       \* ids ComfyUI may give a delivery prompt
  NoPrompt,
  DeliveryOn,    \* a Discord webhook is configured
  ComfyTrouble,  \* delivery prompts may fail, time out, be lost or be polled in vain
  MayToggle,     \* a restart may switch quality control off or on
  MaxFaults      \* bound on crashes, restarts by hand, lost polls and mail outages

ASSUME ScenesAssumption == Scenes \subseteq Nat /\ IsFiniteSet(Scenes)
ASSUME SelectionAssumption == Repaired \subseteq Scenes /\ Drafted \subseteq Scenes
ASSUME PromptAssumption == NoPrompt \notin Prompts
ASSUME SwitchAssumption == DeliveryOn \in BOOLEAN /\ ComfyTrouble \in BOOLEAN /\ MayToggle \in BOOLEAN
ASSUME FaultAssumption == MaxFaults \in Nat

VARIABLES
  pipe,      \* state of the pipeline row; "free" when it no longer names the job
  status,    \* the job row
  plan,      \* qc_finalization_plans
  step,      \* qc_finalization_steps: the delivery of each scene
  bound,     \* last prompt id in the receipt of a delivery step
  assemble,  \* qc_finalization_steps: assemble-final
  request,   \* qc_finalization_steps: request-next-job
  marker,    \* discord-delivery.json of each scene and revision
  film,      \* the plan-addressed assembly and its published copy
  prompts,   \* ComfyUI
  posts,     \* Discord: posts of each scene
  sentModes, \* Discord: the selections the posted scenes were taken from
  mails,     \* Gmail: requests for the next job that the finalization sent
  extra,     \* Gmail: requests that the legacy route sent
  enabled,   \* quality_control_enabled of the running process
  w,         \* the supervisor thread
  g,         \* the cancel of the GUI
  up, faults,
  legacy, late  \* history, read by the properties only: the legacy route has taken the
                \* job; the deliveries of a first revision started after its cancel

rows == <<pipe, status, plan, step, bound, assemble, request>>
files == <<marker, film>>
world == <<prompts, posts, sentModes, mails, extra>>
history == <<legacy, late>>
vars == <<rows, files, world, enabled, w, g, up, faults, history>>

PlanStates == {"PLAN_COMMITTED", "DELIVERING", "DELIVERED", "STITCHING", "STITCHED",
               "JOB_COMMITTED", "NEXT_REQUEST_INTENT", "COMPLETED"}
Order == [PLAN_COMMITTED |-> 0, DELIVERING |-> 1, DELIVERED |-> 2, STITCHING |-> 3,
          STITCHED |-> 4, JOB_COMMITTED |-> 5, NEXT_REQUEST_INTENT |-> 6, COMPLETED |-> 7]
Modes == {"ACCEPTED_QC", "LEGACY_BASELINE"}
Routes == Modes \cup {"legacy"}
Clips == {"original", "repair", "final"}
StepStates == {"absent", "INTENT", "DISPATCHING", "COMPLETED", "AMBIGUOUS", "FAILED"}
Markers == [st : {"none", "dispatching", "queued", "sent", "failed", "ambiguous"},
            prompt : Prompts \cup {NoPrompt}, clip : Clips \cup {"none"}]
PromptRecords == [st : {"free", "live", "posted", "done", "failed", "gone"},
                  scene : Scenes \cup {0}, mode : Routes \cup {"none"}]
NoPlan == [mode |-> "none", state |-> "PLAN_COMMITTED"]
NoMarker == [st |-> "none", prompt |-> NoPrompt, clip |-> "none"]
Unused == [st |-> "free", scene |-> 0, mode |-> "none"]
Idle == [pc |-> "idle", mode |-> "none", todo |-> {}, scene |-> 0,
         existing |-> NoPrompt, prompt |-> NoPrompt, try |-> 1, err |-> "FAILED"]

\* What a route delivers of a scene.  The plan of the accepted selection names the
\* accepted revision, the plan of the baseline the original clip, and the legacy route
\* posts scenes.video_path, which an accepted repair replaces, as a first revision.
Rev(s, mode) == IF mode = "ACCEPTED_QC" /\ s \in Repaired THEN 2 ELSE 1
Clip_RepairOfLegacy(s, mode) ==
  CASE mode = "legacy" -> "repair"
    [] mode = "ACCEPTED_QC" /\ s \in Repaired \ Drafted -> "repair"
    [] mode = "ACCEPTED_QC" /\ s \in Drafted -> "final"
    [] OTHER -> "original"
Clip(s, mode) ==
  CASE mode # "LEGACY_BASELINE" /\ s \in Repaired \ Drafted -> "repair"
    [] mode = "ACCEPTED_QC" /\ s \in Drafted -> "final"
    [] OTHER -> "original"

-----------------------------------------------------------------------------
\* _assert_active_automatic_job_connection: every row write below refuses
\* work for a job that is cancelled or no longer named by the pipeline row
Active == pipe # "free" /\ status # "cancelled"
\* _require_active of the renderer: the delivery of a later revision only
\* watches the row of that revision, which a cancel of the job leaves alone
Watched == Rev(w.scene, w.mode) = 1
RenderActive_RevisionRow == TRUE
RenderActive == Watched => Active

At(pc) == up /\ w.pc = pc
GoTo(pc) == w' = [w EXCEPT !.pc = pc]
Leave == w' = Idle
Fails(err) == w' = [w EXCEPT !.pc = "error", !.err = err]
IsNext(s) == s \in w.todo /\ \A r \in w.todo : s <= r
Fault == faults < MaxFaults /\ faults' = faults + 1
NoEffectIntent == (\A s \in Scenes : step[s] = "absent") /\ assemble = "absent" /\ request = "absent"
Begun(st) == IF st = "absent" THEN "INTENT" ELSE st
Advanced(state) == IF Order[state] < Order[plan.state] THEN plan ELSE [plan EXCEPT !.state = state]
Running(p) == prompts[p].st \in {"live", "posted"}
\* a cancel removes a waiting prompt and interrupts a running one, or misses it
CancelSome(P) ==
  \E hit \in SUBSET {p \in P : Running(p)} :
    prompts' = [p \in Prompts |->
      IF p \notin hit THEN prompts[p]
      ELSE [prompts[p] EXCEPT !.st = IF @ = "live" THEN "gone" ELSE "failed"]]

-----------------------------------------------------------------------------
\* The tick: how finalization is entered, or entered again

\* no plan to resume: process_job, whose renders AutoPipeline models and which
\* finds every clip in place
Unplanned == pipe = "downloading_assets" \/ (pipe = "stitching" /\ plan = NoPlan)

ProcessJob ==
  /\ At("idle") /\ Active /\ Unplanned /\ enabled
  /\ status' = "running" /\ pipe' = "running_qc"
  /\ UNCHANGED <<plan, step, bound, assemble, request, files, world, enabled, w, g, up, faults, history>>

\* with quality control off it delivers, assembles and asks for the next job
\* without a plan and without a look at the one that may be there
ProcessJobLegacy ==
  /\ At("idle") /\ Active /\ Unplanned /\ ~enabled
  /\ status' = "running" /\ pipe' = "downloading_assets" /\ legacy' = TRUE
  /\ w' = [Idle EXCEPT !.pc = "scene", !.mode = "legacy", !.todo = IF DeliveryOn THEN Scenes ELSE {}]
  /\ UNCHANGED <<plan, step, bound, assemble, request, files, world, enabled, g, up, faults, late>>

Enter(mode) ==
  w' = [w EXCEPT !.mode = mode,
                 !.pc = IF mode = "LEGACY_BASELINE" /\ plan.mode = "ACCEPTED_QC"
                        THEN "discard" ELSE "ensure"]

\* run_epoch finds every scene accepted, or quality control off
RunEpoch ==
  /\ At("idle") /\ pipe = "running_qc" /\ Active
  /\ Enter(IF enabled THEN "ACCEPTED_QC" ELSE "LEGACY_BASELINE")
  /\ UNCHANGED <<rows, files, world, enabled, g, up, faults, history>>

ResumePlan ==
  /\ At("idle") /\ pipe = "stitching" /\ plan # NoPlan /\ Active
  /\ IF enabled THEN Enter("ACCEPTED_QC")
     ELSE IF plan.mode = "ACCEPTED_QC" /\ ~NoEffectIntent THEN GoTo("block")
     ELSE Enter("LEGACY_BASELINE")
  /\ UNCHANGED <<rows, files, world, enabled, g, up, faults, history>>

\* an exception of this thread is logged by the worker loop, which ticks again
Discard_AnyPlan ==
  /\ At("discard") /\ Active
  /\ plan' = NoPlan /\ GoTo("ensure")
  /\ UNCHANGED <<pipe, status, step, bound, assemble, request, files, world, enabled, g, up, faults, history>>

Discard ==
  /\ At("discard") /\ Active
  /\ IF plan.state \in {"PLAN_COMMITTED", "DELIVERING"} /\ NoEffectIntent
     THEN plan' = NoPlan /\ GoTo("ensure")
     ELSE Leave /\ UNCHANGED plan
  /\ UNCHANGED <<pipe, status, step, bound, assemble, request, files, world, enabled, g, up, faults, history>>

\* the plan of the other selection is immutable
EnsurePlan ==
  /\ At("ensure") /\ Active
  /\ plan' = IF plan = NoPlan THEN [mode |-> w.mode, state |-> "PLAN_COMMITTED"] ELSE plan
  /\ IF plan'.mode # w.mode THEN Leave
     ELSE GoTo(IF plan.state = "COMPLETED" THEN "release" ELSE "open")
  /\ UNCHANGED <<pipe, status, step, bound, assemble, request, files, world, enabled, g, up, faults, history>>

Transition ==
  /\ w.pc \in {"open", "block", "release", "assemblyfailed"} /\ up /\ Active
  /\ pipe' = CASE w.pc = "open" -> "stitching"      [] w.pc = "block" -> "qc_blocked"
               [] w.pc = "release" -> "waiting_for_grok" [] OTHER -> "error"
  /\ w' = CASE w.pc = "open" -> [w EXCEPT !.pc = IF w.mode = "legacy" THEN "encode" ELSE "delivering"]
            [] w.pc = "assemblyfailed" -> [w EXCEPT !.pc = "jobfailed"]
            [] OTHER -> Idle
  /\ UNCHANGED <<status, plan, step, bound, assemble, request, files, world, enabled, g, up, faults, history>>

\* advance_qc_finalization_plan never moves a plan backwards
PlanSteps == {"delivering", "delivered", "stitching", "stitched", "committed", "intent", "completed"}
AdvancePlan ==
  /\ w.pc \in PlanSteps /\ up /\ Active
  /\ plan' = Advanced(CASE w.pc = "delivering" -> "DELIVERING" [] w.pc = "delivered" -> "DELIVERED"
                        [] w.pc = "stitching" -> "STITCHING"   [] w.pc = "stitched" -> "STITCHED"
                        [] w.pc = "committed" -> "JOB_COMMITTED"
                        [] w.pc = "intent" -> "NEXT_REQUEST_INTENT" [] OTHER -> "COMPLETED")
  /\ w' = CASE w.pc = "delivering" -> [w EXCEPT !.pc = "scene", !.todo = Scenes]
            [] w.pc = "delivered" -> [w EXCEPT !.pc = "assemble"]
            [] w.pc = "stitching" -> [w EXCEPT !.pc = IF assemble # "COMPLETED" THEN "encode"
                                                      ELSE IF film.intact THEN "stitched"
                                                      ELSE "assemblyfailed"]
            [] w.pc = "stitched" -> [w EXCEPT !.pc = "jobsucceeded"]
            [] w.pc = "committed" -> [w EXCEPT !.pc = "request"]
            [] w.pc = "intent" -> [w EXCEPT !.pc = CASE request = "COMPLETED" -> "completed"
                                                     [] request = "AMBIGUOUS" -> "block"
                                                     [] OTHER -> "lookup"]
            [] OTHER -> [w EXCEPT !.pc = "release"]
  /\ UNCHANGED <<pipe, status, step, bound, assemble, request, files, world, enabled, g, up, faults, history>>

JobStatus ==
  /\ w.pc \in {"jobsucceeded", "jobfailed"} /\ up /\ Active
  /\ IF w.pc = "jobsucceeded"
     THEN status' = "succeeded" /\ GoTo(IF w.mode = "legacy" THEN "ask" ELSE "committed")
     ELSE status' = "failed" /\ Leave
  /\ UNCHANGED <<pipe, plan, step, bound, assemble, request, files, world, enabled, g, up, faults, history>>

-----------------------------------------------------------------------------
\* The delivery of a scene

BeginDelivery_SkipsAmbiguous(s) ==
  /\ At("scene") /\ w.mode \in Modes /\ IsNext(s) /\ Active
  /\ step' = [step EXCEPT ![s] = Begun(@)]
  /\ w' = CASE step[s] \in {"COMPLETED", "AMBIGUOUS"} -> [w EXCEPT !.todo = @ \ {s}]
            [] step[s] = "FAILED" -> [w EXCEPT !.pc = "block"]
            [] OTHER -> [w EXCEPT !.scene = s, !.pc = IF DeliveryOn THEN "dispatch" ELSE "confirm"]
  /\ UNCHANGED <<pipe, status, plan, bound, assemble, request, files, world, enabled, g, up, faults, history>>

BeginDelivery(s) ==
  /\ At("scene") /\ w.mode \in Modes /\ IsNext(s) /\ Active
  /\ step' = [step EXCEPT ![s] = Begun(@)]
  /\ w' = CASE step[s] = "COMPLETED" -> [w EXCEPT !.todo = @ \ {s}]
            [] step[s] \in {"AMBIGUOUS", "FAILED"} -> [w EXCEPT !.pc = "block"]
            [] OTHER -> [w EXCEPT !.scene = s, !.pc = IF DeliveryOn THEN "dispatch" ELSE "confirm"]
  /\ UNCHANGED <<pipe, status, plan, bound, assemble, request, files, world, enabled, g, up, faults, history>>

\* _deliver_i2v_batch: no step row, and no prompt id of an earlier attempt
LegacyScene(s) ==
  /\ At("scene") /\ w.mode = "legacy" /\ IsNext(s)
  /\ w' = [w EXCEPT !.pc = "deliver", !.scene = s, !.existing = NoPrompt, !.try = 1]
  /\ UNCHANGED <<rows, files, world, enabled, g, up, faults, history>>

AllDelivered ==
  /\ At("scene") /\ w.todo = {} /\ GoTo(IF w.mode = "legacy" THEN "open" ELSE "delivered")
  /\ UNCHANGED <<rows, files, world, enabled, g, up, faults, history>>

\* the last prompt id of the receipt is handed to the renderer
MarkDispatching ==
  /\ At("dispatch") /\ Active
  /\ IF step[w.scene] \in {"INTENT", "DISPATCHING"}
     THEN /\ step' = [step EXCEPT ![w.scene] = "DISPATCHING"]
          /\ w' = [w EXCEPT !.pc = "deliver", !.existing = bound[w.scene], !.try = 1]
     ELSE Leave /\ UNCHANGED step
  /\ UNCHANGED <<pipe, status, plan, bound, assemble, request, files, world, enabled, g, up, faults, history>>

File == <<w.scene, Rev(w.scene, w.mode)>>
Marked(st, p) == [marker EXCEPT ![File] = [st |-> st, prompt |-> p, clip |-> Clip(w.scene, w.mode)]]
Matches == marker[File].clip = Clip(w.scene, w.mode)

\* _require_active before the marker is read
CheckDelivery ==
  /\ At("deliver") /\ RenderActive /\ GoTo("reuse")
  /\ UNCHANGED <<rows, files, world, enabled, g, up, faults, history>>

Reclaims(p) ==
  /\ marker' = Marked("queued", p) /\ w' = [w EXCEPT !.pc = "history", !.prompt = p]
  /\ UNCHANGED prompts

ReuseMarker_ResendsUnknown ==
  /\ At("reuse") /\ Matches
  /\ \/ /\ marker[File].st = "sent" /\ GoTo("confirm") /\ UNCHANGED <<marker, prompts>>
     \/ marker[File].st = "queued" /\ Reclaims(marker[File].prompt)
     \/ /\ marker[File].st = "ambiguous" /\ Fails("AMBIGUOUS") /\ UNCHANGED <<marker, prompts>>
     \/ /\ marker[File].st = "dispatching"
        /\ IF w.existing # NoPrompt THEN Reclaims(w.existing)
           ELSE GoTo("start") /\ UNCHANGED <<marker, prompts>>
  /\ UNCHANGED <<rows, film, posts, sentModes, mails, extra, enabled, g, up, faults, history>>

\* _deliver_scene: the marker of an earlier attempt decides what may be sent
ReuseMarker ==
  /\ At("reuse") /\ Matches
  /\ \/ /\ marker[File].st = "sent" /\ GoTo("confirm") /\ UNCHANGED <<marker, prompts>>
     \/ marker[File].st = "queued" /\ Reclaims(marker[File].prompt)
     \/ /\ marker[File].st = "ambiguous" /\ Fails("AMBIGUOUS") /\ UNCHANGED <<marker, prompts>>
     \/ /\ marker[File].st = "dispatching"
        /\ IF w.existing # NoPrompt THEN Reclaims(w.existing)
           ELSE marker' = Marked("ambiguous", NoPrompt) /\ Fails("AMBIGUOUS") /\ UNCHANGED prompts
  /\ UNCHANGED <<rows, film, posts, sentModes, mails, extra, enabled, g, up, faults, history>>

\* a marker of another clip is not inherited: its prompt is cancelled
StartDelivery ==
  /\ At("reuse")
  /\ ~Matches \/ marker[File].st \in {"none", "failed"}
  /\ IF w.existing # NoPrompt THEN Reclaims(w.existing)
     ELSE /\ GoTo("start") /\ UNCHANGED marker
          /\ IF marker[File].st = "queued" THEN CancelSome({marker[File].prompt})
             ELSE UNCHANGED prompts
  /\ UNCHANGED <<rows, film, posts, sentModes, mails, extra, enabled, g, up, faults, history>>

\* _require_active once more; a cancel may come between it and the write
CheckDispatch ==
  /\ At("start") /\ RenderActive /\ GoTo("intend")
  /\ UNCHANGED <<rows, files, world, enabled, g, up, faults, history>>

WriteIntent ==
  /\ At("intend") /\ marker' = Marked("dispatching", NoPrompt) /\ GoTo("post")
  /\ late' = IF Watched /\ status = "cancelled" THEN late + 1 ELSE late
  /\ UNCHANGED <<rows, film, world, enabled, g, up, faults, legacy>>

\* queue_prompt, after the dispatch intent is on disk
QueuePrompt(p) ==
  /\ At("post") /\ prompts[p].st = "free"
  /\ prompts' = [prompts EXCEPT ![p] = [st |-> "live", scene |-> w.scene, mode |-> w.mode]]
  /\ w' = [w EXCEPT !.pc = "bind", !.prompt = p]
  /\ UNCHANGED <<rows, files, posts, sentModes, mails, extra, enabled, g, up, faults, history>>

QueueRejected ==
  /\ At("post") /\ marker' = Marked("failed", NoPrompt) /\ Fails("FAILED")
  /\ UNCHANGED <<rows, film, world, enabled, g, up, faults, history>>

\* the reply is lost; ComfyUI may or may not have taken the prompt
QueueAmbiguous ==
  /\ At("post") /\ marker' = Marked("ambiguous", NoPrompt) /\ Fails("AMBIGUOUS")
  /\ \/ UNCHANGED prompts
     \/ \E p \in Prompts : /\ prompts[p].st = "free"
                           /\ prompts' = [prompts EXCEPT ![p] =
                                [st |-> "live", scene |-> w.scene, mode |-> w.mode]]
  /\ UNCHANGED <<rows, film, posts, sentModes, mails, extra, enabled, g, up, faults, history>>

\* the legacy route keeps the prompt id in the row of the scene, which it does not read
Recorded == IF w.mode = "legacy" THEN bound ELSE [bound EXCEPT ![w.scene] = w.prompt]

\* bind_qc_finalization_step_prompt_id; refused, the marker names the prompt
BindPrompt ==
  /\ At("bind")
  /\ IF Active
     THEN bound' = Recorded /\ GoTo("mark") /\ UNCHANGED marker
     ELSE marker' = Marked("queued", w.prompt) /\ Fails("AMBIGUOUS") /\ UNCHANGED bound
  /\ UNCHANGED <<pipe, status, plan, step, assemble, request, film, world, enabled, g, up, faults, history>>

MarkQueued ==
  /\ At("mark") /\ marker' = Marked("queued", w.prompt)
  /\ IF RenderActive THEN GoTo("wait") ELSE Fails("AMBIGUOUS")
  /\ UNCHANGED <<rows, film, world, enabled, g, up, faults, history>>

SeeDone_AnyEnd ==
  /\ w.pc \in {"wait", "history", "rehistory"} /\ up
  /\ prompts[w.prompt].st \in {"done", "failed"} /\ GoTo("commit")
  /\ UNCHANGED <<rows, files, world, enabled, g, up, faults, history>>

\* wait_for_prompt, and the first look of _reclaim_delivery_prompt
SeeDone ==
  /\ w.pc \in {"wait", "history", "rehistory"} /\ up /\ prompts[w.prompt].st = "done"
  /\ GoTo("commit")
  /\ UNCHANGED <<rows, files, world, enabled, g, up, faults, history>>

SeeFailed ==
  /\ w.pc \in {"wait", "history"} /\ up /\ prompts[w.prompt].st = "failed" /\ GoTo("rehistory")
  /\ UNCHANGED <<rows, files, world, enabled, g, up, faults, history>>

PollFails ==
  /\ ComfyTrouble /\ Fault /\ up
  /\ \/ w.pc \in {"wait", "history"} /\ GoTo("rehistory")
     \/ w.pc = "rehistory" /\ GoTo("requeue")
     \/ w.pc \in {"queue", "requeue"} /\ Fails("AMBIGUOUS")
  /\ UNCHANGED <<rows, files, world, enabled, g, up, history>>

\* a prompt ComfyUI has lost is waited for until the deadline
PromptTimeout ==
  /\ At("wait")
  /\ \/ prompts[w.prompt].st = "gone" /\ UNCHANGED faults
     \/ ComfyTrouble /\ Running(w.prompt) /\ Fault
  /\ CancelSome({w.prompt}) /\ GoTo("rehistory")
  /\ UNCHANGED <<rows, files, posts, sentModes, mails, extra, enabled, g, up, history>>

NotInHistory ==
  /\ \/ At("history") /\ prompts[w.prompt].st \notin {"done", "failed"} /\ GoTo("queue")
     \/ At("rehistory") /\ prompts[w.prompt].st # "done" /\ GoTo("requeue")
  /\ UNCHANGED <<rows, files, world, enabled, g, up, faults, history>>

\* _reclaim_delivery_prompt: still queued, or never to be sent again
ReclaimQueued ==
  /\ At("queue") /\ Running(w.prompt) /\ Active
  /\ bound' = Recorded /\ GoTo("wait")
  /\ UNCHANGED <<pipe, status, plan, step, assemble, request, files, world, enabled, g, up, faults, history>>

ReclaimLost ==
  /\ At("queue") /\ ~Running(w.prompt)
  /\ marker' = Marked("ambiguous", w.prompt) /\ Fails("AMBIGUOUS")
  /\ UNCHANGED <<rows, film, world, enabled, g, up, faults, history>>

\* _resolve_delivery_prompt_error: absent from the queue means failed
ResolveError ==
  /\ At("requeue")
  /\ IF Running(w.prompt) THEN Fails("AMBIGUOUS") /\ UNCHANGED marker
     ELSE marker' = Marked("failed", w.prompt) /\ Fails("FAILED")
  /\ UNCHANGED <<rows, film, world, enabled, g, up, faults, history>>

CheckCommit ==
  /\ At("commit") /\ RenderActive /\ GoTo("sent")
  /\ UNCHANGED <<rows, files, world, enabled, g, up, faults, history>>

CommitSent ==
  /\ At("sent") /\ marker' = Marked("sent", w.prompt) /\ GoTo("confirm")
  /\ UNCHANGED <<rows, film, world, enabled, g, up, faults, history>>

RetryDelivery_Again ==
  /\ At("error") /\ w.err = "FAILED"
  /\ w' = [w EXCEPT !.pc = "deliver", !.try = 2]
  /\ UNCHANGED <<rows, files, world, enabled, g, up, faults, history>>

\* deliver_scene_video tries a failed delivery once more
RetryDelivery ==
  /\ At("error") /\ w.err = "FAILED" /\ w.try = 1
  /\ w' = [w EXCEPT !.pc = "deliver", !.try = 2]
  /\ UNCHANGED <<rows, files, world, enabled, g, up, faults, history>>

HoldDelivery ==
  /\ At("error") /\ w.mode \in Modes /\ ~(w.err = "FAILED" /\ w.try = 1) /\ Active
  /\ step' = [step EXCEPT ![w.scene] = w.err] /\ GoTo("block")
  /\ UNCHANGED <<pipe, status, plan, bound, assemble, request, files, world, enabled, g, up, faults, history>>

\* CONFIRMED, or NOT_CONFIGURED without a webhook
ConfirmDelivery ==
  /\ At("confirm") /\ w.mode \in Modes /\ Active
  /\ step' = [step EXCEPT ![w.scene] = "COMPLETED"]
  /\ w' = [w EXCEPT !.pc = "scene", !.todo = @ \ {w.scene}]
  /\ UNCHANGED <<pipe, status, plan, bound, assemble, request, files, world, enabled, g, up, faults, history>>

\* the legacy route goes on after a delivery that failed or is in doubt
LegacyNext ==
  /\ up /\ w.mode = "legacy"
  /\ w.pc = "confirm" \/ (w.pc = "error" /\ ~(w.err = "FAILED" /\ w.try = 1))
  /\ IF pipe = "free" THEN Leave ELSE w' = [w EXCEPT !.pc = "scene", !.todo = @ \ {w.scene}]
  /\ UNCHANGED <<rows, files, world, enabled, g, up, faults, history>>

-----------------------------------------------------------------------------
\* The film and the request for the next job

BeginAssembly ==
  /\ At("assemble") /\ Active
  /\ assemble' = Begun(assemble) /\ GoTo("stitching")
  /\ UNCHANGED <<pipe, status, plan, step, bound, request, files, world, enabled, g, up, faults, history>>

\* stitch_qc_plan adopts an assembly that a crash left behind
Encode ==
  /\ At("encode") /\ w.mode \in Modes /\ GoTo("publish")
  /\ film' = IF film.built THEN film ELSE [film EXCEPT !.built = TRUE]
  /\ UNCHANGED <<rows, marker, world, enabled, g, up, faults, history>>

AssemblyFails ==
  /\ At("encode") /\ w.mode \in Modes /\ ~film.built /\ GoTo("assemblyfailed")
  /\ UNCHANGED <<rows, files, world, enabled, g, up, faults, history>>

Publish ==
  /\ At("publish") /\ film' = [film EXCEPT !.published = TRUE, !.intact = TRUE] /\ GoTo("assembled")
  /\ UNCHANGED <<rows, marker, world, enabled, g, up, faults, history>>

\* stitch of the legacy route encodes straight onto the published path
LegacyStitch ==
  /\ At("encode") /\ w.mode = "legacy"
  /\ film' \in {film, [film EXCEPT !.intact = FALSE]}
  /\ GoTo("jobsucceeded") \/ GoTo("assemblyfailed")
  /\ UNCHANGED <<rows, marker, world, enabled, g, up, faults, history>>

CompleteAssembly ==
  /\ At("assembled") /\ Active
  /\ assemble' = "COMPLETED" /\ GoTo("stitched")
  /\ UNCHANGED <<pipe, status, plan, step, bound, request, files, world, enabled, g, up, faults, history>>

BeginRequest ==
  /\ At("request") /\ Active
  /\ request' = Begun(request) /\ GoTo("intent")
  /\ UNCHANGED <<pipe, status, plan, step, bound, assemble, files, world, enabled, g, up, faults, history>>

LookupSeen_AnyAnswer ==
  /\ At("lookup") /\ GoTo("record")
  /\ UNCHANGED <<rows, files, world, enabled, g, up, faults, history>>

\* request_was_sent: a mail may have left and not be visible yet
LookupSeen ==
  /\ At("lookup") /\ mails + extra > 0 /\ GoTo("record")
  /\ UNCHANGED <<rows, files, world, enabled, g, up, faults, history>>

LookupUnseen_Resends ==
  /\ At("lookup") /\ GoTo("claim")
  /\ UNCHANGED <<rows, files, world, enabled, g, up, faults, history>>

LookupUnseen ==
  /\ At("lookup") /\ GoTo(IF request = "DISPATCHING" THEN "mailheld" ELSE "claim")
  /\ UNCHANGED <<rows, files, world, enabled, g, up, faults, history>>

LookupFails ==
  /\ At("lookup")
  /\ IF request = "DISPATCHING" THEN GoTo("mailheld") /\ UNCHANGED faults ELSE Leave /\ Fault
  /\ UNCHANGED <<rows, files, world, enabled, g, up, history>>

ClaimRequest ==
  /\ At("claim") /\ Active /\ request' = "DISPATCHING" /\ GoTo("send")
  /\ UNCHANGED <<pipe, status, plan, step, bound, assemble, files, world, enabled, g, up, faults, history>>

SendRequest ==
  /\ At("send") /\ mails' = mails + 1 /\ GoTo("record")
  /\ UNCHANGED <<rows, files, prompts, posts, sentModes, extra, enabled, g, up, faults, history>>

\* the connection breaks before or after Gmail has taken the mail
SendFails ==
  /\ At("send") /\ mails' \in {mails, mails + 1} /\ GoTo("mailheld")
  /\ UNCHANGED <<rows, files, prompts, posts, sentModes, extra, enabled, g, up, faults, history>>

\* _request_next_job of the legacy route: no lookup and no record
LegacyAsk ==
  /\ At("ask") /\ extra' = extra + 1 /\ GoTo("release")
  /\ UNCHANGED <<rows, files, prompts, posts, sentModes, mails, enabled, g, up, faults, history>>

LegacyAskFails ==
  /\ At("ask") /\ extra' \in {extra, extra + 1} /\ Fault /\ Leave
  /\ UNCHANGED <<rows, files, prompts, posts, sentModes, mails, enabled, g, up, history>>

HoldRequest_Failed ==
  /\ At("mailheld") /\ Active /\ request' = "FAILED" /\ GoTo("block")
  /\ UNCHANGED <<pipe, status, plan, step, bound, assemble, files, world, enabled, g, up, faults, history>>

HoldRequest ==
  /\ At("mailheld") /\ Active /\ request' = "AMBIGUOUS" /\ GoTo("block")
  /\ UNCHANGED <<pipe, status, plan, step, bound, assemble, files, world, enabled, g, up, faults, history>>

RecordRequest ==
  /\ At("record") /\ Active /\ request' = "COMPLETED" /\ GoTo("completed")
  /\ UNCHANGED <<pipe, status, plan, step, bound, assemble, files, world, enabled, g, up, faults, history>>

\* every row write above, and the renderer's own check, raise once the job is
\* cancelled; the worker loop logs it
RowSteps == {"discard", "ensure", "open", "block", "release", "assemblyfailed", "jobsucceeded",
             "jobfailed", "dispatch", "assemble", "assembled", "request",
             "claim", "mailheld", "record"} \cup PlanSteps
LateWorkRejected ==
  /\ up
  /\ \/ w.pc \in RowSteps /\ ~Active
     \/ w.pc \in {"scene", "confirm"} /\ w.mode \in Modes /\ ~Active
     \/ w.pc = "error" /\ w.mode \in Modes /\ ~(w.err = "FAILED" /\ w.try = 1) /\ ~Active
     \/ w.pc = "queue" /\ Running(w.prompt) /\ ~Active
     \/ w.pc \in {"deliver", "start", "history", "commit"} /\ ~RenderActive
  /\ Leave
  /\ UNCHANGED <<rows, files, world, enabled, g, up, faults, history>>

-----------------------------------------------------------------------------
\* The GUI cancel: the job is abandoned, then its prompts are cancelled

ActiveStates == {"downloading_assets", "running_qc", "stitching"}
Abandoned == pipe' = "free" /\ status' = "cancelled"

GuiCancel ==
  /\ up /\ g = "idle" /\ pipe \in ActiveStates \cup {"qc_blocked", "error"}
  /\ Abandoned /\ g' = IF pipe \in ActiveStates THEN "prompts" ELSE "idle"
  /\ UNCHANGED <<plan, step, bound, assemble, request, files, world, enabled, w, up, faults, history>>

GuiCancelPrompts ==
  /\ up /\ g = "prompts" /\ g' = "idle" /\ CancelSome(Prompts)
  /\ UNCHANGED <<rows, files, posts, sentModes, mails, extra, enabled, w, up, faults, history>>

-----------------------------------------------------------------------------
\* ComfyUI

\* the last node of the delivery graph uploads the scene to Discord
PromptPosts(p) ==
  /\ prompts[p].st = "live"
  /\ prompts' = [prompts EXCEPT ![p].st = "posted"]
  /\ posts' = [posts EXCEPT ![prompts[p].scene] = @ + 1]
  /\ sentModes' = sentModes \cup {prompts[p].mode}
  /\ UNCHANGED <<rows, files, mails, extra, enabled, w, g, up, faults, history>>

PromptEnds(p) ==
  /\ prompts[p].st = "posted" /\ prompts' = [prompts EXCEPT ![p].st = "done"]
  /\ UNCHANGED <<rows, files, posts, sentModes, mails, extra, enabled, w, g, up, faults, history>>

PromptErrors(p) ==
  /\ prompts[p].st = "live"
  /\ prompts' = [prompts EXCEPT ![p].st = "failed"]
  /\ UNCHANGED <<rows, files, posts, sentModes, mails, extra, enabled, w, g, up, faults, history>>

\* a restarted server has neither queue nor history
ComfyRestart ==
  /\ ComfyTrouble /\ Fault /\ \E p \in Prompts : Running(p)
  /\ prompts' = [p \in Prompts |-> IF prompts[p].st = "free" THEN prompts[p]
                                   ELSE [prompts[p] EXCEPT !.st = "gone"]]
  /\ UNCHANGED <<rows, files, posts, sentModes, mails, extra, enabled, w, g, up, history>>

-----------------------------------------------------------------------------
\* Process crash and the launchers

Crash ==
  /\ up /\ Fault /\ up' = FALSE /\ Leave /\ g' = "idle"
  /\ UNCHANGED <<rows, files, world, enabled, history>>

Restart == ~up /\ up' = TRUE /\ enabled' \in IF MayToggle THEN BOOLEAN ELSE {enabled}

Launch ==
  /\ Restart
  /\ UNCHANGED <<rows, files, world, w, g, faults, history>>

\* the launcher offers to finish the saved job, or else to abandon it
SavedJob == Active /\ pipe # "waiting_for_grok"

LaunchFinish ==
  /\ Restart /\ SavedJob /\ pipe' = "downloading_assets"
  /\ UNCHANGED <<status, plan, step, bound, assemble, request, files, world, w, g, faults, history>>

LaunchAbandon ==
  /\ Restart /\ SavedJob /\ Abandoned /\ CancelSome(Prompts)
  /\ UNCHANGED <<plan, step, bound, assemble, request, files, posts, sentModes, mails, extra, w, g, faults, history>>

-----------------------------------------------------------------------------
Init ==
  /\ pipe = "running_qc" /\ status = "running" /\ plan = NoPlan
  /\ step = [s \in Scenes |-> "absent"] /\ bound = [s \in Scenes |-> NoPrompt]
  /\ assemble = "absent" /\ request = "absent"
  /\ marker = [f \in Scenes \X {1, 2} |-> NoMarker]
  /\ film = [built |-> FALSE, published |-> FALSE, intact |-> FALSE]
  /\ prompts = [p \in Prompts |-> Unused] /\ posts = [s \in Scenes |-> 0]
  /\ sentModes = {} /\ mails = 0 /\ extra = 0
  /\ enabled \in IF MayToggle THEN BOOLEAN ELSE {TRUE}
  /\ w = Idle /\ g = "idle" /\ up = TRUE /\ faults = 0
  /\ legacy = FALSE /\ late = 0

Tick == ProcessJob \/ ProcessJobLegacy \/ RunEpoch \/ ResumePlan \/ LateWorkRejected
PlanWork == Discard \/ EnsurePlan \/ Transition \/ AdvancePlan \/ JobStatus
Delivery ==
  \/ \E s \in Scenes : BeginDelivery(s) \/ LegacyScene(s)
  \/ AllDelivered \/ MarkDispatching
  \/ CheckDelivery \/ ReuseMarker \/ StartDelivery \/ CheckDispatch \/ WriteIntent
  \/ \E p \in Prompts : QueuePrompt(p)
  \/ QueueRejected \/ QueueAmbiguous \/ BindPrompt \/ MarkQueued
  \/ SeeDone \/ SeeFailed \/ PollFails \/ PromptTimeout \/ NotInHistory
  \/ ReclaimQueued \/ ReclaimLost \/ ResolveError \/ CheckCommit \/ CommitSent
  \/ RetryDelivery \/ HoldDelivery \/ ConfirmDelivery \/ LegacyNext
FilmAndMail ==
  \/ BeginAssembly \/ Encode \/ AssemblyFails \/ Publish \/ CompleteAssembly \/ LegacyStitch
  \/ BeginRequest \/ LookupSeen \/ LookupUnseen \/ LookupFails \/ ClaimRequest
  \/ SendRequest \/ SendFails \/ HoldRequest \/ RecordRequest \/ LegacyAsk \/ LegacyAskFails
Worker == Tick \/ PlanWork \/ Delivery \/ FilmAndMail
ComfyUI == ComfyRestart \/ \E p \in Prompts : PromptPosts(p) \/ PromptEnds(p) \/ PromptErrors(p)
Environment == GuiCancel \/ GuiCancelPrompts \/ Crash \/ Launch \/ LaunchFinish \/ LaunchAbandon

Next == Worker \/ ComfyUI \/ Environment

Spec == Init /\ [][Next]_vars

\* the worker loop ticks again after every return, ComfyUI works its queue off,
\* and somebody starts the program again
FairSpec ==
  /\ Spec /\ WF_vars(Worker) /\ WF_vars(Launch)
  /\ \A p \in Prompts : WF_vars(PromptPosts(p) \/ PromptEnds(p) \/ PromptErrors(p))

-----------------------------------------------------------------------------
\* Properties

TypeOK ==
  /\ pipe \in ActiveStates \cup {"qc_blocked", "error", "waiting_for_grok", "free"}
  /\ status \in {"running", "succeeded", "failed", "cancelled"}
  /\ plan \in [mode : Modes \cup {"none"}, state : PlanStates]
  /\ step \in [Scenes -> StepStates] /\ bound \in [Scenes -> Prompts \cup {NoPrompt}]
  /\ assemble \in {"absent", "INTENT", "COMPLETED"}
  /\ request \in StepStates \ {"FAILED"}
  /\ marker \in [Scenes \X {1, 2} -> Markers]
  /\ film \in [built : BOOLEAN, published : BOOLEAN, intact : BOOLEAN]
  /\ prompts \in [Prompts -> PromptRecords]
  /\ posts \in [Scenes -> Nat] /\ sentModes \subseteq Routes \cup {"none"}
  /\ mails \in Nat /\ extra \in Nat
  /\ enabled \in BOOLEAN /\ up \in BOOLEAN /\ g \in {"idle", "prompts"} /\ faults \in 0..MaxFaults
  /\ legacy \in BOOLEAN /\ late \in Nat

\* While delivery prompts are neither lost nor polled in vain, no crash, cancel,
\* rejected or unanswered POST makes Discord receive a scene twice.  The renderer of
\* a repaired scene does not see a cancel and takes its prompt for a failed one.
Once(s) == ~ComfyTrouble /\ s \notin Repaired
PostedAtMostOnce == \A s \in Scenes : Once(s) => posts[s] <= 1

\* Whatever has been posted was taken from the selection of the present plan, or by the
\* legacy route, however often quality control is switched off and on.
OneSelection == sentModes \subseteq {plan.mode, "legacy"}

\* Discord receives all scenes from one selection, and each scene once unless the legacy
\* route takes the job over.
PostsConsistent == OneSelection /\ (legacy \/ PostedAtMostOnce)

\* A scene whose delivery step is completed is never asked for again, not by the legacy
\* route either, as long as it is the same clip in both.
Asked(s) == {p \in Prompts : prompts[p].st # "free" /\ prompts[p].scene = s}
NotAskedAgain ==
  \A s \in Scenes \ (Repaired \cup Drafted) : step[s] = "COMPLETED" => Asked(s)' = Asked(s)
ConfirmedStands == [][NotAskedAgain]_vars

\* Once the job is cancelled, the renderer starts at most one more delivery of a first
\* revision: the one whose check of the job came before the cancel.
OneLateDelivery == late <= 1

\* Seen from outside, whatever happens: a scene is posted at most twice (a failed
\* delivery is tried once more, and never again by a later process), the film
\* appears once every scene is out, and the one request after the film.
Effects == INSTANCE FinalEffects
  WITH Items <- Scenes, Configured <- DeliveryOn, Limit <- [s \in Scenes |-> IF Once(s) THEN 1 ELSE 2],
       posted <- posts, published <- film.published, requests <- mails + extra
EffectsInOrder == Effects!Spec

\* The finalization never sends the request for the next job a second time.
MailedAtMostOnce == mails <= 1

\* A completed delivery step stands for a scene that Discord has received.
ConfirmedMeansPosted ==
  DeliveryOn => \A s \in Scenes : step[s] = "COMPLETED" => posts[s] >= 1

\* A delivery whose outcome is ambiguous or failed keeps the film unpublished and
\* the request unsent.
UnresolvedBlocks ==
  (\E s \in Scenes : step[s] \in {"AMBIGUOUS", "FAILED"}) => ~film.published /\ mails = 0

\* A completed plan has had every effect: each scene delivered, the film
\* published, the request sent.
CompletedIsDone ==
  plan.state = "COMPLETED" =>
    /\ \A s \in Scenes : step[s] = "COMPLETED"
    /\ film.published /\ mails + extra >= 1

\* The durable plan is well-typed and tells the truth about its effects: what it calls done
\* has happened, and what it cannot be sure of has held back everything after it.
PlanTruthful == TypeOK /\ ConfirmedMeansPosted /\ UnresolvedBlocks /\ CompletedIsDone

\* A job that is being finalized is eventually finished, held or given up.
FinalizationSettles == pipe = "stitching" ~> pipe # "stitching"
=============================================================================
