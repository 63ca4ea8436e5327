-------------------------- MODULE AutoPipelineProofs --------------------------
(***************************************************************************)
(* Proofs about AutoPipeline for every set of jobs, scenes and prompts and *)
(* every bound: type correctness, the ownership of the pipeline row, the   *)
(* rejection of late work, that no job is lost, that rows, files and       *)
(* prompts agree, that renders stay bounded and that work keeps its order. *)
(* The first half holds IInv, the second half adds to it, one layer at a   *)
(* time: Settling, PaidFor, RowsInv, PromptInv and BatchInv.               *)
(***************************************************************************)
EXTENDS AutoPipeline, FiniteSetTheorems, TLAPS

\* The worker steps that carry no job, and those that carry a scene of their job
NoJobSteps == {"idle", "send", "sent", "fatal", "fatalerror", "restart", "recover",
               "resume", "dead"}
SceneSteps == {"prompt", "lookup", "bind", "check", "wait", "harvest", "commit",
               "mark", "owner", "err", "errset"}

WorkerOK ==
  /\ w \in WorkerStates
  /\ w.pc \notin NoJobSteps => w.job \in Jobs
  /\ w.pc \in SceneSteps => w.scene \in Scenes
LivePromptsOwned ==
  \A p \in Prompts : Live(p) => prompts[p].job \in Jobs /\ prompts[p].scene \in Scenes

\* The inductive invariant: files and prompts are named by the worker's job and
\* scene, and the checks of late work compare with a job that is not cancelled.
IInv == TypeOK /\ WorkerOK /\ LivePromptsOwned /\ OwnerNotCancelled

USE DEF Stages, NoScene

-----------------------------------------------------------------------------
\* Helper lemmas

\* The empty pipeline row and the idle worker are typed.
LEMMA NoPipeTyped == NoPipe \in PipeRows
  BY DEF NoPipe, PipeRows, PipeStates, FreeStates

LEMMA IdleWorkerTyped == IdleWorker \in WorkerStates
  BY NoPipeTyped DEF IdleWorker, WorkerStates, WorkerSteps, SceneStates

\* A worker that leaves a job, and one that moves to its next step, is well formed.
LEMMA LeaveOK == ASSUME Leave PROVE WorkerOK'
<1>1. w' \in WorkerStates BY IdleWorkerTyped DEF Leave
<1>2. w'.pc = "idle" BY DEF Leave, IdleWorker
<1> QED BY <1>1, <1>2 DEF WorkerOK, NoJobSteps, SceneSteps

LEMMA GoToOK ==
  ASSUME w \in WorkerStates, NEW step \in WorkerSteps, GoTo(step),
         step \notin NoJobSteps => w.job \in Jobs,
         step \in SceneSteps => w.scene \in Scenes
  PROVE  WorkerOK'
<1>1. w' \in WorkerStates BY DEF GoTo, WorkerStates
<1>2. w'.pc = step /\ w'.job = w.job /\ w'.scene = w.scene BY DEF GoTo, WorkerStates
<1> QED BY <1>1, <1>2 DEF WorkerOK

\* Updates of one scene row keep its type.
LEMMA RowTyped ==
  ASSUME NEW r \in SceneRows, NEW x \in SceneStates
  PROVE  /\ [r EXCEPT !.state = x] \in SceneRows
         /\ [r EXCEPT !.prompt = NoPrompt] \in SceneRows
         /\ [r EXCEPT !.state = x, !.prompt = NoPrompt, !.stage = "none"] \in SceneRows
  BY DEF SceneRows

LEMMA SceneTyped ==
  ASSUME scene \in [Jobs -> [Scenes -> SceneRows]], NEW j \in Jobs, NEW s \in Scenes,
         NEW r \in SceneRows
  PROVE  [scene EXCEPT ![j] = [scene[j] EXCEPT ![s] = r]]
           \in [Jobs -> [Scenes -> SceneRows]]
  OBVIOUS

\* Rows of the scene table are typed, and stay so under single-row updates.
LEMMA RowAt ==
  ASSUME TypeOK, NEW j \in Jobs, NEW s \in Scenes
  PROVE  scene[j][s] \in SceneRows
  BY DEF TypeOK

LEMMA SceneStateTyped ==
  ASSUME scene \in [Jobs -> [Scenes -> SceneRows]], NEW j \in Jobs, NEW s \in Scenes,
         NEW x \in SceneStates
  PROVE  [scene EXCEPT ![j][s].state = x] \in [Jobs -> [Scenes -> SceneRows]]
<1>1. scene[j][s] \in SceneRows OBVIOUS
<1>2. [scene[j][s] EXCEPT !.state = x] \in SceneRows BY <1>1, RowTyped
<1>3. [scene EXCEPT ![j][s].state = x]
        = [scene EXCEPT ![j] = [scene[j] EXCEPT ![s] = [scene[j][s] EXCEPT !.state = x]]]
  BY Zenon
<1> QED BY <1>2, <1>3, SceneTyped

\* The rows that a finished, a begun and a retried stage leave are typed: a stage
\* begins only below MaxAttempts or as the resume of an attempt already counted.
LEMMA FinishedTyped ==
  ASSUME NEW r \in SceneRows, NEW t \in Stages PROVE Finished(r, t) \in SceneRows
  BY DEF Finished, SceneRows, SceneStates

LEMMA BegunTyped ==
  ASSUME NEW r \in SceneRows, NEW t \in Stages, Resumes(r, t) \/ r.tries[t] < MaxAttempts
  PROVE  BegunScene(r, t) \in SceneRows
<1> USE ConstantsAssumption
<1>0. "running" \in SceneStates BY DEF SceneStates
<1>1. CASE Resumes(r, t) BY <1>0, <1>1 DEF BegunScene, SceneRows
<1>2. CASE ~Resumes(r, t)
  <2>1. r.tries \in [Stages -> 0 .. MaxAttempts] /\ r.tries[t] < MaxAttempts
    BY <1>2 DEF SceneRows
  <2>2. [r.tries EXCEPT ![t] = @ + 1] \in [Stages -> 0 .. MaxAttempts] BY <2>1
  <2> DEFINE a == [r.tries EXCEPT ![t] = @ + 1]
  <2>3. BegunScene(r, t) = [state |-> "running", frame |-> r.frame, video |-> r.video,
                             tries |-> a, prompt |-> NoPrompt, stage |-> t]
    BY <1>2 DEF BegunScene, SceneRows
  <2> HIDE DEF a
  <2> QED BY <1>0, <2>2, <2>3 DEF SceneRows, a
<1> QED BY <1>1, <1>2

LEMMA RetriedTyped ==
  ASSUME NEW r \in SceneRows, NEW s \in Scenes PROVE Retried(r, s) \in SceneRows
<1> USE ConstantsAssumption
<1>0. "pending" \in SceneStates BY DEF SceneStates
<1>1. CASE r.state = "succeeded" BY <1>1 DEF Retried
<1>2. Renewed(r) \in SceneRows
  <2> DEFINE stage == IF r.frame THEN r.stage ELSE "t2i"
             tries == [t \in Stages |-> IF ~r.frame \/ t = stage THEN 0 ELSE r.tries[t]]
  <2>1. stage \in Stages \cup {"none"} /\ tries \in [Stages -> 0 .. MaxAttempts]
    BY DEF SceneRows
  <2>2. Renewed(r) = [r EXCEPT !.prompt = NoPrompt, !.stage = stage, !.tries = tries]
    BY DEF Renewed, SceneRows
  <2> HIDE DEF stage, tries
  <2> QED BY <2>1, <2>2 DEF SceneRows
<1> QED BY <1>0, <1>1, <1>2, RowTyped DEF Retried

\* Cancelling or losing prompts keeps the queue typed and its live prompts owned.
LEMMA CancelledTyped ==
  ASSUME prompts \in [Prompts -> PromptRecords], LivePromptsOwned, NEW P
  PROVE  /\ Cancelled(P) \in [Prompts -> PromptRecords]
         /\ \A p \in Prompts : Cancelled(P)[p].st = "live" =>
              Cancelled(P)[p].job \in Jobs /\ Cancelled(P)[p].scene \in Scenes
<1>1. ASSUME NEW p \in Prompts PROVE [prompts[p] EXCEPT !.st = "gone"] \in PromptRecords
  BY DEF PromptRecords
<1>2. Cancelled(P) \in [Prompts -> PromptRecords] BY <1>1 DEF Cancelled
<1>3. ASSUME NEW p \in Prompts, Cancelled(P)[p].st = "live"
      PROVE  Cancelled(P)[p] = prompts[p]
  BY <1>3 DEF Cancelled, PromptRecords
<1> QED BY <1>2, <1>3 DEF LivePromptsOwned, Live

LEMMA LostTyped ==
  ASSUME prompts \in [Prompts -> PromptRecords]
  PROVE  /\ Lost \in [Prompts -> PromptRecords]
         /\ \A p \in Prompts : Lost[p].st = "gone"
<1>1. ASSUME NEW p \in Prompts
      PROVE  [prompts[p] EXCEPT !.st = "gone"] \in PromptRecords
             /\ [prompts[p] EXCEPT !.st = "gone"].st = "gone"
  BY DEF PromptRecords
<1> QED BY <1>1 DEF Lost

LEMMA CancelledOK ==
  ASSUME TypeOK, LivePromptsOwned, NEW P, prompts' \in {prompts, Cancelled(P)}
  PROVE  prompts' \in [Prompts -> PromptRecords] /\ LivePromptsOwned'
<1>1. CASE prompts' = prompts
  BY <1>1 DEF TypeOK, LivePromptsOwned, Live
<1>2. CASE prompts' = Cancelled(P)
  BY <1>2, CancelledTyped DEF TypeOK, LivePromptsOwned, Live
<1> QED BY <1>1, <1>2

\* A queued prompt belongs to the job and the scene of the worker.
LEMMA EnqueuedOK ==
  ASSUME TypeOK, LivePromptsOwned, w \in WorkerStates, w.job \in Jobs, w.scene \in Scenes,
         NEW p \in Prompts, prompts' = Enqueued(p)
  PROVE  prompts' \in [Prompts -> PromptRecords] /\ LivePromptsOwned'
<1> DEFINE r == [st |-> "live", job |-> w.job, scene |-> w.scene, stage |-> w.stage]
<1>1. r \in PromptRecords /\ r.job \in Jobs /\ r.scene \in Scenes
  BY DEF PromptRecords, WorkerStates
<1>2. prompts' = [prompts EXCEPT ![p] = r] BY DEF Enqueued
<1> HIDE DEF r
<1> QED BY <1>1, <1>2 DEF TypeOK, LivePromptsOwned, Live

\* abandon_job leaves typed rows and a pipeline that no job owns.
LEMMA AbandonOK ==
  ASSUME TypeOK, OwnerNotCancelled, NEW j, Abandon(j)
  PROVE  /\ pipe' \in PipeRows /\ status' \in [Jobs -> JobStates]
         /\ scene' \in [Jobs -> [Scenes -> SceneRows]]
         /\ OwnerNotCancelled'
<1>1. ASSUME NEW r \in SceneRows
      PROVE  [r EXCEPT !.state = "cancelled", !.prompt = NoPrompt, !.stage = "none"]
               \in SceneRows
  BY RowTyped DEF SceneStates
<1>2. scene' \in [Jobs -> [Scenes -> SceneRows]]
  BY <1>1 DEF Abandon, TypeOK
<1>3. pipe' \in PipeRows /\ pipe'.job = NoJob
  BY NoPipeTyped DEF Abandon, NoPipe
<1>4. status' \in [Jobs -> JobStates]
  BY DEF Abandon, TypeOK, JobStates
<1> QED BY <1>2, <1>3, <1>4 DEF OwnerNotCancelled

\* handle_fatal keeps the worker well formed and never hands the pipeline to a
\* cancelled job.
LEMMA RecoveringOK ==
  ASSUME w \in WorkerStates, NEW step \in {"idle", "restart", "dead"}, Recovering(step)
  PROVE  WorkerOK'
<1>1. w.snap \in PipeRows BY DEF WorkerStates
<1>2. (IF step = "restart" THEN w.snap ELSE NoPipe) \in PipeRows BY <1>1, NoPipeTyped
<1> DEFINE snap == IF step = "restart" THEN w.snap ELSE NoPipe
<1>3. w' = [IdleWorker EXCEPT !.pc = step, !.snap = snap] BY DEF Recovering
<1> HIDE DEF snap
<1>4. step \in WorkerSteps BY DEF WorkerSteps
<1>5. w' \in WorkerStates /\ w'.pc = step
  BY <1>2, <1>3, <1>4, IdleWorkerTyped, ZenonT(40) DEF WorkerStates, snap
<1> QED BY <1>5 DEF WorkerOK, NoJobSteps, SceneSteps

LEMMA FatalOK ==
  ASSUME TypeOK, OwnerNotCancelled, NEW st \in PipeStates, NEW sc \in Scenes \cup {NoScene},
         NEW step \in {"idle", "restart"}, FatalTransition(st, sc, step), UNCHANGED status
  PROVE  pipe' \in PipeRows /\ OwnerNotCancelled' /\ WorkerOK'
<1>1. w \in WorkerStates BY DEF TypeOK
<1>2. CASE w.snap.job = NoJob
  <2>1. pipe' = [pipe EXCEPT !.state = st, !.scene = sc] /\ Recovering(step)
    BY <1>2 DEF FatalTransition
  <2>2. pipe' \in PipeRows /\ OwnerNotCancelled'
    BY <2>1 DEF TypeOK, PipeRows, OwnerNotCancelled
  <2> QED BY <1>1, <2>1, <2>2, RecoveringOK
<1>3. CASE /\ pipe' = [state |-> st, job |-> w.snap.job, scene |-> sc]
           /\ Recovering(step) /\ Owns(w.snap.job)
  <2>1. pipe' \in PipeRows /\ OwnerNotCancelled'
    BY <1>3 DEF PipeRows, OwnerNotCancelled, Owns
  <2> QED BY <1>1, <1>3, <2>1, RecoveringOK
<1>4. CASE Recovering("dead") /\ UNCHANGED pipe
  BY <1>1, <1>4, RecoveringOK DEF TypeOK, OwnerNotCancelled
<1> QED BY <1>2, <1>3, <1>4 DEF FatalTransition

\* Steps of the worker that change at most one other variable.
LEMMA WorkerOnly ==
  ASSUME IInv, WorkerOK', UNCHANGED <<rows, comfy, asked, g, up, faults>>
  PROVE  IInv'
  BY DEF IInv, TypeOK, WorkerOK, LivePromptsOwned, Live, OwnerNotCancelled, rows, comfy

LEMMA ScenesOnly ==
  ASSUME IInv, WorkerOK', scene' \in [Jobs -> [Scenes -> SceneRows]],
         UNCHANGED <<pipe, status, revision, comfy, asked, g, up, faults>>
  PROVE  IInv'
  BY DEF IInv, TypeOK, WorkerOK, LivePromptsOwned, Live, OwnerNotCancelled, comfy

LEMMA PipeOnly ==
  ASSUME IInv, WorkerOK', pipe' \in PipeRows, OwnerNotCancelled',
         UNCHANGED <<status, scene, revision, comfy, asked, g, up, faults>>
  PROVE  IInv'
  BY DEF IInv, TypeOK, WorkerOK, LivePromptsOwned, Live, comfy

LEMMA StatusOnly ==
  ASSUME IInv, WorkerOK', status' \in [Jobs -> JobStates], OwnerNotCancelled',
         UNCHANGED <<pipe, scene, revision, comfy, asked, g, up, faults>>
  PROVE  IInv'
  BY DEF IInv, TypeOK, WorkerOK, LivePromptsOwned, Live, comfy

LEMMA PromptsOnly ==
  ASSUME IInv, WorkerOK', prompts' \in [Prompts -> PromptRecords], LivePromptsOwned',
         UNCHANGED <<rows, files, comfyUp, asked, g, up, faults>>
  PROVE  IInv'
  BY DEF IInv, TypeOK, WorkerOK, OwnerNotCancelled, rows

-----------------------------------------------------------------------------
\* Initial states and steps

\* The initial state satisfies the inductive invariant.
LEMMA InitIInv == ASSUME Init PROVE IInv
<1> USE ConstantsAssumption
<1>1. TypeOK
  BY NoPipeTyped, IdleWorkerTyped DEF Init, TypeOK, SceneRows, PromptRecords,
    GuiStates, IdleGui, FreshScene, SceneStates, JobStates
<1>2. WorkerOK /\ LivePromptsOwned /\ OwnerNotCancelled
  BY IdleWorkerTyped DEF Init, WorkerOK, LivePromptsOwned, OwnerNotCancelled, Live,
    NoPipe, IdleWorker, NoJobSteps, SceneSteps
<1> QED BY <1>1, <1>2 DEF IInv

\* Polling, and a job up to its render batches, keep the invariant.
LEMMA TickIInv == ASSUME IInv, Tick PROVE IInv'
<1> USE ConstantsAssumption
<1>0. TypeOK /\ WorkerOK /\ LivePromptsOwned /\ OwnerNotCancelled BY DEF IInv
<1>1. ASSUME NEW j \in Jobs, PollAccept(j) PROVE IInv'
  <2>1. pipe' \in PipeRows
    BY <1>0, <1>1, NoPipeTyped DEF PollAccept, At, FreshScene, TypeOK, PipeRows,
      PipeStates, RenderStates, FreeStates, WorkerStates
  <2>2. status' \in [Jobs -> JobStates]
    BY <1>0, <1>1 DEF PollAccept, At, FreshScene, TypeOK, JobStates
  <2>3. scene' \in [Jobs -> [Scenes -> SceneRows]]
    BY <1>0, <1>1 DEF PollAccept, At, FreshScene, TypeOK, SceneRows, SceneStates
  <2>4. OwnerNotCancelled'
    BY <1>0, <1>1 DEF PollAccept, At, FreshScene, TypeOK, PipeRows, OwnerNotCancelled,
      NoPipe
  <2> QED BY <1>0, <1>1, <2>1, <2>2, <2>3, <2>4 DEF PollAccept, IInv, TypeOK, rows,
    comfy, WorkerOK, LivePromptsOwned, Live
<1>2. CASE PollNothing
  <2>1. WorkerOK'
    BY <1>0, <1>2, LeaveOK, GoToOK, IdleWorkerTyped, NoPipeTyped DEF PollNothing, At,
      TypeOK, WorkerOK, WorkerStates, WorkerSteps, NoJobSteps, SceneSteps
  <2> QED BY <1>2, <2>1, WorkerOnly DEF PollNothing
<1>3. CASE SendRequest
  <2>1. WorkerOK'
    BY <1>0, <1>3, LeaveOK, GoToOK DEF SendRequest, At, TypeOK, WorkerSteps,
      NoJobSteps, SceneSteps
  <2> QED BY <1>0, <1>3, <2>1 DEF SendRequest, IInv, TypeOK, rows, comfy, WorkerOK,
    LivePromptsOwned, Live, OwnerNotCancelled, WorkerStates
<1>4. CASE SendFails
  <2>1. WorkerOK'
    BY <1>0, <1>4, LeaveOK, GoToOK DEF SendFails, At, TypeOK, WorkerSteps, NoJobSteps,
      SceneSteps
  <2> QED BY <1>4, <2>1, WorkerOnly DEF SendFails
<1>5. CASE RequestSent
  <2>1. pipe' \in PipeRows /\ OwnerNotCancelled'
    <3>1. CASE w.job = NoJob
      <4>1. pipe' = [pipe EXCEPT !.state = "waiting_for_grok", !.scene = 0]
        BY <1>5, <3>1 DEF RequestSent
      <4> QED BY <1>0, <1>5, <4>1
        DEF RequestSent, TypeOK, PipeRows, PipeStates, FreeStates, OwnerNotCancelled
    <3>2. CASE w.job # NoJob
      BY <1>0, <1>5, <3>2 DEF RequestSent, Owns, TypeOK, PipeRows, PipeStates,
        FreeStates,
        WorkerStates, OwnerNotCancelled
    <3> QED BY <3>1, <3>2
  <2>2. WorkerOK'
    BY <1>5, LeaveOK DEF RequestSent
  <2> QED BY <1>5, <2>1, <2>2, PipeOnly DEF RequestSent
<1>6. CASE TickProcess
  <2>1. pipe.job \in Jobs
    BY <1>0, <1>6 DEF TickProcess, TypeOK, PipeRows
  <2>2. w' \in WorkerStates
    BY <1>6, <2>1, IdleWorkerTyped, ZenonT(40) DEF TickProcess, WorkerStates, WorkerSteps
  <2>3. w'.pc = "start" /\ w'.job = pipe.job
    BY <1>6, IdleWorkerTyped DEF TickProcess, WorkerStates
  <2>4. WorkerOK'
    BY <2>1, <2>2, <2>3 DEF WorkerOK, SceneSteps
  <2> QED BY <1>6, <2>1, <2>2, <2>3, <2>4, WorkerOnly DEF TickProcess
<1>7. CASE TickNoJob
  <2>1. WorkerOK'
    BY <1>0, <1>7, LeaveOK, GoToOK, IdleWorkerTyped, NoPipeTyped, ZenonT(40) DEF TickNoJob, At,
      TypeOK, WorkerOK, WorkerStates, WorkerSteps, NoJobSteps, SceneSteps
  <2> QED BY <1>7, <2>1, WorkerOnly DEF TickNoJob
<1>8. CASE StartJob
  <2>1. w.job \in Jobs
    BY <1>0, <1>8 DEF StartJob, At, WorkerOK, NoJobSteps
  <2>2. status' \in [Jobs -> JobStates]
    BY <1>0, <1>8, <2>1 DEF StartJob, At, Owns, TypeOK, JobStates
  <2>3. WorkerOK'
    BY <1>0, <1>8, <2>1, LeaveOK, GoToOK DEF StartJob, At, Owns, TypeOK, WorkerSteps,
      NoJobSteps, SceneSteps
  <2>4. OwnerNotCancelled'
    BY <1>0, <1>8, <2>1 DEF StartJob, At, Owns, TypeOK, PipeRows, OwnerNotCancelled,
      NoPipe
  <2> QED BY <1>8, <2>1, <2>2, <2>3, <2>4, StatusOnly DEF StartJob
<1>9. CASE EnsureRevisions
  <2>1. w.job \in Jobs
    BY <1>0, <1>9 DEF EnsureRevisions, At, WorkerOK, NoJobSteps
  <2>2. revision' \in [Jobs -> [Scenes -> SceneStates \cup {"absent"}]]
    BY <1>0, <1>9, <2>1 DEF EnsureRevisions, At, TypeOK, SceneRows, SceneStates,
      WorkerStates
  <2>3. WorkerOK'
    BY <1>0, <1>9, <2>1, LeaveOK, GoToOK DEF EnsureRevisions, At, TypeOK, WorkerSteps,
      NoJobSteps, SceneSteps
  <2> QED BY <1>0, <1>9, <2>1, <2>2, <2>3 DEF EnsureRevisions, IInv, TypeOK, rows,
    comfy, WorkerOK, LivePromptsOwned, Live, OwnerNotCancelled
<1>10. CASE BeginAssets
  <2>1. w.job \in Jobs
    BY <1>0, <1>10 DEF BeginAssets, At, WorkerOK, NoJobSteps
  <2>2. pipe' \in PipeRows
    BY <1>0, <1>10, <2>1, NoPipeTyped DEF BeginAssets, At, Transition, Owns, TypeOK,
      PipeRows, PipeStates, RenderStates, FreeStates, WorkerStates
  <2>3. WorkerOK'
    BY <1>0, <1>10, <2>1, LeaveOK, GoToOK DEF BeginAssets, At, Transition, Owns,
      TypeOK, WorkerSteps, NoJobSteps, SceneSteps
  <2>4. OwnerNotCancelled'
    BY <1>0, <1>10, <2>1 DEF BeginAssets, At, Transition, Owns, TypeOK, PipeRows,
      OwnerNotCancelled, NoPipe
  <2> QED BY <1>10, <2>1, <2>2, <2>3, <2>4, PipeOnly DEF BeginAssets
<1>11. CASE ResolveAssets
  <2>1. w.job \in Jobs
    BY <1>0, <1>11 DEF ResolveAssets, At, WorkerOK, NoJobSteps
  <2>2. ASSUME NEW F \in SUBSET Scenes,
              w' = [w EXCEPT !.pc = "assetfail", !.todo = F, !.failed = F]
       PROVE  WorkerOK'
    <3>1. w' \in WorkerStates BY <1>0, <2>2 DEF WorkerOK, WorkerStates, WorkerSteps
    <3>2. w'.pc = "assetfail" /\ w'.job = w.job BY <1>0, <2>2 DEF WorkerOK, WorkerStates
    <3> QED BY <2>1, <3>1, <3>2 DEF WorkerOK, SceneSteps
  <2>3. WorkerOK'
    BY <1>11, <2>2, LeaveOK DEF ResolveAssets, AssetFailures
  <2> QED BY <1>11, <2>1, <2>2, <2>3, WorkerOnly DEF ResolveAssets
<1>12. CASE AssetsDone
  <2>1. w.job \in Jobs
    BY <1>0, <1>12 DEF AssetsDone, At, WorkerOK, NoJobSteps
  <2>2. w' \in WorkerStates
    BY <1>12, <2>1, IdleWorkerTyped, ZenonT(40) DEF AssetsDone, WorkerStates, WorkerSteps
  <2>3. w'.pc \notin SceneSteps /\ w'.job \in Jobs
    BY <1>12, <2>1, IdleWorkerTyped DEF AssetsDone, WorkerStates, SceneSteps
  <2>4. WorkerOK'
    BY <2>2, <2>3 DEF WorkerOK
  <2> QED BY <1>12, <2>1, <2>2, <2>3, <2>4, WorkerOnly DEF AssetsDone
<1>13. CASE GiveUp
  <2>1. w.job \in Jobs
    BY <1>0, <1>13 DEF GiveUp, At, WorkerOK, NoJobSteps
  <2>2. pipe' \in PipeRows
    BY <1>0, <1>13, <2>1, NoPipeTyped DEF GiveUp, At, Transition, Owns, TypeOK,
      PipeRows, PipeStates, RenderStates, FreeStates, WorkerStates
  <2>3. WorkerOK'
    BY <1>0, <1>13, <2>1, LeaveOK, GoToOK DEF GiveUp, At, Transition, Owns, TypeOK,
      WorkerSteps, NoJobSteps, SceneSteps
  <2>4. OwnerNotCancelled'
    BY <1>0, <1>13, <2>1 DEF GiveUp, At, Transition, Owns, TypeOK, PipeRows,
      OwnerNotCancelled, NoPipe
  <2> QED BY <1>13, <2>1, <2>2, <2>3, <2>4, PipeOnly DEF GiveUp
<1>14. CASE GiveUpJob
  <2>1. w.job \in Jobs
    BY <1>0, <1>14 DEF GiveUpJob, At, WorkerOK, NoJobSteps
  <2>2. status' \in [Jobs -> JobStates]
    BY <1>0, <1>14, <2>1 DEF GiveUpJob, At, Owns, TypeOK, JobStates
  <2>3. WorkerOK'
    BY <1>0, <1>14, <2>1, LeaveOK, GoToOK DEF GiveUpJob, At, Owns, TypeOK, WorkerSteps,
      NoJobSteps, SceneSteps
  <2>4. OwnerNotCancelled'
    BY <1>0, <1>14, <2>1 DEF GiveUpJob, At, Owns, TypeOK, PipeRows, OwnerNotCancelled,
      NoPipe
  <2> QED BY <1>14, <2>1, <2>2, <2>3, <2>4, StatusOnly DEF GiveUpJob
<1>15. ASSUME NEW s \in Scenes, FailAssets(s) PROVE IInv'
  <2>1. w.job \in Jobs
    BY <1>0, <1>15 DEF FailAssets, At, WorkerOK, NoJobSteps
  <2>2. WorkerOK' /\ scene' \in [Jobs -> [Scenes -> SceneRows]]
    <3>1. CASE CanWrite(w.job, s)
      <4>1. /\ scene' = [scene EXCEPT ![w.job][s].state = "failed"]
            /\ w' = [w EXCEPT !.pc = "mark", !.todo = w.todo \ {s}, !.scene = s,
                              !.mark = "failed", !.back = "assetfail"]
        BY <1>15, <3>1 DEF FailAssets
      <4>2. scene' \in [Jobs -> [Scenes -> SceneRows]]
        BY <1>0, <2>1, <4>1, SceneStateTyped DEF TypeOK, SceneStates
      <4>3. w' \in WorkerStates /\ w'.scene = s /\ w'.job = w.job
        BY <1>0, <4>1, ZenonT(40) DEF WorkerOK, WorkerStates, WorkerSteps, SceneStates
      <4> QED BY <2>1, <4>2, <4>3 DEF WorkerOK
    <3>2. CASE ~CanWrite(w.job, s)
      BY <1>0, <1>15, <3>2, LeaveOK DEF FailAssets, TypeOK
    <3> QED BY <3>1, <3>2
  <2> QED BY <1>15, <2>1, <2>2, ScenesOnly DEF FailAssets
<1> QED BY <1>1, <1>2, <1>3, <1>4, <1>5, <1>6, <1>7, <1>8, <1>9, <1>10, <1>11, <1>12,
  <1>13, <1>14, <1>15 DEF Tick

\* The end of a batch moves the worker to the next batch or to the collection and
\* keeps its job.
LEMMA BatchStepTyped ==
  ASSUME NEW v \in WorkerStates
  PROVE  /\ [v EXCEPT !.stage = "i2v", !.pc = "batch"] \in WorkerStates
         /\ [v EXCEPT !.stage = "i2v", !.pc = "batch"].pc = "batch"
         /\ [v EXCEPT !.stage = "i2v", !.pc = "batch"].job = v.job
         /\ [v EXCEPT !.pc = "collect"] \in WorkerStates
         /\ [v EXCEPT !.pc = "collect"].pc = "collect"
         /\ [v EXCEPT !.pc = "collect"].job = v.job
<1>1. "batch" \in WorkerSteps /\ "collect" \in WorkerSteps
  BY DEF WorkerSteps
<1>2. "i2v" \in Stages
  BY DEF Stages
<1> QED BY <1>1, <1>2 DEF WorkerStates

\* The render batches and the end of a job keep the invariant.
LEMMA RenderIInv == ASSUME IInv, Render PROVE IInv'
<1> USE ConstantsAssumption
<1>0. TypeOK /\ WorkerOK /\ LivePromptsOwned /\ OwnerNotCancelled BY DEF IInv
<1>1. CASE OpenBatch
  <2>1. w.job \in Jobs
    BY <1>0, <1>1 DEF OpenBatch, At, WorkerOK, NoJobSteps
  <2>2. WorkerOK'
    BY <1>0, <1>1, <2>1, LeaveOK, GoToOK, IdleWorkerTyped, NoPipeTyped DEF OpenBatch,
      At, HasFile, TypeOK, WorkerOK, WorkerStates, WorkerSteps, NoJobSteps, SceneSteps
  <2> QED BY <1>1, <2>1, <2>2, WorkerOnly DEF OpenBatch
<1>2. CASE BatchDone
  <2>1. w.job \in Jobs
    BY <1>0, <1>2 DEF BatchDone, At, WorkerOK, NoJobSteps
  <2>2. w \in WorkerStates
    BY <1>0 DEF WorkerOK
  <2>4. w' \in WorkerStates /\ w'.pc \in {"batch", "collect"} /\ w'.job = w.job
    BY <1>2, <2>2, BatchStepTyped DEF BatchDone
  <2>5. WorkerOK'
    BY <2>1, <2>4 DEF WorkerOK, SceneSteps
  <2> QED BY <1>2, <2>1, <2>4, <2>5, WorkerOnly DEF BatchDone
<1>3. ASSUME NEW s \in Scenes, ReuseFrame(s) PROVE IInv'
  <2>1. w.job \in Jobs
    BY <1>0, <1>3 DEF ReuseFrame, At, WorkerOK, NoJobSteps
  <2>2. WorkerOK'
    BY <1>0, <1>3, <2>1, LeaveOK, GoToOK, IdleWorkerTyped, NoPipeTyped DEF ReuseFrame,
      At, IsNext, HasFile, TypeOK, WorkerOK, WorkerStates, WorkerSteps, NoJobSteps,
      SceneSteps, SceneStates
  <2> QED BY <1>3, <2>1, <2>2, WorkerOnly DEF ReuseFrame
<1>4. ASSUME NEW s \in Scenes, AdoptFile(s) PROVE IInv'
  <2>1. w.job \in Jobs
    BY <1>0, <1>4 DEF AdoptFile, At, WorkerOK, NoJobSteps
  <2>2. WorkerOK' /\ scene' \in [Jobs -> [Scenes -> SceneRows]]
    <3>1. CASE CanWrite(w.job, s)
      <4>1. /\ scene' = [scene EXCEPT ![w.job][s] = Finished(@, w.stage)]
            /\ w' = [w EXCEPT !.pc = "mark", !.scene = s, !.mark = Outcome(w.stage),
                              !.back = "owner"]
        BY <1>4, <3>1 DEF AdoptFile
      <4>2. Finished(scene[w.job][s], w.stage) \in SceneRows
        BY <1>0, <2>1, FinishedTyped DEF TypeOK, WorkerStates
      <4>3. scene' \in [Jobs -> [Scenes -> SceneRows]]
        BY <1>0, <2>1, <4>1, <4>2 DEF TypeOK
      <4>4. Outcome(w.stage) \in SceneStates BY DEF Outcome, SceneStates
      <4>5. w' \in WorkerStates /\ w'.scene = s /\ w'.job = w.job
        BY <1>0, <4>1, <4>4 DEF WorkerOK, WorkerStates, WorkerSteps
      <4> QED BY <2>1, <4>3, <4>5 DEF WorkerOK
    <3>2. CASE ~CanWrite(w.job, s)
      BY <1>0, <1>4, <3>2, LeaveOK DEF AdoptFile, TypeOK
    <3> QED BY <3>1, <3>2
  <2> QED BY <1>4, <2>1, <2>2, ScenesOnly DEF AdoptFile
<1>5. ASSUME NEW s \in Scenes, AttemptsSpent(s) PROVE IInv'
  <2>1. w.job \in Jobs
    BY <1>0, <1>5 DEF AttemptsSpent, At, WorkerOK, NoJobSteps, MustRender
  <2>2. WorkerOK'
    BY <1>0, <1>5, <2>1, LeaveOK, GoToOK, IdleWorkerTyped, NoPipeTyped DEF
      AttemptsSpent, MustRender, Resumes, At, IsNext, HasFile, TypeOK, WorkerOK,
      WorkerStates, WorkerSteps, NoJobSteps, SceneSteps
  <2> QED BY <1>5, <2>1, <2>2, WorkerOnly DEF AttemptsSpent
<1>6. ASSUME NEW s \in Scenes, BeginStage(s) PROVE IInv'
  <2>1. w.job \in Jobs
    BY <1>0, <1>6 DEF BeginStage, MustRender, At, WorkerOK, NoJobSteps
  <2>2. WorkerOK' /\ scene' \in [Jobs -> [Scenes -> SceneRows]] /\ pipe' \in PipeRows
           /\ OwnerNotCancelled'
    <3>1. CASE CanWrite(w.job, s)
      <4>1. /\ scene' = [scene EXCEPT ![w.job][s] = BegunScene(@, w.stage)]
            /\ pipe' = [state |-> RunningState[w.stage], job |-> w.job, scene |-> s]
            /\ w' = [w EXCEPT !.pc = "prompt", !.scene = s,
                       !.prompt = BegunScene(scene[w.job][s], w.stage).prompt]
        BY <1>6, <3>1 DEF BeginStage
      <4>2. scene[w.job][s] \in SceneRows /\ w.stage \in Stages
        BY <1>0, <2>1 DEF TypeOK, WorkerStates
      <4>3. BegunScene(scene[w.job][s], w.stage) \in SceneRows
        BY <1>6, <4>2, BegunTyped DEF BeginStage
      <4>4. scene' \in [Jobs -> [Scenes -> SceneRows]]
        BY <1>0, <2>1, <4>1, <4>3 DEF TypeOK
      <4>5. BegunScene(scene[w.job][s], w.stage).prompt \in Prompts \cup {NoPrompt}
        BY <4>3 DEF SceneRows
      <4>6. w' \in WorkerStates /\ w'.scene = s /\ w'.job = w.job
        BY <1>0, <4>1, <4>5 DEF WorkerOK, WorkerStates, WorkerSteps
      <4>7. pipe' \in PipeRows
        BY <2>1, <4>1, <4>2 DEF PipeRows, RunningState, PipeStates, RenderStates
      <4>8. OwnerNotCancelled'
        BY <1>6, <3>1, <4>1 DEF BeginStage, CanWrite, Owns, OwnerNotCancelled
      <4> QED BY <2>1, <4>4, <4>6, <4>7, <4>8 DEF WorkerOK
    <3>2. CASE ~CanWrite(w.job, s)
      BY <1>0, <1>6, <3>2, LeaveOK DEF BeginStage, TypeOK, OwnerNotCancelled
    <3> QED BY <3>1, <3>2
  <2> QED BY <1>0, <1>6, <2>1, <2>2 DEF BeginStage, IInv, TypeOK, rows, comfy,
    WorkerOK, LivePromptsOwned, Live, OwnerNotCancelled
<1>7. CASE LookupHistory
  <2>1. w.job \in Jobs /\ w.scene \in Scenes
    BY <1>0, <1>7 DEF LookupHistory, At, WorkerOK, NoJobSteps, SceneSteps
  <2>2. WorkerOK'
    BY <1>0, <1>7, <2>1, LeaveOK, GoToOK DEF LookupHistory, At, TypeOK, WorkerSteps,
      NoJobSteps, SceneSteps
  <2> QED BY <1>7, <2>1, <2>2, WorkerOnly DEF LookupHistory
<1>8. CASE LookupQueue
  <2>1. w.job \in Jobs /\ w.scene \in Scenes
    BY <1>0, <1>8 DEF LookupQueue, At, WorkerOK, NoJobSteps, SceneSteps
  <2>2. WorkerOK'
    BY <1>0, <1>8, <2>1, LeaveOK, GoToOK, IdleWorkerTyped, NoPipeTyped, ZenonT(40) DEF LookupQueue,
      At, Live, TypeOK, WorkerOK, WorkerStates, WorkerSteps, NoJobSteps, SceneSteps
  <2> QED BY <1>8, <2>1, <2>2, WorkerOnly DEF LookupQueue
<1>9. CASE QueueRejected
  <2>1. w.job \in Jobs /\ w.scene \in Scenes
    BY <1>0, <1>9 DEF QueueRejected, At, WorkerOK, NoJobSteps, SceneSteps
  <2>2. WorkerOK'
    BY <1>0, <1>9, <2>1, LeaveOK, GoToOK, IdleWorkerTyped, NoPipeTyped, ZenonT(40) DEF
      QueueRejected, At, MustQueue, TypeOK, WorkerOK, WorkerStates, WorkerSteps,
      NoJobSteps, SceneSteps
  <2> QED BY <1>9, <2>1, <2>2, WorkerOnly DEF QueueRejected
<1>10. ASSUME NEW p \in Prompts, QueuePrompt(p) PROVE IInv'
  <2>1. w.job \in Jobs /\ w.scene \in Scenes
    BY <1>0, <1>10 DEF QueuePrompt, At, WorkerOK, NoJobSteps, SceneSteps
  <2>2. w' \in WorkerStates /\ w'.job = w.job /\ w'.scene = w.scene
    BY <1>0, <1>10 DEF QueuePrompt, WorkerOK, WorkerStates, WorkerSteps
  <2>3. WorkerOK'
    BY <2>1, <2>2 DEF WorkerOK
  <2>4. prompts' \in [Prompts -> PromptRecords] /\ LivePromptsOwned'
    BY <1>0, <1>10, <2>1, EnqueuedOK DEF QueuePrompt, WorkerOK
  <2> QED BY <1>10, <2>1, <2>2, <2>3, <2>4, PromptsOnly DEF QueuePrompt
<1>11. ASSUME NEW p \in Prompts, QueueAmbiguous(p) PROVE IInv'
  <2>1. w.job \in Jobs /\ w.scene \in Scenes
    BY <1>0, <1>11 DEF QueueAmbiguous, At, WorkerOK, NoJobSteps, SceneSteps
  <2>2. w' \in WorkerStates /\ w'.job = w.job /\ w'.scene = w.scene
    BY <1>0, <1>11 DEF QueueAmbiguous, WorkerOK, WorkerStates, WorkerSteps
  <2>3. WorkerOK'
    BY <2>1, <2>2 DEF WorkerOK
  <2>4. prompts' \in [Prompts -> PromptRecords] /\ LivePromptsOwned'
    BY <1>0, <1>11, <2>1, EnqueuedOK DEF QueueAmbiguous, WorkerOK
  <2>5. faults' \in 0 .. MaxFaults
    BY <1>0, <1>11 DEF QueueAmbiguous, Fault, TypeOK
  <2> QED BY <1>0, <1>11, <2>1, <2>2, <2>3, <2>4, <2>5 DEF QueueAmbiguous, IInv,
    TypeOK, rows, comfy, WorkerOK, LivePromptsOwned, Live, OwnerNotCancelled
<1>12. CASE BindPrompt
  <2>1. w.job \in Jobs /\ w.scene \in Scenes
    BY <1>0, <1>12 DEF BindPrompt, At, WorkerOK, NoJobSteps, SceneSteps
  <2>2. scene[w.job][w.scene] \in SceneRows
    BY <1>0, <2>1, RowAt
  <2>3. WorkerOK' /\ scene' \in [Jobs -> [Scenes -> SceneRows]]
           /\ prompts' \in [Prompts -> PromptRecords] /\ LivePromptsOwned'
    <3>1. CASE CanWrite(w.job, w.scene)
      <4>1. /\ scene' = [scene EXCEPT ![w.job][w.scene] =
                             [@ EXCEPT !.prompt = w.prompt, !.stage = w.stage]]
            /\ GoTo("check") /\ UNCHANGED prompts
        BY <1>12, <3>1 DEF BindPrompt
      <4>2. [scene[w.job][w.scene] EXCEPT !.prompt = w.prompt, !.stage = w.stage]
              \in SceneRows
        BY <1>0, <2>2 DEF WorkerOK, WorkerStates, SceneRows
      <4>3. scene' \in [Jobs -> [Scenes -> SceneRows]]
        BY <1>0, <2>1, <4>1, <4>2 DEF TypeOK
      <4>4. WorkerOK'
        BY <1>0, <2>1, <4>1, GoToOK DEF WorkerOK, WorkerSteps
      <4> QED BY <1>0, <4>1, <4>3, <4>4 DEF TypeOK, LivePromptsOwned, Live
    <3>2. CASE ~CanWrite(w.job, w.scene)
      <4>1. Leave /\ UNCHANGED scene /\ prompts' \in {prompts, Cancelled({w.prompt})}
        BY <1>12, <3>2 DEF BindPrompt
      <4> QED BY <1>0, <4>1, LeaveOK, CancelledOK DEF TypeOK
    <3> QED BY <3>1, <3>2
  <2> QED BY <1>0, <1>12, <2>1, <2>2, <2>3 DEF BindPrompt, IInv, TypeOK, rows, comfy,
    WorkerOK, LivePromptsOwned, Live, OwnerNotCancelled
<1>13. CASE CheckOwner
  <2>1. w.job \in Jobs /\ w.scene \in Scenes
    BY <1>0, <1>13 DEF CheckOwner, At, WorkerOK, NoJobSteps, SceneSteps
  <2>2. WorkerOK'
    BY <1>0, <1>13, <2>1, GoToOK DEF CheckOwner, WorkerOK, WorkerSteps
  <2>3. prompts' \in {prompts, Cancelled({w.prompt})}
    BY <1>13 DEF CheckOwner
  <2>4. prompts' \in [Prompts -> PromptRecords] /\ LivePromptsOwned'
    BY <1>0, <2>3, CancelledOK
  <2> QED BY <1>13, <2>1, <2>2, <2>3, <2>4, PromptsOnly DEF CheckOwner
<1>14. CASE PromptSucceeded
  <2>1. w.job \in Jobs /\ w.scene \in Scenes
    BY <1>0, <1>14 DEF PromptSucceeded, At, WorkerOK, NoJobSteps, SceneSteps
  <2>2. WorkerOK'
    BY <1>0, <1>14, <2>1, LeaveOK, GoToOK, IdleWorkerTyped, NoPipeTyped, ZenonT(40) DEF
      PromptSucceeded, At, TypeOK, WorkerOK, WorkerStates, WorkerSteps, NoJobSteps,
      SceneSteps
  <2> QED BY <1>14, <2>1, <2>2, WorkerOnly DEF PromptSucceeded
<1>15. CASE PromptFailed
  <2>1. w.job \in Jobs /\ w.scene \in Scenes
    BY <1>0, <1>15 DEF PromptFailed, At, WorkerOK, NoJobSteps, SceneSteps
  <2>2. WorkerOK'
    BY <1>0, <1>15, <2>1, LeaveOK, GoToOK DEF PromptFailed, At, TypeOK, WorkerSteps,
      NoJobSteps, SceneSteps
  <2> QED BY <1>15, <2>1, <2>2, WorkerOnly DEF PromptFailed
<1>16. CASE PromptTimeout
  <2>1. w.job \in Jobs /\ w.scene \in Scenes
    BY <1>0, <1>16 DEF PromptTimeout, At, WorkerOK, NoJobSteps, SceneSteps
  <2>2. prompts' \in [Prompts -> PromptRecords]
    BY <1>0, <1>16, <2>1 DEF PromptTimeout, At, Cancelled, Live, TypeOK, PromptRecords,
      WorkerStates
  <2>3. WorkerOK'
    BY <1>0, <1>16, <2>1, LeaveOK, GoToOK DEF PromptTimeout, At, Cancelled, Live,
      TypeOK, WorkerSteps, NoJobSteps, SceneSteps
  <2>4. LivePromptsOwned'
    BY <1>0, <1>16, <2>1 DEF PromptTimeout, At, Cancelled, Live, TypeOK, PromptRecords,
      LivePromptsOwned
  <2> QED BY <1>16, <2>1, <2>2, <2>3, <2>4, PromptsOnly DEF PromptTimeout
<1>17. CASE PollHiccup
  <2>1. w.job \in Jobs /\ w.scene \in Scenes
    BY <1>0, <1>17 DEF PollHiccup, At, WorkerOK, NoJobSteps, SceneSteps
  <2>2. WorkerOK'
    BY <1>0, <1>17, <2>1, LeaveOK, GoToOK DEF PollHiccup, At, Fault, TypeOK,
      WorkerSteps, NoJobSteps, SceneSteps
  <2> QED BY <1>0, <1>17, <2>1, <2>2 DEF PollHiccup, IInv, TypeOK, rows, comfy,
    WorkerOK, LivePromptsOwned, Live, OwnerNotCancelled, Fault
<1>18. CASE ComfyUnreachable
  <2>1. w.job \in Jobs /\ w.scene \in Scenes
    BY <1>0, <1>18 DEF ComfyUnreachable, At, WorkerOK, NoJobSteps, SceneSteps
  <2>2. WorkerOK'
    BY <1>0, <1>18, <2>1, LeaveOK, GoToOK DEF ComfyUnreachable, TypeOK, WorkerSteps,
      NoJobSteps, SceneSteps
  <2> QED BY <1>18, <2>1, <2>2, WorkerOnly DEF ComfyUnreachable
<1>19. CASE HarvestClip
  <2>1. w.job \in Jobs /\ w.scene \in Scenes
    BY <1>0, <1>19 DEF HarvestClip, At, WorkerOK, NoJobSteps, SceneSteps
  <2>2. WorkerOK'
    BY <1>0, <1>19, <2>1, LeaveOK, GoToOK DEF HarvestClip, At, TypeOK, WorkerSteps,
      NoJobSteps, SceneSteps
  <2> QED BY <1>0, <1>19, <2>1, <2>2 DEF HarvestClip, IInv, TypeOK, rows, comfy,
    WorkerOK, LivePromptsOwned, Live, OwnerNotCancelled, PromptRecords
<1>20. CASE HarvestFails
  <2>1. w.job \in Jobs /\ w.scene \in Scenes
    BY <1>0, <1>20 DEF HarvestFails, At, WorkerOK, NoJobSteps, SceneSteps
  <2>2. WorkerOK'
    BY <1>0, <1>20, <2>1, LeaveOK, GoToOK DEF HarvestFails, At, TypeOK, WorkerSteps,
      NoJobSteps, SceneSteps
  <2> QED BY <1>20, <2>1, <2>2, WorkerOnly DEF HarvestFails
<1>21. CASE CommitStage
  <2>1. w.job \in Jobs /\ w.scene \in Scenes
    BY <1>0, <1>21 DEF CommitStage, At, WorkerOK, NoJobSteps, SceneSteps
  <2>2. scene[w.job][w.scene] \in SceneRows
    BY <1>0, <2>1, RowAt
  <2>3. WorkerOK' /\ scene' \in [Jobs -> [Scenes -> SceneRows]]
    <3>1. CASE CanWrite(w.job, w.scene)
      <4>1. /\ scene' = [scene EXCEPT ![w.job][w.scene] = Finished(@, w.stage)]
            /\ w' = [w EXCEPT !.pc = "mark", !.mark = Outcome(w.stage), !.back = "owner",
                              !.prompt = NoPrompt]
        BY <1>21, <3>1 DEF CommitStage
      <4>2. Finished(scene[w.job][w.scene], w.stage) \in SceneRows
        BY <1>0, <2>2, FinishedTyped DEF WorkerOK, WorkerStates
      <4>3. scene' \in [Jobs -> [Scenes -> SceneRows]]
        BY <1>0, <2>1, <4>1, <4>2 DEF TypeOK
      <4>4. Outcome(w.stage) \in SceneStates BY DEF Outcome, SceneStates
      <4>5. w' \in WorkerStates /\ w'.scene = w.scene /\ w'.job = w.job
        BY <1>0, <4>1, <4>4 DEF WorkerOK, WorkerStates, WorkerSteps
      <4> QED BY <2>1, <4>3, <4>5 DEF WorkerOK
    <3>2. CASE ~CanWrite(w.job, w.scene)
      BY <1>0, <1>21, <3>2, LeaveOK DEF CommitStage, TypeOK
    <3> QED BY <3>1, <3>2
  <2> QED BY <1>21, <2>1, <2>2, <2>3, ScenesOnly DEF CommitStage
<1>22. CASE MarkRevision
  <2>1. w.job \in Jobs /\ w.scene \in Scenes
    BY <1>0, <1>22 DEF MarkRevision, At, WorkerOK, NoJobSteps, SceneSteps
  <2>2. w.back \in {"owner", "assetfail"} /\ w.mark \in SceneStates
    BY <1>0 DEF WorkerOK, WorkerStates
  <2>3. WorkerOK'
    BY <1>0, <1>22, <2>1, <2>2, LeaveOK, GoToOK DEF MarkRevision, WorkerOK, WorkerSteps
  <2>4. revision' \in [Jobs -> [Scenes -> SceneStates \cup {"absent"}]]
    BY <1>0, <1>22, <2>1, <2>2, SMTT(30) DEF MarkRevision, TypeOK
  <2> QED BY <1>0, <1>22, <2>1, <2>2, <2>3, <2>4 DEF MarkRevision, IInv, TypeOK, rows,
    comfy, WorkerOK, LivePromptsOwned, Live, OwnerNotCancelled
<1>23. CASE CheckBatchOwner
  <2>1. w.job \in Jobs
    BY <1>0, <1>23 DEF CheckBatchOwner, At, WorkerOK, NoJobSteps
  <2>2. WorkerOK'
    <3>1. CASE pipe.job = w.job
      <4>1. w' = [IdleWorker EXCEPT !.pc = "scene", !.job = w.job, !.stage = w.stage,
                                    !.todo = w.todo \ {w.scene}]
        BY <1>23, <3>1 DEF CheckBatchOwner
      <4>2. w' \in WorkerStates /\ w'.pc = "scene" /\ w'.job = w.job
        BY <1>0, <4>1, IdleWorkerTyped DEF WorkerOK, WorkerStates, WorkerSteps
      <4> QED BY <2>1, <4>2 DEF WorkerOK, SceneSteps
    <3> QED BY <1>23, <3>1, LeaveOK DEF CheckBatchOwner
  <2> QED BY <1>23, <2>1, <2>2, WorkerOnly DEF CheckBatchOwner
<1>24. CASE StageError
  <2>1. w.job \in Jobs /\ w.scene \in Scenes
    BY <1>0, <1>24 DEF StageError, At, WorkerOK, NoJobSteps, SceneSteps
  <2>2. scene[w.job][w.scene] \in SceneRows
    BY <1>0, <2>1, RowAt
  <2>3. WorkerOK' /\ scene' \in [Jobs -> [Scenes -> SceneRows]]
    <3>1. CASE comfyUp /\ CanWrite(w.job, w.scene)
      <4>1. /\ scene' = [scene EXCEPT ![w.job][w.scene].prompt = NoPrompt]
            /\ w' = [w EXCEPT !.pc = "errset", !.prompt = NoPrompt]
        BY <1>24, <3>1 DEF StageError
      <4>2. [scene[w.job][w.scene] EXCEPT !.prompt = NoPrompt] \in SceneRows
        BY <2>2, RowTyped DEF SceneStates
      <4>3. scene' \in [Jobs -> [Scenes -> SceneRows]]
        BY <1>0, <2>1, <4>1, <4>2 DEF TypeOK
      <4>4. w' \in WorkerStates /\ w'.scene = w.scene /\ w'.job = w.job
        BY <1>0, <4>1 DEF WorkerOK, WorkerStates, WorkerSteps
      <4> QED BY <2>1, <4>3, <4>4 DEF WorkerOK
    <3>2. CASE ~(comfyUp /\ CanWrite(w.job, w.scene))
      <4>1. UNCHANGED scene /\ (GoTo("fatal") \/ GoTo("owner"))
        BY <1>24, <3>2 DEF StageError
      <4> QED BY <1>0, <2>1, <4>1, GoToOK DEF TypeOK, WorkerOK, WorkerSteps
    <3> QED BY <3>1, <3>2
  <2> QED BY <1>24, <2>1, <2>2, <2>3, ScenesOnly DEF StageError
<1>25. CASE RetryStage
  <2>1. w.job \in Jobs /\ w.scene \in Scenes
    BY <1>0, <1>25 DEF RetryStage, At, WorkerOK, NoJobSteps, SceneSteps
  <2>2. WorkerOK' /\ scene' \in [Jobs -> [Scenes -> SceneRows]]
    <3>1. CASE UNCHANGED scene /\ Leave
      BY <1>0, <3>1, LeaveOK DEF TypeOK
    <3>2. CASE /\ scene' = [scene EXCEPT ![w.job][w.scene].state = "pending"]
              /\ GoTo("scene")
      BY <1>0, <2>1, <3>2, SceneStateTyped, GoToOK
        DEF TypeOK, SceneStates, WorkerOK, WorkerSteps
    <3>3. CASE /\ scene' = [scene EXCEPT ![w.job][w.scene].state = "failed"]
              /\ w' = [w EXCEPT !.pc = "mark", !.mark = "failed", !.back = "owner"]
      <4>1. scene' \in [Jobs -> [Scenes -> SceneRows]]
        BY <1>0, <2>1, <3>3, SceneStateTyped DEF TypeOK, SceneStates
      <4>2. w' \in WorkerStates /\ w'.scene = w.scene /\ w'.job = w.job
        BY <1>0, <3>3 DEF WorkerOK, WorkerStates, WorkerSteps, SceneStates
      <4> QED BY <2>1, <4>1, <4>2 DEF WorkerOK
    <3> QED BY <1>25, <3>1, <3>2, <3>3 DEF RetryStage
  <2> QED BY <1>25, <2>1, <2>2, ScenesOnly DEF RetryStage
<1>26. CASE CollectScenes
  <2>1. w.job \in Jobs
    BY <1>0, <1>26 DEF CollectScenes, At, WorkerOK, NoJobSteps
  <2>2. ASSUME NEW pc \in {"giveup", "stitching"}, NEW c \in BOOLEAN,
              w' = [w EXCEPT !.pc = pc, !.complete = c]
       PROVE  w' \in WorkerStates /\ w'.pc = pc /\ w'.job = w.job
    BY <1>0, <2>2 DEF WorkerOK, WorkerStates, WorkerSteps
  <2>3. (Succeeded(w.job) = Scenes) \in BOOLEAN
    OBVIOUS
  <2>4. w' \in WorkerStates /\ w'.pc \in {"giveup", "stitching"} /\ w'.job = w.job
    BY <1>26, <2>2, <2>3 DEF CollectScenes
  <2>5. WorkerOK'
    BY <2>1, <2>4 DEF WorkerOK, SceneSteps
  <2> QED BY <1>26, <2>1, <2>2, <2>3, <2>4, <2>5, WorkerOnly DEF CollectScenes
<1>27. CASE BeginStitch
  <2>1. w.job \in Jobs
    BY <1>0, <1>27 DEF BeginStitch, At, WorkerOK, NoJobSteps
  <2>2. pipe' \in PipeRows
    BY <1>0, <1>27, <2>1, NoPipeTyped DEF BeginStitch, At, Transition, Owns, TypeOK,
      PipeRows, PipeStates, RenderStates, FreeStates, WorkerStates
  <2>3. WorkerOK'
    BY <1>0, <1>27, <2>1, LeaveOK, GoToOK DEF BeginStitch, At, Transition, Owns,
      TypeOK, WorkerSteps, NoJobSteps, SceneSteps
  <2>4. OwnerNotCancelled'
    BY <1>0, <1>27, <2>1 DEF BeginStitch, At, Transition, Owns, TypeOK, PipeRows,
      OwnerNotCancelled, NoPipe
  <2> QED BY <1>27, <2>1, <2>2, <2>3, <2>4, PipeOnly DEF BeginStitch
<1>28. CASE Stitch
  <2>1. w.job \in Jobs
    BY <1>0, <1>28 DEF Stitch, At, WorkerOK, NoJobSteps
  <2>2. WorkerOK'
    BY <1>0, <1>28, <2>1, LeaveOK, GoToOK DEF Stitch, At, TypeOK, WorkerSteps,
      NoJobSteps, SceneSteps
  <2> QED BY <1>28, <2>1, <2>2, WorkerOnly DEF Stitch
<1>29. CASE StitchFails
  <2>1. w.job \in Jobs
    BY <1>0, <1>29 DEF StitchFails, At, WorkerOK, NoJobSteps
  <2>2. WorkerOK'
    BY <1>0, <1>29, <2>1, LeaveOK, GoToOK DEF StitchFails, At, TypeOK, WorkerSteps,
      NoJobSteps, SceneSteps
  <2> QED BY <1>29, <2>1, <2>2, WorkerOnly DEF StitchFails
<1>30. CASE FinishJob
  <2>1. w.job \in Jobs
    BY <1>0, <1>30 DEF FinishJob, At, WorkerOK, NoJobSteps
  <2>2. status' \in [Jobs -> JobStates]
    BY <1>0, <1>30, <2>1 DEF FinishJob, At, Owns, TypeOK, JobStates
  <2>3. WorkerOK'
    BY <1>0, <1>30, <2>1, LeaveOK, GoToOK DEF FinishJob, At, Owns, TypeOK, WorkerSteps,
      NoJobSteps, SceneSteps
  <2>4. OwnerNotCancelled'
    BY <1>0, <1>30, <2>1 DEF FinishJob, At, Owns, TypeOK, PipeRows, OwnerNotCancelled,
      NoPipe
  <2> QED BY <1>30, <2>1, <2>2, <2>3, <2>4, StatusOnly DEF FinishJob
<1>31. CASE StageBreaks
  <2>1. w.job \in Jobs /\ w.scene \in Scenes
    BY <1>0, <1>31 DEF StageBreaks, WorkerOK, NoJobSteps, SceneSteps
  <2>2. WorkerOK' /\ scene' \in [Jobs -> [Scenes -> SceneRows]]
    <3>1. CASE UNCHANGED scene /\ Leave
      BY <1>0, <3>1, LeaveOK DEF TypeOK
    <3>2. CASE /\ scene' = [scene EXCEPT ![w.job][w.scene].state = "failed"]
              /\ w' = [w EXCEPT !.pc = "mark", !.mark = "failed", !.back = "owner"]
      <4>1. scene' \in [Jobs -> [Scenes -> SceneRows]]
        BY <1>0, <2>1, <3>2, SceneStateTyped DEF TypeOK, SceneStates
      <4>2. w' \in WorkerStates /\ w'.scene = w.scene /\ w'.job = w.job
        BY <1>0, <3>2 DEF WorkerOK, WorkerStates, WorkerSteps, SceneStates
      <4> QED BY <2>1, <4>1, <4>2 DEF WorkerOK
    <3> QED BY <1>31, <3>1, <3>2 DEF StageBreaks
  <2> QED BY <1>31, <2>1, <2>2, ScenesOnly DEF StageBreaks
<1> QED BY <1>1, <1>2, <1>3, <1>4, <1>5, <1>6, <1>7, <1>8, <1>9, <1>10, <1>11, <1>12,
  <1>13, <1>14, <1>15, <1>16, <1>17, <1>18, <1>19, <1>20, <1>21, <1>22, <1>23, <1>24,
  <1>25, <1>26, <1>27, <1>28, <1>29, <1>30, <1>31 DEF Render

\* handle_fatal keeps the invariant.
LEMMA RecoveryIInv == ASSUME IInv, Recovery PROVE IInv'
<1> USE ConstantsAssumption
<1>0. TypeOK /\ WorkerOK /\ LivePromptsOwned /\ OwnerNotCancelled BY DEF IInv
<1>1. CASE FatalSnapshot
  <2>1. WorkerOK'
    BY <1>0, <1>1, LeaveOK, GoToOK, IdleWorkerTyped, NoPipeTyped DEF FatalSnapshot, At,
      TypeOK, WorkerOK, WorkerStates, WorkerSteps, NoJobSteps, SceneSteps
  <2> QED BY <1>1, <2>1, WorkerOnly DEF FatalSnapshot
<1>2. CASE FatalError
  <2>1. /\ "error" \in PipeStates /\ "restart" \in {"idle", "restart"}
        /\ w.snap.scene \in Scenes \cup {NoScene}
        /\ FatalTransition("error", w.snap.scene, "restart")
    BY <1>0, <1>2 DEF FatalError, WorkerOK, WorkerStates, PipeRows, PipeStates,
      RenderStates, FreeStates
  <2>2. pipe' \in PipeRows /\ OwnerNotCancelled' /\ WorkerOK'
    BY <1>0, <1>2, <2>1, FatalOK DEF FatalError
  <2> QED BY <1>2, <2>1, <2>2, PipeOnly DEF FatalError
<1>3. CASE RestartSucceeds
  <2>1. prompts' \in [Prompts -> PromptRecords]
    BY <1>0, <1>3 DEF RestartSucceeds, At, Lost, TypeOK, PromptRecords, WorkerStates
  <2>2. WorkerOK'
    BY <1>0, <1>3, LeaveOK, GoToOK DEF RestartSucceeds, At, Lost, TypeOK, WorkerSteps,
      NoJobSteps, SceneSteps
  <2>3. LivePromptsOwned'
    BY <1>0, <1>3 DEF RestartSucceeds, At, Lost, TypeOK, PromptRecords, Live,
      LivePromptsOwned
  <2> QED BY <1>0, <1>3, <2>1, <2>2, <2>3 DEF RestartSucceeds, IInv, TypeOK, rows,
    comfy, WorkerOK, OwnerNotCancelled
<1>4. CASE RestartFails
  <2>1. WorkerOK'
    BY <1>4, LeaveOK DEF RestartFails
  <2>2. prompts' \in [Prompts -> PromptRecords] /\ LivePromptsOwned'
    BY <1>0, <1>4, LostTyped DEF RestartFails, TypeOK, LivePromptsOwned, Live
  <2>3. comfyUp' \in BOOLEAN
    BY <1>0, <1>4 DEF RestartFails, TypeOK
  <2> QED BY <1>0, <1>4, <2>1, <2>2, <2>3 DEF RestartFails, IInv, TypeOK, rows, comfy,
    WorkerOK, LivePromptsOwned, Live, OwnerNotCancelled
<1>5. CASE RequeueUnfinished
  <2>1. w.snap.job \in Jobs
    BY <1>0, <1>5 DEF RequeueUnfinished, WorkerOK, WorkerStates, PipeRows
  <2>2. ASSUME NEW r \in SceneRows PROVE [r EXCEPT !.state = "pending"] \in SceneRows
    BY RowTyped DEF SceneStates
  <2>3. scene' \in [Jobs -> [Scenes -> SceneRows]]
    BY <1>0, <1>5, <2>1, <2>2 DEF RequeueUnfinished, TypeOK
  <2>4. WorkerOK'
    BY <1>0, <1>5, GoToOK DEF RequeueUnfinished, WorkerOK, WorkerSteps, NoJobSteps,
      SceneSteps
  <2> QED BY <1>5, <2>1, <2>2, <2>3, <2>4, ScenesOnly DEF RequeueUnfinished
<1>6. CASE ResumeRender
  <2>1. /\ "downloading_assets" \in PipeStates /\ "idle" \in {"idle", "restart"}
        /\ NoScene \in Scenes \cup {NoScene}
        /\ FatalTransition("downloading_assets", NoScene, "idle")
    BY <1>0, <1>6 DEF ResumeRender, WorkerOK, WorkerStates, PipeRows, PipeStates,
      RenderStates, FreeStates
  <2>2. pipe' \in PipeRows /\ OwnerNotCancelled' /\ WorkerOK'
    BY <1>0, <1>6, <2>1, FatalOK DEF ResumeRender
  <2> QED BY <1>6, <2>1, <2>2, PipeOnly DEF ResumeRender
<1>7. CASE RestoreState
  <2>1. /\ w.snap.state \in PipeStates /\ "idle" \in {"idle", "restart"}
        /\ NoScene \in Scenes \cup {NoScene}
        /\ FatalTransition(w.snap.state, NoScene, "idle")
    BY <1>0, <1>7 DEF RestoreState, WorkerOK, WorkerStates, PipeRows, PipeStates,
      RenderStates, FreeStates
  <2>2. pipe' \in PipeRows /\ OwnerNotCancelled' /\ WorkerOK'
    BY <1>0, <1>7, <2>1, FatalOK DEF RestoreState
  <2> QED BY <1>7, <2>1, <2>2, PipeOnly DEF RestoreState
<1>8. CASE StayInError
  <2>1. WorkerOK'
    BY <1>0, <1>8, LeaveOK, GoToOK DEF StayInError, At, TypeOK, WorkerSteps,
      NoJobSteps, SceneSteps
  <2> QED BY <1>8, <2>1, WorkerOnly DEF StayInError
<1> QED BY <1>1, <1>2, <1>3, <1>4, <1>5, <1>6, <1>7, <1>8 DEF Recovery

\* The GUI keeps the invariant.
LEMMA GuiIInv == ASSUME IInv, Gui PROVE IInv'
<1> USE ConstantsAssumption
<1>0. TypeOK /\ WorkerOK /\ LivePromptsOwned /\ OwnerNotCancelled BY DEF IInv
<1>1. CASE ApproveJob
  <2>1. pipe' \in PipeRows
    BY <1>0, <1>1, NoPipeTyped DEF ApproveJob, TypeOK, PipeRows, PipeStates,
      RenderStates, FreeStates, WorkerStates
  <2>2. status' \in [Jobs -> JobStates]
    BY <1>0, <1>1 DEF ApproveJob, TypeOK, JobStates
  <2>3. OwnerNotCancelled'
    BY <1>0, <1>1 DEF ApproveJob, TypeOK, PipeRows, OwnerNotCancelled, NoPipe
  <2> QED BY <1>0, <1>1, <2>1, <2>2, <2>3 DEF ApproveJob, IInv, TypeOK, rows, comfy,
    WorkerOK, LivePromptsOwned, Live
<1>2. CASE GuiCancel
  <2>1. g' \in GuiStates
    BY <1>0, <1>2 DEF GuiCancel, Cancellable, TypeOK, GuiStates, PipeRows
  <2> QED BY <1>0, <1>2, <2>1 DEF GuiCancel, IInv, TypeOK, rows, comfy, WorkerOK,
    LivePromptsOwned, Live, OwnerNotCancelled
<1>3. CASE GuiAbandon
  <2>1. g' \in GuiStates
    <3>1. IdleGui \in GuiStates BY DEF IdleGui, GuiStates
    <3>2. [g EXCEPT !.pc = "prompts"] \in GuiStates BY <1>0 DEF TypeOK, GuiStates
    <3> QED BY <1>3, <3>1, <3>2 DEF GuiAbandon
  <2>2. pipe' \in PipeRows /\ status' \in [Jobs -> JobStates] /\ scene' \in [Jobs -> [Scenes -> SceneRows]]
        /\ OwnerNotCancelled'
    <3>1. CASE pipe.job = g.job
      BY <1>0, <1>3, <3>1, AbandonOK DEF GuiAbandon
    <3>2. CASE pipe.job # g.job
      BY <1>0, <1>3, <3>2 DEF GuiAbandon, TypeOK, OwnerNotCancelled
    <3> QED BY <3>1, <3>2
  <2> QED BY <1>0, <1>3, <2>1, <2>2 DEF GuiAbandon, IInv, TypeOK, rows, comfy,
    WorkerOK, LivePromptsOwned, Live, OwnerNotCancelled
<1>4. CASE GuiCancelPrompts
  <2>1. g' \in GuiStates
    BY <1>4 DEF GuiCancelPrompts, IdleGui, GuiStates
  <2>2. prompts' \in [Prompts -> PromptRecords] /\ LivePromptsOwned'
    <3>1. prompts' \in {prompts, Cancelled(Prompts)} BY <1>4 DEF GuiCancelPrompts
    <3> QED BY <1>0, <3>1, CancelledOK
  <2> QED BY <1>0, <1>4, <2>1, <2>2 DEF GuiCancelPrompts, IInv, TypeOK, rows, comfy,
    WorkerOK, LivePromptsOwned, Live, OwnerNotCancelled
<1> QED BY <1>1, <1>2, <1>3, <1>4 DEF Gui

\* ComfyUI keeps the invariant.
LEMMA ComfyUIIInv == ASSUME IInv, ComfyUI PROVE IInv'
<1> USE ConstantsAssumption
<1>0. TypeOK /\ WorkerOK /\ LivePromptsOwned /\ OwnerNotCancelled BY DEF IInv
<1>1. CASE ComfyCrash
  <2>1. prompts' \in [Prompts -> PromptRecords] /\ LivePromptsOwned'
    BY <1>0, <1>1, LostTyped DEF ComfyCrash, TypeOK, LivePromptsOwned, Live
  <2>2. faults' \in 0 .. MaxFaults
    BY <1>0, <1>1 DEF ComfyCrash, Fault, TypeOK
  <2>3. comfyUp' \in BOOLEAN
    BY <1>1 DEF ComfyCrash
  <2> QED BY <1>0, <1>1, <2>1, <2>2, <2>3 DEF ComfyCrash, IInv, TypeOK, rows, comfy,
    WorkerOK, LivePromptsOwned, Live, OwnerNotCancelled
<1>2. CASE ComfyReturns
  <2> QED BY <1>0, <1>2 DEF ComfyReturns, IInv, TypeOK, rows, comfy, WorkerOK,
    LivePromptsOwned, Live, OwnerNotCancelled
<1>3. ASSUME NEW p \in Prompts, PromptCompletes(p) PROVE IInv'
  <2>1. [prompts[p] EXCEPT !.st = "done"] \in PromptRecords
    BY <1>0 DEF TypeOK, PromptRecords
  <2>2. prompts' \in [Prompts -> PromptRecords]
    BY <1>0, <1>3, <2>1 DEF PromptCompletes, TypeOK
  <2>3. ASSUME NEW q \in Prompts, prompts'[q].st = "live" PROVE prompts'[q] = prompts[q]
    BY <1>0, <1>3, <2>3 DEF PromptCompletes, TypeOK, PromptRecords
  <2>4. LivePromptsOwned'
    BY <1>0, <2>3 DEF LivePromptsOwned, Live
  <2>5. files' \subseteq Jobs \X Scenes \X Stages
    BY <1>0, <1>3 DEF PromptCompletes, TypeOK, LivePromptsOwned
  <2> QED BY <1>0, <1>3, <2>1, <2>2, <2>3, <2>4, <2>5 DEF PromptCompletes, IInv,
    TypeOK, rows, comfy, WorkerOK, LivePromptsOwned, Live, OwnerNotCancelled
<1>4. ASSUME NEW p \in Prompts, PromptErrors(p) PROVE IInv'
  <2>1. [prompts[p] EXCEPT !.st = "failed"] \in PromptRecords
    BY <1>0 DEF TypeOK, PromptRecords
  <2>2. prompts' \in [Prompts -> PromptRecords]
    BY <1>0, <1>4, <2>1 DEF PromptErrors, TypeOK
  <2>3. ASSUME NEW q \in Prompts, prompts'[q].st = "live" PROVE prompts'[q] = prompts[q]
    BY <1>0, <1>4, <2>3 DEF PromptErrors, TypeOK, PromptRecords
  <2>4. LivePromptsOwned'
    BY <1>0, <2>3 DEF LivePromptsOwned, Live
  <2> QED BY <1>0, <1>4, <2>1, <2>2, <2>3, <2>4 DEF PromptErrors, IInv, TypeOK, rows,
    comfy, WorkerOK, LivePromptsOwned, Live, OwnerNotCancelled
<1> QED BY <1>1, <1>2, <1>3, <1>4 DEF ComfyUI

\* Crashes and launchers keep the invariant.
LEMMA ProcessIInv == ASSUME IInv, Process PROVE IInv'
<1> USE ConstantsAssumption
<1>0. TypeOK /\ WorkerOK /\ LivePromptsOwned /\ OwnerNotCancelled BY DEF IInv
<1>1. CASE Crash
  <2>1. WorkerOK'
    BY <1>1, LeaveOK DEF Crash, Leave
  <2>2. g' \in GuiStates
    BY <1>1 DEF Crash, IdleGui, GuiStates
  <2>3. faults' \in 0 .. MaxFaults
    BY <1>0, <1>1 DEF Crash, Fault, TypeOK
  <2> QED BY <1>0, <1>1, <2>1, <2>2, <2>3 DEF Crash, IInv, TypeOK, rows, comfy,
    WorkerOK, LivePromptsOwned, Live, OwnerNotCancelled
<1>2. CASE Launch
  <2> QED BY <1>0, <1>2 DEF Launch, IInv, TypeOK, rows, comfy, WorkerOK,
    LivePromptsOwned, Live, OwnerNotCancelled
<1>3. ASSUME NEW j \in Jobs, LaunchRetry(j) PROVE IInv'
  <2>1. scene' \in [Jobs -> [Scenes -> SceneRows]]
    BY <1>0, <1>3, RetriedTyped DEF LaunchRetry, TypeOK
  <2>2. pipe' \in PipeRows
    BY <1>3 DEF LaunchRetry, PipeRows, PipeStates, RenderStates
  <2>3. status' \in [Jobs -> JobStates] /\ OwnerNotCancelled'
    BY <1>0, <1>3 DEF LaunchRetry, TypeOK, JobStates, OwnerNotCancelled
  <2> QED BY <1>0, <1>3, <2>1, <2>2, <2>3 DEF LaunchRetry, IInv, TypeOK, rows, comfy,
    WorkerOK, LivePromptsOwned, Live, OwnerNotCancelled
<1>4. ASSUME NEW j \in Jobs, LaunchFinish(j) PROVE IInv'
  <2>1. pipe' \in PipeRows
    BY <1>0, <1>4, NoPipeTyped DEF LaunchFinish, SavedJob, Unfinished, Owns, TypeOK,
      PipeRows, PipeStates, RenderStates, FreeStates, WorkerStates
  <2>2. OwnerNotCancelled'
    BY <1>0, <1>4 DEF LaunchFinish, SavedJob, Unfinished, Owns, TypeOK, PipeRows,
      OwnerNotCancelled, NoPipe
  <2> QED BY <1>0, <1>4, <2>1, <2>2 DEF LaunchFinish, IInv, TypeOK, rows, comfy,
    WorkerOK, LivePromptsOwned, Live
<1>5. ASSUME NEW j \in Jobs, LaunchAbandon(j) PROVE IInv'
  <2>1. pipe' \in PipeRows /\ status' \in [Jobs -> JobStates] /\ scene' \in [Jobs -> [Scenes -> SceneRows]]
        /\ OwnerNotCancelled'
    BY <1>0, <1>5, AbandonOK DEF LaunchAbandon
  <2>2. prompts' \in [Prompts -> PromptRecords] /\ LivePromptsOwned'
    BY <1>0, <1>5, CancelledOK DEF LaunchAbandon, TypeOK
  <2> QED BY <1>0, <1>5, <2>1, <2>2 DEF LaunchAbandon, IInv, TypeOK, rows, comfy,
    WorkerOK, LivePromptsOwned, Live, OwnerNotCancelled
<1> QED BY <1>1, <1>2, <1>3, <1>4, <1>5 DEF Process

-----------------------------------------------------------------------------
\* Late work

\* Job k is the pipeline's, or not claimed yet; a step touches no rows but its
FreeToWrite(k) == pipe.job = k \/ status[k] = "absent"
TouchesOnly(k) ==
  \A j \in Jobs : j # k => status'[j] = status[j] /\ scene'[j] = scene[j]

\* Every write of a job's rows is one of the pipeline's own job, or the claim
\* of a job that did not exist; requeue_unfinished_scenes alone is unchecked.
LEMMA WritesAreOwned ==
  ASSUME IInv, Next
  PROVE  \/ UNCHANGED <<status, scene>>
         \/ RequeueUnfinished
         \/ \E k \in Jobs \cup {NoJob} : TouchesOnly(k) /\ FreeToWrite(k)
<1>0. TypeOK /\ WorkerOK BY DEF IInv
<1> DEFINE Owned == \E k \in Jobs \cup {NoJob} : TouchesOnly(k) /\ FreeToWrite(k)
<1>1. CASE Tick
  <2>1. ASSUME NEW j \in Jobs, PollAccept(j) PROVE Owned
    BY <1>0, <2>1 DEF PollAccept, TouchesOnly, FreeToWrite, TypeOK
  <2>2. CASE StartJob
    BY <1>0, <2>2 DEF StartJob, Owns, TouchesOnly, FreeToWrite, TypeOK
  <2>3. CASE GiveUpJob
    BY <1>0, <2>3 DEF GiveUpJob, Owns, TouchesOnly, FreeToWrite, TypeOK
  <2>4. ASSUME NEW s \in Scenes, FailAssets(s) PROVE Owned \/ UNCHANGED <<status, scene>>
    BY <1>0, <2>4 DEF FailAssets, CanWrite, Owns, TouchesOnly, FreeToWrite, TypeOK
  <2>5. CASE \/ PollNothing \/ SendRequest \/ SendFails \/ RequestSent \/ TickProcess
             \/ TickNoJob \/ EnsureRevisions \/ BeginAssets \/ ResolveAssets
             \/ AssetsDone \/ GiveUp
    BY <2>5 DEF PollNothing, SendRequest, SendFails, RequestSent, TickProcess,
      TickNoJob,
      EnsureRevisions, BeginAssets, ResolveAssets, AssetsDone, GiveUp, rows
  <2> QED BY <1>1, <2>1, <2>2, <2>3, <2>4, <2>5 DEF Tick
<1>2. CASE Render
  <2>1. ASSUME NEW s \in Scenes, AdoptFile(s) PROVE Owned \/ UNCHANGED <<status, scene>>
    BY <1>0, <2>1 DEF AdoptFile, CanWrite, Owns, TouchesOnly, FreeToWrite, TypeOK
  <2>2. ASSUME NEW s \in Scenes, BeginStage(s) PROVE Owned \/ UNCHANGED <<status, scene>>
    BY <1>0, <2>2 DEF BeginStage, CanWrite, Owns, TouchesOnly, FreeToWrite, TypeOK
  <2>3. CASE BindPrompt
    BY <1>0, <2>3 DEF BindPrompt, CanWrite, Owns, TouchesOnly, FreeToWrite, TypeOK
  <2>4. CASE CommitStage
    BY <1>0, <2>4 DEF CommitStage, CanWrite, Owns, TouchesOnly, FreeToWrite, TypeOK
  <2>5. CASE StageError
    BY <1>0, <2>5 DEF StageError, CanWrite, Owns, TouchesOnly, FreeToWrite, TypeOK
  <2>6. CASE RetryStage
    BY <1>0, <2>6 DEF RetryStage, CanWrite, Owns, TouchesOnly, FreeToWrite, TypeOK
  <2>7. CASE FinishJob
    BY <1>0, <2>7 DEF FinishJob, Owns, TouchesOnly, FreeToWrite, TypeOK
  <2>8. ASSUME NEW s \in Scenes, ReuseFrame(s) \/ AttemptsSpent(s)
        PROVE  UNCHANGED <<status, scene>>
    BY <2>8 DEF ReuseFrame, AttemptsSpent, rows
  <2>9. ASSUME NEW p \in Prompts, QueuePrompt(p) \/ QueueAmbiguous(p)
        PROVE  UNCHANGED <<status, scene>>
    BY <2>9 DEF QueuePrompt, QueueAmbiguous, rows
  <2>10. CASE \/ OpenBatch \/ BatchDone \/ LookupHistory \/ LookupQueue \/ QueueRejected
              \/ CheckOwner \/ PromptSucceeded \/ PromptFailed \/ PromptTimeout
              \/ PollHiccup \/ ComfyUnreachable \/ HarvestClip \/ HarvestFails
              \/ MarkRevision \/ CheckBatchOwner \/ CollectScenes \/ BeginStitch
              \/ Stitch \/ StitchFails
    BY <2>10 DEF OpenBatch, BatchDone, LookupHistory, LookupQueue, QueueRejected,
      CheckOwner, PromptSucceeded, PromptFailed, PromptTimeout, PollHiccup,
      ComfyUnreachable, HarvestClip, HarvestFails, MarkRevision, CheckBatchOwner,
      CollectScenes, BeginStitch, Stitch, StitchFails, rows
  <2>11. CASE StageBreaks
    BY <1>0, <2>11 DEF StageBreaks, CanWrite, Owns, TouchesOnly, FreeToWrite, TypeOK
  <2> QED BY <1>2, <2>1, <2>2, <2>3, <2>4, <2>5, <2>6, <2>7, <2>8, <2>9, <2>10, <2>11
    DEF Render
<1>3. CASE Recovery
  BY <1>3 DEF Recovery, FatalSnapshot, FatalError, RestartSucceeds, RestartFails,
    ResumeRender, RestoreState, StayInError, rows
<1>4. CASE Gui
  <2>1. CASE ApproveJob
    BY <1>0, <2>1 DEF ApproveJob, TouchesOnly, FreeToWrite, TypeOK, PipeRows
  <2>2. CASE GuiAbandon /\ pipe.job = g.job
    BY <1>0, <2>2 DEF GuiAbandon, Abandon, TouchesOnly, FreeToWrite, TypeOK, PipeRows
  <2>3. CASE GuiAbandon /\ pipe.job # g.job
    BY <2>3 DEF GuiAbandon
  <2> QED BY <1>4, <2>1, <2>2, <2>3 DEF Gui, GuiCancel, GuiCancelPrompts, rows
<1>5. CASE ComfyUI
  BY <1>5 DEF ComfyUI, ComfyCrash, ComfyReturns, PromptCompletes, PromptErrors, rows
<1>6. CASE Process
  <2>1. ASSUME NEW j \in Jobs, LaunchRetry(j) PROVE Owned
    BY <1>0, <2>1 DEF LaunchRetry, SavedJob, TouchesOnly, FreeToWrite, TypeOK
  <2>2. ASSUME NEW j \in Jobs, LaunchAbandon(j) PROVE Owned
    BY <1>0, <2>2 DEF LaunchAbandon, SavedJob, Abandon, TouchesOnly, FreeToWrite, TypeOK
  <2> QED BY <1>6, <2>1, <2>2 DEF Process, Crash, Launch, LaunchFinish, rows
<1> QED BY <1>1, <1>2, <1>3, <1>4, <1>5, <1>6 DEF Next, Worker

\* A cancelled job owns nothing, so a step can only put a scene of it back to pending.
LEMMA StepRejectsLateWork == ASSUME IInv, [Next]_vars PROVE LateWorkRejected
<1> SUFFICES ASSUME NEW j \in Jobs, status[j] = "cancelled"
             PROVE  /\ status'[j] = "cancelled"
                    /\ \A s \in Scenes :
                         \/ scene'[j][s] = scene[j][s]
                         \/ scene'[j][s] = [scene[j][s] EXCEPT !.state = "pending"]
  BY DEF LateWorkRejected
<1>1. CASE UNCHANGED <<status, scene>>
  BY <1>1
<1>2. CASE RequeueUnfinished
  BY <1>2 DEF RequeueUnfinished, IInv, TypeOK
<1>3. CASE \E k \in Jobs \cup {NoJob} : TouchesOnly(k) /\ FreeToWrite(k)
  <2>1. PICK k \in Jobs \cup {NoJob} : TouchesOnly(k) /\ FreeToWrite(k)
    BY <1>3
  <2>2. j # k
    BY <2>1, ConstantsAssumption DEF IInv, OwnerNotCancelled, FreeToWrite
  <2> QED BY <2>1, <2>2 DEF TouchesOnly
<1> QED BY <1>1, <1>2, <1>3, WritesAreOwned DEF vars

\* Every step keeps the inductive invariant.
LEMMA StepIInv == ASSUME IInv, [Next]_vars PROVE IInv'
<1>1. CASE Next
  BY <1>1, TickIInv, RenderIInv, RecoveryIInv, GuiIInv, ComfyUIIInv, ProcessIInv
    DEF Next, Worker
<1>2. CASE UNCHANGED vars
  BY <1>2 DEF vars, IInv, TypeOK, WorkerOK, LivePromptsOwned, Live, OwnerNotCancelled
<1> QED BY <1>1, <1>2

-----------------------------------------------------------------------------
(* Jobs, scenes and prompts: the invariants behind the safety properties *)

Promised == {"awaiting_review", "queued", "running", "failed"}
Recoveries == {"fatalerror", "restart", "recover", "resume"}

\* Who owns the pipeline row, and what the worker knows about it.
OwnerInv ==
  /\ ~up => w = IdleWorker /\ g = IdleGui
  /\ pipe.state = "idle" => pipe.job = NoJob
  /\ pipe.state \in FreeStates /\ pipe.job # NoJob => status[pipe.job] \in {"succeeded", "partial"}
  /\ w.pc \notin {"idle", "dead"} => pipe.job = NoJob \/ pipe.state \in RenderStates \cup {"error"}
  /\ w.pc \in {"send", "sent"} => IF w.job = NoJob THEN pipe.job = NoJob
                                  ELSE status[w.job] \in {"succeeded", "partial", "cancelled"}
  /\ w.pc \in Recoveries => /\ w.snap.job = NoJob => pipe.job = NoJob
                            /\ w.snap.state \in FreeStates => w.snap.job = NoJob

\* Live prompts are paid for with faults, but for the one that the worker still holds.
Holding == {"bind", "check", "wait"}
PaidFor ==
  /\ IsFiniteSet(LivePrompts) /\ (~comfyUp => LivePrompts = {})
  /\ \/ Cardinality(LivePrompts) <= faults
     \/ w.pc \in Holding /\ Cardinality(LivePrompts \ {w.prompt}) <= faults

PromptSteps == {"prompt", "lookup", "bind", "check", "wait", "harvest", "commit", "err"}
\* prompt p renders the given stage of a scene
IsOf(p, j, s, t) == prompts[p].job = j /\ prompts[p].scene = s /\ prompts[p].stage = t

\* The rows agree with the files, the prompts and one another.
RowsInv ==
  /\ SucceededHasClip /\ PromptMatchesScene /\ OutcomeMatchesScenes
  /\ \A p \in Prompts : prompts[p].st = "done" /\ prompts[p].stage = "t2i"
       => HasFile(prompts[p].job, prompts[p].scene, "t2i")
  /\ \A j \in Jobs, s \in Scenes : scene[j][s].state = "cancelled" => status[j] = "cancelled"

\* The worker's prompt is of its scene and stage, which no row records before it is rendered
\* and whose file exists once it is.
PromptInv ==
  /\ w.pc \in PromptSteps /\ w.prompt # NoPrompt => IsOf(w.prompt, w.job, w.scene, w.stage)
  /\ w.pc \in {"lookup", "bind", "check", "wait"} => w.prompt # NoPrompt
  /\ w.pc \in {"batch", "scene", "errset"} => w.prompt = NoPrompt
  /\ w.pc = "harvest" => w.stage = "i2v"
  /\ w.pc = "commit" => HasFile(w.job, w.scene, w.stage)
  /\ w.pc \in {"prompt", "lookup"} => ~Recorded(scene[w.job][w.scene], w.stage)

\* the steps of one scene in a render batch, and of a job that has been started
InBatch == (w.pc \in SceneSteps /\ ~(w.pc = "mark" /\ w.back = "assetfail")) \/ w.pc = "scene"
StartedSteps == SceneSteps \cup {"revisions", "download", "assets", "assetfail", "batch", "scene",
                                 "collect", "stitching", "stitch", "finish", "giveup"}
\* a scene that the I2V batch either finds with a frame or leaves alone
Covered(s) == \/ HasFile(w.job, s, "t2i")
              \/ scene[w.job][s].state \in {"failed", "cancelled", "succeeded"}

\* The T2I batch covers the scenes it has done, so that the I2V batch has only frames to
\* animate, and the outcome read from the scenes stays that of the scenes.
BatchInv ==
  /\ w.pc \in StartedSteps => status[w.job] \in {"running", "cancelled"}
  /\ InBatch /\ w.pc # "scene" => w.scene \in w.todo
  /\ w.pc = "mark" /\ w.back = "owner" => Covered(w.scene)
  /\ w.pc = "owner" /\ pipe.job = w.job => Covered(w.scene)
  /\ InBatch /\ w.stage = "t2i" => \A s \in Scenes \ w.todo : Covered(s)
  /\ InBatch /\ w.stage = "i2v" => \A s \in w.todo : HasFile(w.job, s, "t2i")
  /\ w.pc = "batch" /\ w.stage = "i2v" => \A s \in Scenes : Covered(s)
  /\ w.pc \in {"stitching", "stitch", "finish"} =>
       IF w.complete THEN Unfinished(w.job) = {} ELSE Unfinished(w.job) \notin {{}, Scenes}
-----------------------------------------------------------------------------
(* Who owns the pipeline row *)

Settling == OwnerInv /\ NoJobLost
Plain == WorkerSteps \ ({"send", "sent"} \cup Recoveries)
Busy == up /\ w.pc \notin {"idle", "dead"}

\* What the moves of the worker change.
LEMMA GoToKeeps ==
  ASSUME w \in WorkerStates, NEW step, GoTo(step)
  PROVE  /\ w'.pc = step /\ w'.job = w.job /\ w'.todo = w.todo /\ w'.failed = w.failed
         /\ w'.stage = w.stage /\ w'.scene = w.scene /\ w'.prompt = w.prompt
         /\ w'.mark = w.mark /\ w'.back = w.back /\ w'.complete = w.complete /\ w'.snap = w.snap
BY DEF GoTo, WorkerStates

\* A worker that leaves a job is idle.
LEMMA LeaveIdles == ASSUME Leave PROVE w'.pc = "idle" /\ w'.pc \in Plain
BY DEF Leave, IdleWorker, Plain, WorkerSteps, Recoveries

\* Steps that change neither the pipeline row nor a job keep the owner's invariant.
LEMMA QuietSettles ==
  ASSUME IInv, Settling, Busy, w'.pc \in Plain, UNCHANGED <<pipe, status, up, g>>
  PROVE  Settling'
BY DEF Settling, OwnerInv, NoJobLost, Busy, Plain, Recoveries

\* Nor does the pipeline row when it moves on with its own job.
LEMMA TransitionSettles ==
  ASSUME IInv, Settling, Busy, NEW st \in RenderStates \cup {"error"},
         NEW step \in Plain \ {"idle", "dead"}, Transition(st, step), UNCHANGED <<status, up, g>>
  PROVE  Settling'
<1>0. w \in WorkerStates BY DEF IInv, TypeOK
<1>1. CASE Owns(w.job)
  <2>1. pipe' = [state |-> st, job |-> w.job, scene |-> NoScene] /\ w'.pc = step
    BY <1>0, <1>1, GoToKeeps DEF Transition
  <2>2. st \notin FreeStates BY DEF RenderStates, FreeStates
  <2>3. pipe'.job = pipe.job BY <1>1, <2>1 DEF Owns
  <2> QED BY <1>0, <1>1, <2>1, <2>2, <2>3 DEF Settling, OwnerInv, NoJobLost, Busy, Plain, FreeStates
<1>2. CASE ~Owns(w.job)
  BY <1>2, LeaveIdles, QuietSettles DEF Transition
<1> QED BY <1>1, <1>2

\* Or the status of the job that owns it, up to its outcome.
LEMMA StatusSettles ==
  ASSUME IInv, Settling, Busy, Owns(w.job), NEW x \in JobStates \ {"absent", "cancelled"},
         status' = [status EXCEPT ![w.job] = x], UNCHANGED <<pipe, up, g>>,
         \/ w'.pc \in Plain
         \/ w'.pc = "send" /\ w'.job = w.job /\ x \in {"succeeded", "partial"}
  PROVE  Settling'
<1>1. w.job \in Jobs /\ pipe.job = w.job /\ w.job # NoJob
  BY ConstantsAssumption DEF Owns
<1>2. pipe.state \notin FreeStates
  BY <1>1 DEF Settling, OwnerInv, Busy, RenderStates, FreeStates
<1>3. status' \in [Jobs -> JobStates] /\ status'[w.job] = x
      /\ \A j \in Jobs : j # w.job => status'[j] = status[j]
  BY <1>1 DEF IInv, TypeOK
<1>4. NoJobLost' BY <1>1, <1>3 DEF Settling, NoJobLost
<1>5. CASE w'.pc \in Plain
  BY <1>1, <1>2, <1>4, <1>5 DEF Settling, OwnerInv, Busy, Plain, Recoveries
<1>6. CASE w'.pc = "send" /\ w'.job = w.job /\ x \in {"succeeded", "partial"}
  <2>1. OwnerInv'
    BY <1>1, <1>2, <1>3, <1>6 DEF Settling, OwnerInv, Busy, Recoveries
  <2> QED BY <1>4, <2>1 DEF Settling
<1> QED BY <1>5, <1>6

\* The steps of the worker that only move it on or send it home are quiet.
LEMMA HomeSettles ==
  ASSUME IInv, Settling, Busy, Leave, UNCHANGED <<pipe, status, up, g>>
  PROVE  Settling'
BY LeaveIdles, QuietSettles

\* One that moves on within its job.
LEMMA OnSettles ==
  ASSUME IInv, Settling, Busy, NEW step \in Plain, GoTo(step), UNCHANGED <<pipe, status, up, g>>
  PROVE  Settling'
<1>1. w \in WorkerStates BY DEF IInv, TypeOK
<1> QED BY <1>1, GoToKeeps, QuietSettles

\* Polling, and a job up to its render batches.
LEMMA TickSettles == ASSUME IInv, Settling, Tick PROVE Settling'
<1> USE ConstantsAssumption
<1>0. TypeOK /\ OwnerInv /\ NoJobLost /\ WorkerOK BY DEF IInv, Settling
<1>1. ASSUME NEW j \in Jobs, PollAccept(j) PROVE Settling'
  <2>1. status' \in [Jobs -> JobStates] /\ pipe'.job = j /\ pipe'.state \notin FreeStates
        /\ pipe'.state # "idle" /\ w' = w /\ g' = g /\ up' = up /\ up /\ w.pc = "idle"
        /\ \A k \in Jobs : k # j => status'[k] = status[k]
    BY <1>0, <1>1 DEF PollAccept, TypeOK, JobStates, FreeStates, At
  <2>2. \A k \in Jobs : status[k] \notin Promised
    BY <1>0, <1>1 DEF PollAccept, NoJobLost, Promised, OwnerInv, FreeStates
  <2>3. NoJobLost' BY <2>1, <2>2 DEF NoJobLost, Promised
  <2>4. OwnerInv' BY <2>1, <1>0 DEF OwnerInv, Recoveries
  <2> QED BY <2>3, <2>4 DEF Settling
<1>2. CASE PollNothing
  <2>1. w'.pc = "send" /\ w'.job = NoJob /\ up /\ pipe.job = NoJob
    BY <1>0, <1>2 DEF PollNothing, IdleWorker, At, OwnerInv
  <2> QED BY <1>0, <1>2, <2>1 DEF PollNothing, Settling, OwnerInv, NoJobLost, rows, Recoveries
<1>3. CASE SendRequest
  <2>1. w'.pc = "sent" /\ w'.job = w.job
    BY <1>0, <1>3, GoToKeeps DEF SendRequest, TypeOK
  <2> QED BY <1>0, <1>3, <2>1 DEF SendRequest, Settling, OwnerInv, NoJobLost, rows, At, Recoveries
<1>4. CASE SendFails
  BY <1>4, HomeSettles DEF SendFails, rows, At, Busy
<1>5. CASE RequestSent
  <2>1. w'.pc = "idle" /\ up /\ w.pc = "sent" /\ UNCHANGED <<status, up, g>>
    BY <1>5, LeaveIdles DEF RequestSent, At, IdleWorker
  <2>2. pipe'.job = pipe.job /\ (pipe' = pipe \/ pipe'.state = "waiting_for_grok")
    <3>1. CASE w.job = NoJob
      <4>1. pipe' = [pipe EXCEPT !.state = "waiting_for_grok", !.scene = NoScene]
        BY <1>5, <3>1 DEF RequestSent
      <4> QED BY <1>0, <4>1 DEF TypeOK, PipeRows
    <3>2. CASE Owns(w.job)
      <4>1. pipe' = [state |-> "waiting_for_grok", job |-> w.job, scene |-> NoScene]
        BY <1>5, <3>2 DEF RequestSent, Owns
      <4> QED BY <3>2, <4>1 DEF Owns
    <3>3. CASE w.job # NoJob /\ ~Owns(w.job) BY <1>5, <3>3 DEF RequestSent
    <3> QED BY <3>1, <3>2, <3>3
  <2>3. pipe'.state = "waiting_for_grok" /\ pipe'.job # NoJob => status[pipe.job] \in {"succeeded", "partial"}
    BY <1>0, <1>5, <2>1 DEF RequestSent, Owns, TypeOK, PipeRows, OwnerInv, FreeStates
  <2>4. NoJobLost' BY <1>0, <2>1, <2>2 DEF NoJobLost
  <2>5. OwnerInv'
    BY <1>0, <2>1, <2>2, <2>3 DEF OwnerInv, FreeStates, Recoveries
  <2> QED BY <2>4, <2>5 DEF Settling
<1>6. CASE TickProcess
  <2>1. w'.pc = "start" /\ up
    BY <1>6 DEF TickProcess, IdleWorker, At
  <2> QED BY <1>0, <1>6, <2>1 DEF TickProcess, Settling, OwnerInv, NoJobLost, rows, Recoveries
<1>7. CASE TickNoJob
  <2>1. w'.pc = "fatal" /\ up
    BY <1>7 DEF TickNoJob, IdleWorker, At
  <2> QED BY <1>0, <1>7, <2>1 DEF TickNoJob, Settling, OwnerInv, NoJobLost, rows, Recoveries
<1>8. CASE StartJob
  <2>1. Busy BY <1>8 DEF StartJob, At, Busy
  <2>2. CASE Owns(w.job)
    <3>1. w'.pc \in Plain
      BY <1>0, <1>8, <2>2, GoToKeeps DEF StartJob, TypeOK, Plain, WorkerSteps, Recoveries
    <3>2. "running" \in JobStates \ {"absent", "cancelled"} BY DEF JobStates
    <3>3. UNCHANGED <<pipe, up, g>> /\ status' = [status EXCEPT ![w.job] = "running"]
      BY <1>8, <2>2 DEF StartJob
    <3> QED BY <2>1, <2>2, <3>1, <3>2, <3>3, StatusSettles
  <2>3. CASE ~Owns(w.job)
    BY <1>8, <2>1, <2>3, HomeSettles DEF StartJob
  <2> QED BY <2>2, <2>3
<1>9. CASE EnsureRevisions
  BY <1>9, OnSettles DEF EnsureRevisions, At, Busy, Plain, WorkerSteps, Recoveries
<1>10. CASE BeginAssets
  BY <1>10, TransitionSettles DEF BeginAssets, At, Busy, Plain, WorkerSteps, Recoveries,
      RenderStates
<1>11. CASE ResolveAssets
  <2>1. w'.pc \in Plain
    <3>1. \/ \E F : w' = [w EXCEPT !.pc = "assetfail", !.todo = F, !.failed = F]
          \/ Leave
      BY <1>11 DEF ResolveAssets
    <3>2. "pc" \in DOMAIN w BY <1>0 DEF TypeOK, WorkerStates
    <3>3. CASE \E F : w' = [w EXCEPT !.pc = "assetfail", !.todo = F, !.failed = F]
      <4>1. w'.pc = "assetfail" BY <3>2, <3>3
      <4> QED BY <4>1 DEF Plain, WorkerSteps, Recoveries
    <3> QED BY <3>1, <3>3, LeaveIdles
  <2> QED BY <1>11, <2>1, QuietSettles DEF ResolveAssets, rows, At, Busy
<1>12. CASE AssetsDone
  <2>1. w'.pc \in Plain
    BY <1>12 DEF AssetsDone, IdleWorker, Plain, WorkerSteps, Recoveries
  <2> QED BY <1>12, <2>1, QuietSettles DEF AssetsDone, rows, At, Busy
<1>13. CASE GiveUp
  BY <1>13, TransitionSettles DEF GiveUp, At, Busy, Plain, WorkerSteps, Recoveries
<1>14. CASE GiveUpJob
  <2>1. Busy /\ Leave BY <1>14 DEF GiveUpJob, At, Busy
  <2>2. CASE Owns(w.job)
    <3>1. "failed" \in JobStates \ {"absent", "cancelled"} BY DEF JobStates
    <3>2. UNCHANGED <<pipe, up, g>> /\ status' = [status EXCEPT ![w.job] = "failed"]
      BY <1>14, <2>2 DEF GiveUpJob
    <3> QED BY <2>1, <2>2, <3>1, <3>2, StatusSettles, LeaveIdles
  <2>3. CASE ~Owns(w.job)
    BY <1>14, <2>1, <2>3, HomeSettles DEF GiveUpJob
  <2> QED BY <2>2, <2>3
<1>15. ASSUME NEW s \in Scenes, FailAssets(s) PROVE Settling'
  <2>1. w'.pc \in Plain
    <3>1. CASE CanWrite(w.job, s)
      <4>1. w' = [w EXCEPT !.pc = "mark", !.todo = w.todo \ {s}, !.scene = s,
                           !.mark = "failed", !.back = "assetfail"]
        BY <1>15, <3>1 DEF FailAssets
      <4> QED BY <1>0, <4>1 DEF TypeOK, WorkerStates, Plain, WorkerSteps, Recoveries
    <3>2. CASE ~CanWrite(w.job, s) BY <1>15, <3>2, LeaveIdles DEF FailAssets
    <3> QED BY <3>1, <3>2
  <2> QED BY <1>15, <2>1, QuietSettles DEF FailAssets, At, Busy
<1> QED BY <1>1, <1>2, <1>3, <1>4, <1>5, <1>6, <1>7, <1>8, <1>9, <1>10, <1>11, <1>12,
  <1>13, <1>14, <1>15 DEF Tick

\* A render step that leaves the pipeline row and the job alone: the worker stays in the
\* batch, goes home or meets a dead server.
RenderQuietly ==
  \/ OpenBatch \/ BatchDone
  \/ \E s \in Scenes : ReuseFrame(s) \/ AdoptFile(s) \/ AttemptsSpent(s)
  \/ LookupHistory \/ LookupQueue \/ QueueRejected
  \/ \E p \in Prompts : QueuePrompt(p) \/ QueueAmbiguous(p)
  \/ BindPrompt \/ CheckOwner \/ PromptSucceeded \/ PromptFailed \/ PromptTimeout
  \/ PollHiccup \/ ComfyUnreachable \/ HarvestClip \/ HarvestFails
  \/ CommitStage \/ MarkRevision \/ CheckBatchOwner \/ StageError \/ RetryStage
  \/ StageBreaks \/ CollectScenes \/ Stitch \/ StitchFails

\* Such a step leaves the row and the status alone.
LEMMA RenderIsQuiet ==
  ASSUME IInv, RenderQuietly
  PROVE  Busy /\ w'.pc \in Plain /\ UNCHANGED <<pipe, status, up, g>>
<1> USE DEF Plain, WorkerSteps, Recoveries
<1>0. w \in WorkerStates BY DEF IInv, TypeOK
<1>1. ASSUME NEW step \in Plain, GoTo(step) PROVE w'.pc \in Plain BY <1>0, <1>1, GoToKeeps
<1>2. Leave => w'.pc \in Plain BY LeaveIdles
<1>3. "pc" \in DOMAIN w BY <1>0 DEF WorkerStates
<1>a. Busy
  BY DEF RenderQuietly, OpenBatch, BatchDone, ReuseFrame, AdoptFile, AttemptsSpent, MustRender,
    LookupHistory, LookupQueue, QueueRejected, QueuePrompt, QueueAmbiguous, BindPrompt,
    CheckOwner, PromptSucceeded, PromptFailed, PromptTimeout, PollHiccup, ComfyUnreachable,
    HarvestClip, HarvestFails, CommitStage, MarkRevision, CheckBatchOwner, StageError,
    RetryStage, StageBreaks, CollectScenes, Stitch, StitchFails, At, Busy
<1>b. UNCHANGED <<pipe, status, up, g>>
  BY DEF RenderQuietly, OpenBatch, BatchDone, ReuseFrame, AdoptFile, AttemptsSpent,
    LookupHistory, LookupQueue, QueueRejected, QueuePrompt, QueueAmbiguous, BindPrompt,
    CheckOwner, PromptSucceeded, PromptFailed, PromptTimeout, PollHiccup, ComfyUnreachable,
    HarvestClip, HarvestFails, CommitStage, MarkRevision, CheckBatchOwner, StageError,
    RetryStage, StageBreaks, CollectScenes, Stitch, StitchFails, rows
<1>c. w'.pc \in Plain
  <2>1. CASE OpenBatch \/ BatchDone \/ CollectScenes
    <3>1. CASE OpenBatch
      <4>1. PICK T : w' = [w EXCEPT !.pc = "scene", !.todo = T] BY <3>1 DEF OpenBatch
      <4> QED BY <1>3, <4>1
    <3>2. CASE BatchDone
      <4>1. w' = [w EXCEPT !.stage = "i2v", !.pc = "batch"] \/ w' = [w EXCEPT !.pc = "collect"]
        BY <3>2 DEF BatchDone
      <4> QED BY <1>3, <4>1
    <3>3. CASE CollectScenes
      <4> DEFINE x == IF Succeeded(w.job) = {} THEN "giveup" ELSE "stitching"
                 c == Succeeded(w.job) = Scenes
      <4>1. w' = [w EXCEPT !.pc = x, !.complete = c] BY <3>3 DEF CollectScenes
      <4>2. x \in {"giveup", "stitching"} OBVIOUS
      <4> HIDE DEF x, c
      <4> QED BY <1>3, <4>1, <4>2
    <3> QED BY <2>1, <3>1, <3>2, <3>3
  <2>2. ASSUME NEW s \in Scenes, ReuseFrame(s) \/ AdoptFile(s) \/ AttemptsSpent(s)
        PROVE  w'.pc \in Plain
    <3>1. CASE ReuseFrame(s) BY <1>3, <3>1 DEF ReuseFrame
    <3>2. CASE AdoptFile(s)
      <4>1. \/ Leave
            \/ \E m : w' = [w EXCEPT !.pc = "mark", !.scene = s, !.mark = m, !.back = "owner"]
        BY <3>2 DEF AdoptFile
      <4> QED BY <1>2, <1>3, <4>1
    <3>3. CASE AttemptsSpent(s) BY <1>3, <3>3 DEF AttemptsSpent
    <3> QED BY <2>2, <3>1, <3>2, <3>3
  <2>3. CASE LookupHistory \/ LookupQueue \/ QueueRejected
    <3>1. CASE LookupHistory
      <4>1. GoTo("wait") \/ GoTo("lookup") BY <3>1 DEF LookupHistory
      <4> QED BY <1>1, <4>1
    <3>2. CASE LookupQueue
      <4>1. w' = [w EXCEPT !.pc = "wait"] \/ w' = [w EXCEPT !.pc = "prompt", !.prompt = NoPrompt]
        BY <3>2 DEF LookupQueue
      <4> QED BY <1>3, <4>1
    <3>3. CASE QueueRejected BY <1>3, <3>3 DEF QueueRejected
    <3> QED BY <2>3, <3>1, <3>2, <3>3
  <2>4. ASSUME NEW p \in Prompts, QueuePrompt(p) \/ QueueAmbiguous(p) PROVE w'.pc \in Plain
    BY <1>3, <2>4 DEF QueuePrompt, QueueAmbiguous
  <2>5. CASE BindPrompt \/ CheckOwner
    BY <1>0, <1>1, <1>2, <2>5 DEF BindPrompt, CheckOwner
  <2>6. CASE PromptFailed \/ PromptTimeout \/ PollHiccup \/ ComfyUnreachable \/ HarvestClip
             \/ HarvestFails \/ Stitch \/ StitchFails
    BY <1>1, <2>6 DEF PromptFailed, PromptTimeout, PollHiccup, ComfyUnreachable, HarvestClip,
      HarvestFails, Stitch, StitchFails
  <2>7. CASE PromptSucceeded BY <1>3, <2>7 DEF PromptSucceeded
  <2>8. CASE CommitStage \/ StageBreaks
    <3>1. Leave \/ \E m, q : w' = [w EXCEPT !.pc = "mark", !.mark = m, !.back = "owner", !.prompt = q]
                \/ \E k : w' = [w EXCEPT !.pc = "mark", !.mark = k, !.back = "owner"]
      BY <2>8 DEF CommitStage, StageBreaks
    <3>2. ASSUME NEW m, NEW q, w' = [w EXCEPT !.pc = "mark", !.mark = m, !.back = "owner", !.prompt = q]
          PROVE  w'.pc \in Plain
      BY <1>3, <3>2
    <3>3. ASSUME NEW m, w' = [w EXCEPT !.pc = "mark", !.mark = m, !.back = "owner"]
          PROVE  w'.pc \in Plain
      BY <1>3, <3>3
    <3> QED BY <1>2, <3>1, <3>2, <3>3
  <2>9. CASE MarkRevision
    <3>1. w.back \in Plain BY <1>0 DEF WorkerStates
    <3> QED BY <1>1, <1>2, <2>9, <3>1 DEF MarkRevision
  <2>10. CASE CheckBatchOwner BY <1>2, <2>10 DEF CheckBatchOwner, IdleWorker
  <2>11. CASE StageError BY <1>3, <1>1, <2>11 DEF StageError
  <2>12. CASE RetryStage BY <1>3, <1>1, <1>2, <2>12 DEF RetryStage
  <2> QED BY <2>1, <2>2, <2>3, <2>4, <2>5, <2>6, <2>7, <2>8, <2>9, <2>10, <2>11, <2>12
    DEF RenderQuietly
<1> QED BY <1>a, <1>b, <1>c

\* Opening a scene moves the row to the stage's state; the outcome closes the job.
LEMMA BatchesSettle == ASSUME IInv, Settling, Render PROVE Settling'
<1> USE ConstantsAssumption
<1>0. TypeOK /\ OwnerInv /\ NoJobLost /\ WorkerOK BY DEF IInv, Settling
<1>1. CASE RenderQuietly BY <1>1, RenderIsQuiet, QuietSettles
<1>2. CASE BeginStitch
  BY <1>2, TransitionSettles DEF BeginStitch, At, Busy, Plain, WorkerSteps, Recoveries, RenderStates
<1>3. CASE FinishJob
  <2>1. Busy /\ UNCHANGED <<pipe, up, g>> BY <1>3 DEF FinishJob, At, Busy
  <2>2. CASE Owns(w.job)
    <3>1. w'.pc = "send" /\ w'.job = w.job
      BY <1>0, <1>3, <2>2, GoToKeeps DEF FinishJob, TypeOK
    <3> DEFINE x == IF w.complete THEN "succeeded" ELSE "partial"
    <3>2. x \in JobStates \ {"absent", "cancelled"} /\ x \in {"succeeded", "partial"}
      BY DEF JobStates
    <3>3. status' = [status EXCEPT ![w.job] = x] BY <1>3, <2>2 DEF FinishJob
    <3> HIDE DEF x
    <3> QED BY <2>1, <2>2, <3>1, <3>2, <3>3, StatusSettles
  <2>3. CASE ~Owns(w.job)
    BY <1>3, <2>1, <2>3, HomeSettles DEF FinishJob
  <2> QED BY <2>2, <2>3
<1>4. ASSUME NEW s \in Scenes, BeginStage(s) PROVE Settling'
  <2>1. Busy /\ UNCHANGED <<status, up, g>> BY <1>4 DEF BeginStage, MustRender, At, Busy
  <2>2. CASE CanWrite(w.job, s)
    <3>1. pipe' = [state |-> RunningState[w.stage], job |-> w.job, scene |-> s]
          /\ w' = [w EXCEPT !.pc = "prompt", !.scene = s,
                            !.prompt = BegunScene(scene[w.job][s], w.stage).prompt]
      BY <1>4, <2>2 DEF BeginStage
    <3>2. w'.pc = "prompt" BY <1>0, <3>1 DEF TypeOK, WorkerStates
    <3>3. RunningState[w.stage] \in {"running_t2i", "running_i2v"}
      BY <1>0 DEF TypeOK, WorkerStates, RunningState
    <3>4. pipe.job = w.job BY <2>2 DEF CanWrite, Owns
    <3>5. pipe'.state \in RenderStates /\ pipe'.state \notin FreeStates /\ pipe'.job = pipe.job
      BY <3>1, <3>3, <3>4 DEF RenderStates, FreeStates
    <3>6. NoJobLost' BY <1>0, <2>1, <3>5 DEF NoJobLost
    <3>7. OwnerInv' BY <1>0, <2>1, <3>2, <3>5 DEF OwnerInv, Busy, Recoveries, FreeStates
    <3> QED BY <3>6, <3>7 DEF Settling
  <2>3. CASE ~CanWrite(w.job, s)
    BY <1>4, <2>1, <2>3, HomeSettles DEF BeginStage
  <2> QED BY <2>2, <2>3
<1> QED BY <1>1, <1>2, <1>3, <1>4 DEF Render, RenderQuietly

\* The worker of a recovery keeps the snapshot it has taken only up to the restart.
LEMMA RecoveringIs ==
  ASSUME w \in WorkerStates, NEW step \in {"idle", "restart", "dead"}, Recovering(step)
  PROVE  w'.pc = step /\ (step = "restart" => w'.snap = w.snap)
BY DEF Recovering, IdleWorker

\* handle_fatal gives the row back to the job of its snapshot, or to none.
LEMMA FatalSettles ==
  ASSUME IInv, Settling, Busy, w.pc \in Recoveries, NEW st \in PipeStates, NEW sc,
         NEW step \in {"idle", "restart"}, FatalTransition(st, sc, step),
         st \in FreeStates => w.snap.job = NoJob, step = "restart" => st = "error",
         UNCHANGED <<status, up, g>>
  PROVE  Settling'
<1> USE ConstantsAssumption
<1>0. TypeOK /\ OwnerInv /\ NoJobLost /\ w \in WorkerStates BY DEF IInv, TypeOK, Settling
<1>1. CASE w.snap.job = NoJob
  <2>1. pipe' = [pipe EXCEPT !.state = st, !.scene = sc] /\ Recovering(step)
    BY <1>1 DEF FatalTransition
  <2>2. pipe'.job = NoJob /\ pipe.job = NoJob
    BY <1>0, <1>1, <2>1 DEF TypeOK, PipeRows, OwnerInv
  <2>3. w'.pc = step /\ (step = "restart" => w'.snap = w.snap) BY <1>0, <2>1, RecoveringIs
  <2>4. NoJobLost' BY <1>0, <2>2 DEF NoJobLost
  <2>5. OwnerInv' BY <1>0, <2>2, <2>3 DEF OwnerInv, Recoveries, Busy
  <2> QED BY <2>4, <2>5 DEF Settling
<1>2. CASE /\ pipe' = [state |-> st, job |-> w.snap.job, scene |-> sc]
           /\ Recovering(step) /\ Owns(w.snap.job) /\ w.snap.job # NoJob
  <2>1. pipe'.job = pipe.job /\ pipe'.state = st /\ st \notin FreeStates BY <1>2 DEF Owns
  <2>2. w'.pc = step /\ (step = "restart" => w'.snap = w.snap) BY <1>0, <1>2, RecoveringIs
  <2>3. NoJobLost' BY <1>0, <2>1 DEF NoJobLost
  <2>4. OwnerInv' BY <1>0, <1>2, <2>1, <2>2 DEF OwnerInv, Recoveries, Busy, FreeStates
  <2> QED BY <2>3, <2>4 DEF Settling
<1>3. CASE Recovering("dead") /\ UNCHANGED pipe
  <2>1. w'.pc = "dead" BY <1>0, <1>3, RecoveringIs
  <2>2. w'.pc \in Plain BY <2>1 DEF Plain, WorkerSteps, Recoveries
  <2> QED BY <1>3, <2>2, QuietSettles
<1> QED BY <1>1, <1>2, <1>3 DEF FatalTransition

\* A fatal error, the restart of ComfyUI and the recovery.
LEMMA RecoverySettles == ASSUME IInv, Settling, Recovery PROVE Settling'
<1> USE ConstantsAssumption
<1>0. TypeOK /\ OwnerInv /\ NoJobLost /\ w \in WorkerStates BY DEF IInv, TypeOK, Settling
<1>1. CASE FatalSnapshot
  <2>1. w'.pc = "fatalerror" /\ w'.snap = pipe /\ up /\ w.pc = "fatal"
    BY <1>1 DEF FatalSnapshot, IdleWorker, At
  <2>2. UNCHANGED <<pipe, status, up, g>> BY <1>1 DEF FatalSnapshot, rows
  <2> QED BY <1>0, <2>1, <2>2 DEF Settling, OwnerInv, NoJobLost, Recoveries, FreeStates,
      RenderStates
<1>2. CASE FatalError
  <2>1. "error" \in PipeStates /\ "error" \notin FreeStates BY DEF PipeStates, FreeStates
  <2>2. Busy /\ w.pc \in Recoveries /\ FatalTransition("error", w.snap.scene, "restart")
        /\ UNCHANGED <<status, up, g>>
    BY <1>2 DEF FatalError, At, Busy, Recoveries
  <2> QED BY <2>1, <2>2, FatalSettles
<1>3. CASE RestartSucceeds
  <2>1. w'.pc = "recover" /\ w'.snap = w.snap /\ up /\ w.pc = "restart"
    BY <1>0, <1>3, GoToKeeps DEF RestartSucceeds, At
  <2>2. UNCHANGED <<pipe, status, up, g>> BY <1>3 DEF RestartSucceeds, rows
  <2> QED BY <1>0, <2>1, <2>2 DEF Settling, OwnerInv, NoJobLost, Recoveries
<1>4. CASE RestartFails
  BY <1>4, HomeSettles DEF RestartFails, rows, At, Busy
<1>5. CASE RequeueUnfinished
  <2>1. w'.pc = "resume" /\ w'.snap = w.snap /\ up /\ w.pc = "recover"
    BY <1>0, <1>5, GoToKeeps DEF RequeueUnfinished, At
  <2>2. UNCHANGED <<pipe, status, up, g>> BY <1>5 DEF RequeueUnfinished
  <2> QED BY <1>0, <2>1, <2>2 DEF Settling, OwnerInv, NoJobLost, Recoveries
<1>6. CASE ResumeRender
  <2>1. "downloading_assets" \in PipeStates /\ "downloading_assets" \notin FreeStates
    BY DEF PipeStates, RenderStates, FreeStates
  <2>2. Busy /\ w.pc \in Recoveries /\ FatalTransition("downloading_assets", NoScene, "idle")
        /\ UNCHANGED <<status, up, g>>
    BY <1>6 DEF ResumeRender, At, Busy, Recoveries
  <2> QED BY <2>1, <2>2, FatalSettles
<1>7. CASE RestoreState
  <2>1. w.snap.state \in PipeStates /\ (w.snap.state \in FreeStates => w.snap.job = NoJob)
    BY <1>0, <1>7 DEF RestoreState, At, WorkerStates, PipeRows, OwnerInv, Recoveries
  <2>2. Busy /\ w.pc \in Recoveries /\ FatalTransition(w.snap.state, NoScene, "idle")
        /\ UNCHANGED <<status, up, g>>
    BY <1>7 DEF RestoreState, At, Busy, Recoveries
  <2> QED BY <2>1, <2>2, FatalSettles
<1>8. CASE StayInError
  BY <1>8, HomeSettles DEF StayInError, rows, At, Busy
<1> QED BY <1>1, <1>2, <1>3, <1>4, <1>5, <1>6, <1>7, <1>8 DEF Recovery

\* abandon_job cancels the one job that the row promised work for.
LEMMA AbandonSettles ==
  ASSUME IInv, Settling, NEW j \in Jobs, Abandon(j), pipe.job = j, up', UNCHANGED w
  PROVE  Settling'
<1> USE ConstantsAssumption
<1>0. TypeOK /\ OwnerInv /\ NoJobLost /\ w \in WorkerStates BY DEF IInv, TypeOK, Settling
<1>1. pipe'.job = NoJob /\ pipe'.state = "idle" /\ status' \in [Jobs -> JobStates]
      /\ status'[j] = "cancelled" /\ \A k \in Jobs : k # j => status'[k] = status[k]
  BY <1>0 DEF Abandon, NoPipe, TypeOK, JobStates
<1>2. NoJobLost' BY <1>0, <1>1 DEF NoJobLost
<1>3. (w.pc \in {"send", "sent"} => IF w.job = NoJob THEN pipe'.job = NoJob
                                  ELSE status'[w.job] \in {"succeeded", "partial", "cancelled"})
  BY <1>0, <1>1 DEF OwnerInv, WorkerStates
<1>4. OwnerInv' BY <1>0, <1>1, <1>3 DEF OwnerInv
<1> QED BY <1>2, <1>4 DEF Settling

\* The GUI approves, cancels and interrupts.
LEMMA GuiSettles == ASSUME IInv, Settling, Gui PROVE Settling'
<1> USE ConstantsAssumption
<1>0. TypeOK /\ OwnerInv /\ NoJobLost /\ w \in WorkerStates BY DEF IInv, TypeOK, Settling
<1>1. CASE ApproveJob
  <2>1. pipe.job \in Jobs /\ pipe.job # NoJob /\ up BY <1>0, <1>1 DEF ApproveJob, TypeOK, PipeRows
  <2>2. w.pc \in {"idle", "dead"}
    BY <1>0, <1>1, <2>1 DEF ApproveJob, OwnerInv, RenderStates
  <2>3. pipe'.job = pipe.job /\ pipe'.state = "downloading_assets" /\ UNCHANGED <<w, g, up>>
    BY <1>0, <1>1 DEF ApproveJob, TypeOK, PipeRows
  <2>4. status' \in [Jobs -> JobStates] /\ \A k \in Jobs : k # pipe.job => status'[k] = status[k]
    BY <1>0, <1>1, <2>1 DEF ApproveJob, TypeOK, JobStates
  <2>5. NoJobLost' BY <1>0, <2>3, <2>4 DEF NoJobLost
  <2>6. OwnerInv' BY <1>0, <2>1, <2>2, <2>3 DEF OwnerInv, Recoveries, FreeStates
  <2> QED BY <2>5, <2>6 DEF Settling
<1>2. CASE GuiCancel
  <2>1. up /\ up' = up /\ UNCHANGED <<pipe, status, w>> BY <1>2 DEF GuiCancel, rows
  <2> QED BY <1>0, <2>1 DEF Settling, OwnerInv, NoJobLost
<1>3. CASE GuiAbandon
  <2>1. up /\ up' = up /\ UNCHANGED w BY <1>3 DEF GuiAbandon
  <2>2. CASE pipe.job = g.job /\ g.job \in Jobs
    BY <1>3, <2>1, <2>2, AbandonSettles DEF GuiAbandon
  <2>3. CASE pipe.job = g.job /\ g.job \notin Jobs
    <3>1. Abandon(g.job) /\ pipe.job = NoJob
      BY <1>0, <1>3, <2>3 DEF GuiAbandon, TypeOK, PipeRows
    <3>2. pipe'.job = NoJob /\ pipe'.state = "idle" /\ status' = status
      BY <1>0, <2>3, <3>1 DEF Abandon, NoPipe, TypeOK
    <3> QED BY <1>0, <2>1, <3>1, <3>2 DEF Settling, OwnerInv, NoJobLost
  <2>4. CASE pipe.job # g.job
    <3>1. UNCHANGED <<pipe, status>> BY <1>3, <2>4 DEF GuiAbandon
    <3> QED BY <1>0, <2>1, <3>1 DEF Settling, OwnerInv, NoJobLost
  <2> QED BY <2>2, <2>3, <2>4
<1>4. CASE GuiCancelPrompts
  <2>1. up /\ up' = up /\ UNCHANGED <<pipe, status, w>> BY <1>4 DEF GuiCancelPrompts, rows
  <2> QED BY <1>0, <2>1 DEF Settling, OwnerInv, NoJobLost
<1> QED BY <1>1, <1>2, <1>3, <1>4 DEF Gui

\* ComfyUI does not touch the rows.
LEMMA ComfyUISettles == ASSUME IInv, Settling, ComfyUI PROVE Settling'
<1>1. UNCHANGED <<pipe, status, w, g, up>>
  BY DEF ComfyUI, ComfyCrash, ComfyReturns, PromptCompletes, PromptErrors, rows
<1> QED BY <1>1 DEF Settling, OwnerInv, NoJobLost

\* A crash forgets the worker; a launch finds a saved job or leaves the row alone.
LEMMA ProcessSettles == ASSUME IInv, Settling, Process PROVE Settling'
<1> USE ConstantsAssumption
<1>0. TypeOK /\ OwnerInv /\ NoJobLost /\ w \in WorkerStates BY DEF IInv, TypeOK, Settling
<1>1. CASE Crash
  <2>1. w' = IdleWorker /\ g' = IdleGui /\ UNCHANGED <<pipe, status>> BY <1>1 DEF Crash, rows
  <2>2. w'.pc = "idle" BY <2>1 DEF IdleWorker
  <2> QED BY <1>0, <2>1, <2>2 DEF Settling, OwnerInv, NoJobLost, Recoveries
<1>2. CASE Launch
  <2>1. up' /\ UNCHANGED <<pipe, status, w>> BY <1>2 DEF Launch, rows
  <2> QED BY <1>0, <2>1 DEF Settling, OwnerInv, NoJobLost
<1>3. ASSUME NEW j \in Jobs, LaunchRetry(j) \/ LaunchFinish(j) PROVE Settling'
  <2>1. pipe.job = j /\ pipe'.job = j /\ pipe'.state = "downloading_assets" /\ up' /\ w' = w
        /\ ~up
    BY <1>3 DEF LaunchRetry, LaunchFinish, SavedJob
  <2>2. w.pc = "idle" BY <1>0, <2>1 DEF OwnerInv, IdleWorker
  <2>3. \A k \in Jobs : k # j => status'[k] = status[k]
    BY <1>0, <1>3 DEF LaunchRetry, LaunchFinish, TypeOK
  <2>4. NoJobLost' BY <1>0, <2>1, <2>3 DEF NoJobLost
  <2>5. OwnerInv' BY <1>0, <2>1, <2>2 DEF OwnerInv, Recoveries, FreeStates
  <2> QED BY <2>4, <2>5 DEF Settling
<1>4. ASSUME NEW j \in Jobs, LaunchAbandon(j) PROVE Settling'
  <2>1. Abandon(j) /\ pipe.job = j /\ up' /\ UNCHANGED w
    BY <1>4 DEF LaunchAbandon, SavedJob
  <2> QED BY <2>1, AbandonSettles
<1> QED BY <1>1, <1>2, <1>3, <1>4 DEF Process

\* Every step keeps the owner's invariant, and the first state has it.
LEMMA StepSettles == ASSUME IInv, Settling, [Next]_vars PROVE Settling'
<1>1. CASE Next
  BY <1>1, TickSettles, BatchesSettle, RecoverySettles, GuiSettles, ComfyUISettles,
    ProcessSettles DEF Next, Worker
<1>2. CASE UNCHANGED vars
  BY <1>2 DEF vars, Settling, OwnerInv, NoJobLost
<1> QED BY <1>1, <1>2

\* The first state owes nothing to any job.
LEMMA InitSettles == ASSUME Init PROVE Settling
BY ConstantsAssumption DEF Init, Settling, OwnerInv, NoJobLost, NoPipe, IdleWorker,
  Recoveries, FreeStates
-----------------------------------------------------------------------------
(* Live prompts are paid for *)

\* What the moves of ComfyUI's queue do to the live prompts.
LEMMA LiveAfter ==
  ASSUME prompts \in [Prompts -> PromptRecords]
  PROVE  /\ prompts' = prompts => LivePrompts' = LivePrompts
         /\ \A P : prompts' = Cancelled(P) => LivePrompts' = LivePrompts \ P
         /\ prompts' = Lost => LivePrompts' = {}
<1>0. ASSUME NEW p \in Prompts PROVE [prompts[p] EXCEPT !.st = "gone"].st = "gone"
  BY DEF PromptRecords
<1>1. prompts' = prompts => LivePrompts' = LivePrompts BY DEF LivePrompts, Live
<1>2. ASSUME NEW P, prompts' = Cancelled(P) PROVE LivePrompts' = LivePrompts \ P
  <2>1. ASSUME NEW p \in Prompts
        PROVE  prompts'[p] = IF p \in P /\ Live(p) THEN [prompts[p] EXCEPT !.st = "gone"]
                             ELSE prompts[p]
    BY <1>2 DEF Cancelled
  <2>2. ASSUME NEW p \in Prompts PROVE prompts'[p].st = "live" <=> Live(p) /\ p \notin P
    BY <1>0, <2>1 DEF Live
  <2> QED BY <2>2 DEF LivePrompts, Live
<1>3. ASSUME prompts' = Lost PROVE LivePrompts' = {}
  BY <1>0, <1>3 DEF Lost, LivePrompts, Live
<1> QED BY <1>1, <1>2, <1>3

\* Prompts stay paid for while none is added: the one the worker holds is let go only when
\* it no longer runs, or at the price of a fault.
LEMMA FewerPaid ==
  ASSUME PaidFor, LivePrompts' \subseteq LivePrompts, faults \in Nat,
         faults' \in {faults, faults + 1}, ~comfyUp' => LivePrompts' = {},
         \/ w.pc \notin Holding
         \/ w'.pc \in Holding /\ w'.prompt = w.prompt
         \/ w.prompt \notin LivePrompts'
         \/ faults' = faults + 1
  PROVE  PaidFor'
<1> DEFINE L == LivePrompts
<1>0. IsFiniteSet(L) /\ IsFiniteSet(L') BY FS_Subset DEF PaidFor
<1>1. Cardinality(L') \in Nat /\ Cardinality(L) \in Nat /\ Cardinality(L') <= Cardinality(L)
  BY <1>0, FS_CardinalityType, FS_Subset
<1>2. CASE Cardinality(L) <= faults
  <2>1. Cardinality(L') <= faults' BY <1>1, <1>2
  <2> QED BY <1>0, <2>1 DEF PaidFor
<1>3. CASE w.pc \in Holding /\ Cardinality(L \ {w.prompt}) <= faults
  <2> DEFINE M == L' \ {w.prompt}
  <2>1. IsFiniteSet(M) /\ IsFiniteSet(L \ {w.prompt}) BY <1>0, FS_Subset
  <2>2. Cardinality(M) <= Cardinality(L \ {w.prompt}) /\ Cardinality(M) \in Nat
        /\ Cardinality(L \ {w.prompt}) \in Nat
    BY <2>1, FS_Subset, FS_CardinalityType
  <2>3. CASE w'.pc \in Holding /\ w'.prompt = w.prompt
    <3>1. L' \ {w'.prompt} = M BY <2>3
    <3>2. Cardinality(L' \ {w'.prompt}) <= faults' BY <1>3, <2>2, <3>1
    <3> QED BY <1>0, <2>3, <3>2 DEF PaidFor, Holding
  <2>4. CASE w.prompt \notin L'
    <3>1. L' = M BY <2>4
    <3>2. Cardinality(L') <= faults' BY <1>3, <2>2, <3>1
    <3> QED BY <1>0, <3>2 DEF PaidFor
  <2>5. CASE faults' = faults + 1 /\ w.prompt \in L'
    <3>1. Cardinality(M) = Cardinality(L') - 1 BY <1>0, <2>5, FS_RemoveElement
    <3>2. Cardinality(L') <= faults' BY <1>1, <1>3, <2>2, <2>5, <3>1
    <3> QED BY <1>0, <3>2 DEF PaidFor
  <2> QED BY <1>3, <2>3, <2>4, <2>5
<1> QED BY <1>2, <1>3 DEF PaidFor, Holding

\* A new prompt: bound to the worker, or lost to it at the price of a fault.
LEMMA OneMorePaid ==
  ASSUME PaidFor, w.pc \notin Holding, NEW p \in Prompts, p \notin LivePrompts, faults \in Nat,
         LivePrompts' = LivePrompts \cup {p}, comfyUp',
         \/ faults' = faults + 1
         \/ w'.pc = "bind" /\ w'.prompt = p /\ faults' = faults
  PROVE  PaidFor'
<1> DEFINE L == LivePrompts
<1>1. IsFiniteSet(L) /\ Cardinality(L) \in Nat /\ Cardinality(L) <= faults
  BY FS_CardinalityType DEF PaidFor, Holding
<1>2. IsFiniteSet(L') /\ Cardinality(L') = Cardinality(L) + 1 BY <1>1, FS_AddElement
<1>3. CASE faults' = faults + 1
  BY <1>1, <1>2, <1>3 DEF PaidFor
<1>4. CASE w'.pc = "bind" /\ w'.prompt = p /\ faults' = faults
  <2>1. L' \ {w'.prompt} = L BY <1>4
  <2>2. Cardinality(L' \ {w'.prompt}) <= faults' BY <1>1, <1>4, <2>1
  <2> QED BY <1>2, <1>4, <2>2 DEF PaidFor, Holding
<1> QED BY <1>3, <1>4

\* Steps that leave ComfyUI alone while the worker holds no prompt.
LEMMA ApartPaid ==
  ASSUME IInv, PaidFor, UNCHANGED <<prompts, comfyUp, faults>>,
         w.pc \notin Holding \/ (w'.pc \in Holding /\ w'.prompt = w.prompt)
  PROVE  PaidFor'
<1>1. LivePrompts' = LivePrompts /\ faults \in Nat
  BY LiveAfter DEF IInv, TypeOK
<1>2. ~comfyUp' => LivePrompts' = {} BY <1>1 DEF PaidFor
<1> QED BY <1>1, <1>2, FewerPaid

\* The worker's steps around a prompt, and all others.
LEMMA RenderPaid == ASSUME IInv, PaidFor, Render PROVE PaidFor'
<1> USE ConstantsAssumption
<1> DEFINE L == LivePrompts
<1>0. w \in WorkerStates /\ prompts \in [Prompts -> PromptRecords] /\ faults \in Nat
      /\ (~comfyUp => L = {})
  BY DEF IInv, TypeOK, PaidFor
<1>1. ASSUME NEW p \in Prompts, QueuePrompt(p) PROVE PaidFor'
  <2>1. w.pc \notin Holding /\ p \notin L /\ comfyUp' /\ faults' = faults
    BY <1>1 DEF QueuePrompt, FreePrompt, At, Holding, LivePrompts
  <2>2. w'.pc = "bind" /\ w'.prompt = p BY <1>0, <1>1 DEF QueuePrompt, WorkerStates
  <2>3. L' = L \cup {p} BY <1>0, <1>1 DEF QueuePrompt, Enqueued, LivePrompts, Live
  <2> QED BY <1>0, <2>1, <2>2, <2>3, OneMorePaid
<1>2. ASSUME NEW p \in Prompts, QueueAmbiguous(p) PROVE PaidFor'
  <2>1. w.pc \notin Holding /\ p \notin L /\ comfyUp' /\ faults' = faults + 1
    BY <1>2 DEF QueueAmbiguous, FreePrompt, At, Holding, LivePrompts, Fault
  <2>2. L' = L \cup {p} BY <1>0, <1>2 DEF QueueAmbiguous, Enqueued, LivePrompts, Live
  <2> QED BY <1>0, <2>1, <2>2, OneMorePaid
<1>3. CASE BindPrompt
  <2>1. faults' = faults /\ comfyUp' = comfyUp BY <1>3 DEF BindPrompt
  <2>2. CASE CanWrite(w.job, w.scene)
    <3>1. GoTo("check") /\ prompts' = prompts BY <1>3, <2>2 DEF BindPrompt
    <3>2. w'.pc \in Holding /\ w'.prompt = w.prompt BY <1>0, <3>1, GoToKeeps DEF Holding
    <3> QED BY <2>1, <3>1, <3>2, ApartPaid
  <2>3. CASE ~CanWrite(w.job, w.scene)
    <3>1. prompts' = IF comfyUp THEN Cancelled({w.prompt}) ELSE prompts
      BY <1>3, <2>3 DEF BindPrompt
    <3>2. L' \subseteq L \ {w.prompt} BY <1>0, <3>1, LiveAfter
    <3>3. ~comfyUp' => L' = {} BY <1>0, <2>1, <3>2
    <3> QED BY <1>0, <2>1, <3>2, <3>3, FewerPaid
  <2> QED BY <2>2, <2>3
<1>4. CASE CheckOwner
  <2>1. faults' = faults /\ comfyUp' = comfyUp BY <1>4 DEF CheckOwner
  <2>2. CASE CanWrite(w.job, w.scene)
    <3>1. GoTo("wait") /\ prompts' = prompts BY <1>4, <2>2 DEF CheckOwner
    <3>2. w'.pc \in Holding /\ w'.prompt = w.prompt BY <1>0, <3>1, GoToKeeps DEF Holding
    <3> QED BY <2>1, <3>1, <3>2, ApartPaid
  <2>3. CASE ~CanWrite(w.job, w.scene)
    <3>1. prompts' = IF comfyUp THEN Cancelled({w.prompt}) ELSE prompts
      BY <1>4, <2>3 DEF CheckOwner
    <3>2. L' \subseteq L \ {w.prompt} BY <1>0, <3>1, LiveAfter
    <3>3. ~comfyUp' => L' = {} BY <1>0, <2>1, <3>2
    <3> QED BY <1>0, <2>1, <3>2, <3>3, FewerPaid
  <2> QED BY <2>2, <2>3
<1>5. CASE PromptSucceeded \/ PromptFailed
  <2>1. UNCHANGED <<prompts, comfyUp, faults>> /\ w.prompt \notin L
    BY <1>5 DEF PromptSucceeded, PromptFailed, comfy, LivePrompts, Live
  <2>2. L' = L BY <1>0, <2>1, LiveAfter
  <2> QED BY <1>0, <2>1, <2>2, FewerPaid
<1>6. CASE PromptTimeout
  <2>1. prompts' = Cancelled({w.prompt}) /\ comfyUp /\ comfyUp' = comfyUp /\ faults' = faults
    BY <1>6 DEF PromptTimeout
  <2>2. L' = L \ {w.prompt} BY <1>0, <2>1, LiveAfter
  <2> QED BY <1>0, <2>1, <2>2, FewerPaid
<1>7. CASE PollHiccup
  <2>1. UNCHANGED <<prompts, comfyUp>> /\ faults' = faults + 1
    BY <1>7 DEF PollHiccup, comfy, Fault
  <2>2. L' = L BY <1>0, <2>1, LiveAfter
  <2> QED BY <1>0, <2>1, <2>2, FewerPaid
<1>8. CASE ComfyUnreachable
  <2>1. UNCHANGED <<prompts, comfyUp, faults>> /\ ~comfyUp
    BY <1>8 DEF ComfyUnreachable, comfy
  <2>2. L' = L /\ L = {} BY <1>0, <2>1, LiveAfter
  <2> QED BY <1>0, <2>1, <2>2, FewerPaid
<1>9. CASE \/ OpenBatch \/ BatchDone \/ LookupHistory \/ LookupQueue \/ QueueRejected
           \/ HarvestClip \/ HarvestFails \/ CommitStage \/ MarkRevision \/ CheckBatchOwner
           \/ StageError \/ RetryStage \/ StageBreaks \/ CollectScenes \/ BeginStitch
           \/ Stitch \/ StitchFails \/ FinishJob
  <2>1. UNCHANGED <<prompts, comfyUp, faults>> /\ w.pc \notin Holding
    BY <1>9 DEF OpenBatch, BatchDone, LookupHistory, LookupQueue, QueueRejected, HarvestClip,
      HarvestFails, CommitStage, MarkRevision, CheckBatchOwner, StageError, RetryStage,
      StageBreaks, CollectScenes, BeginStitch, Stitch, StitchFails, FinishJob, comfy, At, Holding
  <2> QED BY <2>1, ApartPaid
<1>10. ASSUME NEW s \in Scenes,
              ReuseFrame(s) \/ AdoptFile(s) \/ AttemptsSpent(s) \/ BeginStage(s)
       PROVE  PaidFor'
  <2>1. UNCHANGED <<prompts, comfyUp, faults>> /\ w.pc \notin Holding
    BY <1>10 DEF ReuseFrame, AdoptFile, AttemptsSpent, BeginStage, MustRender, comfy, At, Holding
  <2> QED BY <2>1, ApartPaid
<1> QED BY <1>1, <1>2, <1>3, <1>4, <1>5, <1>6, <1>7, <1>8, <1>9, <1>10 DEF Render

\* Every step keeps the live prompts paid for, and there are none at first.
LEMMA StepPaid == ASSUME IInv, Settling, PaidFor, [Next]_vars PROVE PaidFor'
<1> USE ConstantsAssumption
<1> DEFINE L == LivePrompts
<1>0. w \in WorkerStates /\ prompts \in [Prompts -> PromptRecords] /\ faults \in Nat
      /\ (~comfyUp => L = {})
  BY DEF IInv, TypeOK, PaidFor
<1>1. CASE Tick
  <2>1. UNCHANGED <<prompts, comfyUp, faults>> /\ w.pc \notin Holding
    BY <1>1 DEF Tick, PollAccept, PollNothing, SendRequest, SendFails, RequestSent, TickProcess,
      TickNoJob, StartJob, EnsureRevisions, BeginAssets, ResolveAssets, AssetsDone, GiveUp,
      GiveUpJob, FailAssets, comfy, At, Holding
  <2> QED BY <2>1, ApartPaid
<1>2. CASE Render BY <1>2, RenderPaid
<1>3. CASE Recovery
  <2>1. CASE RestartSucceeds \/ RestartFails
    <3>1. faults' = faults /\ w.pc \notin Holding
          /\ (prompts' = Lost \/ (prompts' = prompts /\ comfyUp' = comfyUp))
      BY <2>1 DEF RestartSucceeds, RestartFails, At, Holding
    <3>2. L' \subseteq L /\ (~comfyUp' => L' = {}) BY <1>0, <3>1, LiveAfter
    <3> QED BY <1>0, <3>1, <3>2, FewerPaid
  <2>2. CASE \/ FatalSnapshot \/ FatalError \/ RequeueUnfinished \/ ResumeRender
             \/ RestoreState \/ StayInError
    <3>1. UNCHANGED <<prompts, comfyUp, faults>> /\ w.pc \notin Holding
      BY <2>2 DEF FatalSnapshot, FatalError, RequeueUnfinished, ResumeRender, RestoreState,
        StayInError, comfy, At, Holding
    <3> QED BY <3>1, ApartPaid
  <2> QED BY <1>3, <2>1, <2>2 DEF Recovery
<1>4. CASE Gui
  <2>1. w' = w /\ faults' = faults /\ comfyUp' = comfyUp
        /\ (prompts' = prompts \/ (comfyUp /\ prompts' = Cancelled(Prompts)))
    BY <1>4 DEF Gui, ApproveJob, GuiCancel, GuiAbandon, GuiCancelPrompts, comfy
  <2>2. L' \subseteq L /\ (~comfyUp' => L' = {}) BY <1>0, <2>1, LiveAfter
  <2> QED BY <1>0, <2>1, <2>2, FewerPaid
<1>5. CASE ComfyUI
  <2>1. w' = w /\ faults' \in {faults, faults + 1}
    BY <1>5 DEF ComfyUI, ComfyCrash, ComfyReturns, PromptCompletes, PromptErrors, Fault
  <2>2. L' \subseteq L /\ (~comfyUp' => L' = {})
    <3>1. CASE ComfyCrash BY <1>0, <3>1, LiveAfter DEF ComfyCrash
    <3>2. CASE ComfyReturns BY <1>0, <3>2, LiveAfter DEF ComfyReturns
    <3>3. ASSUME NEW p \in Prompts, NEW x \in {"done", "failed"},
                 prompts' = [prompts EXCEPT ![p].st = x]
          PROVE  L' \subseteq L
      <4>1. \A q \in Prompts : q # p => prompts'[q] = prompts[q] BY <1>0, <3>3
      <4>2. prompts'[p].st = x BY <1>0, <3>3 DEF PromptRecords
      <4> QED BY <4>1, <4>2 DEF LivePrompts, Live
    <3>4. ASSUME NEW p \in Prompts, PromptCompletes(p) \/ PromptErrors(p)
          PROVE  L' \subseteq L /\ (~comfyUp' => L' = {})
      <4>1. comfyUp' /\ (\/ prompts' = [prompts EXCEPT ![p].st = "done"]
                         \/ prompts' = [prompts EXCEPT ![p].st = "failed"])
        BY <3>4 DEF PromptCompletes, PromptErrors
      <4> QED BY <3>3, <4>1
    <3> QED BY <1>5, <3>1, <3>2, <3>4 DEF ComfyUI
  <2> QED BY <1>0, <2>1, <2>2, FewerPaid
<1>6. CASE Process
  <2>1. CASE Crash
    <3>1. UNCHANGED <<prompts, comfyUp>> /\ faults' = faults + 1
      BY <2>1 DEF Crash, comfy, Fault
    <3>2. L' = L BY <1>0, <3>1, LiveAfter
    <3> QED BY <1>0, <3>1, <3>2, FewerPaid
  <2>2. CASE ~up
    <3>1. w.pc \notin Holding BY <2>2 DEF Settling, OwnerInv, IdleWorker, Holding
    <3>2. comfyUp' /\ faults' = faults /\ (prompts' = prompts \/ prompts' = Cancelled(Prompts))
      BY <1>6, <2>2 DEF Process, Crash, Launch, LaunchRetry, LaunchFinish, LaunchAbandon
    <3>3. L' \subseteq L BY <1>0, <3>2, LiveAfter
    <3> QED BY <1>0, <3>1, <3>2, <3>3, FewerPaid
  <2> QED BY <1>6, <2>1, <2>2 DEF Process, Launch, LaunchRetry, LaunchFinish, LaunchAbandon,
    SavedJob
<1>7. CASE UNCHANGED vars
  <2>1. UNCHANGED <<prompts, comfyUp, faults, w>> BY <1>7 DEF vars
  <2>2. L' = L BY <1>0, <2>1, LiveAfter
  <2> QED BY <1>0, <2>1, <2>2, FewerPaid
<1> QED BY <1>1, <1>2, <1>3, <1>4, <1>5, <1>6, <1>7 DEF Next, Worker

\* There is nothing to pay for at first.
LEMMA InitPaid == ASSUME Init PROVE PaidFor
<1>1. LivePrompts = {} /\ faults = 0 BY DEF Init, LivePrompts, Live
<1> QED BY <1>1, FS_EmptySet DEF PaidFor

\* Paid-for prompts bound the renders, and those of jobs that were cancelled.
LEMMA PaidBounds ==
  ASSUME IInv, PaidFor PROVE RendersBounded /\ QuietAfterCancel
<1> DEFINE L == LivePrompts
           Q == {p \in LivePrompts : prompts[p].job # pipe.job}
<1>0. IsFiniteSet(L) /\ Cardinality(L) \in Nat /\ faults \in Nat
  BY ConstantsAssumption, FS_CardinalityType DEF PaidFor, IInv, TypeOK
<1>1. CASE Cardinality(L) <= faults
  <2>1. Cardinality(Q) <= Cardinality(L) /\ Cardinality(Q) \in Nat
    BY <1>0, FS_Subset, FS_CardinalityType
  <2>2. Cardinality(Q) <= faults BY <1>0, <1>1, <2>1
  <2> QED BY <1>0, <1>1, <2>2 DEF RendersBounded, QuietAfterCancel
<1>2. CASE w.pc \in Holding /\ Cardinality(L \ {w.prompt}) <= faults
  <2>1. Cardinality(L) <= 1 + faults
    <3>1. CASE w.prompt \in L
      <4>1. Cardinality(L \ {w.prompt}) = Cardinality(L) - 1
        BY <1>0, <3>1, FS_RemoveElement
      <4> QED BY <1>0, <1>2, <4>1
    <3>2. CASE w.prompt \notin L
      <4>1. L \ {w.prompt} = L BY <3>2
      <4> QED BY <1>0, <1>2, <4>1
    <3> QED BY <3>1, <3>2
  <2> QED BY <1>2, <2>1 DEF RendersBounded, QuietAfterCancel, Holding
<1> QED BY <1>1, <1>2 DEF PaidFor
-----------------------------------------------------------------------------
(* The rows agree with the files and the prompts *)

\* The rows after a step in which only the row of scene s of job j may change.
RowBecomes(j, s, r) ==
  \A k \in Jobs, u \in Scenes : scene'[k][u] = IF k = j /\ u = s THEN r ELSE scene[k][u]

\* Prompts keep what they render, and a frame that is done is on disk.
PromptsKept ==
  /\ \A p \in Prompts : /\ prompts'[p].job = prompts[p].job /\ prompts'[p].scene = prompts[p].scene
                        /\ prompts'[p].stage = prompts[p].stage
  /\ \A p \in Prompts : prompts'[p].st = "done" /\ prompts'[p].stage = "t2i"
       => prompts[p].st = "done" \/ <<prompts'[p].job, prompts'[p].scene, "t2i">> \in files'

\* An update of one row in the table.
LEMMA RowSet ==
  ASSUME IInv, NEW j \in Jobs, NEW s \in Scenes, NEW r, scene' = [scene EXCEPT ![j][s] = r]
  PROVE  RowBecomes(j, s, r)
BY DEF IInv, TypeOK, RowBecomes

\* Cancelled and lost prompts keep what they render and finish nothing.
LEMMA QuietPrompts ==
  ASSUME IInv,
         \/ prompts' = prompts
         \/ prompts' = Lost
         \/ \E P : prompts' = Cancelled(P)
  PROVE  PromptsKept
<1>0. prompts \in [Prompts -> PromptRecords] BY DEF IInv, TypeOK
<1>1. ASSUME NEW p \in Prompts, prompts'[p] = prompts[p] \/ prompts'[p] = [prompts[p] EXCEPT !.st = "gone"]
      PROVE  /\ prompts'[p].job = prompts[p].job /\ prompts'[p].scene = prompts[p].scene
             /\ prompts'[p].stage = prompts[p].stage
             /\ prompts'[p].st = "done" => prompts[p].st = "done"
  BY <1>0, <1>1 DEF PromptRecords
<1>2. \A p \in Prompts : prompts'[p] = prompts[p] \/ prompts'[p] = [prompts[p] EXCEPT !.st = "gone"]
  BY DEF Lost, Cancelled
<1> QED BY <1>1, <1>2 DEF PromptsKept

\* Unless a row changes, prompts that come to nothing and new files keep the rows right.
LEMMA RowsStay ==
  ASSUME IInv, RowsInv, UNCHANGED <<scene, status>>, PromptsKept, files \subseteq files'
  PROVE  RowsInv'
<1>0. scene \in [Jobs -> [Scenes -> SceneRows]] BY DEF IInv, TypeOK
<1>1. SucceededHasClip' BY DEF RowsInv, SucceededHasClip, HasFile
<1>2. PromptMatchesScene'
  <2>1. ASSUME NEW j \in Jobs, NEW s \in Scenes, scene[j][s].prompt # NoPrompt
        PROVE  scene[j][s].prompt \in Prompts
    BY <1>0, <2>1 DEF SceneRows
  <2> QED BY <2>1 DEF RowsInv, PromptMatchesScene, PromptsKept
<1>3. OutcomeMatchesScenes' BY DEF RowsInv, OutcomeMatchesScenes, Unfinished
<1>4. \A p \in Prompts : prompts'[p].st = "done" /\ prompts'[p].stage = "t2i"
        => <<prompts'[p].job, prompts'[p].scene, "t2i">> \in files'
  BY DEF RowsInv, PromptsKept, HasFile
<1> QED BY <1>1, <1>2, <1>3, <1>4 DEF RowsInv, HasFile

\* A row that is right keeps all rows right, unless its job has had an outcome.
RowRight(j, s, r) ==
  /\ r.state = "succeeded" => r.video
  /\ r.video => HasFile(j, s, "i2v")
  /\ r.frame => HasFile(j, s, "t2i")
  /\ r.prompt # NoPrompt => IsOf(r.prompt, j, s, r.stage)
  /\ r.state = "cancelled" => status[j] = "cancelled"

\* One right row in place of another keeps all rows right.
LEMMA RowChanges ==
  ASSUME IInv, RowsInv, NEW j \in Jobs, NEW s \in Scenes, NEW r, RowBecomes(j, s, r),
         RowRight(j, s, r), status[j] \notin {"succeeded", "partial"},
         UNCHANGED <<status, prompts, files>>
  PROVE  RowsInv'
<1>1. SucceededHasClip' BY ZenonT(40) DEF RowsInv, SucceededHasClip, HasFile, RowBecomes, RowRight
<1>2. PromptMatchesScene' BY DEF RowsInv, PromptMatchesScene, RowBecomes, RowRight, IsOf
<1>3. OutcomeMatchesScenes'
  <2>1. \A k \in Jobs : k # j => Unfinished(k)' = Unfinished(k) BY DEF Unfinished, RowBecomes
  <2> QED BY <2>1 DEF RowsInv, OutcomeMatchesScenes
<1>4. \A k \in Jobs, u \in Scenes : scene'[k][u].state = "cancelled" => status[k] = "cancelled"
  BY DEF RowsInv, RowBecomes, RowRight
<1> QED BY <1>1, <1>2, <1>3, <1>4 DEF RowsInv, HasFile

\* The rows of the invariant are right.
LEMMA RowsAreRight ==
  ASSUME RowsInv, NEW j \in Jobs, NEW s \in Scenes PROVE RowRight(j, s, scene[j][s])
BY DEF RowsInv, SucceededHasClip, PromptMatchesScene, RowRight, IsOf

\* The updates of one row that the worker makes.
LEMMA StateKeepsRight ==
  ASSUME NEW j \in Jobs, NEW s \in Scenes, NEW r \in SceneRows, RowRight(j, s, r),
         NEW x \in {"pending", "running", "failed"}
  PROVE  /\ RowRight(j, s, [r EXCEPT !.state = x])
         /\ RowRight(j, s, [r EXCEPT !.prompt = NoPrompt])
         /\ \A t \in Stages : HasFile(j, s, t) => RowRight(j, s, Finished(r, t))
<1>1. RowRight(j, s, [r EXCEPT !.state = x]) BY DEF RowRight, SceneRows
<1>2. RowRight(j, s, [r EXCEPT !.prompt = NoPrompt]) BY DEF RowRight, SceneRows
<1>3. ASSUME HasFile(j, s, "t2i") PROVE RowRight(j, s, Finished(r, "t2i"))
  <2>1. Finished(r, "t2i") = [r EXCEPT !.state = "pending", !.frame = TRUE] BY DEF Finished
  <2> QED BY <1>3, <2>1 DEF RowRight, SceneRows
<1>4. ASSUME HasFile(j, s, "i2v") PROVE RowRight(j, s, Finished(r, "i2v"))
  <2>1. Finished(r, "i2v") = [r EXCEPT !.state = "succeeded", !.video = TRUE] BY DEF Finished
  <2> QED BY <1>4, <2>1 DEF RowRight, SceneRows
<1> QED BY <1>1, <1>2, <1>3, <1>4

\* A begun stage keeps the media of its row and at most the prompt of that very stage.
LEMMA BegunIsRight ==
  ASSUME NEW j \in Jobs, NEW s \in Scenes, NEW r \in SceneRows, RowRight(j, s, r), NEW t \in Stages
  PROVE  /\ RowRight(j, s, BegunScene(r, t))
         /\ BegunScene(r, t).prompt # NoPrompt => IsOf(BegunScene(r, t).prompt, j, s, t)
         /\ BegunScene(r, t).frame = r.frame /\ BegunScene(r, t).video = r.video
         /\ BegunScene(r, t).state = "running"
<1>1. CASE Resumes(r, t)
  <2>1. BegunScene(r, t) = [r EXCEPT !.state = "running"] BY <1>1 DEF BegunScene
  <2> QED BY <1>1, <2>1 DEF RowRight, SceneRows, Resumes
<1>2. CASE ~Resumes(r, t)
  <2> DEFINE a == [r.tries EXCEPT ![t] = @ + 1]
  <2>1. BegunScene(r, t) = [r EXCEPT !.state = "running", !.tries = a, !.prompt = NoPrompt, !.stage = t]
    BY <1>2 DEF BegunScene, SceneRows
  <2> HIDE DEF a
  <2> QED BY <2>1 DEF RowRight, SceneRows
<1> QED BY <1>1, <1>2

\* A job of which every row or the status is replaced: claimed, retried, requeued, finished
\* or abandoned.
LEMMA JobChanges ==
  ASSUME IInv, RowsInv, NEW j \in Jobs, PromptsKept, UNCHANGED files,
         \A k \in Jobs : k # j => scene'[k] = scene[k] /\ status'[k] = status[k],
         \A s \in Scenes : LET r == scene'[j][s] IN
           /\ r.state = "succeeded" => r.video
           /\ r.video => HasFile(j, s, "i2v")
           /\ r.frame => HasFile(j, s, "t2i")
           /\ r.prompt # NoPrompt => r.prompt \in Prompts /\ IsOf(r.prompt, j, s, r.stage)
           /\ r.state = "cancelled" => status'[j] = "cancelled",
         status'[j] = "succeeded" => Unfinished(j)' = {},
         status'[j] = "partial" => Unfinished(j)' \notin {{}, Scenes}
  PROVE  RowsInv'
<1>0. scene \in [Jobs -> [Scenes -> SceneRows]] BY DEF IInv, TypeOK
<1>1. SucceededHasClip' BY DEF RowsInv, SucceededHasClip, HasFile
<1>2. PromptMatchesScene'
  <2>1. ASSUME NEW k \in Jobs, NEW s \in Scenes, k # j, scene[k][s].prompt # NoPrompt
        PROVE  scene[k][s].prompt \in Prompts
    BY <1>0, <2>1 DEF SceneRows
  <2> QED BY <2>1 DEF RowsInv, PromptMatchesScene, PromptsKept, IsOf
<1>3. OutcomeMatchesScenes'
  <2>1. \A k \in Jobs : k # j => Unfinished(k)' = Unfinished(k) BY DEF Unfinished
  <2> QED BY <2>1 DEF RowsInv, OutcomeMatchesScenes
<1>4. \A k \in Jobs, u \in Scenes : scene'[k][u].state = "cancelled" => status'[k] = "cancelled"
  BY DEF RowsInv
<1>5. \A p \in Prompts : prompts'[p].st = "done" /\ prompts'[p].stage = "t2i"
        => <<prompts'[p].job, prompts'[p].scene, "t2i">> \in files'
  BY DEF RowsInv, PromptsKept, HasFile
<1> QED BY <1>1, <1>2, <1>3, <1>4, <1>5 DEF RowsInv, HasFile

\* Only the status of a job that is not cancelled changes.
LEMMA StatusChanges ==
  ASSUME IInv, RowsInv, NEW j \in Jobs, NEW x, status' = [status EXCEPT ![j] = x],
         status[j] # "cancelled", UNCHANGED <<scene, files, prompts>>,
         x = "succeeded" => Unfinished(j) = {}, x = "partial" => Unfinished(j) \notin {{}, Scenes}
  PROVE  RowsInv'
<1>0. scene \in [Jobs -> [Scenes -> SceneRows]] BY DEF IInv, TypeOK
<1>1. PromptsKept BY QuietPrompts
<1>2. \A k \in Jobs : k # j => scene'[k] = scene[k] /\ status'[k] = status[k]
  BY DEF IInv, TypeOK
<1>3. ASSUME NEW s \in Scenes
      PROVE  LET r == scene'[j][s] IN
             /\ r.state = "succeeded" => r.video
             /\ r.video => HasFile(j, s, "i2v")
             /\ r.frame => HasFile(j, s, "t2i")
             /\ r.prompt # NoPrompt => r.prompt \in Prompts /\ IsOf(r.prompt, j, s, r.stage)
             /\ r.state = "cancelled" => status'[j] = "cancelled"
  <2>1. scene[j][s].prompt \in Prompts \cup {NoPrompt} BY <1>0 DEF SceneRows
  <2>2. RowRight(j, s, scene[j][s]) BY RowsAreRight
  <2> QED BY <2>1, <2>2 DEF RowRight
<1>4. status'[j] = x BY DEF IInv, TypeOK
<1>5. Unfinished(j)' = Unfinished(j) BY DEF Unfinished
<1> QED BY <1>1, <1>2, <1>3, <1>4, <1>5, JobChanges

\* The rows that a claim, a requeue, a retry and an abandon leave.
LEMMA RowsReplaced ==
  ASSUME IInv, RowsInv, NEW j \in Jobs, PromptsKept, UNCHANGED files,
         NEW x \in JobStates \ {"succeeded", "partial"}, status' = [status EXCEPT ![j] = x],
         \/ scene' = [scene EXCEPT ![j] = [s \in Scenes |-> FreshScene]]
         \/ /\ scene' = [scene EXCEPT ![j] = [s \in Scenes |-> Retried(@[s], s)]]
            /\ status[j] # "cancelled"
         \/ /\ x = "cancelled"
            /\ scene' = [scene EXCEPT ![j] = [s \in Scenes |->
                 IF @[s].state = "succeeded" THEN @[s]
                 ELSE [@[s] EXCEPT !.state = "cancelled", !.prompt = NoPrompt, !.stage = "none"]]]
  PROVE  RowsInv'
<1>0. scene \in [Jobs -> [Scenes -> SceneRows]] BY DEF IInv, TypeOK
<1>1. \A k \in Jobs : k # j => scene'[k] = scene[k] /\ status'[k] = status[k]
  BY DEF IInv, TypeOK
<1>2. status'[j] = x BY DEF IInv, TypeOK
<1>3. ASSUME NEW s \in Scenes
      PROVE  LET r == scene'[j][s] IN
             /\ r.state = "succeeded" => r.video
             /\ r.video => HasFile(j, s, "i2v")
             /\ r.frame => HasFile(j, s, "t2i")
             /\ r.prompt # NoPrompt => r.prompt \in Prompts /\ IsOf(r.prompt, j, s, r.stage)
             /\ r.state = "cancelled" => status'[j] = "cancelled"
  <2> DEFINE o == scene[j][s]
  <2>0. o \in SceneRows BY <1>0
  <2>1. o.prompt \in Prompts \cup {NoPrompt} BY <1>0 DEF SceneRows
  <2>2. RowRight(j, s, o) BY RowsAreRight
  <2>3. CASE scene'[j][s] = FreshScene
    <3>1. FreshScene.state = "pending" /\ ~FreshScene.video /\ ~FreshScene.frame
          /\ FreshScene.prompt = NoPrompt
      BY DEF FreshScene
    <3> QED BY <2>3, <3>1
  <2>4. CASE scene'[j][s] = Retried(o, s) /\ status[j] # "cancelled"
    <3>1. o.state # "cancelled" BY <2>2, <2>4 DEF RowRight
    <3>2. CASE o.state = "succeeded" BY <2>1, <2>2, <2>4, <3>1, <3>2 DEF Retried, RowRight
    <3>3. CASE o.state # "succeeded" /\ Interrupted(o, s)
      <4>1. scene'[j][s] = [o EXCEPT !.state = "pending"] BY <2>4, <3>3 DEF Retried
      <4> QED BY <2>0, <2>1, <2>2, <4>1 DEF SceneRows, RowRight
    <3>4. CASE o.state # "succeeded" /\ ~Interrupted(o, s)
      <4>1. scene'[j][s] = [Renewed(o) EXCEPT !.state = "pending"] BY <2>4, <3>4 DEF Retried
      <4>2. PICK g1, h : Renewed(o) = [o EXCEPT !.prompt = NoPrompt, !.stage = g1, !.tries = h]
        BY DEF Renewed
      <4>3. Renewed(o).prompt = NoPrompt /\ Renewed(o).video = o.video
            /\ Renewed(o).frame = o.frame /\ DOMAIN Renewed(o) = DOMAIN o
        BY <2>0, <4>2 DEF SceneRows
      <4>4. scene'[j][s].prompt = NoPrompt /\ scene'[j][s].video = o.video
            /\ scene'[j][s].frame = o.frame /\ scene'[j][s].state = "pending"
        BY <2>0, <4>1, <4>3 DEF SceneRows
      <4> QED BY <2>2, <4>4 DEF RowRight
    <3> QED BY <3>2, <3>3, <3>4
  <2>5. CASE x = "cancelled" /\ (\/ scene'[j][s] = o
                                 \/ scene'[j][s] = [o EXCEPT !.state = "cancelled", !.prompt = NoPrompt,
                                                             !.stage = "none"])
    <3>1. CASE scene'[j][s] = o BY <1>2, <2>1, <2>2, <2>5, <3>1 DEF RowRight
    <3>2. CASE scene'[j][s] = [o EXCEPT !.state = "cancelled", !.prompt = NoPrompt, !.stage = "none"]
      BY <1>2, <2>0, <2>2, <2>5, <3>2 DEF RowRight, SceneRows
    <3> QED BY <2>5, <3>1, <3>2
  <2>6. \/ scene'[j][s] = FreshScene
        \/ scene'[j][s] = Retried(o, s) /\ status[j] # "cancelled"
        \/ x = "cancelled" /\ (\/ scene'[j][s] = o
                               \/ scene'[j][s] = [o EXCEPT !.state = "cancelled", !.prompt = NoPrompt,
                                                             !.stage = "none"])
    <3>1. CASE scene' = [scene EXCEPT ![j] = [u \in Scenes |-> FreshScene]]
      BY <1>0, <3>1
    <3>2. CASE /\ scene' = [scene EXCEPT ![j] = [u \in Scenes |-> Retried(@[u], u)]]
               /\ status[j] # "cancelled"
      BY <1>0, <3>2
    <3>3. CASE /\ x = "cancelled"
               /\ scene' = [scene EXCEPT ![j] = [u \in Scenes |->
                    IF @[u].state = "succeeded" THEN @[u]
                    ELSE [@[u] EXCEPT !.state = "cancelled", !.prompt = NoPrompt, !.stage = "none"]]]
      <4> DEFINE C(r) == [r EXCEPT !.state = "cancelled", !.prompt = NoPrompt, !.stage = "none"]
      <4>1. scene' = [scene EXCEPT ![j] = [u \in Scenes |->
                        IF scene[j][u].state = "succeeded" THEN scene[j][u] ELSE C(scene[j][u])]]
        BY <3>3
      <4> HIDE DEF C
      <4>2. scene'[j][s] = o \/ scene'[j][s] = C(o) BY <1>0, <4>1
      <4> QED BY <3>3, <4>2 DEF C
    <3> QED BY <3>1, <3>2, <3>3
  <2> QED BY <2>3, <2>4, <2>5, <2>6
<1> QED BY <1>1, <1>2, <1>3, JobChanges

\* requeue_unfinished_scenes touches the rows of any job, but not which of them are done.
LEMMA RequeueKeepsRows ==
  ASSUME IInv, RowsInv, RequeueUnfinished PROVE RowsInv'
<1> PICK j : j = w.snap.job OBVIOUS
<1>0. scene \in [Jobs -> [Scenes -> SceneRows]] /\ j \in Jobs
  BY DEF IInv, TypeOK, WorkerStates, PipeRows, RequeueUnfinished
<1>1. PromptsKept BY QuietPrompts DEF RequeueUnfinished, comfy
<1>2. \A k \in Jobs : k # j => scene'[k] = scene[k] /\ status'[k] = status[k]
  BY <1>0 DEF RequeueUnfinished
<1>3. \A s \in Scenes : scene'[j][s] = IF scene[j][s].state = "succeeded" THEN scene[j][s]
                                       ELSE [scene[j][s] EXCEPT !.state = "pending"]
  BY <1>0 DEF RequeueUnfinished
<1>4. ASSUME NEW s \in Scenes
      PROVE  LET r == scene'[j][s] IN
             /\ r.state = "succeeded" => r.video
             /\ r.video => HasFile(j, s, "i2v")
             /\ r.frame => HasFile(j, s, "t2i")
             /\ r.prompt # NoPrompt => r.prompt \in Prompts /\ IsOf(r.prompt, j, s, r.stage)
             /\ r.state = "cancelled" => status'[j] = "cancelled"
             /\ r.state = "succeeded" <=> scene[j][s].state = "succeeded"
  <2>0. scene[j][s] \in SceneRows BY <1>0
  <2>1. RowRight(j, s, scene[j][s]) /\ RowRight(j, s, [scene[j][s] EXCEPT !.state = "pending"])
    BY <1>0, <2>0, RowsAreRight, StateKeepsRight
  <2>2. RowRight(j, s, scene'[j][s]) /\ scene'[j][s].prompt \in Prompts \cup {NoPrompt}
        /\ (scene'[j][s].state = "succeeded" <=> scene[j][s].state = "succeeded")
    BY <1>3, <2>0, <2>1 DEF SceneRows
  <2> QED BY <2>2 DEF RowRight, RequeueUnfinished
<1>5. Unfinished(j)' = Unfinished(j) BY <1>4 DEF Unfinished
<1>6. UNCHANGED <<files, status>> BY DEF RequeueUnfinished, comfy
<1>7. status'[j] = "succeeded" => Unfinished(j)' = {}
  BY <1>0, <1>5, <1>6 DEF RowsInv, OutcomeMatchesScenes
<1>8. status'[j] = "partial" => Unfinished(j)' \notin {{}, Scenes}
  BY <1>0, <1>5, <1>6 DEF RowsInv, OutcomeMatchesScenes
<1> QED BY <1>0, <1>1, <1>2, <1>4, <1>6, <1>7, <1>8, JobChanges

Sound == IInv /\ Settling /\ RowsInv /\ PromptInv /\ BatchInv

\* Each write of the worker leaves the row of its scene right.
LEMMA WriteKeepsRows ==
  ASSUME Sound, w.pc \in StartedSteps, NEW s \in Scenes, NEW r, RowBecomes(w.job, s, r),
         CanWrite(w.job, s), RowRight(w.job, s, r), UNCHANGED <<status, prompts, files>>
  PROVE  RowsInv'
<1>1. w.job \in Jobs /\ status[w.job] \notin {"succeeded", "partial"}
  BY DEF Sound, BatchInv, CanWrite, Owns
<1> QED BY <1>1, RowChanges DEF Sound

\* Polling, and a job up to its render batches, keep the rows right.
LEMMA TickKeepsRows == ASSUME Sound, Tick PROVE RowsInv'
<1> USE ConstantsAssumption
<1>0. TypeOK /\ IInv /\ RowsInv /\ w \in WorkerStates BY DEF IInv, TypeOK, Sound
<1>1. ASSUME NEW j \in Jobs, PollAccept(j) PROVE RowsInv'
  <2> DEFINE x == IF ReviewFirst THEN "awaiting_review" ELSE "queued"
  <2>1. x \in JobStates \ {"succeeded", "partial"} BY DEF JobStates
  <2>2. status' = [status EXCEPT ![j] = x] BY <1>1 DEF PollAccept
  <2>3. PromptsKept /\ UNCHANGED files BY <1>0, <1>1, QuietPrompts DEF PollAccept, comfy
  <2>4. scene' = [scene EXCEPT ![j] = [u \in Scenes |-> FreshScene]] BY <1>1 DEF PollAccept
  <2> HIDE DEF x
  <2> QED BY <1>0, <2>1, <2>2, <2>3, <2>4, RowsReplaced
<1>2. CASE StartJob
  <2>1. UNCHANGED <<scene, files, prompts>> BY <1>2 DEF StartJob, comfy
  <2>2. CASE Owns(w.job)
    <3>1. w.job \in Jobs /\ status[w.job] # "cancelled"
          /\ status' = [status EXCEPT ![w.job] = "running"]
      BY <1>2, <2>2 DEF StartJob, Owns
    <3> QED BY <1>0, <2>1, <3>1, StatusChanges
  <2>3. CASE ~Owns(w.job)
    <3>1. status' = status BY <1>2, <2>3 DEF StartJob
    <3> QED BY <1>0, <2>1, <3>1, RowsStay, QuietPrompts
  <2> QED BY <2>2, <2>3
<1>3. CASE GiveUpJob
  <2>1. UNCHANGED <<scene, files, prompts>> BY <1>3 DEF GiveUpJob, comfy
  <2>2. CASE Owns(w.job)
    <3>1. w.job \in Jobs /\ status[w.job] # "cancelled"
          /\ status' = [status EXCEPT ![w.job] = "failed"]
      BY <1>3, <2>2 DEF GiveUpJob, Owns
    <3> QED BY <1>0, <2>1, <3>1, StatusChanges
  <2>3. CASE ~Owns(w.job)
    <3>1. status' = status BY <1>3, <2>3 DEF GiveUpJob
    <3> QED BY <1>0, <2>1, <3>1, RowsStay, QuietPrompts
  <2> QED BY <2>2, <2>3
<1>4. ASSUME NEW s \in Scenes, FailAssets(s) PROVE RowsInv'
  <2>1. UNCHANGED <<status, files, prompts>> /\ w.pc \in StartedSteps
    BY <1>4 DEF FailAssets, comfy, At, StartedSteps
  <2>2. CASE CanWrite(w.job, s)
    <3> DEFINE r == [scene[w.job][s] EXCEPT !.state = "failed"]
    <3>1. w.job \in Jobs BY <2>2 DEF CanWrite, Owns
    <3>2. scene' = [scene EXCEPT ![w.job][s] = r] BY <1>4, <2>2 DEF FailAssets
    <3>3. RowRight(w.job, s, r) BY <1>0, <3>1, RowsAreRight, StateKeepsRight, RowAt
    <3>4. RowBecomes(w.job, s, r) BY <1>0, <3>1, <3>2, RowSet
    <3> HIDE DEF r
    <3> QED BY <2>1, <2>2, <3>3, <3>4, WriteKeepsRows
  <2>3. CASE ~CanWrite(w.job, s)
    <3>1. scene' = scene BY <1>4, <2>3 DEF FailAssets
    <3> QED BY <1>0, <2>1, <3>1, RowsStay, QuietPrompts
  <2> QED BY <2>2, <2>3
<1>5. CASE \/ PollNothing \/ SendRequest \/ SendFails \/ RequestSent \/ TickProcess
           \/ TickNoJob \/ EnsureRevisions \/ BeginAssets \/ ResolveAssets
           \/ AssetsDone \/ GiveUp
  <2>1. UNCHANGED <<scene, status, files, prompts>>
    BY <1>5 DEF PollNothing, SendRequest, SendFails, RequestSent, TickProcess, TickNoJob,
      EnsureRevisions, BeginAssets, ResolveAssets, AssetsDone, GiveUp, rows, comfy
  <2> QED BY <1>0, <2>1, RowsStay, QuietPrompts
<1> QED BY <1>1, <1>2, <1>3, <1>4, <1>5 DEF Tick

\* So do the render batches, the harvest and the outcome.
LEMMA RenderKeepsRows == ASSUME Sound, Render PROVE RowsInv'
<1> USE ConstantsAssumption
<1>0. TypeOK /\ IInv /\ RowsInv /\ PromptInv /\ w \in WorkerStates BY DEF IInv, TypeOK, Sound
<1>a. ASSUME UNCHANGED <<scene, status, files, prompts>> PROVE RowsInv'
  BY <1>0, <1>a, RowsStay, QuietPrompts
<1>1. ASSUME NEW s \in Scenes, AdoptFile(s) PROVE RowsInv'
  <2>1. UNCHANGED <<status, files, prompts>> /\ w.pc \in StartedSteps /\ HasFile(w.job, s, w.stage)
    BY <1>1 DEF AdoptFile, comfy, At, StartedSteps
  <2>2. CASE CanWrite(w.job, s)
    <3> DEFINE r == Finished(scene[w.job][s], w.stage)
    <3>1. w.job \in Jobs /\ w.stage \in Stages BY <1>0, <2>2 DEF CanWrite, Owns, WorkerStates
    <3>2. scene' = [scene EXCEPT ![w.job][s] = r] BY <1>1, <2>2 DEF AdoptFile
    <3>3. RowRight(w.job, s, r) BY <1>0, <2>1, <3>1, RowsAreRight, StateKeepsRight, RowAt
    <3>4. RowBecomes(w.job, s, r) BY <1>0, <3>1, <3>2, RowSet
    <3> HIDE DEF r
    <3> QED BY <2>1, <2>2, <3>3, <3>4, WriteKeepsRows
  <2>3. CASE ~CanWrite(w.job, s) BY <1>1, <1>a, <2>1, <2>3 DEF AdoptFile
  <2> QED BY <2>2, <2>3
<1>2. ASSUME NEW s \in Scenes, BeginStage(s) PROVE RowsInv'
  <2>1. UNCHANGED <<status, files, prompts>> /\ w.pc \in StartedSteps
    BY <1>2 DEF BeginStage, MustRender, comfy, At, StartedSteps
  <2>2. CASE CanWrite(w.job, s)
    <3> DEFINE r == BegunScene(scene[w.job][s], w.stage)
    <3>1. w.job \in Jobs /\ w.stage \in Stages BY <1>0, <2>2 DEF CanWrite, Owns, WorkerStates
    <3>2. scene' = [scene EXCEPT ![w.job][s] = r] BY <1>2, <2>2 DEF BeginStage
    <3>3. RowRight(w.job, s, r) BY <1>0, <3>1, RowsAreRight, BegunIsRight, RowAt
    <3>4. RowBecomes(w.job, s, r) BY <1>0, <3>1, <3>2, RowSet
    <3> HIDE DEF r
    <3> QED BY <2>1, <2>2, <3>3, <3>4, WriteKeepsRows
  <2>3. CASE ~CanWrite(w.job, s) BY <1>2, <1>a, <2>1, <2>3 DEF BeginStage
  <2> QED BY <2>2, <2>3
<1>3. CASE BindPrompt
  <2>0. UNCHANGED <<status, files>> /\ w.pc = "bind" /\ w.pc \in StartedSteps /\ w.scene \in Scenes
    BY <1>0, <1>3 DEF BindPrompt, At, StartedSteps, SceneSteps, IInv, WorkerOK
  <2>2. CASE CanWrite(w.job, w.scene)
    <3> DEFINE o == scene[w.job][w.scene]
               r == [o EXCEPT !.prompt = w.prompt, !.stage = w.stage]
    <3>1. w.job \in Jobs /\ w.stage \in Stages BY <1>0, <2>2 DEF CanWrite, Owns, WorkerStates
    <3>2. scene' = [scene EXCEPT ![w.job][w.scene] = r] /\ prompts' = prompts
      BY <1>3, <2>2 DEF BindPrompt
    <3>3. o \in SceneRows /\ RowRight(w.job, w.scene, o) BY <1>0, <2>0, <3>1, RowsAreRight, RowAt
    <3>4. IsOf(w.prompt, w.job, w.scene, w.stage) BY <1>0, <2>0 DEF PromptInv, PromptSteps
    <3>5. RowRight(w.job, w.scene, r) BY <3>3, <3>4 DEF RowRight, SceneRows
    <3>6. RowBecomes(w.job, w.scene, r) BY <1>0, <2>0, <3>1, <3>2, RowSet
    <3> HIDE DEF r
    <3> QED BY <2>0, <2>2, <3>2, <3>5, <3>6, WriteKeepsRows
  <2>3. CASE ~CanWrite(w.job, w.scene)
    <3>1. scene' = scene /\ (prompts' = prompts \/ prompts' = Cancelled({w.prompt}))
      BY <1>3, <2>3 DEF BindPrompt
    <3>2. PromptsKept BY <1>0, <3>1, QuietPrompts
    <3> QED BY <1>0, <2>0, <3>1, <3>2, RowsStay
  <2> QED BY <2>2, <2>3
<1>4. CASE CommitStage
  <2>0. UNCHANGED <<status, files, prompts>> /\ w.pc = "commit" /\ w.pc \in StartedSteps
        /\ w.scene \in Scenes
    BY <1>0, <1>4 DEF CommitStage, comfy, At, StartedSteps, SceneSteps, IInv, WorkerOK
  <2>2. CASE CanWrite(w.job, w.scene)
    <3> DEFINE r == Finished(scene[w.job][w.scene], w.stage)
    <3>1. w.job \in Jobs /\ w.stage \in Stages BY <1>0, <2>2 DEF CanWrite, Owns, WorkerStates
    <3>2. scene' = [scene EXCEPT ![w.job][w.scene] = r] BY <1>4, <2>2 DEF CommitStage
    <3>3. HasFile(w.job, w.scene, w.stage) BY <1>0, <2>0 DEF PromptInv
    <3>4. RowRight(w.job, w.scene, r)
      BY <1>0, <2>0, <3>1, <3>3, RowsAreRight, StateKeepsRight, RowAt
    <3>5. RowBecomes(w.job, w.scene, r) BY <1>0, <2>0, <3>1, <3>2, RowSet
    <3> HIDE DEF r
    <3> QED BY <2>0, <2>2, <3>4, <3>5, WriteKeepsRows
  <2>3. CASE ~CanWrite(w.job, w.scene) BY <1>4, <1>a, <2>0, <2>3 DEF CommitStage
  <2> QED BY <2>2, <2>3
<1>5. CASE StageError \/ RetryStage \/ StageBreaks
  <2>0. UNCHANGED <<status, files, prompts>> /\ w.pc \in StartedSteps /\ w.scene \in Scenes
    BY <1>0, <1>5 DEF StageError, RetryStage, StageBreaks, comfy, At, StartedSteps, SceneSteps,
      IInv, WorkerOK
  <2>2. CASE CanWrite(w.job, w.scene) /\ scene' # scene
    <3> DEFINE o == scene[w.job][w.scene]
    <3>1. w.job \in Jobs BY <2>2 DEF CanWrite, Owns
    <3>2. \/ scene' = [scene EXCEPT ![w.job][w.scene] = [o EXCEPT !.prompt = NoPrompt]]
          \/ scene' = [scene EXCEPT ![w.job][w.scene] = [o EXCEPT !.state = "pending"]]
          \/ scene' = [scene EXCEPT ![w.job][w.scene] = [o EXCEPT !.state = "failed"]]
      BY <1>5, <2>2 DEF StageError, RetryStage, StageBreaks
    <3>3. o \in SceneRows /\ RowRight(w.job, w.scene, o) BY <1>0, <2>0, <3>1, RowsAreRight, RowAt
    <3>4. /\ RowRight(w.job, w.scene, [o EXCEPT !.prompt = NoPrompt])
          /\ RowRight(w.job, w.scene, [o EXCEPT !.state = "pending"])
          /\ RowRight(w.job, w.scene, [o EXCEPT !.state = "failed"])
      BY <2>0, <3>1, <3>3, StateKeepsRight
    <3> HIDE DEF o
    <3>5. PICK r : RowRight(w.job, w.scene, r) /\ scene' = [scene EXCEPT ![w.job][w.scene] = r]
      BY <3>2, <3>4
    <3>6. RowBecomes(w.job, w.scene, r) BY <1>0, <2>0, <3>1, <3>5, RowSet
    <3> QED BY <2>0, <2>2, <3>5, <3>6, WriteKeepsRows
  <2>3. CASE scene' = scene BY <1>a, <2>0, <2>3
  <2>4. CASE ~CanWrite(w.job, w.scene) BY <1>5, <1>a, <2>0, <2>4 DEF StageError, RetryStage,
      StageBreaks
  <2> QED BY <2>2, <2>3, <2>4
<1>6. CASE FinishJob
  <2>1. UNCHANGED <<scene, files, prompts>> /\ w.pc = "finish" BY <1>6 DEF FinishJob, comfy, At
  <2>2. CASE Owns(w.job)
    <3> DEFINE x == IF w.complete THEN "succeeded" ELSE "partial"
    <3>1. w.job \in Jobs /\ status[w.job] # "cancelled" /\ status' = [status EXCEPT ![w.job] = x]
      BY <1>6, <2>2 DEF FinishJob, Owns
    <3>2. IF w.complete THEN Unfinished(w.job) = {} ELSE Unfinished(w.job) \notin {{}, Scenes}
      BY <2>1 DEF Sound, BatchInv
    <3>3. (x = "succeeded" => Unfinished(w.job) = {})
          /\ (x = "partial" => Unfinished(w.job) \notin {{}, Scenes})
      BY <3>2
    <3> HIDE DEF x
    <3> QED BY <1>0, <2>1, <3>1, <3>3, StatusChanges
  <2>3. CASE ~Owns(w.job) BY <1>6, <1>a, <2>1, <2>3 DEF FinishJob
  <2> QED BY <2>2, <2>3
<1>7. ASSUME NEW p \in Prompts, QueuePrompt(p) \/ QueueAmbiguous(p) PROVE RowsInv'
  <2>1. UNCHANGED <<scene, status, files>> /\ prompts' = Enqueued(p)
        /\ \A j \in Jobs, s \in Scenes : scene[j][s].prompt # p
    BY <1>7 DEF QueuePrompt, QueueAmbiguous, rows, FreePrompt
  <2>2. prompts'[p].st = "live" /\ \A q \in Prompts : q # p => prompts'[q] = prompts[q]
    BY <1>0, <2>1 DEF Enqueued, TypeOK
  <2>3. \A j \in Jobs, s \in Scenes : scene[j][s].prompt # NoPrompt => scene[j][s].prompt \in Prompts
    BY <1>0, RowAt DEF SceneRows
  <2> QED BY <1>0, <2>1, <2>2, <2>3 DEF RowsInv, SucceededHasClip, PromptMatchesScene,
    OutcomeMatchesScenes, HasFile, Unfinished
<1>8. CASE HarvestClip
  <2>1. UNCHANGED <<scene, status, prompts>> /\ files \subseteq files' BY <1>8 DEF HarvestClip, rows
  <2> QED BY <1>0, <2>1, RowsStay, QuietPrompts
<1>9. CASE CheckOwner \/ PromptTimeout
  <2>1. UNCHANGED <<scene, status, files>> /\ (prompts' = prompts \/ prompts' = Cancelled({w.prompt}))
    BY <1>9 DEF CheckOwner, PromptTimeout, rows
  <2>2. PromptsKept BY <1>0, <2>1, QuietPrompts
  <2> QED BY <1>0, <2>1, <2>2, RowsStay
<1>10. CASE \/ OpenBatch \/ BatchDone \/ LookupHistory \/ LookupQueue \/ QueueRejected
            \/ PromptSucceeded \/ PromptFailed \/ PollHiccup \/ ComfyUnreachable \/ HarvestFails
            \/ MarkRevision \/ CheckBatchOwner \/ CollectScenes \/ BeginStitch \/ Stitch
            \/ StitchFails
  <2>1. UNCHANGED <<scene, status, files, prompts>>
    BY <1>10 DEF OpenBatch, BatchDone, LookupHistory, LookupQueue, QueueRejected, PromptSucceeded,
      PromptFailed, PollHiccup, ComfyUnreachable, HarvestFails, MarkRevision, CheckBatchOwner,
      CollectScenes, BeginStitch, Stitch, StitchFails, rows, comfy
  <2> QED BY <1>a, <2>1
<1>11. ASSUME NEW s \in Scenes, ReuseFrame(s) \/ AttemptsSpent(s) PROVE RowsInv'
  BY <1>11, <1>a DEF ReuseFrame, AttemptsSpent, rows, comfy
<1> QED BY <1>1, <1>2, <1>3, <1>4, <1>5, <1>6, <1>7, <1>8, <1>9, <1>10, <1>11 DEF Render

\* The other steps: recoveries requeue, the GUI and the launchers cancel or retry one job,
\* and ComfyUI finishes or forgets prompts.
LEMMA StepKeepsRows == ASSUME Sound, [Next]_vars PROVE RowsInv'
<1> USE ConstantsAssumption
<1>0. TypeOK /\ IInv /\ RowsInv /\ OwnerInv /\ OwnerNotCancelled
  BY DEF IInv, Sound, Settling
<1>a. ASSUME UNCHANGED <<scene, status, files, prompts>> PROVE RowsInv'
  BY <1>0, <1>a, RowsStay, QuietPrompts
<1>b. ASSUME NEW j, Abandon(j), j \in Jobs \/ j = NoJob, UNCHANGED files, PromptsKept PROVE RowsInv'
  <2>1. CASE j \in Jobs
    <3>1. "cancelled" \in JobStates \ {"succeeded", "partial"} BY DEF JobStates
    <3> DEFINE C(r) == [r EXCEPT !.state = "cancelled", !.prompt = NoPrompt, !.stage = "none"]
    <3>2. scene' = [scene EXCEPT ![j] = [s \in Scenes |->
                      IF @[s].state = "succeeded" THEN @[s] ELSE C(@[s])]]
          /\ status' = [status EXCEPT ![j] = "cancelled"]
      BY <1>b DEF Abandon
    <3> QED BY <1>0, <1>b, <2>1, <3>1, <3>2, RowsReplaced
  <2>2. CASE j = NoJob
    <3>1. scene' = scene /\ status' = status BY <1>0, <1>b, <2>2 DEF Abandon, TypeOK
    <3> QED BY <1>0, <1>b, <3>1, RowsStay
  <2> QED BY <1>b, <2>1, <2>2
<1>1. CASE Tick BY <1>1, TickKeepsRows
<1>2. CASE Render BY <1>2, RenderKeepsRows
<1>3. CASE Recovery
  <2>1. CASE RequeueUnfinished BY <1>0, <2>1, RequeueKeepsRows
  <2>2. CASE RestartSucceeds \/ RestartFails
    <3>1. UNCHANGED <<scene, status, files>> /\ (prompts' = Lost \/ prompts' = prompts)
      BY <2>2 DEF RestartSucceeds, RestartFails, rows
    <3>2. PromptsKept BY <1>0, <3>1, QuietPrompts
    <3> QED BY <1>0, <3>1, <3>2, RowsStay
  <2>3. CASE FatalSnapshot \/ FatalError \/ ResumeRender \/ RestoreState \/ StayInError
    <3>1. UNCHANGED <<scene, status, files, prompts>>
      BY <2>3 DEF FatalSnapshot, FatalError, ResumeRender, RestoreState, StayInError, rows, comfy
    <3> QED BY <1>a, <3>1
  <2> QED BY <1>3, <2>1, <2>2, <2>3 DEF Recovery
<1>4. CASE Gui
  <2>1. CASE ApproveJob
    <3>1. pipe.job \in Jobs /\ status[pipe.job] # "cancelled"
          /\ status' = [status EXCEPT ![pipe.job] = "queued"] /\ UNCHANGED <<scene, files, prompts>>
      BY <1>0, <2>1 DEF ApproveJob, comfy, TypeOK, PipeRows, OwnerNotCancelled
    <3> QED BY <1>0, <3>1, StatusChanges
  <2>2. CASE GuiCancel
    <3>1. UNCHANGED <<scene, status, files, prompts>> BY <2>2 DEF GuiCancel, rows, comfy
    <3> QED BY <1>a, <3>1
  <2>3. CASE GuiAbandon
    <3>1. UNCHANGED <<files, prompts>> BY <2>3 DEF GuiAbandon, comfy
    <3>2. PromptsKept BY <1>0, <3>1, QuietPrompts
    <3>3. CASE pipe.job = g.job
      <4>1. Abandon(g.job) /\ (g.job \in Jobs \/ g.job = NoJob)
        BY <1>0, <2>3, <3>3 DEF GuiAbandon, TypeOK, GuiStates
      <4> QED BY <1>b, <3>1, <3>2, <4>1
    <3>4. CASE pipe.job # g.job BY <1>a, <2>3, <3>1, <3>4 DEF GuiAbandon
    <3> QED BY <3>3, <3>4
  <2>4. CASE GuiCancelPrompts
    <3>1. UNCHANGED <<scene, status, files>> /\ (prompts' = prompts \/ prompts' = Cancelled(Prompts))
      BY <2>4 DEF GuiCancelPrompts, rows
    <3>2. PromptsKept BY <1>0, <3>1, QuietPrompts
    <3> QED BY <1>0, <3>1, <3>2, RowsStay
  <2> QED BY <1>4, <2>1, <2>2, <2>3, <2>4 DEF Gui
<1>5. CASE ComfyUI
  <2>1. UNCHANGED <<scene, status>> /\ files \subseteq files'
    BY <1>5 DEF ComfyUI, ComfyCrash, ComfyReturns, PromptCompletes, PromptErrors, rows
  <2>2. CASE ComfyCrash \/ ComfyReturns
    <3>1. prompts' = Lost \/ prompts' = prompts BY <2>2 DEF ComfyCrash, ComfyReturns
    <3> QED BY <1>0, <2>1, <3>1, QuietPrompts, RowsStay
  <2>3. ASSUME NEW p \in Prompts, PromptCompletes(p) \/ PromptErrors(p) PROVE PromptsKept
    <3>0. prompts[p] \in PromptRecords BY <1>0 DEF TypeOK
    <3>1. PICK x \in {"done", "failed"} : prompts' = [prompts EXCEPT ![p].st = x]
      BY <2>3 DEF PromptCompletes, PromptErrors
    <3>2. \A q \in Prompts : q # p => prompts'[q] = prompts[q]
      BY <1>0, <3>1 DEF TypeOK
    <3>3. prompts'[p].job = prompts[p].job /\ prompts'[p].scene = prompts[p].scene
          /\ prompts'[p].stage = prompts[p].stage /\ prompts'[p].st = x
      BY <1>0, <3>0, <3>1 DEF TypeOK, PromptRecords
    <3>4. x = "done" /\ prompts[p].stage = "t2i"
            => <<prompts[p].job, prompts[p].scene, "t2i">> \in files'
      <4>1. CASE PromptCompletes(p) BY <4>1 DEF PromptCompletes
      <4>2. CASE PromptErrors(p)
        <5>1. prompts'[p].st = "failed"
          BY <1>0, <3>0, <4>2 DEF PromptErrors, TypeOK, PromptRecords
        <5> QED BY <3>3, <5>1
      <4> QED BY <2>3, <4>1, <4>2
    <3> QED BY <3>2, <3>3, <3>4 DEF PromptsKept
  <2> QED BY <1>0, <1>5, <2>1, <2>2, <2>3, RowsStay DEF ComfyUI
<1>6. CASE Process
  <2>1. files' = files BY <1>6 DEF Process, Crash, Launch, LaunchRetry, LaunchFinish,
      LaunchAbandon, comfy
  <2>2. CASE Crash \/ Launch
    <3>1. UNCHANGED <<scene, status, prompts>> BY <2>2 DEF Crash, Launch, rows, comfy
    <3> QED BY <1>a, <2>1, <3>1
  <2>3. ASSUME NEW j \in Jobs, LaunchRetry(j) PROVE RowsInv'
    <3>1. "queued" \in JobStates \ {"succeeded", "partial"} BY DEF JobStates
    <3>2. status[j] # "cancelled" BY <1>0, <2>3 DEF LaunchRetry, SavedJob, OwnerNotCancelled
    <3>3. PromptsKept BY <1>0, <2>3, QuietPrompts DEF LaunchRetry
    <3>4. scene' = [scene EXCEPT ![j] = [s \in Scenes |-> Retried(@[s], s)]]
          /\ status' = [status EXCEPT ![j] = "queued"]
      BY <2>3 DEF LaunchRetry
    <3> QED BY <1>0, <2>1, <3>1, <3>2, <3>3, <3>4, RowsReplaced
  <2>4. ASSUME NEW j \in Jobs, LaunchFinish(j) PROVE RowsInv'
    BY <1>a, <2>1, <2>4 DEF LaunchFinish
  <2>5. ASSUME NEW j \in Jobs, LaunchAbandon(j) PROVE RowsInv'
    <3>1. Abandon(j) /\ prompts' = Cancelled(Prompts) BY <2>5 DEF LaunchAbandon
    <3>2. PromptsKept BY <1>0, <3>1, QuietPrompts
    <3> QED BY <1>b, <2>1, <3>1, <3>2
  <2> QED BY <1>6, <2>2, <2>3, <2>4, <2>5 DEF Process
<1>7. CASE UNCHANGED vars BY <1>a, <1>7 DEF vars
<1> QED BY <1>1, <1>2, <1>3, <1>4, <1>5, <1>6, <1>7 DEF Next, Worker
-----------------------------------------------------------------------------
(* The worker's prompt *)

\* Steps to places where no prompt matters.
LEMMA NoPromptMatters ==
  ASSUME w'.pc \notin PromptSteps \cup {"batch", "scene", "errset"} PROVE PromptInv'
BY DEF PromptInv, PromptSteps

\* Going home is such a step.
LEMMA HomeOrOn ==
  ASSUME w \in WorkerStates,
         \/ Leave
         \/ \E step : GoTo(step) /\ step \notin PromptSteps \cup {"batch", "scene", "errset"}
  PROVE  PromptInv'
<1>1. CASE Leave
  <2>1. w'.pc = "idle" BY <1>1, LeaveIdles
  <2>2. w'.pc \notin PromptSteps \cup {"batch", "scene", "errset"} BY <2>1 DEF PromptSteps
  <2> QED BY <2>2, NoPromptMatters
<1>2. ASSUME NEW step, GoTo(step), step \notin PromptSteps \cup {"batch", "scene", "errset"}
      PROVE  PromptInv'
  <2>1. w'.pc = step BY <1>2 DEF GoTo, WorkerStates
  <2> QED BY <1>2, <2>1, NoPromptMatters
<1> QED BY <1>1, <1>2

\* Steps in which the worker stays where it is.
LEMMA PromptStays ==
  ASSUME IInv, PromptInv, w' = w, files \subseteq files',
         \A p \in Prompts : /\ prompts'[p].job = prompts[p].job
                            /\ prompts'[p].scene = prompts[p].scene
                            /\ prompts'[p].stage = prompts[p].stage,
         \A j \in Jobs, s \in Scenes : /\ scene'[j][s].frame = scene[j][s].frame
                                       /\ scene'[j][s].video = scene[j][s].video
  PROVE  PromptInv'
<1>1. w \in WorkerStates /\ WorkerOK BY DEF IInv, TypeOK
<1>2. w.pc \in PromptSteps /\ w.prompt # NoPrompt => IsOf(w.prompt, w.job, w.scene, w.stage)'
  BY <1>1 DEF PromptInv, IsOf, WorkerStates
<1>3. w.pc \in {"prompt", "lookup"} => ~Recorded(scene[w.job][w.scene], w.stage)'
  <2>1. SUFFICES ASSUME w.pc \in {"prompt", "lookup"}
                 PROVE  ~Recorded(scene[w.job][w.scene], w.stage)'
    OBVIOUS
  <2>2. w.job \in Jobs /\ w.scene \in Scenes BY <1>1, <2>1 DEF WorkerOK, NoJobSteps, SceneSteps
  <2> QED BY <2>1, <2>2 DEF PromptInv, Recorded
<1>4. w.pc = "commit" => HasFile(w.job, w.scene, w.stage)' BY DEF PromptInv, HasFile
<1> QED BY <1>2, <1>3, <1>4 DEF PromptInv

\* Before and after the render batches the worker holds no prompt.
LEMMA TickKeepsPrompt == ASSUME Sound, Tick PROVE PromptInv'
<1> USE ConstantsAssumption
<1>0. IInv /\ PromptInv /\ w \in WorkerStates BY DEF IInv, TypeOK, Sound
<1> USE DEF PromptSteps
<1>1. ASSUME NEW j \in Jobs, PollAccept(j) PROVE PromptInv'
  <2>1. w'.pc = "idle" BY <1>1 DEF PollAccept, At
  <2> QED BY <2>1, NoPromptMatters
<1>2. CASE PollNothing \/ TickProcess \/ TickNoJob
  <2>1. w'.pc \in {"send", "start", "fatal"}
    BY <1>2 DEF PollNothing, TickProcess, TickNoJob, IdleWorker
  <2> QED BY <2>1, NoPromptMatters
<1>3. CASE SendRequest \/ SendFails \/ RequestSent \/ StartJob \/ EnsureRevisions \/ GiveUpJob
  <2>1. Leave \/ GoTo("sent") \/ GoTo("revisions") \/ GoTo("download")
    BY <1>3 DEF SendRequest, SendFails, RequestSent, StartJob, EnsureRevisions, GiveUpJob
  <2> QED BY <1>0, <2>1, HomeOrOn
<1>4. CASE BeginAssets \/ GiveUp
  <2>1. Leave \/ GoTo("assets") \/ GoTo("giveupjob")
    BY <1>4 DEF BeginAssets, GiveUp, Transition
  <2> QED BY <1>0, <2>1, HomeOrOn
<1>5. CASE ResolveAssets
  <2>1. w'.pc \in {"idle", "assetfail"}
    BY <1>0, <1>5, LeaveIdles DEF ResolveAssets, WorkerStates
  <2> QED BY <2>1, NoPromptMatters
<1>6. ASSUME NEW s \in Scenes, FailAssets(s) PROVE PromptInv'
  <2>1. CASE CanWrite(w.job, s)
    <3>1. w' = [w EXCEPT !.pc = "mark", !.todo = w.todo \ {s}, !.scene = s,
                         !.mark = "failed", !.back = "assetfail"]
      BY <1>6, <2>1 DEF FailAssets
    <3>2. w'.pc = "mark" BY <1>0, <3>1 DEF WorkerStates
    <3> QED BY <3>2, NoPromptMatters
  <2>2. CASE ~CanWrite(w.job, s) BY <1>0, <1>6, <2>2, HomeOrOn DEF FailAssets
  <2> QED BY <2>1, <2>2
<1>7. CASE AssetsDone
  <2>1. w'.pc \in {"giveup", "batch"} /\ w'.prompt = NoPrompt
    BY <1>7 DEF AssetsDone, IdleWorker
  <2> QED BY <2>1 DEF PromptInv
<1> QED BY <1>1, <1>2, <1>3, <1>4, <1>5, <1>6, <1>7 DEF Tick

\* The worker moves on with its prompt.
LEMMA PromptGoes ==
  ASSUME Sound, NEW step, GoTo(step), w.pc \in PromptSteps, UNCHANGED scene, PromptsKept,
         files \subseteq files', step \in {"lookup", "check", "wait"} => w.prompt # NoPrompt,
         step \notin {"batch", "scene", "errset", "harvest", "prompt"},
         step = "commit" => <<w.job, w.scene, w.stage>> \in files',
         step = "lookup" => w.pc = "prompt", step # "bind"
  PROVE  PromptInv'
<1>0. w \in WorkerStates BY DEF IInv, TypeOK, Sound
<1>1. w'.pc = step /\ w'.job = w.job /\ w'.scene = w.scene /\ w'.stage = w.stage
      /\ w'.prompt = w.prompt
  BY <1>0 DEF GoTo, WorkerStates
<1>2. w.prompt # NoPrompt => IsOf(w.prompt, w.job, w.scene, w.stage)
  BY DEF Sound, PromptInv
<1>3. w.prompt # NoPrompt => prompts'[w.prompt].job = w.job /\ prompts'[w.prompt].scene = w.scene
        /\ prompts'[w.prompt].stage = w.stage
  BY <1>0, <1>2 DEF PromptsKept, IsOf, WorkerStates
<1>4. step = "lookup" => ~Recorded(scene[w.job][w.scene], w.stage) BY DEF Sound, PromptInv
<1>5. ~Recorded(scene[w.job][w.scene], w.stage) => ~Recorded(scene[w.job][w.scene], w.stage)'
  BY <1>1 DEF Recorded
<1> QED BY <1>1, <1>3, <1>4, <1>5 DEF PromptInv, IsOf, HasFile

\* Each step of a stage keeps the prompt of the worker's scene and stage.
LEMMA RenderKeepsPrompt == ASSUME Sound, Render PROVE PromptInv'
<1> USE ConstantsAssumption
<1>0. IInv /\ TypeOK /\ PromptInv /\ RowsInv /\ w \in WorkerStates BY DEF IInv, TypeOK, Sound
<1>1. CASE OpenBatch \/ BatchDone
  <2>1. w'.pc \in {"scene", "batch", "collect"} /\ w'.prompt = NoPrompt
    <3>1. CASE OpenBatch
      <4>1. PICK T : w' = [w EXCEPT !.pc = "scene", !.todo = T] /\ w.pc = "batch"
        BY <3>1 DEF OpenBatch, At
      <4> QED BY <1>0, <4>1 DEF WorkerStates, PromptInv
    <3>2. CASE BatchDone
      <4>1. (w' = [w EXCEPT !.stage = "i2v", !.pc = "batch"] \/ w' = [w EXCEPT !.pc = "collect"])
            /\ w.pc = "scene"
        BY <3>2 DEF BatchDone, At
      <4> QED BY <1>0, <4>1 DEF WorkerStates, PromptInv
    <3> QED BY <1>1, <3>1, <3>2
  <2> QED BY <2>1 DEF PromptInv, PromptSteps
<1>2. ASSUME NEW s \in Scenes, AttemptsSpent(s) PROVE PromptInv'
  <2>1. w'.pc = "err" /\ w'.prompt = NoPrompt
    BY <1>0, <1>2 DEF AttemptsSpent, MustRender, At, PromptInv, WorkerStates
  <2> QED BY <2>1 DEF PromptInv, PromptSteps
<1>3. ASSUME NEW s \in Scenes, ReuseFrame(s) PROVE PromptInv'
  <2>1. w'.pc = "mark" BY <1>0, <1>3 DEF ReuseFrame, WorkerStates
  <2> QED BY <2>1, NoPromptMatters DEF PromptSteps
<1>4. ASSUME NEW s \in Scenes, AdoptFile(s) PROVE PromptInv'
  <2>1. Leave \/ \E m : w' = [w EXCEPT !.pc = "mark", !.scene = s, !.mark = m, !.back = "owner"]
    BY <1>4 DEF AdoptFile
  <2>2. w'.pc \in {"idle", "mark"} BY <1>0, <2>1, LeaveIdles DEF WorkerStates
  <2> QED BY <2>2, NoPromptMatters DEF PromptSteps
<1>5. ASSUME NEW s \in Scenes, BeginStage(s) PROVE PromptInv'
  <2>1. CASE CanWrite(w.job, s)
    <3> DEFINE o == scene[w.job][s]
               r == BegunScene(o, w.stage)
    <3>1. w.job \in Jobs /\ w.stage \in Stages BY <1>0, <2>1 DEF CanWrite, Owns, WorkerStates
    <3>2. o \in SceneRows /\ RowRight(w.job, s, o) BY <1>0, <3>1, RowsAreRight, RowAt
    <3>3. scene' = [scene EXCEPT ![w.job][s] = r] /\ prompts' = prompts
          /\ w' = [w EXCEPT !.pc = "prompt", !.scene = s, !.prompt = r.prompt]
          /\ ~HasFile(w.job, s, w.stage)
      BY <1>5, <2>1 DEF BeginStage, comfy, MustRender
    <3>4. (r.prompt # NoPrompt => IsOf(r.prompt, w.job, s, w.stage))
          /\ r.frame = o.frame /\ r.video = o.video
      BY <3>1, <3>2, BegunIsRight
    <3>5. ~Recorded(o, w.stage) BY <3>1, <3>2, <3>3 DEF Recorded, RowRight
    <3>6. ~Recorded(r, w.stage) BY <3>4, <3>5 DEF Recorded
    <3> HIDE DEF r, o
    <3>7. scene'[w.job][s] = r BY <1>0, <3>1, <3>3 DEF TypeOK
    <3>8. w'.pc = "prompt" /\ w'.scene = s /\ w'.job = w.job /\ w'.stage = w.stage
          /\ w'.prompt = r.prompt
      BY <1>0, <3>3 DEF WorkerStates
    <3>9. (w'.prompt # NoPrompt => IsOf(w.prompt, w.job, w.scene, w.stage)')
      BY <3>3, <3>4, <3>8 DEF IsOf
    <3>10. ~Recorded(scene[w.job][w.scene], w.stage)' BY <3>6, <3>7, <3>8 DEF Recorded
    <3> QED BY <3>8, <3>9, <3>10 DEF PromptInv
  <2>2. CASE ~CanWrite(w.job, s) BY <1>0, <1>5, <2>2, HomeOrOn DEF BeginStage
  <2> QED BY <2>1, <2>2
<1>6. CASE LookupHistory
  <2>1. (GoTo("wait") \/ GoTo("lookup")) /\ w.pc = "prompt" /\ w.prompt # NoPrompt
        /\ UNCHANGED <<scene, files, prompts>>
    BY <1>6 DEF LookupHistory, At, rows, comfy
  <2>2. PromptsKept BY <1>0, <2>1, QuietPrompts
  <2> QED BY <2>1, <2>2, PromptGoes DEF PromptSteps
<1>7. CASE LookupQueue
  <2>1. UNCHANGED <<scene, files, prompts>> /\ w.pc = "lookup" /\ w.prompt # NoPrompt
    BY <1>0, <1>7 DEF LookupQueue, At, rows, comfy, PromptInv
  <2>2. CASE Live(w.prompt)
    <3>1. GoTo("wait") BY <1>7, <2>2 DEF LookupQueue, GoTo
    <3>2. PromptsKept BY <1>0, <2>1, QuietPrompts
    <3> QED BY <2>1, <3>1, <3>2, PromptGoes DEF PromptSteps
  <2>3. CASE ~Live(w.prompt)
    <3>1. w' = [w EXCEPT !.pc = "prompt", !.prompt = NoPrompt] BY <1>7, <2>3 DEF LookupQueue
    <3>2. w'.pc = "prompt" /\ w'.prompt = NoPrompt /\ w'.job = w.job /\ w'.scene = w.scene
          /\ w'.stage = w.stage
      BY <1>0, <3>1 DEF WorkerStates
    <3>3. ~Recorded(scene[w.job][w.scene], w.stage) BY <1>0, <2>1 DEF PromptInv
    <3>4. ~Recorded(scene[w.job][w.scene], w.stage)' BY <2>1, <3>2, <3>3 DEF Recorded
    <3> QED BY <3>2, <3>4 DEF PromptInv
  <2> QED BY <2>2, <2>3
<1>8. ASSUME NEW p \in Prompts, QueuePrompt(p) PROVE PromptInv'
  <2>1. w' = [w EXCEPT !.pc = "bind", !.prompt = p] /\ prompts' = Enqueued(p)
    BY <1>8 DEF QueuePrompt
  <2>2. w'.pc = "bind" /\ w'.prompt = p /\ w'.job = w.job /\ w'.scene = w.scene
        /\ w'.stage = w.stage
    BY <1>0, <2>1 DEF WorkerStates
  <2>3. prompts'[p] = [st |-> "live", job |-> w.job, scene |-> w.scene, stage |-> w.stage]
    BY <1>0, <2>1 DEF Enqueued, TypeOK
  <2>4. p # NoPrompt OBVIOUS
  <2> QED BY <2>2, <2>3, <2>4 DEF PromptInv, IsOf
<1>9. ASSUME NEW p \in Prompts, QueueAmbiguous(p) PROVE PromptInv'
  <2>1. w' = [w EXCEPT !.pc = "err", !.prompt = NoPrompt]
    BY <1>9 DEF QueueAmbiguous
  <2>2. w'.pc = "err" /\ w'.prompt = NoPrompt BY <1>0, <2>1 DEF WorkerStates
  <2> QED BY <2>2 DEF PromptInv
<1>21. CASE QueueRejected
  <2>1. w' = [w EXCEPT !.pc = "err", !.prompt = NoPrompt] BY <1>21 DEF QueueRejected
  <2>2. w'.pc = "err" /\ w'.prompt = NoPrompt BY <1>0, <2>1 DEF WorkerStates
  <2> QED BY <2>2 DEF PromptInv
<1>10. CASE BindPrompt
  <2>1. CASE CanWrite(w.job, w.scene)
    <3>1. GoTo("check") /\ w.pc = "bind" /\ prompts' = prompts
      BY <1>10, <2>1 DEF BindPrompt, At
    <3>2. w'.pc = "check" /\ w'.job = w.job /\ w'.scene = w.scene /\ w'.stage = w.stage
          /\ w'.prompt = w.prompt
      BY <1>0, <3>1 DEF GoTo, WorkerStates
    <3>3. w.prompt # NoPrompt /\ IsOf(w.prompt, w.job, w.scene, w.stage)
      BY <1>0, <3>1 DEF PromptInv, PromptSteps
    <3> QED BY <3>1, <3>2, <3>3 DEF PromptInv, IsOf
  <2>2. CASE ~CanWrite(w.job, w.scene) BY <1>0, <1>10, <2>2, HomeOrOn DEF BindPrompt
  <2> QED BY <2>1, <2>2
<1>11. CASE CheckOwner \/ PromptTimeout \/ PromptFailed \/ PollHiccup \/ ComfyUnreachable \/ HarvestFails
  <2>1. ((GoTo("wait") /\ w.pc = "check") \/ GoTo("err")) /\ w.pc \in PromptSteps
        /\ UNCHANGED <<scene, files>>
    BY <1>11 DEF CheckOwner, PromptTimeout, PromptFailed, PollHiccup, ComfyUnreachable,
      HarvestFails, At, rows, comfy, PromptSteps
  <2>2. prompts' = prompts \/ prompts' = Cancelled({w.prompt})
    BY <1>11 DEF CheckOwner, PromptTimeout, PromptFailed, PollHiccup, ComfyUnreachable,
      HarvestFails, comfy
  <2>3. PromptsKept BY <1>0, <2>2, QuietPrompts
  <2>4. w.pc = "check" => w.prompt # NoPrompt BY <1>0 DEF PromptInv
  <2> QED BY <2>1, <2>3, <2>4, PromptGoes
<1>12. CASE PromptSucceeded
  <2>1. UNCHANGED <<scene, files, prompts>> /\ w.pc = "wait" /\ prompts[w.prompt].st = "done"
    BY <1>12 DEF PromptSucceeded, At, rows, comfy
  <2>2. PromptsKept BY <1>0, <2>1, QuietPrompts
  <2>3. w.prompt # NoPrompt /\ w.prompt \in Prompts /\ IsOf(w.prompt, w.job, w.scene, w.stage)
    BY <1>0, <2>1 DEF PromptInv, PromptSteps, WorkerStates
  <2>4. CASE w.stage = "t2i"
    <3>1. GoTo("commit") BY <1>12, <2>4 DEF PromptSucceeded, GoTo
    <3>2. <<w.job, w.scene, w.stage>> \in files'
      BY <1>0, <2>1, <2>3, <2>4 DEF RowsInv, HasFile, IsOf
    <3> QED BY <2>1, <2>2, <3>1, <3>2, PromptGoes DEF PromptSteps
  <2>5. CASE w.stage = "i2v"
    <3>1. GoTo("harvest") BY <1>12, <2>5 DEF PromptSucceeded, GoTo
    <3>2. w'.pc = "harvest" /\ w'.job = w.job /\ w'.scene = w.scene /\ w'.stage = w.stage
          /\ w'.prompt = w.prompt
      BY <1>0, <3>1 DEF GoTo, WorkerStates
    <3> QED BY <2>1, <2>3, <2>5, <3>2 DEF PromptInv, IsOf
  <2> QED BY <1>0, <2>4, <2>5 DEF WorkerStates
<1>13. CASE HarvestClip
  <2>1. UNCHANGED <<scene, prompts>> /\ w.pc = "harvest" /\ GoTo("commit") /\ files \subseteq files'
        /\ <<w.job, w.scene, "i2v">> \in files'
    BY <1>13 DEF HarvestClip, At, rows
  <2>2. PromptsKept BY <1>0, <2>1, QuietPrompts
  <2>3. w.stage = "i2v" BY <1>0, <2>1 DEF PromptInv
  <2> QED BY <2>1, <2>2, <2>3, PromptGoes DEF PromptSteps
<1>14. CASE CommitStage \/ StageBreaks
  <2>1. Leave \/ \E m, q : w' = [w EXCEPT !.pc = "mark", !.mark = m, !.back = "owner", !.prompt = q]
              \/ \E k : w' = [w EXCEPT !.pc = "mark", !.mark = k, !.back = "owner"]
    BY <1>14 DEF CommitStage, StageBreaks
  <2>2. ASSUME NEW m, NEW q, w' = [w EXCEPT !.pc = "mark", !.mark = m, !.back = "owner", !.prompt = q]
        PROVE  w'.pc = "mark"
    BY <1>0, <2>2 DEF WorkerStates
  <2>3. ASSUME NEW m, w' = [w EXCEPT !.pc = "mark", !.mark = m, !.back = "owner"]
        PROVE  w'.pc = "mark"
    BY <1>0, <2>3 DEF WorkerStates
  <2>4. w'.pc \in {"idle", "mark"} BY <2>1, <2>2, <2>3, LeaveIdles
  <2> QED BY <2>4, NoPromptMatters DEF PromptSteps
<1>15. CASE MarkRevision
  <2>1. Leave \/ GoTo(w.back) BY <1>15 DEF MarkRevision
  <2>2. w.back \in {"owner", "assetfail"} BY <1>0 DEF WorkerStates
  <2> QED BY <1>0, <2>1, <2>2, HomeOrOn DEF PromptSteps
<1>16. CASE CheckBatchOwner
  <2>1. w'.pc \in {"idle", "scene"} /\ w'.prompt = NoPrompt
    <3>1. IdleWorker.pc = "idle" /\ IdleWorker.prompt = NoPrompt BY DEF IdleWorker
    <3>2. CASE pipe.job = w.job
      <4>1. w' = [IdleWorker EXCEPT !.pc = "scene", !.job = w.job, !.stage = w.stage,
                                    !.todo = w.todo \ {w.scene}]
        BY <1>16, <3>2 DEF CheckBatchOwner
      <4> QED BY <4>1 DEF IdleWorker
    <3>3. CASE pipe.job # w.job BY <1>16, <3>1, <3>3 DEF CheckBatchOwner, Leave
    <3> QED BY <3>2, <3>3
  <2> QED BY <2>1 DEF PromptInv, PromptSteps
<1>17. CASE StageError
  <2>1. \/ GoTo("fatal") \/ GoTo("owner")
        \/ w' = [w EXCEPT !.pc = "errset", !.prompt = NoPrompt]
    BY <1>17 DEF StageError
  <2>2. CASE w' = [w EXCEPT !.pc = "errset", !.prompt = NoPrompt]
    <3>1. w'.pc = "errset" /\ w'.prompt = NoPrompt BY <1>0, <2>2 DEF WorkerStates
    <3> QED BY <3>1 DEF PromptInv, PromptSteps
  <2> QED BY <1>0, <2>1, <2>2, HomeOrOn DEF PromptSteps
<1>18. CASE RetryStage
  <2>1. \/ Leave \/ (GoTo("scene") /\ w.pc = "errset")
        \/ w' = [w EXCEPT !.pc = "mark", !.mark = "failed", !.back = "owner"]
    BY <1>18 DEF RetryStage, At
  <2>2. CASE GoTo("scene") /\ w.pc = "errset"
    <3>1. w'.pc = "scene" /\ w'.prompt = NoPrompt
      BY <1>0, <2>2 DEF GoTo, WorkerStates, PromptInv
    <3> QED BY <3>1 DEF PromptInv, PromptSteps
  <2>3. CASE w' = [w EXCEPT !.pc = "mark", !.mark = "failed", !.back = "owner"]
    <3>1. w'.pc = "mark" BY <1>0, <2>3 DEF WorkerStates
    <3> QED BY <3>1, NoPromptMatters DEF PromptSteps
  <2> QED BY <1>0, <2>1, <2>2, <2>3, HomeOrOn
<1>19. CASE CollectScenes
  <2> DEFINE x == IF Succeeded(w.job) = {} THEN "giveup" ELSE "stitching"
             c == Succeeded(w.job) = Scenes
  <2>1. w' = [w EXCEPT !.pc = x, !.complete = c] BY <1>19 DEF CollectScenes
  <2>2. x \in {"giveup", "stitching"} OBVIOUS
  <2> HIDE DEF x, c
  <2>3. w'.pc \in {"giveup", "stitching"} BY <1>0, <2>1, <2>2 DEF WorkerStates
  <2> QED BY <2>3, NoPromptMatters DEF PromptSteps
<1>20. CASE BeginStitch \/ Stitch \/ StitchFails \/ FinishJob
  <2>1. Leave \/ GoTo("stitch") \/ GoTo("finish") \/ GoTo("giveup") \/ GoTo("send")
    BY <1>20 DEF BeginStitch, Stitch, StitchFails, FinishJob, Transition
  <2> QED BY <1>0, <2>1, HomeOrOn DEF PromptSteps
<1> QED BY <1>1, <1>2, <1>3, <1>4, <1>5, <1>6, <1>7, <1>8, <1>9, <1>21, <1>10, <1>11, <1>12, <1>13,
  <1>14, <1>15, <1>16, <1>17, <1>18, <1>19, <1>20 DEF Render

\* Nobody else moves the worker's prompt, or records media.
LEMMA StepKeepsPrompt == ASSUME Sound, [Next]_vars PROVE PromptInv'
<1> USE ConstantsAssumption
<1>0. IInv /\ TypeOK /\ PromptInv /\ w \in WorkerStates
      /\ scene \in [Jobs -> [Scenes -> SceneRows]]
  BY DEF IInv, TypeOK, Sound
<1>a. ASSUME w'.pc \in {"idle", "fatalerror", "restart", "recover", "resume", "dead"}
      PROVE  PromptInv'
  BY <1>a, NoPromptMatters DEF PromptSteps
<1>b. ASSUME w' = w, UNCHANGED scene, PromptsKept, files \subseteq files' PROVE PromptInv'
  BY <1>0, <1>b, PromptStays DEF PromptsKept
<1>1. CASE Tick BY <1>1, TickKeepsPrompt
<1>2. CASE Render BY <1>2, RenderKeepsPrompt
<1>3. CASE Recovery
  <2>1. CASE FatalSnapshot BY <1>a, <2>1 DEF FatalSnapshot, IdleWorker
  <2>2. CASE RestartSucceeds \/ RequeueUnfinished
    <3>1. GoTo("recover") \/ GoTo("resume") BY <2>2 DEF RestartSucceeds, RequeueUnfinished
    <3> QED BY <1>0, <3>1, HomeOrOn DEF PromptSteps
  <2>3. CASE RestartFails \/ StayInError
    <3>1. Leave BY <2>3 DEF RestartFails, StayInError
    <3> QED BY <1>0, <3>1, HomeOrOn
  <2>4. CASE FatalError \/ ResumeRender \/ RestoreState
    <3>1. \E step \in {"idle", "restart", "dead"} : Recovering(step)
      BY <2>4 DEF FatalError, ResumeRender, RestoreState, FatalTransition
    <3>2. w'.pc \in {"idle", "restart", "dead"} BY <1>0, <3>1, RecoveringIs
    <3> QED BY <1>a, <3>2
  <2> QED BY <1>3, <2>1, <2>2, <2>3, <2>4 DEF Recovery
<1>4. CASE Gui
  <2>1. w' = w /\ files' = files /\ (prompts' = prompts \/ prompts' = Cancelled(Prompts))
    BY <1>4 DEF Gui, ApproveJob, GuiCancel, GuiAbandon, GuiCancelPrompts, comfy
  <2>2. PromptsKept BY <1>0, <2>1, QuietPrompts
  <2>3. CASE scene' = scene BY <1>b, <2>1, <2>2, <2>3
  <2>4. CASE Abandon(g.job)
    <3> DEFINE C(r) == [r EXCEPT !.state = "cancelled", !.prompt = NoPrompt, !.stage = "none"]
    <3>1. scene' = [scene EXCEPT ![g.job] = [s \in Scenes |->
                      IF scene[g.job][s].state = "succeeded" THEN scene[g.job][s]
                      ELSE C(scene[g.job][s])]]
      BY <2>4 DEF Abandon
    <3>2. ASSUME NEW r \in SceneRows PROVE C(r).frame = r.frame /\ C(r).video = r.video
      BY DEF SceneRows
    <3> HIDE DEF C
    <3>3. \A j \in Jobs, s \in Scenes : scene'[j][s] = scene[j][s] \/ scene'[j][s] = C(scene[j][s])
      BY <1>0, <3>1
    <3>4. \A j \in Jobs, s \in Scenes : /\ scene'[j][s].frame = scene[j][s].frame
                                        /\ scene'[j][s].video = scene[j][s].video
      BY <1>0, <3>2, <3>3
    <3> QED BY <1>0, <2>1, <2>2, <3>4, PromptStays DEF PromptsKept
  <2>5. scene' = scene \/ Abandon(g.job)
    BY <1>4 DEF Gui, ApproveJob, GuiCancel, GuiAbandon, GuiCancelPrompts, rows
  <2> QED BY <2>3, <2>4, <2>5
<1>5. CASE ComfyUI
  <2>1. w' = w /\ UNCHANGED scene /\ files \subseteq files'
    BY <1>5 DEF ComfyUI, ComfyCrash, ComfyReturns, PromptCompletes, PromptErrors, rows
  <2>2. \A p \in Prompts : /\ prompts'[p].job = prompts[p].job /\ prompts'[p].scene = prompts[p].scene
                           /\ prompts'[p].stage = prompts[p].stage
    <3>1. CASE ComfyCrash \/ ComfyReturns
      <4>1. prompts' = Lost \/ prompts' = prompts BY <3>1 DEF ComfyCrash, ComfyReturns
      <4> QED BY <1>0, <4>1, QuietPrompts DEF PromptsKept
    <3>2. ASSUME NEW p \in Prompts, PromptCompletes(p) \/ PromptErrors(p), NEW q \in Prompts
          PROVE  /\ prompts'[q].job = prompts[q].job /\ prompts'[q].scene = prompts[q].scene
                 /\ prompts'[q].stage = prompts[q].stage
      <4>1. PICK x : prompts' = [prompts EXCEPT ![p].st = x]
        BY <3>2 DEF PromptCompletes, PromptErrors
      <4>2. prompts[p] \in PromptRecords BY <1>0 DEF TypeOK
      <4> QED BY <1>0, <4>1, <4>2 DEF TypeOK, PromptRecords
    <3> QED BY <1>5, <3>1, <3>2 DEF ComfyUI
  <2>3. \A j \in Jobs, s \in Scenes : /\ scene'[j][s].frame = scene[j][s].frame
                                      /\ scene'[j][s].video = scene[j][s].video
    BY <2>1
  <2> QED BY <1>0, <2>1, <2>2, <2>3, PromptStays
<1>6. CASE Process
  <2>1. w' = IdleWorker
    BY <1>6 DEF Process, Crash, Launch, LaunchRetry, LaunchFinish, LaunchAbandon, SavedJob, Sound,
      Settling, OwnerInv
  <2> QED BY <1>a, <2>1 DEF IdleWorker
<1>7. CASE UNCHANGED vars
  <2>1. PromptsKept BY <1>0, <1>7, QuietPrompts DEF vars
  <2> QED BY <1>b, <1>7, <2>1 DEF vars
<1> QED BY <1>1, <1>2, <1>3, <1>4, <1>5, <1>6, <1>7 DEF Next, Worker
-----------------------------------------------------------------------------
(* The render batches *)

\* Steps to places where no batch is under way.
LEMMA NoBatchMatters ==
  ASSUME w'.pc \notin StartedSteps PROVE BatchInv'
BY DEF BatchInv, InBatch, StartedSteps, SceneSteps

\* Going home is such a step.
LEMMA BatchHome ==
  ASSUME w \in WorkerStates, Leave \/ (\E step : GoTo(step) /\ step \notin StartedSteps)
  PROVE  BatchInv'
<1>1. CASE Leave
  <2>1. w'.pc = "idle" BY <1>1, LeaveIdles
  <2> QED BY <2>1, NoBatchMatters DEF StartedSteps, SceneSteps
<1>2. ASSUME NEW step, GoTo(step), step \notin StartedSteps PROVE BatchInv'
  <2>1. w'.pc = step BY <1>2 DEF GoTo, WorkerStates
  <2> QED BY <1>2, <2>1, NoBatchMatters
<1> QED BY <1>1, <1>2

\* Around the batches only the status of the job matters.
LEMMA BesideBatch ==
  ASSUME \/ w'.pc \in {"revisions", "download", "assets", "assetfail", "giveup", "collect"}
         \/ w'.pc = "mark" /\ w'.back = "assetfail"
         \/ w'.pc = "batch" /\ w'.stage = "t2i",
         status'[w'.job] \in {"running", "cancelled"}
  PROVE  BatchInv'
BY DEF BatchInv, InBatch, SceneSteps

\* While the worker stays where it is, its job may only be cancelled.
LEMMA BatchStays ==
  ASSUME IInv, BatchInv, w' = w, files \subseteq files', pipe'.job \in {pipe.job, NoJob},
         w.job \in Jobs => status'[w.job] \in {status[w.job], "cancelled"},
         \A j \in Jobs, s \in Scenes :
           \/ scene'[j][s].state = scene[j][s].state
           \/ scene[j][s].state # "succeeded" /\ scene'[j][s].state = "cancelled"
  PROVE  BatchInv'
<1>0. w \in WorkerStates /\ WorkerOK BY DEF IInv, TypeOK
<1>1. CASE w.pc \notin StartedSteps BY <1>1, NoBatchMatters
<1>2. CASE w.pc \in StartedSteps
  <2>1. w.job \in Jobs /\ w.job # NoJob
    BY <1>0, <1>2, ConstantsAssumption DEF WorkerOK, NoJobSteps, StartedSteps, SceneSteps
  <2>2. \A s \in Scenes : Covered(s) => Covered(s)' BY <2>1 DEF Covered, HasFile
  <2>3. \A s \in Scenes : HasFile(w.job, s, "t2i") => HasFile(w.job, s, "t2i")' BY DEF HasFile
  <2>4. Unfinished(w.job)' = Unfinished(w.job) BY <2>1 DEF Unfinished
  <2>5. w.scene \in Scenes \/ w.pc \notin SceneSteps BY <1>0 DEF WorkerOK
  <2>6. w.todo \subseteq Scenes BY <1>0 DEF WorkerStates
  <2>7. InBatch' = InBatch BY DEF InBatch
  <2>8. pipe'.job = w.job => pipe.job = w.job BY <2>1
  <2>9. status'[w.job] \in {"running", "cancelled"} BY <1>2, <2>1 DEF BatchInv
  <2>10. w'.pc = "mark" /\ w'.back = "owner" => Covered(w.scene)'
    BY <2>2, <2>5 DEF BatchInv, SceneSteps, Covered
  <2>11. w'.pc = "owner" /\ pipe'.job = w'.job => Covered(w.scene)'
    BY <2>2, <2>5, <2>8 DEF BatchInv, SceneSteps, Covered
  <2>12. InBatch' /\ w'.stage = "t2i" => \A s \in Scenes \ w'.todo : Covered(s)'
    BY <2>2, <2>7 DEF BatchInv
  <2>13. InBatch' /\ w'.stage = "i2v" => \A s \in w'.todo : HasFile(w.job, s, "t2i")'
    BY <2>3, <2>6, <2>7 DEF BatchInv
  <2>14. w'.pc = "batch" /\ w'.stage = "i2v" => \A s \in Scenes : Covered(s)'
    BY <2>2 DEF BatchInv
  <2>15. w'.pc \in {"stitching", "stitch", "finish"} =>
           IF w'.complete THEN Unfinished(w.job)' = {} ELSE Unfinished(w.job)' \notin {{}, Scenes}
    BY <2>4 DEF BatchInv
  <2>16. InBatch' /\ w'.pc # "scene" => w'.scene \in w'.todo BY <2>7 DEF BatchInv
  <2> QED BY <2>9, <2>10, <2>11, <2>12, <2>13, <2>14, <2>15, <2>16 DEF BatchInv
<1> QED BY <1>1, <1>2

\* Within a batch a step changes rows of scenes still to do only.
LEMMA BatchMoves ==
  ASSUME Sound, InBatch, w'.job = w.job, w'.stage = w.stage, w'.todo = w.todo,
         (w'.pc \in SceneSteps /\ w'.scene \in w.todo) \/ w'.pc = "scene",
         w'.pc = "mark" => w'.back = "owner" /\ Covered(w.scene)',
         w'.pc = "owner" /\ pipe'.job = w.job => Covered(w.scene)',
         files \subseteq files', status' = status,
         \A s \in Scenes \ w.todo : scene'[w.job][s] = scene[w.job][s]
  PROVE  BatchInv'
<1>0. w \in WorkerStates /\ WorkerOK /\ BatchInv BY DEF Sound, IInv, TypeOK
<1>1. w.pc \in StartedSteps BY DEF InBatch, StartedSteps
<1>2. \A s \in Scenes \ w.todo : Covered(s) => Covered(s)' BY DEF Covered, HasFile
<1>3. InBatch' BY DEF InBatch
<1>4. status'[w'.job] \in {"running", "cancelled"} BY <1>0, <1>1 DEF BatchInv
<1>5. w.stage = "t2i" => \A s \in Scenes \ w.todo : Covered(s)' BY <1>0, <1>2 DEF BatchInv
<1>6. w.stage = "i2v" => \A s \in w.todo : HasFile(w.job, s, "t2i")' BY <1>0 DEF BatchInv, HasFile
<1>7. w'.pc \notin {"batch", "stitching", "stitch", "finish"} BY DEF SceneSteps
<1>8. InBatch' /\ w'.pc # "scene" => w'.scene \in w'.todo OBVIOUS
<1>9. w'.pc = "mark" /\ w'.back = "owner" => Covered(w.scene)' OBVIOUS
<1>10. w'.pc = "owner" /\ pipe'.job = w'.job => Covered(w.scene)' OBVIOUS
<1>11. InBatch' /\ w'.stage = "t2i" => \A s \in Scenes \ w'.todo : Covered(s)' BY <1>5
<1>12. InBatch' /\ w'.stage = "i2v" => \A s \in w'.todo : HasFile(w.job, s, "t2i")' BY <1>6
<1> QED BY <1>4, <1>7, <1>8, <1>9, <1>10, <1>11, <1>12 DEF BatchInv

\* The status of a job under way is running, unless it is cancelled.
LEMMA TickKeepsBatch == ASSUME Sound, Tick PROVE BatchInv'
<1> USE ConstantsAssumption
<1>0. IInv /\ TypeOK /\ WorkerOK /\ BatchInv /\ w \in WorkerStates BY DEF IInv, TypeOK, Sound
<1>a. ASSUME NEW step \in {"revisions", "download", "assets", "giveup"}, GoTo(step),
             status'[w.job] \in {"running", "cancelled"}
      PROVE  BatchInv'
  <2>1. w'.pc = step /\ w'.job = w.job BY <1>0, <1>a DEF GoTo, WorkerStates
  <2> QED BY <1>a, <2>1, BesideBatch
<1>1. ASSUME NEW j \in Jobs, PollAccept(j) PROVE BatchInv'
  <2>1. w'.pc = "idle" BY <1>1 DEF PollAccept, At
  <2> QED BY <2>1, NoBatchMatters DEF StartedSteps, SceneSteps
<1>2. CASE PollNothing \/ TickProcess \/ TickNoJob
  <2>1. w'.pc \in {"send", "start", "fatal"}
    BY <1>2 DEF PollNothing, TickProcess, TickNoJob, IdleWorker
  <2> QED BY <2>1, NoBatchMatters DEF StartedSteps, SceneSteps
<1>3. CASE SendRequest \/ SendFails \/ RequestSent \/ GiveUpJob
  <2>1. Leave \/ GoTo("sent") BY <1>3 DEF SendRequest, SendFails, RequestSent, GiveUpJob
  <2> QED BY <1>0, <2>1, BatchHome DEF StartedSteps, SceneSteps
<1>4. CASE StartJob
  <2>1. CASE Owns(w.job)
    <3>1. GoTo("revisions") /\ status' = [status EXCEPT ![w.job] = "running"] /\ w.job \in Jobs
      BY <1>4, <2>1 DEF StartJob, Owns
    <3>2. status'[w.job] = "running" BY <1>0, <3>1 DEF TypeOK
    <3> QED BY <1>a, <3>1, <3>2
  <2>2. CASE ~Owns(w.job) BY <1>0, <1>4, <2>2, BatchHome DEF StartJob
  <2> QED BY <2>1, <2>2
<1>5. CASE EnsureRevisions \/ BeginAssets \/ GiveUp
  <2>1. w.pc \in StartedSteps /\ status' = status
        /\ (Leave \/ GoTo("download") \/ GoTo("assets") \/ GoTo("giveupjob"))
    BY <1>5 DEF EnsureRevisions, BeginAssets, GiveUp, Transition, At, StartedSteps
  <2>2. status'[w.job] \in {"running", "cancelled"} BY <1>0, <2>1 DEF BatchInv
  <2>3. "giveupjob" \notin StartedSteps BY DEF StartedSteps, SceneSteps
  <2> QED BY <1>0, <1>a, <2>1, <2>2, <2>3, BatchHome
<1>6. CASE ResolveAssets
  <2>1. w.pc \in StartedSteps /\ status' = status
    BY <1>6 DEF ResolveAssets, At, StartedSteps, rows
  <2>2. status'[w.job] \in {"running", "cancelled"} BY <1>0, <2>1 DEF BatchInv
  <2>3. PICK F : Leave \/ w' = [w EXCEPT !.pc = "assetfail", !.todo = F, !.failed = F]
    BY <1>6 DEF ResolveAssets
  <2>4. CASE w' = [w EXCEPT !.pc = "assetfail", !.todo = F, !.failed = F]
    <3>1. w'.pc = "assetfail" /\ w'.job = w.job BY <1>0, <2>4 DEF WorkerStates
    <3> QED BY <2>2, <3>1, BesideBatch
  <2> QED BY <1>0, <2>3, <2>4, BatchHome
<1>7. ASSUME NEW s \in Scenes, FailAssets(s) PROVE BatchInv'
  <2>1. w.pc \in StartedSteps /\ status' = status BY <1>7 DEF FailAssets, At, StartedSteps
  <2>2. status'[w.job] \in {"running", "cancelled"} BY <1>0, <2>1 DEF BatchInv
  <2>3. CASE CanWrite(w.job, s)
    <3>1. w' = [w EXCEPT !.pc = "mark", !.todo = w.todo \ {s}, !.scene = s,
                         !.mark = "failed", !.back = "assetfail"]
      BY <1>7, <2>3 DEF FailAssets
    <3>2. w'.pc = "mark" /\ w'.back = "assetfail" /\ w'.job = w.job BY <1>0, <3>1 DEF WorkerStates
    <3> QED BY <2>2, <3>2, BesideBatch
  <2>4. CASE ~CanWrite(w.job, s) BY <1>0, <1>7, <2>4, BatchHome DEF FailAssets
  <2> QED BY <2>3, <2>4
<1>8. CASE AssetsDone
  <2>1. w.pc \in StartedSteps /\ status' = status
    BY <1>8 DEF AssetsDone, At, StartedSteps, rows
  <2>2. status'[w.job] \in {"running", "cancelled"} BY <1>0, <2>1 DEF BatchInv
  <2>3. w'.pc \in {"giveup", "batch"} /\ w'.job = w.job /\ w'.stage = "t2i"
    BY <1>8 DEF AssetsDone, IdleWorker
  <2> QED BY <2>2, <2>3, BesideBatch
<1> QED BY <1>1, <1>2, <1>3, <1>4, <1>5, <1>6, <1>7, <1>8 DEF Tick

\* The steps around one prompt stay with the scene that they are about.
InnerSteps == {"prompt", "lookup", "bind", "check", "wait", "harvest", "commit", "err", "errset"}
\* A step around a prompt changes at most the row of its scene.
LEMMA InnerMoves ==
  ASSUME Sound, InBatch, NEW s \in w.todo, w'.pc \in InnerSteps, w'.scene = s,
         w'.job = w.job, w'.stage = w.stage, w'.todo = w.todo,
         files \subseteq files', status' = status,
         scene' = scene \/ \E r : RowBecomes(w.job, s, r)
  PROVE  BatchInv'
<1>1. w'.pc \in SceneSteps /\ w'.pc \notin {"mark", "owner"} BY DEF InnerSteps, SceneSteps
<1>2. w.job \in Jobs
  BY DEF Sound, IInv, WorkerOK, InBatch, NoJobSteps, SceneSteps
<1>3. \A u \in Scenes \ w.todo : scene'[w.job][u] = scene[w.job][u] BY <1>2 DEF RowBecomes
<1> QED BY <1>1, <1>3, BatchMoves

\* Or no row at all.
LEMMA InnerGoes ==
  ASSUME Sound, NEW step \in InnerSteps, GoTo(step), w.pc \in InnerSteps,
         files \subseteq files', status' = status, scene' = scene
  PROVE  BatchInv'
<1>1. w \in WorkerStates /\ BatchInv BY DEF Sound, IInv, TypeOK
<1>2. InBatch /\ w.pc # "scene" BY DEF InBatch, InnerSteps, SceneSteps
<1>3. w.scene \in w.todo BY <1>1, <1>2 DEF BatchInv
<1>4. w'.pc = step /\ w'.scene = w.scene /\ w'.job = w.job /\ w'.stage = w.stage
      /\ w'.todo = w.todo
  BY <1>1 DEF GoTo, WorkerStates
<1> QED BY <1>2, <1>3, <1>4, InnerMoves

\* The worker marks a scene that it has covered.
LEMMA CoverMoves ==
  ASSUME Sound, InBatch, NEW s \in w.todo, Covered(w.scene)',
         scene' = scene \/ \E r : RowBecomes(w.job, s, r),
         w'.pc = "mark", w'.back = "owner", w'.scene = s, w'.job = w.job, w'.stage = w.stage,
         w'.todo = w.todo, UNCHANGED <<files, status>>
  PROVE  BatchInv'
<1>1. w'.pc \in SceneSteps /\ w'.pc # "owner" BY DEF SceneSteps
<1>2. w.job \in Jobs BY DEF Sound, IInv, WorkerOK, InBatch, NoJobSteps, SceneSteps
<1>3. \A u \in Scenes \ w.todo : scene'[w.job][u] = scene[w.job][u] BY <1>2 DEF RowBecomes
<1> QED BY <1>1, <1>3, BatchMoves

\* A row that is written with a frame on disk, failed or succeeded covers its scene.
LEMMA RowCovers ==
  ASSUME Sound, InBatch, NEW s \in w.todo, NEW r, RowBecomes(w.job, s, r),
         HasFile(w.job, s, "t2i") \/ r.state \in {"failed", "succeeded"},
         w'.pc = "mark", w'.back = "owner", w'.scene = s, w'.job = w.job, w'.stage = w.stage,
         w'.todo = w.todo, UNCHANGED <<files, status>>
  PROVE  BatchInv'
<1>1. w.job \in Jobs /\ s \in Scenes
  BY DEF Sound, IInv, TypeOK, WorkerStates, WorkerOK, InBatch, NoJobSteps, SceneSteps
<1>2. scene'[w.job][s] = r BY <1>1 DEF RowBecomes
<1>3. Covered(w.scene)' BY <1>2 DEF Covered, HasFile
<1> QED BY <1>3, CoverMoves

\* Each step of a batch covers the scene that it leaves.
LEMMA RenderKeepsBatch == ASSUME Sound, Render PROVE BatchInv'
<1> USE ConstantsAssumption
<1>0. IInv /\ TypeOK /\ WorkerOK /\ PromptInv /\ RowsInv /\ BatchInv /\ w \in WorkerStates
      /\ OwnerNotCancelled
  BY DEF IInv, TypeOK, Sound
<1>s. w.pc \in StartedSteps => status[w.job] \in {"running", "cancelled"} BY <1>0 DEF BatchInv
<1>b. ASSUME w.pc \in SceneSteps, w.pc # "mark"
      PROVE  InBatch /\ w.scene \in w.todo /\ w.job \in Jobs /\ w.scene \in Scenes
  <2>1. InBatch /\ w.pc # "scene" BY <1>b DEF InBatch, SceneSteps
  <2> QED BY <1>0, <1>b, <2>1 DEF BatchInv, WorkerOK, NoJobSteps, SceneSteps
<1>c. ASSUME w.pc = "scene" PROVE InBatch /\ w.job \in Jobs
  BY <1>0, <1>c DEF InBatch, WorkerOK, NoJobSteps
<1>1. CASE OpenBatch
  <2> DEFINE T == {s \in Scenes : LET r == scene[w.job][s] IN
                     /\ r.state \notin {"failed", "cancelled"}
                     /\ ~(r.state = "succeeded" /\ r.video /\ HasFile(w.job, s, "i2v"))}
  <2>1. w' = [w EXCEPT !.pc = "scene", !.todo = T] /\ w.pc = "batch"
        /\ UNCHANGED <<scene, status, files>>
    BY <1>1 DEF OpenBatch, At, rows, comfy
  <2>2. w.job \in Jobs BY <1>0, <2>1 DEF WorkerOK, NoJobSteps
  <2>3. \A s \in Scenes \ T : scene[w.job][s].state \in {"failed", "cancelled", "succeeded"} OBVIOUS
  <2>4. w.stage = "i2v" => \A s \in T : HasFile(w.job, s, "t2i")
    <3>1. SUFFICES ASSUME w.stage = "i2v", NEW s \in T PROVE HasFile(w.job, s, "t2i") OBVIOUS
    <3>2. Covered(s) BY <1>0, <2>1, <3>1 DEF BatchInv
    <3>3. scene[w.job][s].state # "succeeded"
      BY <1>0, <2>2, <3>1 DEF RowsInv, SucceededHasClip
    <3> QED BY <3>1, <3>2, <3>3 DEF Covered
  <2> HIDE DEF T
  <2>5. w'.pc = "scene" /\ w'.job = w.job /\ w'.stage = w.stage /\ w'.todo = T
    BY <1>0, <2>1 DEF WorkerStates
  <2>6. status'[w'.job] \in {"running", "cancelled"} BY <1>s, <2>1, <2>5 DEF StartedSteps
  <2>7. \A s \in Scenes \ w'.todo : Covered(s)' BY <2>1, <2>3, <2>5 DEF Covered
  <2>8. w'.stage = "i2v" => \A s \in w'.todo : HasFile(w.job, s, "t2i")'
    BY <2>1, <2>4, <2>5 DEF HasFile
  <2> QED BY <2>5, <2>6, <2>7, <2>8 DEF BatchInv
<1>2. CASE BatchDone
  <2>1. w.pc = "scene" /\ w.todo = {} /\ UNCHANGED <<scene, status, files>>
    BY <1>2 DEF BatchDone, At, rows, comfy
  <2>2. status'[w.job] \in {"running", "cancelled"} BY <1>s, <2>1 DEF StartedSteps
  <2>3. CASE w.stage = "t2i"
    <3>1. w' = [w EXCEPT !.stage = "i2v", !.pc = "batch"] BY <1>2, <2>3 DEF BatchDone
    <3>2. w'.pc = "batch" /\ w'.job = w.job BY <1>0, <3>1 DEF WorkerStates
    <3>3. \A s \in Scenes : Covered(s) BY <1>0, <1>c, <2>1, <2>3 DEF BatchInv
    <3>4. \A s \in Scenes : Covered(s)' BY <2>1, <3>2, <3>3 DEF Covered, HasFile
    <3> QED BY <2>2, <3>2, <3>4 DEF BatchInv, InBatch, SceneSteps
  <2>4. CASE w.stage # "t2i"
    <3>1. w' = [w EXCEPT !.pc = "collect"] BY <1>2, <2>4 DEF BatchDone
    <3>2. w'.pc = "collect" /\ w'.job = w.job BY <1>0, <3>1 DEF WorkerStates
    <3> QED BY <2>2, <3>2, BesideBatch
  <2> QED BY <2>3, <2>4
<1>3. ASSUME NEW s \in Scenes, ReuseFrame(s) PROVE BatchInv'
  <2>1. w.pc = "scene" /\ s \in w.todo /\ HasFile(w.job, s, "t2i")
        /\ UNCHANGED <<scene, status, files>>
        /\ w' = [w EXCEPT !.pc = "mark", !.scene = s, !.mark = "pending", !.back = "owner"]
    BY <1>3 DEF ReuseFrame, At, IsNext, rows, comfy
  <2>2. w'.pc = "mark" /\ w'.back = "owner" /\ w'.scene = s /\ w'.job = w.job
        /\ w'.stage = w.stage /\ w'.todo = w.todo
    BY <1>0, <2>1 DEF WorkerStates
  <2>3. Covered(w.scene)' BY <2>1, <2>2 DEF Covered, HasFile
  <2> QED BY <1>c, <2>1, <2>2, <2>3, CoverMoves
<1>4. ASSUME NEW s \in Scenes, AdoptFile(s) PROVE BatchInv'
  <2>1. w.pc = "scene" /\ s \in w.todo /\ HasFile(w.job, s, w.stage) /\ UNCHANGED <<status, files>>
    BY <1>4 DEF AdoptFile, At, IsNext, comfy
  <2>2. CASE CanWrite(w.job, s)
    <3> DEFINE r == Finished(scene[w.job][s], w.stage)
               m == Outcome(w.stage)
    <3>1. w' = [w EXCEPT !.pc = "mark", !.scene = s, !.mark = m, !.back = "owner"]
          /\ scene' = [scene EXCEPT ![w.job][s] = r]
      BY <1>4, <2>2 DEF AdoptFile
    <3>2. HasFile(w.job, s, "t2i") \/ r.state \in {"failed", "succeeded"}
      <4>1. CASE w.stage = "t2i" BY <2>1, <4>1
      <4>2. CASE w.stage = "i2v"
        <5>1. r = [scene[w.job][s] EXCEPT !.state = "succeeded", !.video = TRUE]
          BY <4>2 DEF Finished
        <5>2. scene[w.job][s] \in SceneRows BY <1>0, <1>c, <2>1, RowAt
        <5> QED BY <5>1, <5>2 DEF SceneRows
      <4> QED BY <1>0, <4>1, <4>2 DEF WorkerStates
    <3> HIDE DEF r, m
    <3>3. w'.pc = "mark" /\ w'.back = "owner" /\ w'.scene = s /\ w'.job = w.job
          /\ w'.stage = w.stage /\ w'.todo = w.todo
      BY <1>0, <3>1 DEF WorkerStates
    <3>4. RowBecomes(w.job, s, r) BY <1>0, <1>c, <2>1, <3>1, RowSet
    <3> QED BY <1>c, <2>1, <3>2, <3>3, <3>4, RowCovers
  <2>3. CASE ~CanWrite(w.job, s) BY <1>0, <1>4, <2>3, BatchHome DEF AdoptFile
  <2> QED BY <2>2, <2>3
<1>5. ASSUME NEW s \in Scenes, AttemptsSpent(s) PROVE BatchInv'
  <2>1. w.pc = "scene" /\ s \in w.todo /\ UNCHANGED <<scene, status, files>>
        /\ w' = [w EXCEPT !.pc = "err", !.scene = s]
    BY <1>5 DEF AttemptsSpent, MustRender, At, IsNext, rows, comfy
  <2>2. w'.pc = "err" /\ w'.scene = s /\ w'.job = w.job /\ w'.stage = w.stage /\ w'.todo = w.todo
    BY <1>0, <2>1 DEF WorkerStates
  <2> QED BY <1>c, <2>1, <2>2, InnerMoves DEF InnerSteps
<1>6. ASSUME NEW s \in Scenes, BeginStage(s) PROVE BatchInv'
  <2>1. w.pc = "scene" /\ s \in w.todo /\ UNCHANGED <<status, files>>
    BY <1>6 DEF BeginStage, MustRender, At, IsNext, comfy
  <2>2. CASE CanWrite(w.job, s)
    <3> DEFINE r == BegunScene(scene[w.job][s], w.stage)
    <3>1. w' = [w EXCEPT !.pc = "prompt", !.scene = s, !.prompt = r.prompt]
          /\ scene' = [scene EXCEPT ![w.job][s] = r]
      BY <1>6, <2>2 DEF BeginStage
    <3> HIDE DEF r
    <3>2. w'.pc = "prompt" /\ w'.scene = s /\ w'.job = w.job /\ w'.stage = w.stage /\ w'.todo = w.todo
      BY <1>0, <3>1 DEF WorkerStates
    <3>3. RowBecomes(w.job, s, r) BY <1>0, <1>c, <2>1, <3>1, RowSet
    <3> QED BY <1>c, <2>1, <3>2, <3>3, InnerMoves DEF InnerSteps
  <2>3. CASE ~CanWrite(w.job, s) BY <1>0, <1>6, <2>3, BatchHome DEF BeginStage
  <2> QED BY <2>2, <2>3
<1>7. CASE LookupQueue \/ QueueRejected \/ \E p \in Prompts : QueuePrompt(p) \/ QueueAmbiguous(p)
  <2>1. w.pc \in {"lookup", "prompt"} /\ UNCHANGED <<scene, status, files>>
    BY <1>7 DEF LookupQueue, QueueRejected, QueuePrompt, QueueAmbiguous, At, rows, comfy
  <2>2. InBatch /\ w.scene \in w.todo BY <1>b, <2>1 DEF SceneSteps
  <2>3. PICK x \in InnerSteps :
          \E q : w' = [w EXCEPT !.pc = x] \/ w' = [w EXCEPT !.pc = x, !.prompt = q]
    BY <1>7 DEF LookupQueue, QueueRejected, QueuePrompt, QueueAmbiguous, InnerSteps
  <2>4. w'.pc \in InnerSteps /\ w'.scene = w.scene /\ w'.job = w.job /\ w'.stage = w.stage
        /\ w'.todo = w.todo
    BY <1>0, <2>3 DEF WorkerStates
  <2> QED BY <2>1, <2>2, <2>4, InnerMoves
<1>8. CASE BindPrompt
  <2>1. w.pc = "bind" /\ UNCHANGED <<status, files>> BY <1>8 DEF BindPrompt, At
  <2>2. InBatch /\ w.scene \in w.todo /\ w.job \in Jobs /\ w.scene \in Scenes
    BY <1>b, <2>1 DEF SceneSteps
  <2>3. CASE CanWrite(w.job, w.scene)
    <3>1. PICK r : scene' = [scene EXCEPT ![w.job][w.scene] = r] BY <1>8, <2>3 DEF BindPrompt
    <3>2. GoTo("check") BY <1>8, <2>3 DEF BindPrompt
    <3>3. w'.pc = "check" /\ w'.scene = w.scene /\ w'.job = w.job /\ w'.stage = w.stage
          /\ w'.todo = w.todo
      BY <1>0, <3>2 DEF GoTo, WorkerStates
    <3>4. RowBecomes(w.job, w.scene, r) BY <1>0, <2>2, <3>1, RowSet
    <3> QED BY <2>1, <2>2, <3>3, <3>4, InnerMoves DEF InnerSteps
  <2>4. CASE ~CanWrite(w.job, w.scene) BY <1>0, <1>8, <2>4, BatchHome DEF BindPrompt
  <2> QED BY <2>3, <2>4
<1>9. CASE \/ LookupHistory \/ CheckOwner \/ PromptFailed \/ PromptTimeout \/ PollHiccup
           \/ ComfyUnreachable \/ HarvestFails \/ HarvestClip \/ PromptSucceeded
  <2>1. w.pc \in InnerSteps /\ UNCHANGED <<scene, status>> /\ files \subseteq files'
    BY <1>9 DEF LookupHistory, CheckOwner, PromptFailed, PromptTimeout, PollHiccup,
        ComfyUnreachable,
      HarvestFails, HarvestClip, PromptSucceeded, At, rows, comfy, InnerSteps
  <2>2. \E step \in InnerSteps : GoTo(step)
    BY <1>9 DEF LookupHistory, CheckOwner, PromptFailed, PromptTimeout, PollHiccup,
        ComfyUnreachable,
      HarvestFails, HarvestClip, PromptSucceeded, GoTo, InnerSteps
  <2> QED BY <2>1, <2>2, InnerGoes
<1>10. CASE CommitStage
  <2>1. w.pc = "commit" /\ UNCHANGED <<status, files>> BY <1>10 DEF CommitStage, At, comfy
  <2>2. InBatch /\ w.scene \in w.todo /\ w.job \in Jobs /\ w.scene \in Scenes
    BY <1>b, <2>1 DEF SceneSteps
  <2>3. HasFile(w.job, w.scene, w.stage) BY <1>0, <2>1 DEF PromptInv
  <2>4. CASE CanWrite(w.job, w.scene)
    <3> DEFINE r == Finished(scene[w.job][w.scene], w.stage)
               m == Outcome(w.stage)
    <3>1. w' = [w EXCEPT !.pc = "mark", !.mark = m, !.back = "owner", !.prompt = NoPrompt]
          /\ scene' = [scene EXCEPT ![w.job][w.scene] = r]
      BY <1>10, <2>4 DEF CommitStage
    <3>2. HasFile(w.job, w.scene, "t2i") \/ r.state \in {"failed", "succeeded"}
      <4>1. CASE w.stage = "t2i" BY <2>3, <4>1
      <4>2. CASE w.stage = "i2v"
        <5>1. r = [scene[w.job][w.scene] EXCEPT !.state = "succeeded", !.video = TRUE]
          BY <4>2 DEF Finished
        <5>2. scene[w.job][w.scene] \in SceneRows BY <1>0, <2>2, RowAt
        <5> QED BY <5>1, <5>2 DEF SceneRows
      <4> QED BY <1>0, <4>1, <4>2 DEF WorkerStates
    <3> HIDE DEF r, m
    <3>3. w'.pc = "mark" /\ w'.back = "owner" /\ w'.scene = w.scene /\ w'.job = w.job
          /\ w'.stage = w.stage /\ w'.todo = w.todo
      BY <1>0, <3>1 DEF WorkerStates
    <3>4. RowBecomes(w.job, w.scene, r) BY <1>0, <2>2, <3>1, RowSet
    <3> QED BY <2>1, <2>2, <3>2, <3>3, <3>4, RowCovers
  <2>5. CASE ~CanWrite(w.job, w.scene) BY <1>0, <1>10, <2>5, BatchHome DEF CommitStage
  <2> QED BY <2>4, <2>5
<1>11. CASE StageBreaks \/ RetryStage
  <2>1. w.pc \in {"prompt", "harvest", "errset"} /\ UNCHANGED <<status, files>>
    BY <1>11 DEF StageBreaks, RetryStage, At, comfy
  <2>2. InBatch /\ w.scene \in w.todo /\ w.job \in Jobs /\ w.scene \in Scenes
    BY <1>b, <2>1 DEF SceneSteps
  <2> DEFINE r == [scene[w.job][w.scene] EXCEPT !.state = "failed"]
             v == [scene[w.job][w.scene] EXCEPT !.state = "pending"]
  <2>3. \/ Leave
        \/ GoTo("scene") /\ scene' = [scene EXCEPT ![w.job][w.scene] = v]
        \/ /\ w' = [w EXCEPT !.pc = "mark", !.mark = "failed", !.back = "owner"]
           /\ scene' = [scene EXCEPT ![w.job][w.scene] = r]
    BY <1>11 DEF StageBreaks, RetryStage
  <2>4. r.state = "failed" BY <1>0, <2>2, RowAt DEF SceneRows
  <2> HIDE DEF r, v
  <2>5. CASE GoTo("scene") /\ scene' = [scene EXCEPT ![w.job][w.scene] = v]
    <3>1. w'.pc = "scene" /\ w'.job = w.job /\ w'.stage = w.stage /\ w'.todo = w.todo
      BY <1>0, <2>5 DEF GoTo, WorkerStates
    <3>2. RowBecomes(w.job, w.scene, v) BY <1>0, <2>2, <2>5, RowSet
    <3>3. \A u \in Scenes \ w.todo : scene'[w.job][u] = scene[w.job][u]
      BY <2>2, <3>2 DEF RowBecomes
    <3> QED BY <2>1, <2>2, <3>1, <3>3, BatchMoves
  <2>6. CASE /\ w' = [w EXCEPT !.pc = "mark", !.mark = "failed", !.back = "owner"]
             /\ scene' = [scene EXCEPT ![w.job][w.scene] = r]
    <3>1. w'.pc = "mark" /\ w'.back = "owner" /\ w'.scene = w.scene /\ w'.job = w.job
          /\ w'.stage = w.stage /\ w'.todo = w.todo
      BY <1>0, <2>6 DEF WorkerStates
    <3>2. RowBecomes(w.job, w.scene, r) BY <1>0, <2>2, <2>6, RowSet
    <3> QED BY <2>1, <2>2, <2>4, <3>1, <3>2, RowCovers
  <2> QED BY <1>0, <2>3, <2>5, <2>6, BatchHome
<1>12. CASE MarkRevision
  <2>1. w.pc = "mark" /\ UNCHANGED <<status, scene, files>> /\ w.back \in {"owner", "assetfail"}
        /\ (Leave \/ GoTo(w.back)) /\ w.scene \in Scenes
    BY <1>0, <1>12 DEF MarkRevision, At, comfy, WorkerStates, WorkerOK, SceneSteps
  <2>2. status'[w.job] \in {"running", "cancelled"}
    BY <1>s, <2>1 DEF StartedSteps, SceneSteps
  <2>3. CASE GoTo(w.back)
    <3>1. w'.pc = w.back /\ w'.job = w.job /\ w'.stage = w.stage /\ w'.todo = w.todo
          /\ w'.scene = w.scene
      BY <1>0, <2>3 DEF GoTo, WorkerStates
    <3>2. CASE w.back = "assetfail" BY <2>2, <3>1, <3>2, BesideBatch
    <3>3. CASE w.back = "owner"
      <4>1. InBatch /\ w.scene \in w.todo /\ Covered(w.scene)
        BY <1>0, <2>1, <3>3 DEF InBatch, SceneSteps, BatchInv
      <4>2. Covered(w.scene)' BY <2>1, <3>1, <4>1 DEF Covered, HasFile
      <4> QED BY <2>1, <3>1, <3>3, <4>1, <4>2, BatchMoves DEF SceneSteps
    <3> QED BY <2>1, <3>2, <3>3
  <2> QED BY <1>0, <2>1, <2>3, BatchHome
<1>13. CASE CheckBatchOwner
  <2>1. w.pc = "owner" /\ UNCHANGED <<status, scene, files, pipe>>
    BY <1>13 DEF CheckBatchOwner, At, rows, comfy
  <2>2. InBatch /\ w.scene \in w.todo /\ w.job \in Jobs BY <1>b, <2>1 DEF SceneSteps
  <2>3. CASE pipe.job = w.job
    <3>1. w' = [IdleWorker EXCEPT !.pc = "scene", !.job = w.job, !.stage = w.stage,
                                  !.todo = w.todo \ {w.scene}]
      BY <1>13, <2>3 DEF CheckBatchOwner
    <3>2. w'.pc = "scene" /\ w'.job = w.job /\ w'.stage = w.stage /\ w'.todo = w.todo \ {w.scene}
      BY <3>1 DEF IdleWorker
    <3>3. Covered(w.scene) BY <1>0, <2>1, <2>3 DEF BatchInv
    <3>4. status'[w'.job] \in {"running", "cancelled"}
      BY <1>s, <2>1, <3>2 DEF StartedSteps, SceneSteps
    <3>5. w.stage = "t2i" => \A s \in Scenes \ w'.todo : Covered(s)
      BY <1>0, <2>2, <3>2, <3>3 DEF BatchInv
    <3>6. w.stage = "t2i" => \A s \in Scenes \ w'.todo : Covered(s)'
      BY <2>1, <3>2, <3>5 DEF Covered, HasFile
    <3>7. w.stage = "i2v" => \A s \in w'.todo : HasFile(w.job, s, "t2i")'
      BY <1>0, <2>1, <2>2, <3>2 DEF BatchInv, HasFile
    <3> QED BY <3>2, <3>4, <3>6, <3>7 DEF BatchInv
  <2>4. CASE pipe.job # w.job BY <1>0, <1>13, <2>4, BatchHome DEF CheckBatchOwner
  <2> QED BY <2>3, <2>4
<1>14. CASE StageError
  <2>1. w.pc = "err" /\ UNCHANGED <<status, files, pipe>> BY <1>14 DEF StageError, At, comfy
  <2>2. InBatch /\ w.scene \in w.todo /\ w.job \in Jobs /\ w.scene \in Scenes
    BY <1>b, <2>1 DEF SceneSteps
  <2>3. CASE ~comfyUp BY <1>0, <1>14, <2>3, BatchHome DEF StageError, StartedSteps, SceneSteps
  <2>4. CASE comfyUp /\ CanWrite(w.job, w.scene)
    <3> DEFINE r == [scene[w.job][w.scene] EXCEPT !.prompt = NoPrompt]
    <3>1. w' = [w EXCEPT !.pc = "errset", !.prompt = NoPrompt]
          /\ scene' = [scene EXCEPT ![w.job][w.scene] = r]
      BY <1>14, <2>4 DEF StageError
    <3> HIDE DEF r
    <3>2. w'.pc = "errset" /\ w'.scene = w.scene /\ w'.job = w.job
          /\ w'.stage = w.stage /\ w'.todo = w.todo
      BY <1>0, <3>1 DEF WorkerStates
    <3>3. RowBecomes(w.job, w.scene, r) BY <1>0, <2>2, <3>1, RowSet
    <3> QED BY <2>1, <2>2, <3>2, <3>3, InnerMoves DEF InnerSteps
  <2>5. CASE comfyUp /\ ~CanWrite(w.job, w.scene)
    <3>1. GoTo("owner") /\ scene' = scene BY <1>14, <2>5 DEF StageError
    <3>2. w'.pc = "owner" /\ w'.scene = w.scene /\ w'.job = w.job
          /\ w'.stage = w.stage /\ w'.todo = w.todo
      BY <1>0, <3>1 DEF GoTo, WorkerStates
    <3>3. pipe.job = w.job => scene[w.job][w.scene].state = "cancelled"
      BY <1>0, <2>2, <2>5 DEF CanWrite, Owns, OwnerNotCancelled
    <3>4. pipe'.job = w.job => Covered(w.scene)' BY <2>1, <3>1, <3>2, <3>3 DEF Covered
    <3> QED BY <2>1, <2>2, <3>1, <3>2, <3>4, BatchMoves DEF SceneSteps
  <2> QED BY <2>3, <2>4, <2>5
<1>15. CASE CollectScenes
  <2> DEFINE x == IF Succeeded(w.job) = {} THEN "giveup" ELSE "stitching"
             c == Succeeded(w.job) = Scenes
  <2>1. w' = [w EXCEPT !.pc = x, !.complete = c] /\ w.pc = "collect"
        /\ UNCHANGED <<status, scene>>
    BY <1>15 DEF CollectScenes, At, rows
  <2>2. w.job \in Jobs BY <1>0, <2>1 DEF WorkerOK, NoJobSteps
  <2>3. Unfinished(w.job) = Scenes \ Succeeded(w.job)
    BY <1>0, <2>2 DEF RowsInv, SucceededHasClip, Unfinished, Succeeded
  <2>4. (x = "giveup" \/ x = "stitching") /\ c \in BOOLEAN /\ Succeeded(w.job) \subseteq Scenes
        /\ (x = "stitching" =>
              IF c THEN Unfinished(w.job) = {} ELSE Unfinished(w.job) \notin {{}, Scenes})
    BY <2>3 DEF Succeeded
  <2> HIDE DEF x, c
  <2>5. w'.pc = x /\ w'.complete = c /\ w'.job = w.job BY <1>0, <2>1 DEF WorkerStates
  <2>6. status'[w'.job] \in {"running", "cancelled"} BY <1>s, <2>1, <2>5 DEF StartedSteps
  <2>7. CASE x = "giveup" BY <2>5, <2>6, <2>7, BesideBatch
  <2>8. CASE x = "stitching"
    <3>1. Unfinished(w.job)' = Unfinished(w.job) BY <2>1, <2>5 DEF Unfinished
    <3>2. IF w'.complete THEN Unfinished(w.job)' = {} ELSE Unfinished(w.job)' \notin {{}, Scenes}
      BY <2>4, <2>5, <2>8, <3>1
    <3> QED BY <2>5, <2>6, <2>8, <3>2 DEF BatchInv, InBatch, SceneSteps
  <2> QED BY <2>4, <2>7, <2>8
<1>16. CASE BeginStitch \/ Stitch \/ StitchFails \/ FinishJob
  <2>1. CASE Leave \/ GoTo("send") BY <1>0, <2>1, BatchHome DEF StartedSteps, SceneSteps
  <2>2. CASE ~Leave /\ ~GoTo("send")
    <3>1. w.pc \in {"stitching", "stitch"} /\ UNCHANGED <<status, scene>>
          /\ (GoTo("stitch") \/ GoTo("finish") \/ GoTo("giveup"))
      BY <1>16, <2>2 DEF BeginStitch, Stitch, StitchFails, FinishJob, Transition, At, rows
    <3>2. PICK step \in {"stitch", "finish", "giveup"} : GoTo(step) BY <3>1
    <3>3. w'.pc = step /\ w'.job = w.job /\ w'.complete = w.complete
      BY <1>0, <3>2 DEF GoTo, WorkerStates
    <3>4. status'[w'.job] \in {"running", "cancelled"} BY <1>s, <3>1, <3>3 DEF StartedSteps
    <3>5. Unfinished(w.job)' = Unfinished(w.job) BY <3>1, <3>3 DEF Unfinished
    <3>6. IF w'.complete THEN Unfinished(w.job)' = {} ELSE Unfinished(w.job)' \notin {{}, Scenes}
      BY <1>0, <3>1, <3>3, <3>5 DEF BatchInv
    <3> QED BY <3>3, <3>4, <3>6 DEF BatchInv, InBatch, SceneSteps
  <2> QED BY <2>1, <2>2
<1> QED BY <1>1, <1>2, <1>3, <1>4, <1>5, <1>6, <1>7, <1>8, <1>9, <1>10, <1>11, <1>12, <1>13,
  <1>14, <1>15, <1>16 DEF Render

\* Cancels, ComfyUI, crashes and launches meet a worker that stays or is idle.
LEMMA StepKeepsBatch == ASSUME Sound, [Next]_vars PROVE BatchInv'
<1> USE ConstantsAssumption
<1>0. IInv /\ TypeOK /\ OwnerInv /\ BatchInv /\ w \in WorkerStates
      /\ scene \in [Jobs -> [Scenes -> SceneRows]]
  BY DEF IInv, TypeOK, Sound, Settling
<1>a. ASSUME w'.pc \in {"idle", "fatalerror", "restart", "recover", "resume", "dead"}
      PROVE  BatchInv'
  BY <1>a, NoBatchMatters DEF StartedSteps, SceneSteps
<1>b. ASSUME w' = w, UNCHANGED <<scene, status, pipe>>, files \subseteq files' PROVE BatchInv'
  BY <1>0, <1>b, BatchStays
<1>1. CASE Tick BY <1>1, TickKeepsBatch
<1>2. CASE Render BY <1>2, RenderKeepsBatch
<1>3. CASE Recovery
  <2>1. CASE FatalSnapshot BY <1>a, <2>1 DEF FatalSnapshot, IdleWorker
  <2>2. CASE RestartSucceeds \/ RequeueUnfinished
    <3>1. GoTo("recover") \/ GoTo("resume") BY <2>2 DEF RestartSucceeds, RequeueUnfinished
    <3> QED BY <1>0, <3>1, BatchHome DEF StartedSteps, SceneSteps
  <2>3. CASE RestartFails \/ StayInError
    <3>1. Leave BY <2>3 DEF RestartFails, StayInError
    <3> QED BY <1>0, <3>1, BatchHome
  <2>4. CASE FatalError \/ ResumeRender \/ RestoreState
    <3>1. \E step \in {"idle", "restart", "dead"} : Recovering(step)
      BY <2>4 DEF FatalError, ResumeRender, RestoreState, FatalTransition
    <3>2. w'.pc \in {"idle", "restart", "dead"} BY <1>0, <3>1, RecoveringIs
    <3> QED BY <1>a, <3>2
  <2> QED BY <1>3, <2>1, <2>2, <2>3, <2>4 DEF Recovery
<1>4. CASE Gui
  <2>1. w' = w /\ files' = files
    BY <1>4 DEF Gui, ApproveJob, GuiCancel, GuiAbandon, GuiCancelPrompts, comfy
  <2>2. CASE ApproveJob
    <3>1. w.pc \in {"idle", "dead"}
      BY <1>0, <2>2 DEF ApproveJob, OwnerInv, RenderStates
    <3> QED BY <1>a, <2>1, <3>1
  <2>3. CASE GuiCancel \/ GuiCancelPrompts
    BY <1>b, <2>1, <2>3 DEF GuiCancel, GuiCancelPrompts, rows
  <2>4. CASE GuiAbandon /\ pipe.job # g.job BY <1>b, <2>1, <2>4 DEF GuiAbandon
  <2>5. CASE GuiAbandon /\ pipe.job = g.job
    <3>1. Abandon(g.job) BY <2>5 DEF GuiAbandon
    <3> DEFINE C(r) == [r EXCEPT !.state = "cancelled", !.prompt = NoPrompt, !.stage = "none"]
    <3>2. scene' = [scene EXCEPT ![g.job] = [s \in Scenes |->
                      IF scene[g.job][s].state = "succeeded" THEN scene[g.job][s]
                      ELSE C(scene[g.job][s])]]
      BY <3>1 DEF Abandon
    <3>3. ASSUME NEW r \in SceneRows PROVE C(r).state = "cancelled" BY DEF SceneRows
    <3> HIDE DEF C
    <3>4. \A j \in Jobs, s \in Scenes :
            \/ scene'[j][s] = scene[j][s]
            \/ scene[j][s].state # "succeeded" /\ scene'[j][s] = C(scene[j][s])
      BY <1>0, <3>2
    <3>5. \A j \in Jobs, s \in Scenes :
            \/ scene'[j][s].state = scene[j][s].state
            \/ scene[j][s].state # "succeeded" /\ scene'[j][s].state = "cancelled"
      BY <1>0, <3>3, <3>4
    <3>6. pipe'.job = NoJob BY <3>1 DEF Abandon, NoPipe
    <3>7. w.job \in Jobs => status'[w.job] \in {status[w.job], "cancelled"}
      BY <1>0, <3>1 DEF Abandon, TypeOK
    <3> QED BY <1>0, <2>1, <3>5, <3>6, <3>7, BatchStays
  <2> QED BY <1>4, <2>2, <2>3, <2>4, <2>5 DEF Gui
<1>5. CASE ComfyUI
  <2>1. w' = w /\ UNCHANGED <<scene, status, pipe>> /\ files \subseteq files'
    BY <1>5 DEF ComfyUI, ComfyCrash, ComfyReturns, PromptCompletes, PromptErrors, rows
  <2> QED BY <1>b, <2>1
<1>6. CASE Process
  <2>1. w' = IdleWorker
    BY <1>0, <1>6 DEF Process, Crash, Launch, LaunchRetry, LaunchFinish, LaunchAbandon, SavedJob,
      OwnerInv
  <2> QED BY <1>a, <2>1 DEF IdleWorker
<1>7. CASE UNCHANGED vars BY <1>b, <1>7 DEF vars
<1> QED BY <1>1, <1>2, <1>3, <1>4, <1>5, <1>6, <1>7 DEF Next, Worker

\* The first state has them all, and every step keeps them.
LEMMA InitSound == ASSUME Init PROVE Sound /\ PaidFor
<1>1. IInv /\ Settling /\ PaidFor BY InitIInv, InitSettles, InitPaid
<1>2. w.pc = "idle" BY DEF Init, IdleWorker
<1>3. PromptInv BY <1>2 DEF PromptInv, PromptSteps
<1>4. BatchInv BY <1>2 DEF BatchInv, InBatch, StartedSteps, SceneSteps
<1>5. \A j \in Jobs, s \in Scenes : ~scene[j][s].frame /\ ~scene[j][s].video
        /\ scene[j][s].state = "pending" /\ scene[j][s].prompt = NoPrompt
  BY DEF Init, FreshScene
<1>6. RowsInv
  BY <1>5 DEF RowsInv, SucceededHasClip, PromptMatchesScene, OutcomeMatchesScenes, Init
<1> QED BY <1>1, <1>3, <1>4, <1>6 DEF Sound

\* Every step keeps the whole invariant.
LEMMA StepSound == ASSUME Sound, PaidFor, [Next]_vars PROVE Sound' /\ PaidFor'
<1>1. IInv /\ Settling BY DEF Sound
<1>2. IInv' /\ Settling' /\ PaidFor' BY <1>1, StepIInv, StepSettles, StepPaid
<1>3. RowsInv' /\ PromptInv' /\ BatchInv' BY StepKeepsRows, StepKeepsPrompt, StepKeepsBatch
<1> QED BY <1>2, <1>3 DEF Sound

\* The request for the next job is mailed for a job with an outcome.
LEMMA StepAsks ==
  ASSUME Sound, [Next]_vars
  PROVE  \A j \in asked' \ asked : status[j] \in {"succeeded", "partial", "cancelled"}
<1>1. CASE SendRequest
  <2>1. asked' \ asked \subseteq {w.job} \ {NoJob} /\ w.pc = "send"
    BY <1>1 DEF SendRequest, At
  <2>2. w.job # NoJob => status[w.job] \in {"succeeded", "partial", "cancelled"}
    BY <2>1 DEF Sound, Settling, OwnerInv
  <2> QED BY <2>1, <2>2
<1>2. CASE asked' = asked BY <1>2
<1>3. asked' = asked \/ SendRequest
  <2>1. CASE Tick
    BY <2>1 DEF Tick, PollAccept, PollNothing, SendFails, RequestSent, TickProcess, TickNoJob,
      StartJob, EnsureRevisions, BeginAssets, ResolveAssets, AssetsDone, GiveUp, GiveUpJob,
      FailAssets
  <2>2. CASE Render
    BY <2>2 DEF Render, OpenBatch, BatchDone, ReuseFrame, AdoptFile, AttemptsSpent, BeginStage,
      LookupHistory, LookupQueue, QueueRejected, QueuePrompt, QueueAmbiguous, BindPrompt,
      CheckOwner, PromptSucceeded, PromptFailed, PromptTimeout, PollHiccup, ComfyUnreachable,
      HarvestClip, HarvestFails, CommitStage, MarkRevision, CheckBatchOwner, StageError,
      RetryStage, StageBreaks, CollectScenes, BeginStitch, Stitch, StitchFails, FinishJob
  <2>3. CASE Recovery
    BY <2>3 DEF Recovery, FatalSnapshot, FatalError, RestartSucceeds, RestartFails,
      RequeueUnfinished, ResumeRender, RestoreState, StayInError
  <2>4. CASE Gui BY <2>4 DEF Gui, ApproveJob, GuiCancel, GuiAbandon, GuiCancelPrompts
  <2>5. CASE ComfyUI
    BY <2>5 DEF ComfyUI, ComfyCrash, ComfyReturns, PromptCompletes, PromptErrors
  <2>6. CASE Process
    BY <2>6 DEF Process, Crash, Launch, LaunchRetry, LaunchFinish, LaunchAbandon
  <2>7. CASE UNCHANGED vars BY <2>7 DEF vars
  <2> QED BY <2>1, <2>2, <2>3, <2>4, <2>5, <2>6, <2>7 DEF Next, Worker
<1> QED BY <1>1, <1>2, <1>3

\* A prompt is queued for a stage that its row does not record.
LEMMA StepQueues ==
  ASSUME Sound, [Next]_vars
  PROVE  \A p \in Prompts : ~Live(p) /\ Live(p)' =>
           LET q == prompts'[p] IN ~Recorded(scene[q.job][q.scene], q.stage)
<1> USE ConstantsAssumption
<1>0. TypeOK /\ IInv /\ PromptInv /\ w \in WorkerStates BY DEF IInv, TypeOK, Sound
<1>a. ASSUME LivePrompts' \subseteq LivePrompts
      PROVE  \A p \in Prompts : ~(~Live(p) /\ Live(p)')
  BY <1>a DEF LivePrompts
<1>1. ASSUME NEW p \in Prompts, QueuePrompt(p) \/ QueueAmbiguous(p),
             NEW q \in Prompts, ~Live(q), Live(q)'
      PROVE  ~Recorded(scene[prompts'[q].job][prompts'[q].scene], prompts'[q].stage)
  <2>1. prompts' = Enqueued(p) /\ w.pc = "prompt"
    BY <1>1 DEF QueuePrompt, QueueAmbiguous, At
  <2>2. prompts'[p] = [st |-> "live", job |-> w.job, scene |-> w.scene, stage |-> w.stage]
        /\ \A u \in Prompts : u # p => prompts'[u] = prompts[u]
    BY <1>0, <2>1 DEF Enqueued, TypeOK
  <2>3. q = p BY <1>1, <2>2 DEF Live
  <2>4. ~Recorded(scene[w.job][w.scene], w.stage) BY <1>0, <2>1 DEF PromptInv
  <2> QED BY <2>2, <2>3, <2>4
<1>2. \/ LivePrompts' \subseteq LivePrompts
      \/ \E p \in Prompts : QueuePrompt(p) \/ QueueAmbiguous(p)
  <2>p. prompts \in [Prompts -> PromptRecords] BY <1>0 DEF TypeOK
  <2>q. ASSUME prompts' = prompts \/ prompts' = Lost \/ \E P : prompts' = Cancelled(P)
        PROVE  LivePrompts' \subseteq LivePrompts
    BY <2>p, <2>q, LiveAfter
  <2>1. CASE Tick
    <3>1. prompts' = prompts
      BY <2>1 DEF Tick, PollAccept, PollNothing, SendRequest, SendFails, RequestSent, TickProcess,
        TickNoJob, StartJob, EnsureRevisions, BeginAssets, ResolveAssets, AssetsDone, GiveUp,
        GiveUpJob, FailAssets, comfy
    <3> QED BY <2>q, <3>1
  <2>2. CASE Render
    <3>1. \/ prompts' = prompts \/ prompts' = Cancelled({w.prompt})
          \/ \E p \in Prompts : QueuePrompt(p) \/ QueueAmbiguous(p)
      BY <2>2 DEF Render, OpenBatch, BatchDone, ReuseFrame, AdoptFile, AttemptsSpent, BeginStage,
        LookupHistory, LookupQueue, QueueRejected, BindPrompt,
        CheckOwner, PromptSucceeded, PromptFailed, PromptTimeout, PollHiccup, ComfyUnreachable,
        HarvestClip, HarvestFails, CommitStage, MarkRevision, CheckBatchOwner, StageError,
        RetryStage, StageBreaks, CollectScenes, BeginStitch, Stitch, StitchFails, FinishJob, comfy
    <3> QED BY <2>q, <3>1
  <2>3. CASE Recovery
    <3>1. prompts' = prompts \/ prompts' = Lost
      BY <2>3 DEF Recovery, FatalSnapshot, FatalError, RestartSucceeds, RestartFails,
        RequeueUnfinished, ResumeRender, RestoreState, StayInError, comfy
    <3> QED BY <2>q, <3>1
  <2>4. CASE Gui
    <3>1. prompts' = prompts \/ prompts' = Cancelled(Prompts)
      BY <2>4 DEF Gui, ApproveJob, GuiCancel, GuiAbandon, GuiCancelPrompts, comfy
    <3> QED BY <2>q, <3>1
  <2>5. CASE ComfyUI
    <3>1. CASE ComfyCrash \/ ComfyReturns
      <4>1. prompts' = prompts \/ prompts' = Lost BY <3>1 DEF ComfyCrash, ComfyReturns
      <4> QED BY <2>q, <4>1
    <3>2. ASSUME NEW p \in Prompts, PromptCompletes(p) \/ PromptErrors(p)
          PROVE  LivePrompts' \subseteq LivePrompts
      <4>1. PICK x \in {"done", "failed"} : prompts' = [prompts EXCEPT ![p].st = x]
        BY <3>2 DEF PromptCompletes, PromptErrors
      <4>2. \A q \in Prompts : q # p => prompts'[q] = prompts[q] BY <2>p, <4>1
      <4>3. prompts'[p].st = x BY <2>p, <4>1 DEF PromptRecords
      <4> QED BY <4>2, <4>3 DEF LivePrompts, Live
    <3> QED BY <2>5, <3>1, <3>2 DEF ComfyUI
  <2>6. CASE Process
    <3>1. prompts' = prompts \/ prompts' = Cancelled(Prompts)
      BY <2>6 DEF Process, Crash, Launch, LaunchRetry, LaunchFinish, LaunchAbandon, comfy
    <3> QED BY <2>q, <3>1
  <2>7. CASE UNCHANGED vars BY <2>7, <2>q DEF vars
  <2> QED BY <2>1, <2>2, <2>3, <2>4, <2>5, <2>6, <2>7 DEF Next, Worker
<1> QED BY <1>a, <1>1, <1>2

\* The rows, the files and the worker agree wherever the invariant holds.
LEMMA SoundIsConsistent == ASSUME Sound PROVE ScenesConsistent /\ NoJobLost
<1>1. FrameBeforeClip BY DEF Sound, BatchInv, InBatch, FrameBeforeClip, At
<1> QED BY <1>1 DEF Sound, RowsInv, ScenesConsistent, Settling

-----------------------------------------------------------------------------
\* The theorems

\* The inductive invariant holds throughout every run of the pipeline.
THEOREM Inductive == Spec => []IInv
BY InitIInv, StepIInv, PTL DEF Spec

\* Rows, prompts, the worker's and the GUI's local state keep their types: in
\* particular no attempt counter passes max_stage_attempts, whatever crashes,
\* resumes and retries interleave.
THEOREM TypeCorrect == Spec => []TypeOK
<1>1. IInv => TypeOK BY DEF IInv
<1> QED BY <1>1, Inductive, PTL

\* The pipeline row never names a cancelled or unknown job, however cancels,
\* recoveries, crashes and retries of several jobs interleave.
THEOREM OwnerAlive == Spec => []OwnerNotCancelled
<1>1. IInv => OwnerNotCancelled BY DEF IInv
<1> QED BY <1>1, Inductive, PTL

\* No late work of a cancelled job takes effect: no step starts or completes a
\* scene of it, records media, binds a prompt or revives the job.
THEOREM LateWorkIsRejected == Spec => NoLateWork
BY Inductive, StepRejectsLateWork, PTL DEF Spec, NoLateWork

\* The invariant of the row's owner, the scene rows, the worker's prompt and the render batches
\* holds throughout, and every live prompt that the worker does not hold is paid for by a fault.
THEOREM SoundThroughout == Spec => [](Sound /\ PaidFor)
BY InitSound, StepSound, PTL DEF Spec

\* No accepted job is lost: while its status promises work the pipeline row names it, through
\* cancels, crashes, retries and the recoveries of handle_fatal.
THEOREM NoJobIsLost == Spec => []NoJobLost
BY SoundThroughout, SoundIsConsistent, PTL

\* The scene rows, the files on disk, the prompts and the worker agree: a recorded frame or clip
\* exists, the I2V batch finds every frame it needs, a stored prompt id is of its very scene and
\* stage, and the outcome of a job is that of its scenes.
THEOREM ScenesStayConsistent == Spec => []ScenesConsistent
BY SoundThroughout, SoundIsConsistent, PTL

\* Renders are not duplicated: ComfyUI runs one prompt at a time, plus one for each crash, lost
\* reply or failed poll, whatever is resumed, retried and cancelled.
THEOREM RendersStayBounded == Spec => []RendersBounded
<1>1. Sound /\ PaidFor => RendersBounded BY PaidBounds DEF Sound
<1> QED BY <1>1, SoundThroughout, PTL

\* After a cancel has run and the worker has come home, nothing renders for a job that does not
\* own the pipeline, but for one prompt a fault.
THEOREM CancelIsQuiet == Spec => []QuietAfterCancel
<1>1. Sound /\ PaidFor => QuietAfterCancel BY PaidBounds DEF Sound
<1> QED BY <1>1, SoundThroughout, PTL

\* The next job is requested only after the outcome of this one, and no prompt is queued for a
\* frame or clip that its scene row records.
THEOREM WorkStaysInOrder == Spec => WorkInOrder
<1>1. ASSUME Sound, [Next]_vars
      PROVE [\A j \in asked' \ asked : status[j] \in {"succeeded", "partial", "cancelled"}]_vars
  BY <1>1, StepAsks
<1>2. ASSUME Sound, [Next]_vars
      PROVE [\A p \in Prompts : ~Live(p) /\ Live(p)' =>
              LET q == prompts'[p] IN ~Recorded(scene[q.job][q.scene], q.stage)]_vars
  BY <1>2, StepQueues
<1> QED BY <1>1, <1>2, SoundThroughout, PTL
  DEF Spec, WorkInOrder, RequestAfterOutcome, RecordedNotRendered
=============================================================================
