------------------------- MODULE QcFinalizationProofs -------------------------
(* What TLAPS proves about QcFinalization.  IInv is inductive: the types, the   *)
(* shape of the supervisor thread, and how far the request step and the thread  *)
(* have come whenever a mail may have left.  EffectsOK is inductive on top of   *)
(* it: what the rows, the markers and the thread may say of the prompts that    *)
(* ComfyUI was asked for.  What it says of how often holds until the legacy     *)
(* route takes the job over; as long as nobody switches quality control off,    *)
(* every step is a step of FinalEffects.                                        *)
EXTENDS QcFinalization, TLAPS

WorkerSteps ==
  {"idle", "discard", "ensure", "open", "block", "release", "assemblyfailed", "jobsucceeded",
   "jobfailed", "scene", "dispatch", "deliver", "reuse", "start", "intend", "post", "bind",
   "mark", "wait", "history", "queue", "rehistory", "requeue", "commit", "sent", "error",
   "confirm", "assemble", "encode",
   "publish", "assembled", "request", "lookup", "claim", "send", "mailheld", "record", "ask"}
  \cup PlanSteps
MailSteps == {"intent", "lookup", "claim", "send"}
Errors == {"AMBIGUOUS", "FAILED"}
WorkerStates ==
  [pc : WorkerSteps, mode : Routes \cup {"none"}, todo : SUBSET Scenes,
   scene : Scenes \cup {0}, existing : Prompts \cup {NoPrompt},
   prompt : Prompts \cup {NoPrompt}, try : {1, 2}, err : Errors]

WorkerOK == w \in WorkerStates

\* while a delivery is under way the thread knows its scene, and who enters a
\* finalization its selection
SceneSteps ==
  {"dispatch", "deliver", "reuse", "start", "intend", "post", "bind", "mark", "wait", "history",
   "queue", "rehistory", "requeue", "commit", "sent", "error", "confirm"}
SceneOK == /\ w.pc \in SceneSteps => w.scene \in Scenes
           /\ w.pc \in {"discard", "ensure"} => w.mode \in Modes

\* no mail before the request step has passed its dispatch boundary, and the
\* thread that sends is the one that has just crossed it
MailOK ==
  /\ mails <= 1
  /\ request \in {"absent", "INTENT"} => mails = 0
  /\ w.pc = "intent" => request # "absent"
  /\ w.pc = "lookup" => request \in {"INTENT", "DISPATCHING"}
  /\ w.pc = "claim" => request = "INTENT"
  /\ w.pc = "send" => request = "DISPATCHING" /\ mails = 0

IInv == TypeOK /\ WorkerOK /\ SceneOK /\ MailOK

-----------------------------------------------------------------------------
\* Moves of the thread

\* Each way the thread moves on keeps its shape and ends at the step it names.
LEMMA Moves ==
  ASSUME WorkerOK
  PROVE  /\ \A pc \in WorkerSteps : GoTo(pc) => WorkerOK' /\ w'.pc = pc
         /\ Leave => WorkerOK' /\ w'.pc = "idle"
         /\ \A err \in Errors : Fails(err) => WorkerOK' /\ w'.pc = "error"
<1>1. ASSUME NEW pc \in WorkerSteps, GoTo(pc) PROVE WorkerOK' /\ w'.pc = pc
  BY <1>1 DEF GoTo, WorkerOK, WorkerStates
<1>2. ASSUME Leave PROVE WorkerOK' /\ w'.pc = "idle"
  BY <1>2 DEF Leave, Idle, WorkerOK, WorkerStates, WorkerSteps, Errors
<1>3. ASSUME NEW err \in Errors, Fails(err) PROVE WorkerOK' /\ w'.pc = "error"
  <2>1. "error" \in WorkerSteps BY DEF WorkerSteps
  <2> QED BY <1>3, <2>1 DEF Fails, WorkerOK, WorkerStates
<1> QED BY <1>1, <1>2, <1>3

\* Entering a finalization sets the selection and the first step.
LEMMA Entered ==
  ASSUME WorkerOK, NEW m \in Modes, Enter(m) PROVE WorkerOK' /\ SceneOK' /\ w'.pc \notin MailSteps
<1>1. PICK pc \in {"discard", "ensure"} : w' = [w EXCEPT !.mode = m, !.pc = pc]
  BY DEF Enter
<1>2. pc \in WorkerSteps /\ pc \notin MailSteps /\ pc \notin SceneSteps
  BY DEF WorkerSteps, MailSteps, SceneSteps
<1>3. w'.pc = pc /\ w'.mode = m /\ WorkerOK'
  BY <1>1, <1>2 DEF WorkerOK, WorkerStates, Routes
<1> QED BY <1>2, <1>3 DEF SceneOK

\* A reclaimed prompt is looked up in the history.
LEMMA Reclaimed ==
  ASSUME TypeOK, WorkerOK, NEW p \in Prompts \cup {NoPrompt}, Reclaims(p)
  PROVE  WorkerOK' /\ w'.pc \notin MailSteps /\ marker' = Marked("queued", p) /\ UNCHANGED prompts
<1>1. "history" \in WorkerSteps /\ "history" \notin MailSteps BY DEF WorkerSteps, MailSteps
<1>2. w' = [w EXCEPT !.pc = "history", !.prompt = p] BY DEF Reclaims
<1>3. WorkerOK' /\ w'.pc = "history" BY <1>1, <1>2 DEF WorkerOK, WorkerStates
<1> QED BY <1>1, <1>3 DEF Reclaims

\* An update at one point keeps the type of a function, inside its domain or not.
LEMMA UpdateTyped ==
  ASSUME NEW S, NEW T, NEW f \in [S -> T], NEW x, NEW v \in T
  PROVE  [f EXCEPT ![x] = v] \in [S -> T]
OBVIOUS

\* Every marker the renderer writes is a marker.
LEMMA MarkedTyped ==
  ASSUME TypeOK, WorkerOK
  PROVE  \A st \in {"dispatching", "queued", "sent", "failed", "ambiguous"} :
           \A p \in Prompts \cup {NoPrompt} : Marked(st, p) \in [Scenes \X {1, 2} -> Markers]
<1> SUFFICES ASSUME NEW st \in {"dispatching", "queued", "sent", "failed", "ambiguous"},
                    NEW p \in Prompts \cup {NoPrompt}
             PROVE  Marked(st, p) \in [Scenes \X {1, 2} -> Markers]
  OBVIOUS
<1>1. [st |-> st, prompt |-> p, clip |-> Clip(w.scene, w.mode)] \in Markers
  BY DEF Clip, Clips, Markers
<1>2. marker \in [Scenes \X {1, 2} -> Markers] BY DEF TypeOK
<1> HIDE DEF Markers
<1> QED BY <1>1, <1>2, UpdateTyped DEF Marked

\* The marker at hand is one of the files.
LEMMA FileTyped ==
  ASSUME TypeOK, SceneOK, w.pc \in SceneSteps
  PROVE  /\ File \in Scenes \X {1, 2}
         /\ marker[File] \in Markers /\ marker[File].prompt \in Prompts \cup {NoPrompt}
<1>1. File \in Scenes \X {1, 2} BY DEF SceneOK, File, Rev
<1>2. marker[File] \in Markers BY <1>1 DEF TypeOK
<1> QED BY <1>1, <1>2 DEF Markers

\* A cancel keeps the records of the prompts.
LEMMA CancelTyped ==
  ASSUME TypeOK, NEW P, CancelSome(P) PROVE prompts' \in [Prompts -> PromptRecords]
BY DEF TypeOK, CancelSome, PromptRecords

\* A step that neither touches the request nor enters its last stretch keeps MailOK.
LEMMA MailKept ==
  ASSUME MailOK, UNCHANGED <<request, mails>>, w'.pc \notin MailSteps
  PROVE  MailOK'
BY DEF MailOK, MailSteps

-----------------------------------------------------------------------------
\* One lemma for each group of actions

\* The ticks that enter a finalization keep the invariant.
LEMMA TickInv == ASSUME IInv, Tick PROVE IInv'
<1>0. TypeOK /\ WorkerOK /\ SceneOK /\ MailOK BY DEF IInv
<1>1. CASE ProcessJob
  <2>1. WorkerOK' /\ w'.pc \notin MailSteps
    BY <1>0, <1>1 DEF ProcessJob, At, WorkerOK, MailSteps
  <2>2. TypeOK'
    BY <1>0, <1>1 DEF ProcessJob, files, world, history, TypeOK, ActiveStates
  <2>3. SceneOK'
    BY <1>0, <1>1 DEF ProcessJob, SceneOK
  <2>4. UNCHANGED <<request, mails>>
    BY <1>1 DEF ProcessJob, world, history
  <2> QED BY <1>0, <2>1, <2>2, <2>3, <2>4, MailKept DEF IInv
<1>2. CASE RunEpoch
  <2>1. WorkerOK' /\ w'.pc \notin MailSteps
    <3>1. PICK m \in Modes : Enter(m) BY <1>2 DEF RunEpoch, Modes
    <3> QED BY <1>0, <3>1, Entered
  <2>2. TypeOK'
    BY <1>0, <1>2 DEF RunEpoch, Enter, rows, files, world, history, TypeOK
  <2>3. SceneOK'
    <3>1. PICK m \in Modes : Enter(m) BY <1>2 DEF RunEpoch, Modes
    <3> QED BY <1>0, <3>1, Entered
  <2>4. UNCHANGED <<request, mails>>
    BY <1>2 DEF RunEpoch, rows, world, history
  <2> QED BY <1>0, <2>1, <2>2, <2>3, <2>4, MailKept DEF IInv
<1>3. CASE ResumePlan
  <2>1. WorkerOK' /\ w'.pc \notin MailSteps
    <3>1. CASE GoTo("block")
      BY <1>0, <3>1, Moves DEF WorkerSteps, MailSteps
    <3>2. CASE \E m \in Modes : Enter(m)
      BY <1>0, <3>2, Entered
    <3> QED BY <1>3, <3>1, <3>2 DEF ResumePlan, Modes
  <2>2. TypeOK'
    BY <1>0, <1>3 DEF ResumePlan, Enter, rows, files, world, history, TypeOK
  <2>3. SceneOK'
    <3>1. CASE GoTo("block")
      <4>1. w'.pc = "block" BY <1>0, <3>1, Moves DEF WorkerSteps
      <4> QED BY <4>1 DEF SceneOK, SceneSteps
    <3>2. CASE \E m \in Modes : Enter(m)
      BY <1>0, <3>2, Entered
    <3> QED BY <1>3, <3>1, <3>2 DEF ResumePlan, Modes
  <2>4. UNCHANGED <<request, mails>>
    BY <1>3 DEF ResumePlan, rows, world, history
  <2> QED BY <1>0, <2>1, <2>2, <2>3, <2>4, MailKept DEF IInv
<1>4. CASE LateWorkRejected
  <2>1. WorkerOK' /\ w'.pc \notin MailSteps
    BY <1>0, <1>4, Moves DEF LateWorkRejected, MailSteps
  <2>2. TypeOK'
    BY <1>0, <1>4 DEF LateWorkRejected, rows, files, world, history, TypeOK
  <2>3. SceneOK'
    BY <1>0, <1>4 DEF LateWorkRejected, Leave, Idle, SceneOK, SceneSteps
  <2>4. UNCHANGED <<request, mails>>
    BY <1>4 DEF LateWorkRejected, rows, world, history
  <2> QED BY <1>0, <2>1, <2>2, <2>3, <2>4, MailKept DEF IInv
<1>5. CASE ProcessJobLegacy
  <2>1. WorkerOK' /\ w'.pc = "scene"
    BY <1>5 DEF ProcessJobLegacy, Idle, WorkerOK, WorkerStates, WorkerSteps, Routes, Errors
  <2>2. TypeOK'
    BY <1>0, <1>5 DEF ProcessJobLegacy, files, world, TypeOK, ActiveStates
  <2>3. SceneOK'
    BY <2>1 DEF SceneOK, SceneSteps
  <2>4. UNCHANGED <<request, mails>>
    BY <1>5 DEF ProcessJobLegacy, world
  <2> QED BY <1>0, <2>1, <2>2, <2>3, <2>4, MailKept DEF IInv, MailSteps
<1> QED BY <1>1, <1>2, <1>3, <1>4, <1>5 DEF Tick

\* The writes of the plan, the pipeline row and the job row keep the invariant.
LEMMA PlanWorkInv == ASSUME IInv, PlanWork PROVE IInv'
<1>0. TypeOK /\ WorkerOK /\ SceneOK /\ MailOK BY DEF IInv
<1>1. CASE Discard
  <2>1. WorkerOK' /\ w'.pc \notin MailSteps
    BY <1>0, <1>1, Moves DEF Discard, NoPlan, WorkerSteps, MailSteps
  <2>2. TypeOK'
    BY <1>0, <1>1 DEF Discard, NoPlan, files, world, history, TypeOK, PlanStates
  <2>3. SceneOK'
    BY <1>0, <1>1 DEF Discard, At, NoPlan, GoTo, Leave, Idle, SceneOK, SceneSteps, WorkerOK,
       WorkerStates
  <2>4. UNCHANGED <<request, mails>>
    BY <1>1 DEF Discard, world, history
  <2> QED BY <1>0, <2>1, <2>2, <2>3, <2>4, MailKept DEF IInv
<1>2. CASE EnsurePlan
  <2>1. WorkerOK' /\ w'.pc \notin MailSteps
    BY <1>0, <1>2, Moves DEF EnsurePlan, NoPlan, WorkerSteps, MailSteps
  <2>2. TypeOK'
    <3>1. w.mode \in Modes BY <1>0, <1>2 DEF EnsurePlan, At, SceneOK
    <3>2. plan' \in [mode : Modes \cup {"none"}, state : PlanStates]
      BY <1>0, <1>2, <3>1 DEF EnsurePlan, NoPlan, TypeOK, PlanStates
    <3> QED BY <1>0, <1>2, <3>2 DEF EnsurePlan, files, world, history, TypeOK
  <2>3. SceneOK'
    BY <1>0, <1>2 DEF EnsurePlan, NoPlan, GoTo, Leave, Idle, SceneOK, SceneSteps, WorkerOK,
       WorkerStates
  <2>4. UNCHANGED <<request, mails>>
    BY <1>2 DEF EnsurePlan, world, history
  <2> QED BY <1>0, <2>1, <2>2, <2>3, <2>4, MailKept DEF IInv
<1>3. CASE Transition
  <2>1. WorkerOK' /\ w'.pc \notin MailSteps
    <3>1. CASE Leave
      BY <1>0, <3>1, Moves DEF MailSteps
    <3>2. CASE \E pc \in {"encode", "delivering", "jobfailed"} : GoTo(pc)
      BY <1>0, <3>2, Moves DEF WorkerSteps, PlanSteps, MailSteps
    <3> QED BY <1>3, <3>1, <3>2 DEF Transition, Leave, GoTo
  <2>2. TypeOK'
    BY <1>0, <1>3 DEF Transition, files, world, history, TypeOK, ActiveStates
  <2>3. SceneOK'
    BY <1>0, <1>3 DEF Transition, Idle, SceneOK, SceneSteps
  <2>4. UNCHANGED <<request, mails>>
    BY <1>3 DEF Transition, world, history
  <2> QED BY <1>0, <2>1, <2>2, <2>3, <2>4, MailKept DEF IInv
<1>4. CASE AdvancePlan
  <2>1. WorkerOK'
    <3>1. CASE \E pc \in WorkerSteps : GoTo(pc)
      BY <1>0, <3>1, Moves
    <3>2. CASE w' = [w EXCEPT !.pc = "scene", !.todo = Scenes]
      <4>1. "scene" \in WorkerSteps BY DEF WorkerSteps
      <4> QED BY <1>0, <3>2, <4>1 DEF WorkerOK, WorkerStates
    <3>3. ASSUME w.pc /= "delivering" PROVE \E pc \in WorkerSteps : GoTo(pc)
      <4>1. \E pc \in {"assemble", "stitched", "encode", "assemblyfailed", "jobsucceeded",
                        "request", "completed", "block", "lookup", "release"} : GoTo(pc)
        BY <1>4, <3>3 DEF AdvancePlan, GoTo, PlanSteps
      <4> QED BY <4>1 DEF WorkerSteps, PlanSteps
    <3> QED BY <1>4, <3>1, <3>2, <3>3 DEF AdvancePlan
  <2>2. TypeOK'
    BY <1>0, <1>4 DEF AdvancePlan, Advanced, files, world, history, WorkerOK, WorkerStates, TypeOK,
       Modes, PlanStates
  <2>3. SceneOK'
    BY <1>0, <1>4 DEF AdvancePlan, Advanced, SceneOK, SceneSteps
  <2>4. MailOK'
    BY <1>0, <1>4 DEF AdvancePlan, Advanced, world, history, MailOK, TypeOK, StepStates
  <2> QED BY <2>1, <2>2, <2>3, <2>4 DEF IInv
<1>5. CASE JobStatus
  <2>1. WorkerOK' /\ w'.pc \notin MailSteps
    BY <1>0, <1>5, Moves DEF JobStatus, WorkerSteps, PlanSteps, MailSteps
  <2>2. TypeOK'
    BY <1>0, <1>5 DEF JobStatus, files, world, history, TypeOK
  <2>3. SceneOK'
    BY <1>0, <1>5 DEF JobStatus, GoTo, Leave, Idle, SceneOK, SceneSteps, WorkerOK, WorkerStates
  <2>4. UNCHANGED <<request, mails>>
    BY <1>5 DEF JobStatus, world, history
  <2> QED BY <1>0, <2>1, <2>2, <2>3, <2>4, MailKept DEF IInv
<1> QED BY <1>1, <1>2, <1>3, <1>4, <1>5 DEF PlanWork

\* The delivery of a scene keeps the invariant.
LEMMA DeliveryInv == ASSUME IInv, Delivery PROVE IInv'
<1>0. TypeOK /\ WorkerOK /\ SceneOK /\ MailOK BY DEF IInv
<1>1. ASSUME NEW s \in Scenes, BeginDelivery(s) PROVE IInv'
  <2>1. WorkerOK' /\ w'.pc \notin MailSteps
    <3>1. CASE w' = [w EXCEPT !.todo = @ \ {s}] /\ w.pc = "scene"
      BY <1>0, <3>1 DEF WorkerOK, WorkerStates, MailSteps
    <3>2. CASE GoTo("block")
      BY <1>0, <3>2, Moves DEF WorkerSteps, MailSteps
    <3>3. CASE \E pc \in {"dispatch", "confirm"} : w' = [w EXCEPT !.scene = s, !.pc = pc]
      <4>1. PICK pc \in {"dispatch", "confirm"} : w' = [w EXCEPT !.scene = s, !.pc = pc] BY <3>3
      <4>2. pc \in WorkerSteps /\ pc \notin MailSteps BY DEF WorkerSteps, MailSteps
      <4> QED BY <1>0, <1>1, <4>1, <4>2 DEF WorkerOK, WorkerStates
    <3> QED BY <1>1, <3>1, <3>2, <3>3 DEF BeginDelivery, At, GoTo
  <2>2. TypeOK'
    BY <1>0, <1>1 DEF BeginDelivery, Begun, IsNext, files, world, history, TypeOK, StepStates
  <2>3. SceneOK'
    BY <1>0, <1>1 DEF BeginDelivery, Begun, IsNext, SceneOK, SceneSteps
  <2>4. UNCHANGED <<request, mails>>
    BY <1>1 DEF BeginDelivery, world, history
  <2> QED BY <1>0, <2>1, <2>2, <2>3, <2>4, MailKept DEF IInv
<1>2. CASE AllDelivered
  <2>1. WorkerOK' /\ w'.pc \notin MailSteps
    BY <1>0, <1>2, Moves DEF AllDelivered, WorkerSteps, PlanSteps, MailSteps
  <2>2. TypeOK'
    BY <1>0, <1>2 DEF AllDelivered, rows, files, world, history, TypeOK
  <2>3. SceneOK'
    BY <1>0, <1>2 DEF AllDelivered, GoTo, SceneOK, SceneSteps
  <2>4. UNCHANGED <<request, mails>>
    BY <1>2 DEF AllDelivered, rows, world, history
  <2> QED BY <1>0, <2>1, <2>2, <2>3, <2>4, MailKept DEF IInv
<1>3. CASE MarkDispatching
  <2>1. WorkerOK' /\ w'.pc \notin MailSteps
    <3>1. CASE Leave
      BY <1>0, <3>1, Moves DEF MailSteps
    <3>2. CASE /\ w' = [w EXCEPT !.pc = "deliver", !.existing = bound[w.scene], !.try = 1]
               /\ step[w.scene] \in {"INTENT", "DISPATCHING"}
      <4>1. "deliver" \in WorkerSteps /\ "deliver" \notin MailSteps
        BY DEF WorkerSteps, MailSteps
      <4>2. bound[w.scene] \in Prompts \cup {NoPrompt}
        BY <1>0, <1>3 DEF MarkDispatching, TypeOK, At, SceneOK, SceneSteps
      <4> QED BY <1>0, <3>2, <4>1, <4>2 DEF WorkerOK, WorkerStates
    <3> QED BY <1>3, <3>1, <3>2 DEF MarkDispatching
  <2>2. TypeOK'
    BY <1>0, <1>3 DEF MarkDispatching, files, world, history, TypeOK, StepStates
  <2>3. SceneOK'
    <3>1. CASE Leave
      BY <3>1 DEF Leave, Idle, SceneOK, SceneSteps
    <3>2. CASE w' = [w EXCEPT !.pc = "deliver", !.existing = bound[w.scene], !.try = 1]
      <4>1. w.scene \in Scenes BY <1>0, <1>3 DEF MarkDispatching, At, SceneOK, SceneSteps
      <4> QED BY <1>0, <3>2, <4>1 DEF SceneOK, WorkerOK, WorkerStates
    <3> QED BY <1>3, <3>1, <3>2 DEF MarkDispatching
  <2>4. UNCHANGED <<request, mails>>
    BY <1>3 DEF MarkDispatching, world, history
  <2> QED BY <1>0, <2>1, <2>2, <2>3, <2>4, MailKept DEF IInv
<1>4. CASE ReuseMarker
  <2>1. WorkerOK' /\ w'.pc \notin MailSteps
    <3>1. CASE GoTo("confirm")
      BY <1>0, <3>1, Moves DEF WorkerSteps, MailSteps
    <3>2. CASE Fails("AMBIGUOUS")
      BY <1>0, <3>2, Moves DEF Errors, MailSteps
    <3>3. CASE \E p \in Prompts \cup {NoPrompt} : Reclaims(p)
      BY <1>0, <3>3, Reclaimed
    <3>4. marker[File].prompt \in Prompts \cup {NoPrompt} /\ w.existing \in Prompts \cup {NoPrompt}
      BY <1>0, <1>4, FileTyped DEF ReuseMarker, At, SceneSteps, WorkerOK, WorkerStates
    <3> QED BY <1>4, <3>1, <3>2, <3>3, <3>4 DEF ReuseMarker
  <2>2. TypeOK'
    <3>1. marker' \in [Scenes \X {1, 2} -> Markers] /\ UNCHANGED prompts
      <4>1. CASE UNCHANGED <<marker, prompts>>
        BY <1>0, <4>1 DEF TypeOK
      <4>2. CASE \E p \in Prompts \cup {NoPrompt} : Reclaims(p)
        BY <1>0, <4>2, MarkedTyped, Reclaimed
      <4>3. CASE marker' = Marked("ambiguous", NoPrompt) /\ UNCHANGED prompts
        BY <1>0, <4>3, MarkedTyped
      <4>4. marker[File].prompt \in Prompts \cup {NoPrompt} /\ w.existing \in Prompts \cup {NoPrompt}
        BY <1>0, <1>4, FileTyped DEF ReuseMarker, At, SceneSteps, WorkerOK, WorkerStates
      <4> QED BY <1>4, <4>1, <4>2, <4>3, <4>4 DEF ReuseMarker
    <3> QED BY <1>0, <1>4, <3>1 DEF ReuseMarker, rows, files, history, TypeOK
  <2>3. SceneOK'
    BY <1>0, <1>4 DEF ReuseMarker, Reclaims, At, GoTo, Fails, SceneOK, SceneSteps, WorkerOK,
       WorkerStates
  <2>4. UNCHANGED <<request, mails>>
    BY <1>4 DEF ReuseMarker, rows, history
  <2> QED BY <1>0, <2>1, <2>2, <2>3, <2>4, MailKept DEF IInv
<1>5. CASE StartDelivery
  <2>1. WorkerOK' /\ w'.pc \notin MailSteps
    <3>1. CASE GoTo("start")
      BY <1>0, <3>1, Moves DEF WorkerSteps, MailSteps
    <3>2. CASE Reclaims(w.existing)
      BY <1>0, <3>2, Reclaimed DEF WorkerOK, WorkerStates
    <3> QED BY <1>5, <3>1, <3>2 DEF StartDelivery
  <2>2. TypeOK'
    <3>1. marker' \in [Scenes \X {1, 2} -> Markers]
      <4>1. CASE Reclaims(w.existing)
        <5>1. w.existing \in Prompts \cup {NoPrompt} BY <1>0 DEF WorkerOK, WorkerStates
        <5>2. marker' = Marked("queued", w.existing) BY <1>0, <4>1, <5>1, Reclaimed
        <5> QED BY <1>0, <5>1, <5>2, MarkedTyped
      <4>2. CASE UNCHANGED marker
        BY <1>0, <4>2 DEF TypeOK
      <4> QED BY <1>5, <4>1, <4>2 DEF StartDelivery
    <3>2. prompts' \in [Prompts -> PromptRecords]
      <4>1. CASE UNCHANGED prompts
        BY <1>0, <4>1 DEF TypeOK
      <4>2. CASE CancelSome({marker[File].prompt})
        BY <1>0, <4>2, CancelTyped
      <4> QED BY <1>5, <4>1, <4>2 DEF StartDelivery, Reclaims
    <3> QED BY <1>0, <1>5, <3>1, <3>2 DEF StartDelivery, rows, files, history, TypeOK
  <2>3. SceneOK'
    BY <1>0, <1>5 DEF StartDelivery, Reclaims, At, GoTo, SceneOK, SceneSteps, WorkerOK,
       WorkerStates
  <2>4. UNCHANGED <<request, mails>>
    BY <1>5 DEF StartDelivery, rows
  <2> QED BY <1>0, <2>1, <2>2, <2>3, <2>4, MailKept DEF IInv
<1>6. ASSUME NEW p \in Prompts, QueuePrompt(p) PROVE IInv'
  <2>1. WorkerOK' /\ w'.pc \notin MailSteps
    BY <1>0, <1>6 DEF QueuePrompt, WorkerOK, WorkerStates, WorkerSteps, MailSteps
  <2>2. TypeOK'
    <3>1. [st |-> "live", scene |-> w.scene, mode |-> w.mode] \in PromptRecords
      BY <1>0 DEF WorkerOK, WorkerStates, PromptRecords
    <3>2. prompts' \in [Prompts -> PromptRecords]
      BY <1>0, <1>6, <3>1 DEF QueuePrompt, TypeOK
    <3> QED BY <1>0, <1>6, <3>2 DEF QueuePrompt, rows, files, history, TypeOK
  <2>3. SceneOK'
    BY <1>0, <1>6 DEF QueuePrompt, At, SceneOK, SceneSteps
  <2>4. UNCHANGED <<request, mails>>
    BY <1>6 DEF QueuePrompt, rows, history
  <2> QED BY <1>0, <2>1, <2>2, <2>3, <2>4, MailKept DEF IInv
<1>7. CASE QueueRejected
  <2>1. WorkerOK' /\ w'.pc \notin MailSteps
    BY <1>0, <1>7, Moves DEF QueueRejected, MailSteps, Errors
  <2>2. TypeOK'
    BY <1>0, <1>7, MarkedTyped DEF QueueRejected, rows, world, history, TypeOK
  <2>3. SceneOK'
    BY <1>0, <1>7 DEF QueueRejected, At, Fails, SceneOK, SceneSteps
  <2>4. UNCHANGED <<request, mails>>
    BY <1>7 DEF QueueRejected, rows, world, history
  <2> QED BY <1>0, <2>1, <2>2, <2>3, <2>4, MailKept DEF IInv
<1>8. CASE QueueAmbiguous
  <2>1. WorkerOK' /\ w'.pc \notin MailSteps
    BY <1>0, <1>8, Moves DEF QueueAmbiguous, MailSteps, Errors
  <2>2. TypeOK'
    <3>1. [st |-> "live", scene |-> w.scene, mode |-> w.mode] \in PromptRecords
      BY <1>0 DEF WorkerOK, WorkerStates, PromptRecords
    <3>2. prompts' \in [Prompts -> PromptRecords]
      BY <1>0, <1>8, <3>1 DEF QueueAmbiguous, TypeOK
    <3>3. marker' \in [Scenes \X {1, 2} -> Markers]
      BY <1>0, <1>8, MarkedTyped DEF QueueAmbiguous
    <3> QED BY <1>0, <1>8, <3>2, <3>3 DEF QueueAmbiguous, rows, history, TypeOK
  <2>3. SceneOK'
    BY <1>0, <1>8 DEF QueueAmbiguous, At, Fails, SceneOK, SceneSteps
  <2>4. UNCHANGED <<request, mails>>
    BY <1>8 DEF QueueAmbiguous, rows, history
  <2> QED BY <1>0, <2>1, <2>2, <2>3, <2>4, MailKept DEF IInv
<1>9. CASE BindPrompt
  <2>1. WorkerOK' /\ w'.pc \notin MailSteps
    BY <1>0, <1>9, Moves DEF BindPrompt, WorkerSteps, MailSteps, Errors
  <2>2. TypeOK'
    <3>1. bound' \in [Scenes -> Prompts \cup {NoPrompt}]
      <4>1. w.prompt \in Prompts \cup {NoPrompt} BY <1>0 DEF WorkerOK, WorkerStates
      <4> QED BY <1>0, <1>9, <4>1 DEF BindPrompt, Recorded, TypeOK
    <3>2. marker' \in [Scenes \X {1, 2} -> Markers]
      BY <1>0, <1>9, MarkedTyped DEF BindPrompt, WorkerOK, WorkerStates, TypeOK
    <3> QED BY <1>0, <1>9, <3>1, <3>2 DEF BindPrompt, world, history, TypeOK
  <2>3. SceneOK'
    BY <1>0, <1>9 DEF BindPrompt, At, GoTo, Fails, SceneOK, SceneSteps, WorkerOK, WorkerStates
  <2>4. UNCHANGED <<request, mails>>
    BY <1>9 DEF BindPrompt, world, history
  <2> QED BY <1>0, <2>1, <2>2, <2>3, <2>4, MailKept DEF IInv
<1>10. CASE MarkQueued
  <2>1. WorkerOK' /\ w'.pc \notin MailSteps
    BY <1>0, <1>10, Moves DEF MarkQueued, WorkerSteps, MailSteps, Errors
  <2>2. TypeOK'
    BY <1>0, <1>10, MarkedTyped DEF MarkQueued, rows, world, history, WorkerOK, WorkerStates, TypeOK
  <2>3. SceneOK'
    BY <1>0, <1>10 DEF MarkQueued, At, GoTo, Fails, SceneOK, SceneSteps, WorkerOK, WorkerStates
  <2>4. UNCHANGED <<request, mails>>
    BY <1>10 DEF MarkQueued, rows, world, history
  <2> QED BY <1>0, <2>1, <2>2, <2>3, <2>4, MailKept DEF IInv
<1>11. CASE SeeDone
  <2>1. WorkerOK' /\ w'.pc \notin MailSteps
    BY <1>0, <1>11, Moves DEF SeeDone, WorkerSteps, MailSteps
  <2>2. TypeOK'
    BY <1>0, <1>11 DEF SeeDone, rows, files, world, history, TypeOK
  <2>3. SceneOK'
    BY <1>0, <1>11 DEF SeeDone, GoTo, SceneOK, SceneSteps
  <2>4. UNCHANGED <<request, mails>>
    BY <1>11 DEF SeeDone, rows, world, history
  <2> QED BY <1>0, <2>1, <2>2, <2>3, <2>4, MailKept DEF IInv
<1>12. CASE SeeFailed
  <2>1. WorkerOK' /\ w'.pc \notin MailSteps
    BY <1>0, <1>12, Moves DEF SeeFailed, WorkerSteps, MailSteps
  <2>2. TypeOK'
    BY <1>0, <1>12 DEF SeeFailed, rows, files, world, history, TypeOK
  <2>3. SceneOK'
    BY <1>0, <1>12 DEF SeeFailed, GoTo, SceneOK, SceneSteps
  <2>4. UNCHANGED <<request, mails>>
    BY <1>12 DEF SeeFailed, rows, world, history
  <2> QED BY <1>0, <2>1, <2>2, <2>3, <2>4, MailKept DEF IInv
<1>13. CASE PollFails
  <2>1. WorkerOK' /\ w'.pc \notin MailSteps
    BY <1>0, <1>13, Moves DEF PollFails, WorkerSteps, MailSteps, Errors
  <2>2. TypeOK'
    BY <1>0, <1>13, FaultAssumption DEF PollFails, rows, files, world, history, Fault, TypeOK
  <2>3. SceneOK'
    BY <1>0, <1>13 DEF PollFails, GoTo, Fails, SceneOK, SceneSteps, WorkerOK, WorkerStates
  <2>4. UNCHANGED <<request, mails>>
    BY <1>13 DEF PollFails, rows, world, history
  <2> QED BY <1>0, <2>1, <2>2, <2>3, <2>4, MailKept DEF IInv
<1>14. CASE PromptTimeout
  <2>1. WorkerOK' /\ w'.pc \notin MailSteps
    BY <1>0, <1>14, Moves DEF PromptTimeout, WorkerSteps, MailSteps
  <2>2. TypeOK'
    BY <1>0, <1>14, CancelTyped, FaultAssumption DEF PromptTimeout, rows, files, history, Fault, TypeOK
  <2>3. SceneOK'
    BY <1>0, <1>14 DEF PromptTimeout, At, GoTo, SceneOK, SceneSteps
  <2>4. UNCHANGED <<request, mails>>
    BY <1>14 DEF PromptTimeout, rows, history
  <2> QED BY <1>0, <2>1, <2>2, <2>3, <2>4, MailKept DEF IInv
<1>15. CASE NotInHistory
  <2>1. WorkerOK' /\ w'.pc \notin MailSteps
    BY <1>0, <1>15, Moves DEF NotInHistory, WorkerSteps, MailSteps
  <2>2. TypeOK'
    BY <1>0, <1>15 DEF NotInHistory, rows, files, world, history, TypeOK
  <2>3. SceneOK'
    BY <1>0, <1>15 DEF NotInHistory, At, GoTo, SceneOK, SceneSteps, WorkerOK, WorkerStates
  <2>4. UNCHANGED <<request, mails>>
    BY <1>15 DEF NotInHistory, rows, world, history
  <2> QED BY <1>0, <2>1, <2>2, <2>3, <2>4, MailKept DEF IInv
<1>16. CASE ReclaimQueued
  <2>1. WorkerOK' /\ w'.pc \notin MailSteps
    BY <1>0, <1>16, Moves DEF ReclaimQueued, WorkerSteps, MailSteps
  <2>2. TypeOK'
    <3>1. bound' \in [Scenes -> Prompts \cup {NoPrompt}]
      <4>1. w.prompt \in Prompts \cup {NoPrompt} BY <1>0 DEF WorkerOK, WorkerStates
      <4> QED BY <1>0, <1>16, <4>1 DEF ReclaimQueued, Recorded, TypeOK
    <3> QED BY <1>0, <1>16, <3>1 DEF ReclaimQueued, files, world, history, TypeOK
  <2>3. SceneOK'
    BY <1>0, <1>16 DEF ReclaimQueued, At, GoTo, SceneOK, SceneSteps
  <2>4. UNCHANGED <<request, mails>>
    BY <1>16 DEF ReclaimQueued, world, history
  <2> QED BY <1>0, <2>1, <2>2, <2>3, <2>4, MailKept DEF IInv
<1>17. CASE ReclaimLost
  <2>1. WorkerOK' /\ w'.pc \notin MailSteps
    BY <1>0, <1>17, Moves DEF ReclaimLost, MailSteps, Errors
  <2>2. TypeOK'
    BY <1>0, <1>17, MarkedTyped DEF ReclaimLost, rows, world, history, WorkerOK, WorkerStates, TypeOK
  <2>3. SceneOK'
    BY <1>0, <1>17 DEF ReclaimLost, At, Fails, SceneOK, SceneSteps
  <2>4. UNCHANGED <<request, mails>>
    BY <1>17 DEF ReclaimLost, rows, world, history
  <2> QED BY <1>0, <2>1, <2>2, <2>3, <2>4, MailKept DEF IInv
<1>18. CASE ResolveError
  <2>1. WorkerOK' /\ w'.pc \notin MailSteps
    BY <1>0, <1>18, Moves DEF ResolveError, MailSteps, Errors
  <2>2. TypeOK'
    BY <1>0, <1>18, MarkedTyped DEF ResolveError, rows, world, history, WorkerOK, WorkerStates, TypeOK
  <2>3. SceneOK'
    BY <1>0, <1>18 DEF ResolveError, At, Fails, SceneOK, SceneSteps, WorkerOK, WorkerStates
  <2>4. UNCHANGED <<request, mails>>
    BY <1>18 DEF ResolveError, rows, world, history
  <2> QED BY <1>0, <2>1, <2>2, <2>3, <2>4, MailKept DEF IInv
<1>19. CASE CommitSent
  <2>1. WorkerOK' /\ w'.pc \notin MailSteps
    BY <1>0, <1>19, Moves DEF CommitSent, WorkerSteps, MailSteps
  <2>2. TypeOK'
    BY <1>0, <1>19, MarkedTyped DEF CommitSent, rows, world, history, WorkerOK, WorkerStates, TypeOK
  <2>3. SceneOK'
    BY <1>0, <1>19 DEF CommitSent, At, GoTo, SceneOK, SceneSteps
  <2>4. UNCHANGED <<request, mails>>
    BY <1>19 DEF CommitSent, rows, world, history
  <2> QED BY <1>0, <2>1, <2>2, <2>3, <2>4, MailKept DEF IInv
<1>20. CASE RetryDelivery
  <2>1. WorkerOK' /\ w'.pc \notin MailSteps
    BY <1>0, <1>20 DEF RetryDelivery, WorkerOK, WorkerStates, WorkerSteps, MailSteps
  <2>2. TypeOK'
    BY <1>0, <1>20 DEF RetryDelivery, rows, files, world, history, TypeOK
  <2>3. SceneOK'
    BY <1>0, <1>20 DEF RetryDelivery, At, SceneOK, SceneSteps
  <2>4. UNCHANGED <<request, mails>>
    BY <1>20 DEF RetryDelivery, rows, world, history
  <2> QED BY <1>0, <2>1, <2>2, <2>3, <2>4, MailKept DEF IInv
<1>21. CASE HoldDelivery
  <2>1. WorkerOK' /\ w'.pc \notin MailSteps
    BY <1>0, <1>21, Moves DEF HoldDelivery, WorkerSteps, MailSteps
  <2>2. TypeOK'
    <3>1. step' \in [Scenes -> StepStates]
      <4>1. w.err \in StepStates /\ "COMPLETED" \in StepStates
        BY <1>0 DEF WorkerOK, WorkerStates, Errors, StepStates
      <4> QED BY <1>0, <1>21, <4>1 DEF HoldDelivery, TypeOK
    <3> QED BY <1>0, <1>21, <3>1 DEF HoldDelivery, files, world, history, TypeOK
  <2>3. SceneOK'
    BY <1>0, <1>21 DEF HoldDelivery, GoTo, SceneOK, SceneSteps
  <2>4. UNCHANGED <<request, mails>>
    BY <1>21 DEF HoldDelivery, world, history
  <2> QED BY <1>0, <2>1, <2>2, <2>3, <2>4, MailKept DEF IInv
<1>22. CASE ConfirmDelivery
  <2>1. WorkerOK' /\ w'.pc \notin MailSteps
    BY <1>0, <1>22 DEF ConfirmDelivery, WorkerOK, WorkerStates, WorkerSteps, MailSteps
  <2>2. TypeOK'
    <3>1. step' \in [Scenes -> StepStates]
      <4>1. w.err \in StepStates /\ "COMPLETED" \in StepStates
        BY <1>0 DEF WorkerOK, WorkerStates, Errors, StepStates
      <4> QED BY <1>0, <1>22, <4>1 DEF ConfirmDelivery, TypeOK
    <3> QED BY <1>0, <1>22, <3>1 DEF ConfirmDelivery, files, world, history, TypeOK
  <2>3. SceneOK'
    BY <1>0, <1>22 DEF ConfirmDelivery, SceneOK, SceneSteps
  <2>4. UNCHANGED <<request, mails>>
    BY <1>22 DEF ConfirmDelivery, world, history
  <2> QED BY <1>0, <2>1, <2>2, <2>3, <2>4, MailKept DEF IInv
<1>23. ASSUME NEW s \in Scenes, LegacyScene(s) PROVE IInv'
  <2>1. WorkerOK' /\ w'.pc \notin MailSteps
    BY <1>0, <1>23 DEF LegacyScene, WorkerOK, WorkerStates, WorkerSteps, MailSteps
  <2>2. TypeOK'
    BY <1>0, <1>23 DEF LegacyScene, rows, files, world, history, TypeOK
  <2>3. SceneOK'
    BY <1>0, <1>23 DEF LegacyScene, SceneOK, WorkerOK, WorkerStates
  <2>4. UNCHANGED <<request, mails>>
    BY <1>23 DEF LegacyScene, rows, world
  <2> QED BY <1>0, <2>1, <2>2, <2>3, <2>4, MailKept DEF IInv
<1>24. CASE CheckDelivery
  <2>1. WorkerOK' /\ w'.pc \notin MailSteps
    BY <1>0, <1>24, Moves DEF CheckDelivery, WorkerSteps, MailSteps
  <2>2. TypeOK'
    BY <1>0, <1>24 DEF CheckDelivery, rows, files, world, history, TypeOK
  <2>3. SceneOK'
    BY <1>0, <1>24 DEF CheckDelivery, At, GoTo, SceneOK, SceneSteps, WorkerOK, WorkerStates
  <2>4. UNCHANGED <<request, mails>>
    BY <1>24 DEF CheckDelivery, rows, world
  <2> QED BY <1>0, <2>1, <2>2, <2>3, <2>4, MailKept DEF IInv
<1>25. CASE CheckDispatch
  <2>1. WorkerOK' /\ w'.pc \notin MailSteps
    BY <1>0, <1>25, Moves DEF CheckDispatch, WorkerSteps, MailSteps
  <2>2. TypeOK'
    BY <1>0, <1>25 DEF CheckDispatch, rows, files, world, history, TypeOK
  <2>3. SceneOK'
    BY <1>0, <1>25 DEF CheckDispatch, At, GoTo, SceneOK, SceneSteps, WorkerOK, WorkerStates
  <2>4. UNCHANGED <<request, mails>>
    BY <1>25 DEF CheckDispatch, rows, world
  <2> QED BY <1>0, <2>1, <2>2, <2>3, <2>4, MailKept DEF IInv
<1>26. CASE WriteIntent
  <2>1. WorkerOK' /\ w'.pc \notin MailSteps
    BY <1>0, <1>26, Moves DEF WriteIntent, WorkerSteps, MailSteps
  <2>2. TypeOK'
    <3>1. marker' \in [Scenes \X {1, 2} -> Markers] /\ late' \in Nat
      BY <1>0, <1>26, MarkedTyped DEF WriteIntent, TypeOK
    <3> QED BY <1>0, <1>26, <3>1 DEF WriteIntent, rows, world, TypeOK
  <2>3. SceneOK'
    BY <1>0, <1>26 DEF WriteIntent, At, GoTo, SceneOK, SceneSteps, WorkerOK, WorkerStates
  <2>4. UNCHANGED <<request, mails>>
    BY <1>26 DEF WriteIntent, rows, world
  <2> QED BY <1>0, <2>1, <2>2, <2>3, <2>4, MailKept DEF IInv
<1>27. CASE CheckCommit
  <2>1. WorkerOK' /\ w'.pc \notin MailSteps
    BY <1>0, <1>27, Moves DEF CheckCommit, WorkerSteps, MailSteps
  <2>2. TypeOK'
    BY <1>0, <1>27 DEF CheckCommit, rows, files, world, history, TypeOK
  <2>3. SceneOK'
    BY <1>0, <1>27 DEF CheckCommit, At, GoTo, SceneOK, SceneSteps, WorkerOK, WorkerStates
  <2>4. UNCHANGED <<request, mails>>
    BY <1>27 DEF CheckCommit, rows, world
  <2> QED BY <1>0, <2>1, <2>2, <2>3, <2>4, MailKept DEF IInv
<1>28. CASE LegacyNext
  <2>1. WorkerOK' /\ w'.pc \in {"idle", "scene"}
    <3>1. CASE Leave
      BY <1>0, <3>1, Moves
    <3>2. CASE w' = [w EXCEPT !.pc = "scene", !.todo = @ \ {w.scene}]
      BY <1>0, <3>2 DEF WorkerOK, WorkerStates, WorkerSteps
    <3> QED BY <1>28, <3>1, <3>2 DEF LegacyNext
  <2>2. TypeOK'
    BY <1>0, <1>28 DEF LegacyNext, rows, files, world, history, TypeOK
  <2>3. SceneOK'
    BY <2>1 DEF SceneOK, SceneSteps
  <2>4. UNCHANGED <<request, mails>>
    BY <1>28 DEF LegacyNext, rows, world
  <2> QED BY <1>0, <2>1, <2>2, <2>3, <2>4, MailKept DEF IInv, MailSteps
<1> QED
  BY <1>1, <1>2, <1>3, <1>4, <1>5, <1>6, <1>7, <1>8, <1>9, <1>10, <1>11, <1>12, <1>13, <1>14,
     <1>15, <1>16, <1>17, <1>18, <1>19, <1>20, <1>21, <1>22, <1>23, <1>24, <1>25, <1>26, <1>27,
     <1>28 DEF Delivery

\* The film and the request keep the invariant: a mail leaves only across the
\* dispatch boundary of its step.
LEMMA FilmAndMailInv == ASSUME IInv, FilmAndMail PROVE IInv'
<1>0. TypeOK /\ WorkerOK /\ SceneOK /\ MailOK BY DEF IInv
<1>1. CASE BeginAssembly
  <2>1. WorkerOK' /\ w'.pc \notin MailSteps
    BY <1>0, <1>1, Moves DEF BeginAssembly, Begun, WorkerSteps, PlanSteps, MailSteps
  <2>2. TypeOK'
    BY <1>0, <1>1 DEF BeginAssembly, Begun, files, world, history, TypeOK
  <2>3. SceneOK'
    BY <1>0, <1>1 DEF BeginAssembly, Begun, GoTo, SceneOK, SceneSteps
  <2>4. UNCHANGED <<request, mails>>
    BY <1>1 DEF BeginAssembly, world, history
  <2> QED BY <1>0, <2>1, <2>2, <2>3, <2>4, MailKept DEF IInv
<1>2. CASE Encode
  <2>1. WorkerOK' /\ w'.pc \notin MailSteps
    BY <1>0, <1>2, Moves DEF Encode, WorkerSteps, MailSteps
  <2>2. TypeOK'
    <3>1. film' \in [built : BOOLEAN, published : BOOLEAN, intact : BOOLEAN]
      <4>1. film \in [built : BOOLEAN, published : BOOLEAN, intact : BOOLEAN] BY <1>0 DEF TypeOK
      <4> QED BY <1>2, <4>1 DEF Encode
    <3> QED BY <1>0, <1>2, <3>1 DEF Encode, rows, world, history, TypeOK
  <2>3. SceneOK'
    BY <1>0, <1>2 DEF Encode, GoTo, SceneOK, SceneSteps
  <2>4. UNCHANGED <<request, mails>>
    BY <1>2 DEF Encode, rows, world, history
  <2> QED BY <1>0, <2>1, <2>2, <2>3, <2>4, MailKept DEF IInv
<1>3. CASE AssemblyFails
  <2>1. WorkerOK' /\ w'.pc \notin MailSteps
    BY <1>0, <1>3, Moves DEF AssemblyFails, WorkerSteps, MailSteps
  <2>2. TypeOK'
    BY <1>0, <1>3 DEF AssemblyFails, rows, files, world, history, TypeOK
  <2>3. SceneOK'
    BY <1>0, <1>3 DEF AssemblyFails, GoTo, SceneOK, SceneSteps
  <2>4. UNCHANGED <<request, mails>>
    BY <1>3 DEF AssemblyFails, rows, world, history
  <2> QED BY <1>0, <2>1, <2>2, <2>3, <2>4, MailKept DEF IInv
<1>4. CASE Publish
  <2>1. WorkerOK' /\ w'.pc \notin MailSteps
    BY <1>0, <1>4, Moves DEF Publish, WorkerSteps, MailSteps
  <2>2. TypeOK'
    <3>1. film' \in [built : BOOLEAN, published : BOOLEAN, intact : BOOLEAN]
      <4>1. film \in [built : BOOLEAN, published : BOOLEAN, intact : BOOLEAN] BY <1>0 DEF TypeOK
      <4> QED BY <1>4, <4>1 DEF Publish
    <3> QED BY <1>0, <1>4, <3>1 DEF Publish, rows, world, history, TypeOK
  <2>3. SceneOK'
    BY <1>0, <1>4 DEF Publish, GoTo, SceneOK, SceneSteps
  <2>4. UNCHANGED <<request, mails>>
    BY <1>4 DEF Publish, rows, world, history
  <2> QED BY <1>0, <2>1, <2>2, <2>3, <2>4, MailKept DEF IInv
<1>5. CASE CompleteAssembly
  <2>1. WorkerOK' /\ w'.pc \notin MailSteps
    BY <1>0, <1>5, Moves DEF CompleteAssembly, WorkerSteps, PlanSteps, MailSteps
  <2>2. TypeOK'
    BY <1>0, <1>5 DEF CompleteAssembly, files, world, history, TypeOK
  <2>3. SceneOK'
    BY <1>0, <1>5 DEF CompleteAssembly, GoTo, SceneOK, SceneSteps
  <2>4. UNCHANGED <<request, mails>>
    BY <1>5 DEF CompleteAssembly, world, history
  <2> QED BY <1>0, <2>1, <2>2, <2>3, <2>4, MailKept DEF IInv
<1>6. CASE BeginRequest
  <2>1. WorkerOK'
    BY <1>0, <1>6, Moves DEF BeginRequest, Begun, WorkerSteps, PlanSteps
  <2>2. TypeOK'
    BY <1>0, <1>6 DEF BeginRequest, Begun, files, world, history, TypeOK, StepStates
  <2>3. SceneOK'
    BY <1>0, <1>6 DEF BeginRequest, Begun, GoTo, SceneOK, SceneSteps
  <2>4. MailOK'
    BY <1>0, <1>6, Moves DEF BeginRequest, Begun, world, history, MailOK, WorkerSteps, PlanSteps
  <2> QED BY <2>1, <2>2, <2>3, <2>4 DEF IInv
<1>7. CASE LookupSeen
  <2>1. WorkerOK' /\ w'.pc \notin MailSteps
    BY <1>0, <1>7, Moves DEF LookupSeen, WorkerSteps, MailSteps
  <2>2. TypeOK'
    BY <1>0, <1>7 DEF LookupSeen, rows, files, world, history, TypeOK
  <2>3. SceneOK'
    BY <1>0, <1>7 DEF LookupSeen, GoTo, SceneOK, SceneSteps
  <2>4. UNCHANGED <<request, mails>>
    BY <1>7 DEF LookupSeen, rows, world, history
  <2> QED BY <1>0, <2>1, <2>2, <2>3, <2>4, MailKept DEF IInv
<1>8. CASE LookupUnseen
  <2>1. WorkerOK'
    BY <1>0, <1>8, Moves DEF LookupUnseen, WorkerSteps
  <2>2. TypeOK'
    BY <1>0, <1>8 DEF LookupUnseen, rows, files, world, history, TypeOK
  <2>3. SceneOK'
    BY <1>0, <1>8 DEF LookupUnseen, GoTo, SceneOK, SceneSteps
  <2>4. MailOK'
    BY <1>0, <1>8, Moves DEF LookupUnseen, At, rows, world, history, MailOK, WorkerSteps
  <2> QED BY <2>1, <2>2, <2>3, <2>4 DEF IInv
<1>9. CASE LookupFails
  <2>1. WorkerOK' /\ w'.pc \notin MailSteps
    BY <1>0, <1>9, Moves DEF LookupFails, WorkerSteps, MailSteps
  <2>2. TypeOK'
    BY <1>0, <1>9, FaultAssumption DEF LookupFails, rows, files, world, history, Fault, TypeOK
  <2>3. SceneOK'
    BY <1>0, <1>9 DEF LookupFails, GoTo, Leave, Idle, SceneOK, SceneSteps, WorkerOK,
       WorkerStates
  <2>4. UNCHANGED <<request, mails>>
    BY <1>9 DEF LookupFails, rows, world, history
  <2> QED BY <1>0, <2>1, <2>2, <2>3, <2>4, MailKept DEF IInv
<1>10. CASE ClaimRequest
  <2>1. WorkerOK'
    BY <1>0, <1>10, Moves DEF ClaimRequest, WorkerSteps
  <2>2. TypeOK'
    BY <1>0, <1>10 DEF ClaimRequest, files, world, history, TypeOK, StepStates
  <2>3. SceneOK'
    BY <1>0, <1>10 DEF ClaimRequest, GoTo, SceneOK, SceneSteps
  <2>4. MailOK'
    BY <1>0, <1>10, Moves DEF ClaimRequest, At, world, history, MailOK, WorkerSteps
  <2> QED BY <2>1, <2>2, <2>3, <2>4 DEF IInv
<1>11. CASE SendRequest
  <2>1. WorkerOK'
    BY <1>0, <1>11, Moves DEF SendRequest, WorkerSteps
  <2>2. TypeOK'
    BY <1>0, <1>11 DEF SendRequest, rows, files, history, TypeOK
  <2>3. SceneOK'
    BY <1>0, <1>11 DEF SendRequest, GoTo, SceneOK, SceneSteps
  <2>4. MailOK'
    BY <1>0, <1>11, Moves DEF SendRequest, At, rows, history, MailOK, WorkerSteps
  <2> QED BY <2>1, <2>2, <2>3, <2>4 DEF IInv
<1>12. CASE SendFails
  <2>1. WorkerOK'
    BY <1>0, <1>12, Moves DEF SendFails, WorkerSteps
  <2>2. TypeOK'
    BY <1>0, <1>12 DEF SendFails, rows, files, history, TypeOK
  <2>3. SceneOK'
    BY <1>0, <1>12 DEF SendFails, GoTo, SceneOK, SceneSteps
  <2>4. MailOK'
    BY <1>0, <1>12, Moves DEF SendFails, At, rows, history, MailOK, WorkerSteps
  <2> QED BY <2>1, <2>2, <2>3, <2>4 DEF IInv
<1>13. CASE HoldRequest
  <2>1. WorkerOK'
    BY <1>0, <1>13, Moves DEF HoldRequest, WorkerSteps
  <2>2. TypeOK'
    BY <1>0, <1>13 DEF HoldRequest, files, world, history, TypeOK, StepStates
  <2>3. SceneOK'
    BY <1>0, <1>13 DEF HoldRequest, GoTo, SceneOK, SceneSteps
  <2>4. MailOK'
    BY <1>0, <1>13, Moves DEF HoldRequest, world, history, MailOK, WorkerSteps
  <2> QED BY <2>1, <2>2, <2>3, <2>4 DEF IInv
<1>14. CASE RecordRequest
  <2>1. WorkerOK'
    BY <1>0, <1>14, Moves DEF RecordRequest, WorkerSteps, PlanSteps
  <2>2. TypeOK'
    BY <1>0, <1>14 DEF RecordRequest, files, world, history, TypeOK, StepStates
  <2>3. SceneOK'
    BY <1>0, <1>14 DEF RecordRequest, GoTo, SceneOK, SceneSteps
  <2>4. MailOK'
    BY <1>0, <1>14, Moves DEF RecordRequest, world, history, MailOK, WorkerSteps, PlanSteps
  <2> QED BY <2>1, <2>2, <2>3, <2>4 DEF IInv
<1>15. CASE LegacyStitch
  <2>1. WorkerOK' /\ w'.pc \in {"jobsucceeded", "assemblyfailed"}
    BY <1>0, <1>15, Moves DEF LegacyStitch, WorkerSteps
  <2>2. TypeOK'
    <3>1. film \in [built : BOOLEAN, published : BOOLEAN, intact : BOOLEAN] BY <1>0 DEF TypeOK
    <3>2. film' \in [built : BOOLEAN, published : BOOLEAN, intact : BOOLEAN]
      BY <1>15, <3>1 DEF LegacyStitch
    <3> QED BY <1>0, <1>15, <3>2 DEF LegacyStitch, rows, world, history, TypeOK
  <2>3. SceneOK'
    BY <2>1 DEF SceneOK, SceneSteps
  <2>4. UNCHANGED <<request, mails>>
    BY <1>15 DEF LegacyStitch, rows, world
  <2> QED BY <1>0, <2>1, <2>2, <2>3, <2>4, MailKept DEF IInv, MailSteps
<1>16. CASE LegacyAsk \/ LegacyAskFails
  <2>1. WorkerOK' /\ w'.pc \in {"release", "idle"}
    BY <1>0, <1>16, Moves DEF LegacyAsk, LegacyAskFails, WorkerSteps
  <2>2. TypeOK'
    BY <1>0, <1>16, FaultAssumption
       DEF LegacyAsk, LegacyAskFails, Fault, rows, files, history, TypeOK
  <2>3. SceneOK'
    BY <2>1 DEF SceneOK, SceneSteps
  <2>4. UNCHANGED <<request, mails>>
    BY <1>16 DEF LegacyAsk, LegacyAskFails, rows
  <2> QED BY <1>0, <2>1, <2>2, <2>3, <2>4, MailKept DEF IInv, MailSteps
<1> QED
  BY <1>1, <1>2, <1>3, <1>4, <1>5, <1>6, <1>7, <1>8, <1>9, <1>10, <1>11, <1>12, <1>13, <1>14,
     <1>15, <1>16 DEF FilmAndMail

\* ComfyUI works on its prompts and on Discord only.
LEMMA ComfyUIInv == ASSUME IInv, ComfyUI PROVE IInv'
<1>0. TypeOK /\ WorkerOK /\ SceneOK /\ MailOK BY DEF IInv
<1>1. ASSUME NEW p \in Prompts, PromptPosts(p) \/ PromptEnds(p) \/ PromptErrors(p) PROVE TypeOK'
  <2>1. prompts[p] \in PromptRecords BY <1>0 DEF TypeOK
  <2>2. prompts' \in [Prompts -> PromptRecords]
    <3>1. \A st \in {"posted", "done", "failed"} : [prompts[p] EXCEPT !.st = st] \in PromptRecords
      BY <2>1 DEF PromptRecords
    <3> QED BY <1>0, <1>1, <3>1 DEF PromptPosts, PromptEnds, PromptErrors, TypeOK
  <2>3. posts' \in [Scenes -> Nat]
    BY <1>0, <1>1 DEF PromptPosts, PromptEnds, PromptErrors, TypeOK
  <2>4. sentModes' \subseteq Routes \cup {"none"}
    BY <1>0, <1>1, <2>1 DEF PromptPosts, PromptEnds, PromptErrors, TypeOK, PromptRecords
  <2> QED BY <1>0, <1>1, <2>2, <2>3, <2>4
         DEF PromptPosts, PromptEnds, PromptErrors, rows, files, history, TypeOK
<1>2. ASSUME ComfyRestart PROVE TypeOK'
  <2>1. prompts' \in [Prompts -> PromptRecords]
    <3>1. \A p \in Prompts : [prompts[p] EXCEPT !.st = "gone"] \in PromptRecords
      BY <1>0 DEF TypeOK, PromptRecords
    <3> QED BY <1>0, <1>2, <3>1 DEF ComfyRestart, TypeOK
  <2>2. faults' \in 0..MaxFaults BY <1>0, <1>2, FaultAssumption DEF ComfyRestart, Fault, TypeOK
  <2>3. UNCHANGED <<rows, files, posts, sentModes, mails, extra, enabled, g, up, history>>
    BY <1>2 DEF ComfyRestart
  <2> QED BY <1>0, <2>1, <2>2, <2>3 DEF rows, files, history, TypeOK
<1>3. UNCHANGED <<w, request, mails>>
  BY DEF ComfyUI, ComfyRestart, PromptPosts, PromptEnds, PromptErrors, rows, history
<1>4. TypeOK' BY <1>1, <1>2 DEF ComfyUI
<1> QED BY <1>0, <1>3, <1>4 DEF IInv, WorkerOK, SceneOK, MailOK

\* Neither the GUI, nor a crash, nor the launcher touches the request; a crash
\* takes the thread back to its loop.
LEMMA EnvironmentInv == ASSUME IInv, Environment PROVE IInv'
<1>0. TypeOK /\ WorkerOK /\ SceneOK /\ MailOK BY DEF IInv
<1>1. UNCHANGED <<request, mails>>
  BY DEF Environment, GuiCancel, GuiCancelPrompts, Crash, Launch, LaunchFinish, LaunchAbandon,
         rows, world, history
<1>2. w' = w \/ Leave
  BY DEF Environment, GuiCancel, GuiCancelPrompts, Crash, Launch, LaunchFinish, LaunchAbandon
<1>3. WorkerOK' /\ SceneOK' /\ MailOK'
  <2>1. CASE w' = w BY <1>0, <1>1, <2>1 DEF WorkerOK, SceneOK, MailOK
  <2>2. CASE Leave
    <3>1. WorkerOK' /\ w'.pc = "idle" BY <1>0, <2>2, Moves
    <3> QED BY <1>0, <1>1, <3>1, MailKept DEF SceneOK, SceneSteps, MailSteps
  <2> QED BY <1>2, <2>1, <2>2
<1>4. TypeOK'
  <2>1. CASE GuiCancel
    BY <1>0, <2>1 DEF GuiCancel, Abandoned, files, world, history, TypeOK
  <2>2. CASE GuiCancelPrompts
    <3>1. prompts' \in [Prompts -> PromptRecords]
      BY <1>0, <2>2, CancelTyped DEF GuiCancelPrompts
    <3> QED BY <1>0, <2>2, <3>1 DEF GuiCancelPrompts, rows, files, history, TypeOK
  <2>3. CASE Crash
    <3>1. faults' \in 0..MaxFaults BY <1>0, <2>3, FaultAssumption DEF Crash, Fault, TypeOK
    <3>2. up' = FALSE /\ g' = "idle" /\ UNCHANGED <<rows, files, world, enabled, history>>
      BY <2>3 DEF Crash
    <3>3. up' \in BOOLEAN /\ g' \in {"idle", "prompts"} BY <3>2
    <3>4. UNCHANGED <<pipe, status, plan, step, bound, assemble, request, marker, film, prompts,
                      posts, sentModes, mails, extra, enabled, legacy, late>>
      BY <3>2 DEF rows, files, world, history
    <3> QED BY <1>0, <3>1, <3>3, <3>4 DEF TypeOK
  <2>4. CASE Launch
    BY <1>0, <2>4 DEF Launch, Restart, rows, files, world, history, TypeOK
  <2>5. CASE LaunchFinish
    BY <1>0, <2>5 DEF LaunchFinish, Restart, files, world, history, TypeOK, ActiveStates
  <2>6. CASE LaunchAbandon
    <3>1. prompts' \in [Prompts -> PromptRecords] BY <1>0, <2>6, CancelTyped DEF LaunchAbandon
    <3> QED BY <1>0, <2>6, <3>1 DEF LaunchAbandon, Abandoned, Restart, files, history, TypeOK
  <2> QED BY <2>1, <2>2, <2>3, <2>4, <2>5, <2>6 DEF Environment
<1> QED BY <1>3, <1>4 DEF IInv

-----------------------------------------------------------------------------
\* The theorems

\* A finalization starts within the invariant.
LEMMA InitInv == ASSUME Init PROVE IInv
<1>1. TypeOK
  <2>1. NoMarker \in Markers /\ Unused \in PromptRecords
    BY DEF NoMarker, Markers, Unused, PromptRecords
  <2>2. marker \in [Scenes \X {1, 2} -> Markers] /\ prompts \in [Prompts -> PromptRecords]
    BY <2>1 DEF Init
  <2>3. enabled \in BOOLEAN /\ faults \in 0..MaxFaults
    <3>1. enabled \in BOOLEAN BY DEF Init
    <3>2. faults = 0 BY DEF Init
    <3> QED BY <3>1, <3>2, FaultAssumption
  <2>4. step \in [Scenes -> StepStates] /\ bound \in [Scenes -> Prompts \cup {NoPrompt}]
    BY DEF Init, StepStates
  <2>5. posts \in [Scenes -> Nat] /\ mails \in Nat BY DEF Init
  <2>6. plan \in [mode : Modes \cup {"none"}, state : PlanStates]
    BY DEF Init, NoPlan, PlanStates
  <2> QED BY <2>2, <2>3, <2>4, <2>5, <2>6 DEF Init, TypeOK, ActiveStates, StepStates
<1>2. WorkerOK /\ SceneOK
  BY DEF Init, Idle, WorkerOK, WorkerStates, WorkerSteps, Errors, SceneOK, SceneSteps
<1>3. MailOK
  BY DEF Init, Idle, MailOK
<1> QED BY <1>1, <1>2, <1>3 DEF IInv

\* Every step keeps the invariant, whoever takes it.
LEMMA StepInv == ASSUME IInv, [Next]_vars PROVE IInv'
<1>1. CASE Worker
  BY <1>1, TickInv, PlanWorkInv, DeliveryInv, FilmAndMailInv DEF Worker
<1>2. CASE ComfyUI
  BY <1>2, ComfyUIInv
<1>3. CASE Environment
  BY <1>3, EnvironmentInv
<1>4. CASE UNCHANGED vars
  BY <1>4 DEF vars, rows, files, world, history, IInv, TypeOK, WorkerOK, SceneOK, MailOK
<1> QED BY <1>1, <1>2, <1>3, <1>4 DEF Next

\* IInv holds of every reachable state.
THEOREM Invariance == Spec => []IInv
<1>1. Init => IInv BY InitInv
<1>2. IInv /\ [Next]_vars => IInv' BY StepInv
<1> QED BY <1>1, <1>2, PTL DEF Spec

\* The rows, the delivery markers, ComfyUI's records and the thread keep their
\* types, for every set of scenes and prompts and any number of faults.
THEOREM TypeCorrect == Spec => []TypeOK
<1>1. IInv => TypeOK BY DEF IInv
<1> QED BY <1>1, Invariance, PTL

\* However often the program crashes, loses an answer or is restarted with other
\* settings, the finalization sends the request for the next job at most once: before
\* and after the legacy route has had the job, whose own requests are counted in extra.
THEOREM OneRequest == Spec => []MailedAtMostOnce
<1>1. IInv => MailedAtMostOnce BY DEF IInv, MailOK, MailedAtMostOnce
<1> QED BY <1>1, Invariance, PTL

-----------------------------------------------------------------------------
(* What the effects have to do with the rows.  EffectsOK is inductive too, on   *)
(* top of IInv: who asked ComfyUI for which post, what the rows may say of it,  *)
(* and how often a scene may still be asked for.  The parts on how often hold   *)
(* until the legacy route takes the job over, the others throughout.            *)

RenderSteps == SceneSteps \ {"dispatch", "confirm"}
Asks == {"deliver", "reuse", "start", "intend", "post"}
PromptSteps == {"bind", "mark", "wait", "history", "queue", "rehistory", "requeue", "commit", "sent"}
FilmSteps == {"assembled", "stitched", "jobsucceeded", "committed", "request", "intent", "lookup",
              "claim", "send", "mailheld", "record", "completed"}
LateSteps == FilmSteps \cup {"delivered", "assemble", "stitching", "encode", "publish"}
WorkSteps == SceneSteps \cup LateSteps \cup {"open", "delivering", "scene", "assemblyfailed"}
LegacySteps == (SceneSteps \ {"dispatch"}) \cup {"scene", "open", "encode", "jobsucceeded", "assemblyfailed"}

\* prompt p was queued for scene s, and so were these; what they may still do
Of(p, s) == p \in Prompts /\ prompts[p].st # "free" /\ prompts[p].scene = s
Spent(s) == {p \in Asked(s) : prompts[p].st # "live"}
Dead(p) == prompts[p].st \in {"failed", "gone"}
One(S) == \A p, q \in S : p = q
Two(S) == \A p, q, r \in S : p = q \/ p = r \/ q = r

\* The marker that the plan at hand reads and writes for a scene.
Planned(s) == <<s, Rev(s, plan.mode)>>
PlanMarker(s) == marker[Planned(s)]

\* Everything dispatched was taken from the selection of the plan, for a step begun, or by
\* the legacy route; the markers are of the plan as long as that route has written none.
SelectedOK ==
  /\ plan.mode = "none" => \A s \in Scenes : step[s] = "absent"
  /\ \A p \in Prompts : prompts[p].st # "free" =>
       /\ DeliveryOn /\ prompts[p].scene \in Scenes
       /\ \/ prompts[p].mode = "legacy" /\ legacy
          \/ prompts[p].mode = plan.mode /\ step[prompts[p].scene] # "absent"
  /\ sentModes \subseteq {"legacy"} \/ \E s \in Scenes : step[s] # "absent"
  /\ OneSelection
FilesOK ==
  \/ legacy
  \/ \A s \in Scenes, r \in {1, 2} : marker[<<s, r>>].st # "none" =>
       /\ r = Rev(s, plan.mode) /\ step[s] # "absent"
       /\ marker[<<s, r>>].clip = Clip(s, plan.mode)

\* The thread works for the selection it entered with and on a step that was begun, or
\* it is the legacy route.
WorkingOK ==
  /\ w.pc \in WorkSteps => \/ w.mode \in Modes /\ plan.mode = w.mode
                           \/ w.mode = "legacy" /\ legacy /\ w.pc \in LegacySteps
  /\ w.pc \in RenderSteps => DeliveryOn /\ (w.mode # "legacy" => step[w.scene] # "absent")
  /\ w.pc = "dispatch" => DeliveryOn
  /\ w.pc \in SceneSteps \cup {"scene"} =>
       IF w.mode = "legacy" THEN w.todo # {} => DeliveryOn
       ELSE /\ \A s \in Scenes \ w.todo : step[s] = "COMPLETED"
            /\ w.pc # "scene" => step[w.scene] # "COMPLETED"

\* Every prompt id that is written down is of a prompt of its scene.
LinksOK ==
  /\ \A s \in Scenes, r \in {1, 2} :
       /\ marker[<<s, r>>].prompt # NoPrompt => Of(marker[<<s, r>>].prompt, s)
       /\ marker[<<s, r>>].st = "queued" => marker[<<s, r>>].prompt # NoPrompt
  /\ \A s \in Scenes : bound[s] # NoPrompt => Of(bound[s], s)
  /\ w.pc \in RenderSteps /\ w.existing # NoPrompt =>
       Of(w.existing, w.scene) /\ bound[w.scene] # NoPrompt
  /\ w.pc \in PromptSteps => Of(w.prompt, w.scene)

\* What is called sent has been posted.
SentOK ==
  /\ \A p \in Prompts : prompts[p].st \in {"posted", "done"} => posts[prompts[p].scene] >= 1
  /\ \A s \in Scenes, r \in {1, 2} : marker[<<s, r>>].st = "sent" => posts[s] >= 1
  /\ w.pc \in {"commit", "sent", "confirm"} /\ DeliveryOn => posts[w.scene] >= 1
  /\ ConfirmedMeansPosted

\* The film of the plan comes after the last scene and the request after the film.
AllDone == \A s \in Scenes : step[s] = "COMPLETED"
Late(steps) == w.pc \in steps /\ w.mode # "legacy"
LateOK ==
  /\ Late(LateSteps) \/ film.published => AllDone
  /\ Late(FilmSteps) \/ assemble = "COMPLETED" \/ mails > 0 => film.published
  /\ w.pc \in {"record", "completed"} \/ request = "COMPLETED" => mails + extra >= 1
  /\ w.pc = "ask" \/ extra > 0 => legacy
  /\ CompletedIsDone

\* A scene is asked for at most twice, and the second time by the thread that saw the first
\* prompt fail.  Postable: the thread may still ask.
Holding == w.pc \in RenderSteps /\ w.existing = NoPrompt
Postable == \/ w.pc = "post"
            \/ w.pc = "error" /\ w.err = "FAILED"
            \/ w.pc \in Asks /\ PlanMarker(w.scene).st \in {"none", "failed"}
AskedOK ==
  legacy \/
  \A s \in Scenes :
    /\ Two(Asked(s)) /\ posts[s] <= 2
    /\ posts[s] >= 1 => Spent(s) # {}
    /\ posts[s] = 2 => ~One(Spent(s))
    /\ bound[s] = NoPrompt => One(Asked(s))
    /\ PlanMarker(s).st = "none" => Asked(s) = {} /\ bound[s] = NoPrompt
    /\ Active /\ PlanMarker(s).st = "failed" /\ bound[s] = NoPrompt => Asked(s) = {}
    /\ Active /\ PlanMarker(s).st = "queued" => bound[s] # NoPrompt
AskingOK ==
  legacy \/
  /\ w.pc \in {"deliver", "reuse"} => /\ w.try = 2 => PlanMarker(w.scene).st = "failed"
                                      /\ PlanMarker(w.scene).st = "queued" => bound[w.scene] # NoPrompt
  /\ w.pc \in Asks /\ w.try = 1 => w.existing = bound[w.scene]
  /\ w.pc = "error" /\ w.err = "FAILED" => PlanMarker(w.scene).st = "failed"
  /\ w.pc \in {"start", "intend"} => w.existing = NoPrompt /\ PlanMarker(w.scene).st \in {"none", "failed"}
  /\ w.pc = "post" => w.existing = NoPrompt /\ PlanMarker(w.scene).st = "dispatching"
  /\ w.pc \in PromptSteps \ {"bind"} => bound[w.scene] # NoPrompt
  /\ Holding => /\ w.try = 1 \/ w.pc \in Asks => One(Asked(w.scene))
                /\ Postable /\ bound[w.scene] = NoPrompt => Asked(w.scene) = {}

\* Without trouble, and as long as the renderer would see a cancel, a scene is asked for again
\* only when none of its prompts has posted or still can.
Unsent(s) == posts[s] = 0 /\ \A p \in Asked(s) : Dead(p)
OnceOK ==
  /\ g = "prompts" => ~Active
  /\ legacy \/ \A s \in Scenes : Once(s) =>
       /\ posts[s] <= 1
       /\ One({p \in Asked(s) : prompts[p].st = "live"})
       /\ posts[s] = 1 => \A p \in Asked(s) : prompts[p].st # "live"
       /\ Active /\ posts[s] = 1 => \E p \in Asked(s) : prompts[p].st \in {"posted", "done"}
AgainOK ==
  legacy \/
  (w.pc \in RenderSteps /\ Once(w.scene) =>
    /\ w.pc \in {"rehistory", "requeue"} => Dead(w.prompt)
    /\ w.pc \in {"intend", "post"} => Unsent(w.scene)
    /\ Holding /\ Active =>
         /\ Postable => Unsent(w.scene)
         /\ w.pc \in PromptSteps => \A p \in Asked(w.scene) : p = w.prompt \/ Dead(p))

EffectsOK == /\ SelectedOK /\ FilesOK /\ LinksOK /\ SentOK /\ LateOK /\ AskedOK /\ OnceOK
             /\ WorkingOK /\ AskingOK /\ AgainOK
-----------------------------------------------------------------------------
(* Fields of the thread and of the markers after a move                         *)

Same == /\ w'.mode = w.mode /\ w'.todo = w.todo /\ w'.scene = w.scene
        /\ w'.existing = w.existing /\ w'.prompt = w.prompt /\ w'.try = w.try

\* A move to another step changes nothing else the thread holds.
LEMMA GoToFields ==
  ASSUME WorkerOK, NEW pc, GoTo(pc) PROVE w'.pc = pc /\ w'.err = w.err /\ Same
BY DEF WorkerOK, WorkerStates, GoTo, Same

\* A failure notes how it failed, and a return leaves the selection behind.
LEMMA FailsFields ==
  ASSUME WorkerOK, NEW err, Fails(err) PROVE w'.pc = "error" /\ w'.err = err /\ Same
BY DEF WorkerOK, WorkerStates, Fails, Same

LEMMA LeaveFields == ASSUME Leave PROVE w'.pc = "idle" /\ w'.mode = "none"
BY DEF Leave, Idle

\* The two markers of a scene are two files.
LEMMA PlannedFile ==
  ASSUME NEW s \in Scenes PROVE Planned(s) \in Scenes \X {1, 2} /\ Planned(s)[1] = s
BY DEF Planned, Rev

\* A marker that is written says what it is told, for the clip at hand.
LEMMA MarkedFields ==
  ASSUME TypeOK, w.scene \in Scenes, NEW st, NEW p, marker' = Marked(st, p)
  PROVE  /\ marker'[File].st = st /\ marker'[File].prompt = p
         /\ marker'[File].clip = Clip(w.scene, w.mode)
         /\ \A s \in Scenes, r \in {1, 2} :
              <<s, r>> # File => marker'[<<s, r>>] = marker[<<s, r>>]
<1>1. File \in Scenes \X {1, 2} BY DEF File, Rev
<1>2. marker \in [Scenes \X {1, 2} -> Markers] BY DEF TypeOK
<1>3. marker' = [marker EXCEPT ![File] = [st |-> st, prompt |-> p, clip |-> Clip(w.scene, w.mode)]]
  BY DEF Marked
<1>4. marker'[File] = [st |-> st, prompt |-> p, clip |-> Clip(w.scene, w.mode)]
  BY <1>1, <1>2, <1>3
<1>5. ASSUME NEW f \in Scenes \X {1, 2}, f # File PROVE marker'[f] = marker[f]
  BY <1>1, <1>2, <1>3, <1>5
<1>6. \A s \in Scenes, r \in {1, 2} : <<s, r>> \in Scenes \X {1, 2} OBVIOUS
<1> QED BY <1>4, <1>5, <1>6

\* Where the thread renders, it has a scene.
LEMMA HasScene ==
  ASSUME IInv, w.pc \in SceneSteps PROVE w.scene \in Scenes
BY DEF IInv, SceneOK

\* A thread beyond the reach of the legacy route works on the plan.
LEMMA PlanThread ==
  ASSUME EffectsOK, w.pc \in WorkSteps, w.pc \notin LegacySteps \/ ~legacy
  PROVE  w.mode \in Modes /\ plan.mode = w.mode /\ w.mode # "legacy"
BY DEF EffectsOK, WorkingOK, Modes

\* It writes the marker that the plan reads.
LEMMA PlanFile ==
  ASSUME IInv, EffectsOK, w.pc \in SceneSteps, w.mode # "legacy"
  PROVE  /\ File = Planned(w.scene) /\ PlanMarker(w.scene) = marker[File]
         /\ \A s \in Scenes : s # w.scene => Planned(s) # File
<1>1. plan.mode = w.mode BY DEF EffectsOK, WorkingOK, WorkSteps
<1> QED BY <1>1 DEF File, Planned, PlanMarker

-----------------------------------------------------------------------------
(* Steps that leave the rows and files of the deliveries alone                  *)

deliveries == <<step, bound, marker, prompts, posts, sentModes, legacy>>

\* Once cancelled or released, the job is not taken up again.
LEMMA StaysInactive ==
  ASSUME [Next]_vars, Active' PROVE Active
<1>1. CASE Tick
  BY <1>1 DEF Tick, ProcessJob, ProcessJobLegacy, RunEpoch, ResumePlan, LateWorkRejected, rows, Active
<1>2. CASE PlanWork
  BY <1>2 DEF PlanWork, Discard, EnsurePlan, Transition, AdvancePlan, JobStatus, Active
<1>3. CASE Delivery
  <2>1. CASE ReuseMarker \/ StartDelivery \/ CheckDelivery \/ CheckDispatch \/ WriteIntent
    BY <2>1 DEF ReuseMarker, StartDelivery, CheckDelivery, CheckDispatch, WriteIntent, rows, Active
  <2>2. CASE \E s \in Scenes : BeginDelivery(s) \/ LegacyScene(s)
    BY <2>2 DEF BeginDelivery, LegacyScene, rows, Active
  <2>3. CASE (\E p \in Prompts : QueuePrompt(p)) \/ QueueRejected \/ QueueAmbiguous
    <3>1. UNCHANGED rows
      BY <2>3, Zenon DEF QueuePrompt, QueueRejected, QueueAmbiguous
    <3> QED BY <3>1 DEF rows, Active
  <2>4. CASE AllDelivered \/ MarkDispatching \/ BindPrompt \/ MarkQueued \/ SeeDone \/ SeeFailed
    BY <2>4
       DEF AllDelivered, MarkDispatching, BindPrompt, MarkQueued, SeeDone, SeeFailed, rows, Active
  <2>5. CASE PollFails \/ PromptTimeout \/ NotInHistory \/ ReclaimQueued \/ ReclaimLost
    BY <2>5 DEF PollFails, PromptTimeout, NotInHistory, ReclaimQueued, ReclaimLost, rows, Active
  <2>6. CASE \/ ResolveError \/ CheckCommit \/ CommitSent \/ RetryDelivery \/ HoldDelivery
             \/ ConfirmDelivery \/ LegacyNext
    BY <2>6 DEF ResolveError, CheckCommit, CommitSent, RetryDelivery, HoldDelivery, ConfirmDelivery,
       LegacyNext, rows, Active
  <2> QED BY <1>3, <2>1, <2>2, <2>3, <2>4, <2>5, <2>6 DEF Delivery
<1>4. CASE FilmAndMail
  BY <1>4 DEF FilmAndMail, BeginAssembly, Encode, AssemblyFails, Publish, CompleteAssembly,
     LegacyStitch, BeginRequest, LookupSeen, LookupUnseen, LookupFails, ClaimRequest, SendRequest,
     SendFails, HoldRequest, RecordRequest, LegacyAsk, LegacyAskFails, rows, Active
<1>5. CASE ComfyUI
  BY <1>5 DEF ComfyUI, ComfyRestart, PromptPosts, PromptEnds, PromptErrors, rows, Active
<1>6. CASE Environment
  BY <1>6 DEF Environment, GuiCancel, GuiCancelPrompts, Crash, Launch, LaunchFinish,
     LaunchAbandon, SavedJob, Abandoned, rows, Active
<1>7. CASE UNCHANGED vars
  BY <1>7 DEF vars, rows, Active
<1> QED BY <1>1, <1>2, <1>3, <1>4, <1>5, <1>6, <1>7 DEF Next, Worker

\* The facts about the deliveries do not depend on where the thread is.
LEMMA TablesKept ==
  ASSUME EffectsOK, UNCHANGED deliveries, plan'.mode = plan.mode, Active' => Active,
         g' = "prompts" => g = "prompts" \/ ~Active'
  PROVE  /\ SelectedOK' /\ FilesOK' /\ AskedOK' /\ OnceOK'
         /\ (w'.pc \notin RenderSteps => LinksOK')
         /\ (w'.pc \notin {"commit", "sent", "confirm"} => SentOK')
<1> USE DEF deliveries
<1>1. SelectedOK' /\ FilesOK' BY DEF EffectsOK, SelectedOK, FilesOK, OneSelection, Rev, Clip
<1>2. ASSUME NEW s PROVE Asked(s)' = Asked(s) /\ Spent(s)' = Spent(s) /\ PlanMarker(s)' = PlanMarker(s)
  BY DEF Asked, Spent, Of, PlanMarker, Planned, Rev
<1>3. AskedOK' BY <1>2 DEF EffectsOK, AskedOK, One, Two
<1>4. OnceOK' BY <1>2 DEF EffectsOK, OnceOK, One
<1>5. w'.pc \notin RenderSteps => LinksOK'
  BY DEF EffectsOK, LinksOK, Of, PromptSteps, RenderSteps, SceneSteps
<1>6. w'.pc \notin {"commit", "sent", "confirm"} => SentOK'
  BY DEF EffectsOK, SentOK, ConfirmedMeansPosted
<1> QED BY <1>1, <1>3, <1>4, <1>5, <1>6

\* A thread that renders nothing asks for nothing.
LEMMA NotRendering ==
  ASSUME w'.pc \notin RenderSteps PROVE AskingOK' /\ AgainOK'
BY DEF AskingOK, AgainOK, Holding, RenderSteps, PromptSteps, SceneSteps, Asks

\* Such a step keeps the facts if it keeps those on the plan, the film and the request.
LEMMA Aside ==
  ASSUME EffectsOK, UNCHANGED deliveries, plan'.mode = plan.mode, Active' => Active,
         g' = "prompts" => g = "prompts" \/ ~Active',
         w'.pc \notin SceneSteps, WorkingOK', LateOK'
  PROVE  EffectsOK'
BY TablesKept, NotRendering DEF EffectsOK, RenderSteps, SceneSteps

\* The thread goes on with the plan, and leaves the deliveries behind it.
LEMMA Onward ==
  ASSUME IInv, EffectsOK, w.pc \in WorkSteps, plan'.mode = plan.mode, UNCHANGED legacy,
         NEW pc, GoTo(pc), pc \notin SceneSteps \cup {"scene"},
         w.mode # "legacy" \/ pc \in LegacySteps \/ pc \notin WorkSteps
  PROVE  WorkingOK' /\ w'.pc = pc /\ w'.mode = w.mode
<1>1. w'.pc = pc /\ w'.mode = w.mode BY GoToFields DEF IInv, Same
<1>2. \/ w.mode \in Modes /\ plan.mode = w.mode
      \/ w.mode = "legacy" /\ legacy
  BY DEF EffectsOK, WorkingOK
<1>3. w'.pc \in WorkSteps => \/ w'.mode \in Modes /\ plan'.mode = w'.mode
                             \/ w'.mode = "legacy" /\ legacy' /\ w'.pc \in LegacySteps
  BY <1>1, <1>2 DEF Modes
<1> QED BY <1>1, <1>3 DEF WorkingOK, RenderSteps, SceneSteps

\* The thread stops working on the plan.
LEMMA Ended ==
  ASSUME w'.pc \in {"idle", "block", "release", "jobfailed", "ask"}
  PROVE  WorkingOK' /\ w'.pc \notin SceneSteps
BY DEF WorkingOK, WorkSteps, LateSteps, FilmSteps, RenderSteps, SceneSteps

\* The film and the request keep what the world has seen in order.
LEMMA FilmAndMailEffects ==
  ASSUME IInv, EffectsOK, FilmAndMail, Active' => Active PROVE EffectsOK'
<1>0. TypeOK /\ WorkerOK /\ MailOK /\ LateOK BY DEF IInv, EffectsOK
<1>1. CASE BeginAssembly
  <2>1. GoTo("stitching") /\ w.pc = "assemble" BY <1>1 DEF BeginAssembly, At
  <2>8. w.mode # "legacy" BY <2>1, PlanThread DEF WorkSteps, LateSteps, FilmSteps, LegacySteps, SceneSteps
  <2>2. UNCHANGED deliveries /\ UNCHANGED <<plan, g>> /\ UNCHANGED <<film, mails, extra, request>>
        /\ assemble' = Begun(assemble)
    BY <1>1 DEF BeginAssembly, deliveries, files, world, history
  <2>3. WorkingOK' /\ w'.pc = "stitching" /\ w'.mode = w.mode
    BY <2>8, <2>1, <2>2, Onward DEF deliveries, WorkSteps, LateSteps, FilmSteps, SceneSteps, LegacySteps
  <2>4. LateOK'
    BY <1>0, <2>8, <2>1, <2>2, <2>3
       DEF LateOK, Late, deliveries, LateSteps, FilmSteps, Begun, AllDone, CompletedIsDone
  <2> QED BY <2>2, <2>3, <2>4, Aside DEF SceneSteps
<1>2. CASE Encode
  <2>1. GoTo("publish") /\ w.pc = "encode" BY <1>2 DEF Encode, At
  <2>8. w.mode # "legacy" BY <1>2 DEF Encode, Modes
  <2>2. UNCHANGED deliveries /\ UNCHANGED <<plan, g>> /\ UNCHANGED <<assemble, mails, extra, request>>
    BY <1>2 DEF Encode, deliveries, rows, world, history
  <2>3. film'.published = film.published BY <1>0, <1>2 DEF Encode, TypeOK
  <2>4. WorkingOK' /\ w'.pc = "publish" /\ w'.mode = w.mode
    BY <2>8, <2>1, <2>2, Onward DEF deliveries, WorkSteps, LateSteps, FilmSteps, SceneSteps, LegacySteps
  <2>5. LateOK'
    BY <1>0, <2>8, <2>1, <2>2, <2>3, <2>4
       DEF LateOK, Late, deliveries, LateSteps, FilmSteps, AllDone, CompletedIsDone
  <2> QED BY <2>2, <2>4, <2>5, Aside DEF SceneSteps
<1>3. CASE AssemblyFails
  <2>1. GoTo("assemblyfailed") /\ w.pc = "encode" BY <1>3 DEF AssemblyFails, At
  <2>8. w.mode # "legacy" BY <1>3 DEF AssemblyFails, Modes
  <2>2. UNCHANGED deliveries /\ UNCHANGED <<plan, g>> /\ UNCHANGED <<film, assemble, mails, extra, request>>
    BY <1>3 DEF AssemblyFails, deliveries, rows, files, world, history
  <2>3. WorkingOK' /\ w'.pc = "assemblyfailed" /\ w'.mode = w.mode
    BY <2>8, <2>1, <2>2, Onward DEF deliveries, WorkSteps, LateSteps, FilmSteps, SceneSteps, LegacySteps
  <2>4. LateOK'
    BY <1>0, <2>8, <2>1, <2>2, <2>3 DEF LateOK, Late, deliveries, LateSteps, FilmSteps, AllDone, CompletedIsDone
  <2> QED BY <2>2, <2>3, <2>4, Aside DEF SceneSteps
<1>4. CASE Publish
  <2>1. GoTo("assembled") /\ w.pc = "publish" BY <1>4 DEF Publish, At
  <2>8. w.mode # "legacy" BY <2>1, PlanThread DEF WorkSteps, LateSteps, FilmSteps, LegacySteps, SceneSteps
  <2>2. UNCHANGED deliveries /\ UNCHANGED <<plan, g>> /\ UNCHANGED <<assemble, mails, extra, request>>
    BY <1>4 DEF Publish, deliveries, rows, world, history
  <2>3. film'.published BY <1>0, <1>4 DEF Publish, TypeOK
  <2>4. WorkingOK' /\ w'.pc = "assembled" /\ w'.mode = w.mode
    BY <2>8, <2>1, <2>2, Onward DEF deliveries, WorkSteps, LateSteps, FilmSteps, SceneSteps, LegacySteps
  <2>5. AllDone BY <1>0, <2>8, <2>1 DEF LateOK, Late, LateSteps
  <2>6. LateOK'
    BY <1>0, <2>8, <2>1, <2>2, <2>3, <2>4, <2>5
       DEF LateOK, Late, deliveries, LateSteps, FilmSteps, AllDone, CompletedIsDone
  <2> QED BY <2>2, <2>4, <2>6, Aside DEF SceneSteps
<1>5. CASE CompleteAssembly
  <2>1. GoTo("stitched") /\ w.pc = "assembled" BY <1>5 DEF CompleteAssembly, At
  <2>8. w.mode # "legacy" BY <2>1, PlanThread DEF WorkSteps, LateSteps, FilmSteps, LegacySteps, SceneSteps
  <2>2. UNCHANGED deliveries /\ UNCHANGED <<plan, g>> /\ UNCHANGED <<film, mails, extra, request>>
    BY <1>5 DEF CompleteAssembly, deliveries, files, world, history
  <2>3. WorkingOK' /\ w'.pc = "stitched" /\ w'.mode = w.mode
    BY <2>8, <2>1, <2>2, Onward DEF deliveries, WorkSteps, LateSteps, FilmSteps, SceneSteps, LegacySteps
  <2>4. LateOK'
    BY <1>0, <2>8, <2>1, <2>2, <2>3 DEF LateOK, Late, deliveries, LateSteps, FilmSteps, AllDone, CompletedIsDone
  <2> QED BY <2>2, <2>3, <2>4, Aside DEF SceneSteps
<1>6. CASE BeginRequest
  <2>1. GoTo("intent") /\ w.pc = "request" BY <1>6 DEF BeginRequest, At
  <2>8. w.mode # "legacy" BY <2>1, PlanThread DEF WorkSteps, LateSteps, FilmSteps, LegacySteps, SceneSteps
  <2>2. UNCHANGED deliveries /\ UNCHANGED <<plan, g>> /\ UNCHANGED <<film, assemble, mails, extra>>
        /\ request' = Begun(request)
    BY <1>6 DEF BeginRequest, deliveries, files, world, history
  <2>3. WorkingOK' /\ w'.pc = "intent" /\ w'.mode = w.mode
    BY <2>8, <2>1, <2>2, Onward DEF deliveries, WorkSteps, LateSteps, FilmSteps, SceneSteps, LegacySteps
  <2>4. LateOK'
    BY <1>0, <2>8, <2>1, <2>2, <2>3
       DEF LateOK, Late, deliveries, LateSteps, FilmSteps, Begun, AllDone, CompletedIsDone
  <2> QED BY <2>2, <2>3, <2>4, Aside DEF SceneSteps
<1>7. CASE LookupSeen
  <2>1. GoTo("record") /\ w.pc = "lookup" /\ mails + extra > 0 BY <1>7 DEF LookupSeen, At
  <2>8. w.mode # "legacy" BY <2>1, PlanThread DEF WorkSteps, LateSteps, FilmSteps, LegacySteps, SceneSteps
  <2>2. UNCHANGED deliveries /\ UNCHANGED <<plan, g>> /\ UNCHANGED <<film, assemble, mails, extra, request>>
    BY <1>7 DEF LookupSeen, deliveries, rows, files, world, history
  <2>3. WorkingOK' /\ w'.pc = "record" /\ w'.mode = w.mode
    BY <2>8, <2>1, <2>2, Onward DEF deliveries, WorkSteps, LateSteps, FilmSteps, SceneSteps, LegacySteps
  <2>4. mails + extra >= 1 BY <1>0, <2>1 DEF TypeOK
  <2>5. LateOK'
    BY <1>0, <2>8, <2>1, <2>2, <2>3, <2>4
       DEF LateOK, Late, deliveries, LateSteps, FilmSteps, AllDone, CompletedIsDone
  <2> QED BY <2>2, <2>3, <2>5, Aside DEF SceneSteps
<1>8. CASE LookupUnseen \/ LookupFails
  <2>1. w.pc = "lookup" /\ (Leave \/ \E pc \in {"mailheld", "claim"} : GoTo(pc))
    BY <1>8 DEF LookupUnseen, LookupFails, At
  <2>8. w.mode # "legacy" BY <2>1, PlanThread DEF WorkSteps, LateSteps, FilmSteps, LegacySteps, SceneSteps
  <2>2. UNCHANGED deliveries /\ UNCHANGED <<plan, g>> /\ UNCHANGED <<film, assemble, mails, extra, request>>
    BY <1>8 DEF LookupUnseen, LookupFails, deliveries, rows, files, world, history
  <2>3. WorkingOK' /\ w'.pc \in {"idle", "mailheld", "claim"} /\ (w'.pc # "idle" => w'.mode = w.mode)
    <3>1. CASE Leave BY <3>1, LeaveFields, Ended
    <3>2. ASSUME NEW pc \in {"mailheld", "claim"}, GoTo(pc) PROVE WorkingOK' /\ w'.pc = pc /\ w'.mode = w.mode
      BY <2>8, <2>1, <2>2, <3>2, Onward DEF deliveries, WorkSteps, LateSteps, FilmSteps, SceneSteps, LegacySteps
    <3> QED BY <2>1, <3>1, <3>2
  <2>4. LateOK'
    BY <1>0, <2>8, <2>1, <2>2, <2>3 DEF LateOK, Late, deliveries, LateSteps, FilmSteps, AllDone, CompletedIsDone
  <2> QED BY <2>2, <2>3, <2>4, Aside DEF SceneSteps
<1>9. CASE ClaimRequest
  <2>1. GoTo("send") /\ w.pc = "claim" BY <1>9 DEF ClaimRequest, At
  <2>8. w.mode # "legacy" BY <2>1, PlanThread DEF WorkSteps, LateSteps, FilmSteps, LegacySteps, SceneSteps
  <2>2. UNCHANGED deliveries /\ UNCHANGED <<plan, g>> /\ UNCHANGED <<film, assemble, mails, extra>>
        /\ request' = "DISPATCHING"
    BY <1>9 DEF ClaimRequest, deliveries, files, world, history
  <2>3. WorkingOK' /\ w'.pc = "send" /\ w'.mode = w.mode
    BY <2>8, <2>1, <2>2, Onward DEF deliveries, WorkSteps, LateSteps, FilmSteps, SceneSteps, LegacySteps
  <2>4. LateOK'
    BY <1>0, <2>8, <2>1, <2>2, <2>3 DEF LateOK, Late, deliveries, LateSteps, FilmSteps, AllDone, CompletedIsDone
  <2> QED BY <2>2, <2>3, <2>4, Aside DEF SceneSteps
<1>10. CASE SendRequest \/ SendFails
  <2>1. w.pc = "send" /\ (\E pc \in {"record", "mailheld"} : GoTo(pc))
    BY <1>10 DEF SendRequest, SendFails, At
  <2>8. w.mode # "legacy" BY <2>1, PlanThread DEF WorkSteps, LateSteps, FilmSteps, LegacySteps, SceneSteps
  <2>2. UNCHANGED deliveries /\ UNCHANGED <<plan, g>> /\ UNCHANGED <<film, assemble, extra, request>>
    BY <1>10 DEF SendRequest, SendFails, deliveries, rows, files, history
  <2>3. WorkingOK' /\ w'.pc \in {"record", "mailheld"} /\ w'.mode = w.mode
    <3>1. ASSUME NEW pc \in {"record", "mailheld"}, GoTo(pc)
          PROVE  WorkingOK' /\ w'.pc = pc /\ w'.mode = w.mode
      BY <2>8, <2>1, <2>2, <3>1, Onward DEF deliveries, WorkSteps, LateSteps, FilmSteps, SceneSteps, LegacySteps
    <3> QED BY <2>1, <3>1
  <2>4. /\ mails = 0 /\ request = "DISPATCHING" /\ film.published /\ AllDone /\ extra \in Nat
        /\ mails' \in {0, 1} /\ (w'.pc = "record" => mails' = 1)
    <3>1. mails = 0 /\ request = "DISPATCHING" BY <1>0, <2>1 DEF MailOK
    <3>2. film.published /\ AllDone /\ extra \in Nat
      BY <1>0, <2>8, <2>1 DEF TypeOK, LateOK, Late, LateSteps, FilmSteps
    <3>3. CASE SendRequest BY <3>1, <3>2, <3>3 DEF SendRequest
    <3>4. CASE SendFails
      <4>1. w'.pc = "mailheld" BY <1>0, <3>4, GoToFields DEF SendFails
      <4> QED BY <3>1, <3>2, <3>4, <4>1 DEF SendFails
    <3> QED BY <1>10, <3>3, <3>4
  <2>5. /\ mails + extra >= 1 => mails' + extra' >= 1
        /\ w'.pc = "record" => mails' + extra' >= 1
    <3>1. extra' = extra /\ extra \in Nat BY <2>2, <2>4
    <3>2. mails' \in {0, 1} /\ mails = 0 /\ (w'.pc = "record" => mails' = 1) BY <2>4
    <3>3. CASE mails' = 1 BY <3>1, <3>3
    <3>4. CASE mails' = 0 BY <3>1, <3>2, <3>4
    <3> QED BY <3>2, <3>3, <3>4
  <2>6. CompletedIsDone'
    BY <1>0, <2>2, <2>5 DEF LateOK, CompletedIsDone, deliveries
  <2>7. LateOK'
    BY <1>0, <2>2, <2>3, <2>4, <2>5, <2>6 DEF LateOK, Late, deliveries, AllDone
  <2> QED BY <2>2, <2>3, <2>7, Aside DEF SceneSteps
<1>11. CASE HoldRequest
  <2>1. GoTo("block") /\ w.pc = "mailheld" BY <1>11 DEF HoldRequest, At
  <2>8. w.mode # "legacy" BY <2>1, PlanThread DEF WorkSteps, LateSteps, FilmSteps, LegacySteps, SceneSteps
  <2>2. UNCHANGED deliveries /\ UNCHANGED <<plan, g>> /\ UNCHANGED <<film, assemble, mails, extra>>
        /\ request' = "AMBIGUOUS"
    BY <1>11 DEF HoldRequest, deliveries, files, world, history
  <2>3. WorkingOK' /\ w'.pc = "block" /\ w'.mode = w.mode
    BY <2>8, <2>1, <2>2, Onward DEF deliveries, WorkSteps, LateSteps, FilmSteps, SceneSteps, LegacySteps
  <2>4. LateOK'
    BY <1>0, <2>8, <2>1, <2>2, <2>3 DEF LateOK, Late, deliveries, LateSteps, FilmSteps, AllDone, CompletedIsDone
  <2> QED BY <2>2, <2>3, <2>4, Aside DEF SceneSteps
<1>12. CASE RecordRequest
  <2>1. GoTo("completed") /\ w.pc = "record" BY <1>12 DEF RecordRequest, At
  <2>8. w.mode # "legacy" BY <2>1, PlanThread DEF WorkSteps, LateSteps, FilmSteps, LegacySteps, SceneSteps
  <2>2. UNCHANGED deliveries /\ UNCHANGED <<plan, g>> /\ UNCHANGED <<film, assemble, mails, extra>>
        /\ request' = "COMPLETED"
    BY <1>12 DEF RecordRequest, deliveries, files, world, history
  <2>3. WorkingOK' /\ w'.pc = "completed" /\ w'.mode = w.mode
    BY <2>8, <2>1, <2>2, Onward DEF deliveries, WorkSteps, LateSteps, FilmSteps, SceneSteps, LegacySteps
  <2>4. LateOK'
    BY <1>0, <2>8, <2>1, <2>2, <2>3 DEF LateOK, Late, deliveries, LateSteps, FilmSteps, AllDone, CompletedIsDone
  <2> QED BY <2>2, <2>3, <2>4, Aside DEF SceneSteps
<1>13. CASE LegacyStitch
  <2>1. w.pc = "encode" /\ w.mode = "legacy" /\ \E pc \in {"jobsucceeded", "assemblyfailed"} : GoTo(pc)
    BY <1>13 DEF LegacyStitch, At
  <2>2. UNCHANGED deliveries /\ UNCHANGED <<plan, g>> /\ UNCHANGED <<assemble, mails, extra, request>>
        /\ film'.published = film.published
    BY <1>0, <1>13 DEF LegacyStitch, deliveries, rows, world, history, TypeOK
  <2>3. WorkingOK' /\ w'.pc \in {"jobsucceeded", "assemblyfailed"} /\ w'.mode = "legacy"
    <3>1. ASSUME NEW pc \in {"jobsucceeded", "assemblyfailed"}, GoTo(pc)
          PROVE  WorkingOK' /\ w'.pc = pc /\ w'.mode = w.mode
      BY <2>1, <2>2, <3>1, Onward
         DEF deliveries, WorkSteps, LateSteps, FilmSteps, SceneSteps, LegacySteps
    <3> QED BY <2>1, <3>1
  <2>4. LateOK'
    BY <1>0, <2>2, <2>3 DEF LateOK, Late, deliveries, LateSteps, FilmSteps, AllDone, CompletedIsDone
  <2> QED BY <2>2, <2>3, <2>4, Aside DEF SceneSteps
<1>14. CASE LegacyAsk \/ LegacyAskFails
  <2>1. w.pc = "ask" /\ (GoTo("release") \/ Leave) /\ extra' \in {extra, extra + 1}
    BY <1>14 DEF LegacyAsk, LegacyAskFails, At
  <2>2. UNCHANGED deliveries /\ UNCHANGED <<plan, g>> /\ UNCHANGED <<film, assemble, mails, request>>
    BY <1>14 DEF LegacyAsk, LegacyAskFails, deliveries, rows, files, history
  <2>3. w'.pc \in {"idle", "release"} BY <1>0, <2>1, GoToFields, LeaveFields
  <2>4. legacy BY <1>0, <2>1 DEF LateOK
  <2>5. mails + extra >= 1 => mails' + extra' >= 1
    <3>1. mails \in Nat /\ extra \in Nat /\ mails' = mails BY <1>0, <2>2 DEF TypeOK
    <3>2. CASE extra' = extra BY <3>1, <3>2
    <3>3. CASE extra' = extra + 1 BY <3>1, <3>3
    <3> QED BY <2>1, <3>2, <3>3
  <2>6. LateOK'
    BY <1>0, <2>2, <2>3, <2>4, <2>5
       DEF LateOK, Late, deliveries, LateSteps, FilmSteps, AllDone, CompletedIsDone
  <2> QED BY <2>2, <2>3, <2>6, Ended, Aside
<1> QED BY <1>1, <1>2, <1>3, <1>4, <1>5, <1>6, <1>7, <1>8, <1>9, <1>10, <1>11, <1>12, <1>13, <1>14
        DEF FilmAndMail

\* The legacy route takes the job: from here on nothing is said about how often.
LEMMA TakenOver ==
  ASSUME IInv, EffectsOK, ProcessJobLegacy PROVE EffectsOK'
<1>0. TypeOK /\ LateOK /\ SentOK /\ SelectedOK /\ LinksOK /\ OnceOK BY DEF IInv, EffectsOK
<1>1. /\ UNCHANGED <<step, bound, marker, prompts, posts, sentModes>> /\ UNCHANGED <<plan, g>>
      /\ UNCHANGED <<film, assemble, mails, extra, request>>
      /\ legacy' = TRUE /\ status' = "running" /\ pipe' = "downloading_assets"
  BY DEF ProcessJobLegacy, files, world
<1>2. w'.pc = "scene" /\ w'.mode = "legacy" /\ (w'.todo # {} => DeliveryOn)
  BY DEF ProcessJobLegacy, Idle
<1>3. WorkingOK' BY <1>1, <1>2 DEF WorkingOK, WorkSteps, LegacySteps, RenderSteps, SceneSteps
<1>4. LateOK' BY <1>0, <1>1, <1>2 DEF LateOK, Late, LateSteps, FilmSteps, AllDone, CompletedIsDone
<1>5. SelectedOK' BY <1>0, <1>1 DEF SelectedOK, OneSelection
<1>6. LinksOK' BY <1>0, <1>1, <1>2 DEF LinksOK, Of, PromptSteps, RenderSteps, SceneSteps
<1>7. SentOK' BY <1>0, <1>1, <1>2 DEF SentOK, ConfirmedMeansPosted
<1>8. Active BY DEF ProcessJobLegacy
<1>9. OnceOK' BY <1>0, <1>1, <1>8 DEF OnceOK
<1>10. FilesOK' /\ AskedOK' BY <1>1 DEF FilesOK, AskedOK
<1> QED BY <1>2, <1>3, <1>4, <1>5, <1>6, <1>7, <1>9, <1>10, NotRendering
        DEF EffectsOK, RenderSteps, SceneSteps

\* What a tick enters with; the plan's rows are written where the deliveries are not.
LEMMA TickEffects ==
  ASSUME IInv, EffectsOK, Tick, Active' => Active PROVE EffectsOK'
<1>0. TypeOK /\ WorkerOK /\ LateOK BY DEF IInv, EffectsOK
<1>1. CASE ProcessJobLegacy BY <1>1, TakenOver
<1>2. CASE ProcessJob \/ RunEpoch \/ ResumePlan \/ LateWorkRejected
  <2>1. /\ UNCHANGED deliveries /\ UNCHANGED <<plan, g>>
        /\ UNCHANGED <<film, assemble, mails, extra, request>>
    BY <1>2 DEF ProcessJob, RunEpoch, ResumePlan, LateWorkRejected, rows, files, world, history, deliveries
  <2>2. w'.pc \in {"idle", "block", "discard", "ensure"} /\ WorkingOK'
    <3>1. CASE ProcessJob
      BY <3>1, Ended DEF ProcessJob, At
    <3>2. CASE LateWorkRejected
      BY <3>2, LeaveFields, Ended DEF LateWorkRejected
    <3>3. CASE \E m \in Modes : Enter(m)
      <4>1. PICK m \in Modes : Enter(m) BY <3>3
      <4>2. w'.mode = m /\ w'.pc \in {"discard", "ensure"}
        BY <1>0, <4>1 DEF Enter, WorkerOK, WorkerStates
      <4> QED BY <4>2 DEF WorkingOK, WorkSteps, LateSteps, FilmSteps, RenderSteps, SceneSteps
    <3>4. CASE GoTo("block")
      BY <1>0, <3>4, GoToFields, Ended
    <3> QED BY <1>2, <3>1, <3>2, <3>3, <3>4 DEF RunEpoch, ResumePlan, Modes
  <2>3. LateOK'
    BY <1>0, <2>1, <2>2 DEF LateOK, Late, deliveries, LateSteps, FilmSteps, AllDone, CompletedIsDone
  <2> QED BY <2>1, <2>2, <2>3, Aside DEF SceneSteps
<1> QED BY <1>1, <1>2 DEF Tick

\* As long as no step was begun, the plan may be any.
LEMMA Replanned ==
  ASSUME IInv, EffectsOK, \A s \in Scenes : step[s] = "absent", UNCHANGED deliveries,
         Active' => Active, UNCHANGED g, w'.pc \notin SceneSteps, WorkingOK', LateOK'
  PROVE  EffectsOK'
<1> USE DEF deliveries
<1>1. /\ \A p \in Prompts : prompts[p].st # "free" => prompts[p].mode = "legacy" /\ legacy
      /\ sentModes \subseteq {"legacy"}
  BY DEF EffectsOK, SelectedOK
<1>2. SelectedOK' BY <1>1 DEF EffectsOK, SelectedOK, OneSelection
<1>3. ~legacy => \A s \in Scenes, r \in {1, 2} : marker[<<s, r>>].st = "none"
  BY DEF EffectsOK, FilesOK
<1>4. FilesOK' BY <1>3 DEF FilesOK
<1>5. ASSUME NEW s PROVE Asked(s)' = Asked(s) /\ Spent(s)' = Spent(s)
  BY DEF Asked, Spent, Of
<1>6. AskedOK'
  <2> SUFFICES ASSUME ~legacy' PROVE AskedOK' BY DEF AskedOK
  <2>1. ASSUME NEW s \in Scenes PROVE PlanMarker(s).st = "none" /\ PlanMarker(s)'.st = "none"
    BY <1>3 DEF PlanMarker, Planned, Rev
  <2> QED BY <1>5, <2>1 DEF EffectsOK, AskedOK, One, Two
<1>7. OnceOK' BY <1>5 DEF EffectsOK, OnceOK, One
<1>8. LinksOK' BY DEF EffectsOK, LinksOK, Of, PromptSteps, RenderSteps, SceneSteps
<1>9. SentOK' BY DEF EffectsOK, SentOK, ConfirmedMeansPosted, SceneSteps
<1> QED BY <1>2, <1>4, <1>6, <1>7, <1>8, <1>9, NotRendering DEF EffectsOK, RenderSteps, SceneSteps

\* The plan is discarded before anything is sent, or kept.
LEMMA DiscardEffects ==
  ASSUME IInv, EffectsOK, Discard, Active' => Active PROVE EffectsOK'
<1>0. TypeOK /\ WorkerOK /\ LateOK BY DEF IInv, EffectsOK
<1>1. UNCHANGED deliveries /\ UNCHANGED g /\ UNCHANGED <<film, assemble, mails, extra, request>>
  BY DEF Discard, files, world, history, deliveries
<1>3. CASE Leave /\ UNCHANGED plan
  <2>1. w'.pc = "idle" BY <1>3, LeaveFields
  <2>2. LateOK'
    BY <1>0, <1>1, <1>3, <2>1 DEF LateOK, Late, deliveries, LateSteps, FilmSteps, AllDone, CompletedIsDone
  <2> QED BY <1>1, <1>3, <2>1, <2>2, Ended, Aside
<1>4. CASE NoEffectIntent /\ plan' = NoPlan /\ GoTo("ensure")
  <2>1. w'.pc = "ensure" BY <1>0, <1>4, GoToFields
  <2>2. WorkingOK' /\ w'.pc \notin SceneSteps
    BY <2>1 DEF WorkingOK, WorkSteps, LateSteps, FilmSteps, RenderSteps, SceneSteps
  <2>3. LateOK'
    BY <1>0, <1>1, <1>4, <2>1
    DEF LateOK, Late, deliveries, LateSteps, FilmSteps, AllDone, CompletedIsDone, NoPlan
  <2> QED BY <1>1, <1>4, <2>2, <2>3, Replanned DEF NoEffectIntent
<1> QED BY <1>3, <1>4 DEF Discard

\* A plan is made before anything is sent, or stays the plan it is.
LEMMA EnsurePlanEffects ==
  ASSUME IInv, EffectsOK, EnsurePlan, Active' => Active PROVE EffectsOK'
<1>0. TypeOK /\ WorkerOK /\ LateOK BY DEF IInv, EffectsOK
<1>1. UNCHANGED deliveries /\ UNCHANGED g /\ UNCHANGED <<film, assemble, mails, extra, request>>
  BY DEF EnsurePlan, files, world, history, deliveries
<1>2. w.pc = "ensure" /\ w.mode \in Modes BY DEF EnsurePlan, At, IInv, SceneOK
<1>3. w'.pc \in {"idle", "release", "open"} /\ WorkingOK'
  <2>1. CASE Leave BY <2>1, LeaveFields, Ended
  <2>2. ASSUME NEW pc \in {"release", "open"}, GoTo(pc), plan'.mode = w.mode
        PROVE  w'.pc = pc /\ WorkingOK'
    <3>1. w'.pc = pc /\ w'.mode = w.mode BY <1>0, <2>2, GoToFields DEF Same
    <3> QED BY <1>2, <2>2, <3>1
        DEF WorkingOK, WorkSteps, LateSteps, FilmSteps, RenderSteps, SceneSteps
  <2> QED BY <2>1, <2>2 DEF EnsurePlan
<1>4. plan'.state = "COMPLETED" => plan.state = "COMPLETED" BY DEF EnsurePlan
<1>5. LateOK'
  BY <1>0, <1>1, <1>3, <1>4 DEF LateOK, Late, deliveries, LateSteps, FilmSteps, AllDone, CompletedIsDone
<1>6. CASE plan = NoPlan
  <2>1. \A s \in Scenes : step[s] = "absent"
    BY <1>6 DEF NoPlan, EffectsOK, SelectedOK
  <2> QED BY <1>1, <1>3, <1>5, <2>1, Replanned DEF SceneSteps
<1>7. CASE plan # NoPlan
  <2>1. UNCHANGED plan BY <1>7 DEF EnsurePlan
  <2> QED BY <1>1, <1>3, <1>5, <2>1, Aside DEF SceneSteps
<1> QED BY <1>6, <1>7

\* The rows of the pipeline and of the job say nothing of the effects.
LEMMA RowEffects ==
  ASSUME IInv, EffectsOK, Transition \/ JobStatus \/ AllDelivered, Active' => Active
  PROVE  EffectsOK'
<1>0. TypeOK /\ WorkerOK /\ LateOK BY DEF IInv, EffectsOK
<1>1. /\ UNCHANGED deliveries /\ UNCHANGED <<plan, g>>
      /\ UNCHANGED <<film, assemble, mails, extra, request>>
  BY DEF Transition, JobStatus, AllDelivered, rows, files, world, history, deliveries
<1>2. ASSUME WorkingOK', w'.pc \notin SceneSteps \cup {"record", "completed"},
             w'.pc = "ask" => legacy', Late(LateSteps)' => AllDone, Late(FilmSteps)' => film.published
      PROVE  EffectsOK'
  <2>1. LateOK' BY <1>0, <1>1, <1>2 DEF LateOK, Late, deliveries, AllDone, CompletedIsDone
  <2> QED BY <1>1, <1>2, <2>1, Aside
<1>3. CASE \E pc \in {"delivering", "encode", "delivered", "open", "committed", "ask"} :
             /\ GoTo(pc)
             /\ \/ w.pc = "open" /\ w.mode # "legacy" /\ pc = "delivering"
                \/ w.pc = "open" /\ w.mode = "legacy" /\ pc = "encode"
                \/ w.pc = "scene" /\ w.mode # "legacy" /\ w.todo = {} /\ pc = "delivered"
                \/ w.pc = "scene" /\ w.mode = "legacy" /\ pc = "open"
                \/ w.pc = "jobsucceeded" /\ w.mode # "legacy" /\ pc = "committed"
                \/ w.pc = "jobsucceeded" /\ w.mode = "legacy" /\ pc = "ask"
  <2>1. PICK pc \in {"delivering", "encode", "delivered", "open", "committed", "ask"} :
             /\ GoTo(pc)
             /\ \/ w.pc = "open" /\ w.mode # "legacy" /\ pc = "delivering"
                \/ w.pc = "open" /\ w.mode = "legacy" /\ pc = "encode"
                \/ w.pc = "scene" /\ w.mode # "legacy" /\ w.todo = {} /\ pc = "delivered"
                \/ w.pc = "scene" /\ w.mode = "legacy" /\ pc = "open"
                \/ w.pc = "jobsucceeded" /\ w.mode # "legacy" /\ pc = "committed"
                \/ w.pc = "jobsucceeded" /\ w.mode = "legacy" /\ pc = "ask"
    BY <1>3
  <2>2. w.pc \in WorkSteps /\ pc \notin SceneSteps \cup {"scene"}
        /\ (w.mode # "legacy" \/ pc \in LegacySteps \/ pc \notin WorkSteps)
    BY <2>1 DEF WorkSteps, LateSteps, FilmSteps, SceneSteps, LegacySteps
  <2>3. UNCHANGED legacy /\ plan'.mode = plan.mode BY <1>1 DEF deliveries
  <2>4. WorkingOK' /\ w'.pc = pc /\ w'.mode = w.mode BY <2>1, <2>2, <2>3, Onward
  <2>5. w'.pc = "ask" => legacy'
    BY <2>1, <2>3, <2>4 DEF EffectsOK, WorkingOK, WorkSteps, LateSteps, FilmSteps, Modes
  <2>6. Late(LateSteps)' => AllDone
    <3>1. CASE pc = "delivered"
      BY <2>1, <3>1 DEF EffectsOK, WorkingOK, AllDone
    <3>2. CASE pc = "committed"
      BY <1>0, <2>1, <3>2 DEF LateOK, Late, LateSteps, FilmSteps
    <3> QED BY <2>1, <2>4, <3>1, <3>2 DEF Late, LateSteps, FilmSteps
  <2>7. Late(FilmSteps)' => film.published
    BY <1>0, <2>1, <2>4 DEF LateOK, Late, FilmSteps
  <2> QED BY <1>2, <2>1, <2>2, <2>4, <2>5, <2>6, <2>7
<1>4. CASE Leave \/ GoTo("jobfailed")
  <2>1. w'.pc \in {"idle", "jobfailed"} BY <1>0, <1>4, GoToFields, LeaveFields
  <2> QED BY <1>2, <2>1, Ended DEF Late, LateSteps, FilmSteps
<1>5. Transition => \/ w.pc = "open" /\ GoTo(IF w.mode = "legacy" THEN "encode" ELSE "delivering")
                    \/ Leave \/ GoTo("jobfailed")
  BY DEF Transition, GoTo, Leave
<1>6. CASE Transition BY <1>3, <1>4, <1>5, <1>6
<1>7. CASE JobStatus BY <1>3, <1>4, <1>7 DEF JobStatus
<1>8. CASE AllDelivered BY <1>3, <1>4, <1>8 DEF AllDelivered, At
<1> QED BY <1>6, <1>7, <1>8

\* The plan advances to what has been done.
LEMMA AdvancePlanEffects ==
  ASSUME IInv, EffectsOK, AdvancePlan, Active' => Active PROVE EffectsOK'
<1>0. TypeOK /\ WorkerOK /\ LateOK BY DEF IInv, EffectsOK
<1>1. UNCHANGED deliveries /\ UNCHANGED g /\ UNCHANGED <<film, assemble, mails, extra, request>>
  BY DEF AdvancePlan, files, world, history, deliveries
<1>2. w.pc \in PlanSteps BY DEF AdvancePlan
<1>7. w.mode \in Modes /\ plan.mode = w.mode /\ w.mode # "legacy"
  BY <1>2, PlanThread DEF PlanSteps, WorkSteps, LateSteps, FilmSteps, LegacySteps, SceneSteps
<1>3. PICK st \in PlanStates : plan' = Advanced(st) /\ (st = "COMPLETED" => w.pc = "completed")
  BY DEF AdvancePlan, PlanSteps, PlanStates
<1>4. plan'.mode = plan.mode
      /\ (plan'.state = "COMPLETED" => plan.state = "COMPLETED" \/ w.pc = "completed")
  BY <1>0, <1>3 DEF Advanced, TypeOK
<1>5. CASE w.pc = "delivering"
  <2>1. w' = [w EXCEPT !.pc = "scene", !.todo = Scenes] BY <1>5 DEF AdvancePlan
  <2>2. w'.pc = "scene" /\ w'.todo = Scenes /\ w'.mode = w.mode
    BY <1>0, <2>1 DEF WorkerOK, WorkerStates
  <2>3. WorkingOK'
    BY <1>4, <1>7, <1>5, <2>2 DEF WorkingOK, WorkSteps, RenderSteps, SceneSteps
  <2>4. LateOK'
    BY <1>0, <1>1, <1>4, <1>5, <2>2
    DEF LateOK, Late, deliveries, LateSteps, FilmSteps, AllDone, CompletedIsDone
  <2> QED BY <1>1, <1>4, <2>2, <2>3, <2>4, Aside DEF SceneSteps
<1>6. CASE w.pc # "delivering"
  <2>1. PICK pc \in {"assemble", "stitched", "encode", "assemblyfailed", "jobsucceeded", "request",
                     "completed", "block", "lookup", "release"} :
          /\ GoTo(pc)
          /\ pc = "stitched" => w.pc = "stitching" /\ assemble = "COMPLETED"
          /\ pc = "completed" => w.pc = "intent" /\ request = "COMPLETED"
          /\ pc \in {"assemble", "encode", "assemblyfailed"}
               <=> w.pc = "delivered" \/ (w.pc = "stitching" /\ pc # "stitched")
    <3>1. CASE w.pc = "stitching"
      <4>1. w' = [w EXCEPT !.pc = IF assemble # "COMPLETED" THEN "encode"
                                  ELSE IF film.intact THEN "stitched" ELSE "assemblyfailed"]
        BY <3>1 DEF AdvancePlan
      <4>2. CASE assemble # "COMPLETED"
        <5>1. GoTo("encode") BY <1>0, <4>1, <4>2 DEF GoTo, TypeOK
        <5> QED BY <3>1, <5>1
      <4>3. CASE assemble = "COMPLETED" /\ film.intact
        <5>1. GoTo("stitched") BY <4>1, <4>3 DEF GoTo
        <5> QED BY <3>1, <4>3, <5>1
      <4>4. CASE assemble = "COMPLETED" /\ ~film.intact
        <5>1. GoTo("assemblyfailed") BY <4>1, <4>4 DEF GoTo
        <5> QED BY <3>1, <5>1
      <4> QED BY <4>2, <4>3, <4>4
    <3>2. CASE w.pc = "intent" BY <1>2, <1>6, <3>2 DEF AdvancePlan, GoTo, PlanSteps
    <3>3. CASE w.pc \in {"delivered", "stitched", "committed", "completed"}
      BY <1>2, <1>6, <3>3 DEF AdvancePlan, GoTo, PlanSteps
    <3> QED BY <1>2, <1>6, <3>1, <3>2, <3>3 DEF PlanSteps
  <2>2. WorkingOK' /\ w'.pc = pc /\ w'.mode = w.mode
    <3>1. w.pc \in WorkSteps /\ pc \notin SceneSteps \cup {"scene"} /\ UNCHANGED legacy
      BY <1>1, <1>2, <2>1 DEF deliveries, WorkSteps, LateSteps, FilmSteps, SceneSteps, PlanSteps
    <3> QED BY <1>4, <1>7, <2>1, <3>1, Onward
  <2>3. AllDone BY <1>0, <1>7, <1>2, <1>6 DEF LateOK, Late, LateSteps, FilmSteps, PlanSteps
  <2>4. w'.pc \in FilmSteps => film.published
    BY <1>0, <1>7, <1>2, <1>6, <2>1, <2>2 DEF LateOK, Late, FilmSteps, PlanSteps
  <2>5. w'.pc = "completed" => mails + extra >= 1 BY <1>0, <2>1, <2>2 DEF LateOK
  <2>6. w'.pc \notin {"record", "ask"} BY <2>1, <2>2
  <2>7. plan'.state = "COMPLETED" => AllDone /\ film.published /\ mails + extra >= 1
    BY <1>0, <1>7, <1>4 DEF LateOK, Late, LateSteps, FilmSteps, CompletedIsDone, AllDone
  <2>8. LateOK'
    BY <1>0, <1>1, <2>3, <2>4, <2>5, <2>6, <2>7 DEF LateOK, Late, deliveries, AllDone, CompletedIsDone
  <2>9. w'.pc \notin SceneSteps BY <2>1, <2>2 DEF SceneSteps
  <2> QED BY <1>1, <1>4, <2>2, <2>8, <2>9, Aside
<1> QED BY <1>5, <1>6

\* The writes to the plan keep the invariant.
LEMMA PlanWorkEffects ==
  ASSUME IInv, EffectsOK, PlanWork, Active' => Active PROVE EffectsOK'
BY DiscardEffects, EnsurePlanEffects, RowEffects, AdvancePlanEffects DEF PlanWork

-----------------------------------------------------------------------------
(* What happens to the prompts without the thread                               *)

\* Prompts get older: none is queued, none comes back, none posts.
Aged ==
  \A p \in Prompts :
    /\ prompts'[p].scene = prompts[p].scene /\ prompts'[p].mode = prompts[p].mode
    /\ prompts'[p].st = "free" <=> prompts[p].st = "free"
    /\ prompts'[p].st = "live" => prompts[p].st = "live"
    /\ Dead(p) => Dead(p)'
    /\ prompts'[p].st \in {"posted", "done"} => prompts[p].st \in {"posted", "done"}

\* A prompt that has posted is seen to have, as long as that may matter.
Seen ==
  Active' /\ ~legacy => \A p \in Prompts : Once(prompts[p].scene) /\ prompts[p].st \in {"posted", "done"}
                                             => prompts'[p].st \in {"posted", "done"}

\* A cancel makes prompts older.
LEMMA CancelAges ==
  ASSUME TypeOK, NEW P, CancelSome(P) PROVE Aged
<1>1. PICK hit \in SUBSET {p \in P : Running(p)} :
        prompts' = [p \in Prompts |->
          IF p \notin hit THEN prompts[p]
          ELSE [prompts[p] EXCEPT !.st = IF @ = "live" THEN "gone" ELSE "failed"]]
  BY DEF CancelSome
<1> SUFFICES ASSUME NEW p \in Prompts
             PROVE  /\ prompts'[p].scene = prompts[p].scene /\ prompts'[p].mode = prompts[p].mode
                    /\ prompts'[p].st = "free" <=> prompts[p].st = "free"
                    /\ prompts'[p].st = "live" => prompts[p].st = "live"
                    /\ Dead(p) => Dead(p)'
                    /\ prompts'[p].st \in {"posted", "done"} => prompts[p].st \in {"posted", "done"}
  BY DEF Aged
<1>2. prompts[p] \in PromptRecords BY DEF TypeOK
<1>3. CASE p \notin hit BY <1>1, <1>3 DEF Dead
<1>4. CASE p \in hit
  <2>1. Running(p) BY <1>4
  <2>2. prompts'[p] = [prompts[p] EXCEPT !.st = IF @ = "live" THEN "gone" ELSE "failed"]
    BY <1>1, <1>4
  <2> QED BY <1>2, <2>1, <2>2 DEF Running, Dead, PromptRecords
<1> QED BY <1>3, <1>4

\* Who was asked for does not change, and nobody loses a post.
LEMMA AgedAsked ==
  ASSUME Aged, NEW s PROVE Asked(s)' = Asked(s) /\ Spent(s) \subseteq Spent(s)'
BY DEF Aged, Asked, Spent, Of

\* Older prompts keep the facts about the deliveries.
LEMMA AgedTables ==
  ASSUME IInv, EffectsOK, Aged, Seen, UNCHANGED <<step, bound, marker, posts, sentModes, legacy>>,
         plan'.mode = plan.mode, Active' => Active, g' = "prompts" => g = "prompts" \/ ~Active'
  PROVE  /\ SelectedOK' /\ FilesOK' /\ AskedOK' /\ OnceOK'
         /\ \A s \in Scenes, r \in {1, 2} :
              /\ marker'[<<s, r>>].prompt # NoPrompt => Of(marker[<<s, r>>].prompt, s)'
              /\ marker'[<<s, r>>].st = "queued" => marker'[<<s, r>>].prompt # NoPrompt
         /\ \A s \in Scenes : bound'[s] # NoPrompt => Of(bound[s], s)'
         /\ \A p \in Prompts : prompts'[p].st \in {"posted", "done"} => posts'[prompts'[p].scene] >= 1
<1>0. ASSUME NEW s PROVE PlanMarker(s)' = PlanMarker(s) BY DEF PlanMarker, Planned, Rev
<1>1. SelectedOK' /\ FilesOK'
  BY DEF EffectsOK, SelectedOK, FilesOK, OneSelection, Aged, Rev, Clip
<1>2. AskedOK'
  <2> SUFFICES ASSUME ~legacy, NEW s \in Scenes
               PROVE  /\ Two(Asked(s)') /\ posts'[s] <= 2
                      /\ posts'[s] >= 1 => Spent(s)' # {}
                      /\ posts'[s] = 2 => ~One(Spent(s)')
                      /\ bound'[s] = NoPrompt => One(Asked(s)')
                      /\ PlanMarker(s).st = "none" => Asked(s)' = {} /\ bound'[s] = NoPrompt
                      /\ Active' /\ PlanMarker(s).st = "failed" /\ bound'[s] = NoPrompt => Asked(s)' = {}
                      /\ Active' /\ PlanMarker(s).st = "queued" => bound'[s] # NoPrompt
    BY <1>0 DEF AskedOK, One, Two
  <2>1. Asked(s)' = Asked(s) /\ Spent(s) \subseteq Spent(s)' BY AgedAsked
  <2> QED BY <2>1 DEF EffectsOK, AskedOK, One, Two
<1>3. OnceOK'
  <2>1. g' = "prompts" => ~Active' BY DEF EffectsOK, OnceOK
  <2>2. ASSUME ~legacy, NEW s \in Scenes, Once(s)
        PROVE  /\ posts'[s] <= 1
               /\ One({p \in Asked(s)' : prompts'[p].st = "live"})
               /\ posts'[s] = 1 => \A p \in Asked(s)' : prompts'[p].st # "live"
               /\ Active' /\ posts'[s] = 1 => \E p \in Asked(s)' : prompts'[p].st \in {"posted", "done"}
    <3>1. Asked(s)' = Asked(s) BY AgedAsked
    <3>2. \A p \in Asked(s) : p \in Prompts /\ prompts[p].scene = s BY DEF Asked, Of
    <3> QED BY <2>2, <3>1, <3>2 DEF EffectsOK, OnceOK, One, Aged, Seen
  <2> QED BY <2>1, <2>2 DEF OnceOK, One, Once
<1>4. /\ \A s \in Scenes, r \in {1, 2} :
           /\ marker'[<<s, r>>].prompt # NoPrompt => Of(marker[<<s, r>>].prompt, s)'
           /\ marker'[<<s, r>>].st = "queued" => marker'[<<s, r>>].prompt # NoPrompt
      /\ \A s \in Scenes : bound'[s] # NoPrompt => Of(bound[s], s)'
  BY DEF EffectsOK, LinksOK, Of, Aged
<1>5. \A p \in Prompts : prompts'[p].st \in {"posted", "done"} => posts'[prompts'[p].scene] >= 1
  BY DEF EffectsOK, SentOK, Aged
<1> QED BY <1>1, <1>2, <1>3, <1>4, <1>5

\* And while the thread waits where it is, all the facts.
LEMMA AgedKeeps ==
  ASSUME IInv, EffectsOK, Aged, Seen, UNCHANGED <<step, bound, marker, posts, sentModes, legacy>>,
         UNCHANGED <<plan, film, assemble, mails, extra, request, w>>, Active' => Active,
         g' = "prompts" => g = "prompts" \/ ~Active'
  PROVE  EffectsOK'
<1>0. ASSUME NEW s PROVE PlanMarker(s)' = PlanMarker(s) BY DEF PlanMarker, Planned, Rev
<1>1. SelectedOK' /\ FilesOK' /\ AskedOK' /\ OnceOK' BY AgedTables
<1>2. LinksOK'
  <2>1. w.pc \in RenderSteps /\ w.existing # NoPrompt => Of(w.existing, w.scene)' /\ bound'[w.scene] # NoPrompt
    BY DEF EffectsOK, LinksOK, Of, Aged
  <2>2. w.pc \in PromptSteps => Of(w.prompt, w.scene)'
    BY DEF EffectsOK, LinksOK, Of, Aged
  <2> QED BY <2>1, <2>2, AgedTables DEF LinksOK, Of
<1>3. SentOK' BY AgedTables DEF EffectsOK, SentOK, ConfirmedMeansPosted
<1>4. LateOK' /\ WorkingOK'
  BY DEF EffectsOK, LateOK, Late, WorkingOK, AllDone, CompletedIsDone
<1>5. Asked(w.scene)' = Asked(w.scene) BY AgedAsked
<1>6. AskingOK' BY <1>0, <1>5 DEF EffectsOK, AskingOK, Holding, Postable, One
<1>7. AgainOK'
  <2> SUFFICES ASSUME ~legacy, w.pc \in RenderSteps, Once(w.scene)
               PROVE  /\ w.pc \in {"rehistory", "requeue"} => Dead(w.prompt)'
                      /\ w.pc \in {"intend", "post"} => Unsent(w.scene)'
                      /\ Holding /\ Active' =>
                           /\ Postable => Unsent(w.scene)'
                           /\ w.pc \in PromptSteps => \A p \in Asked(w.scene) : p = w.prompt \/ Dead(p)'
    BY <1>0, <1>5 DEF AgainOK, Holding, Postable, Once
  <2>1. \A p \in Asked(w.scene) : p \in Prompts /\ (Dead(p) => Dead(p)') BY DEF Asked, Of, Aged
  <2>2. w.pc \in {"rehistory", "requeue"} => w.prompt \in Prompts
    BY DEF EffectsOK, LinksOK, PromptSteps, Of
  <2>3. Unsent(w.scene) => Unsent(w.scene)' BY <1>5, <2>1 DEF Unsent
  <2> QED BY <2>1, <2>2, <2>3 DEF EffectsOK, AgainOK, Aged
<1> QED BY <1>1, <1>2, <1>3, <1>4, <1>6, <1>7 DEF EffectsOK

\* The launchers and the GUI change the rows of the pipeline, or stop the thread.
LEMMA EnvironmentEffects ==
  ASSUME IInv, EffectsOK, Environment, Active' => Active PROVE EffectsOK'
<1>0. TypeOK /\ WorkerOK /\ LateOK BY DEF IInv, EffectsOK
<1>1. CASE Crash
  <2>1. /\ UNCHANGED deliveries /\ UNCHANGED plan /\ UNCHANGED <<film, assemble, mails, extra, request>>
        /\ g' = "idle"
    BY <1>1 DEF Crash, rows, files, world, history, deliveries
  <2>2. w'.pc = "idle" BY <1>1, LeaveFields DEF Crash
  <2>3. LateOK'
    BY <1>0, <2>1, <2>2 DEF LateOK, Late, deliveries, LateSteps, FilmSteps, AllDone, CompletedIsDone
  <2> QED BY <2>1, <2>2, <2>3, Ended, Aside
<1>2. CASE GuiCancel \/ Launch \/ LaunchFinish
  <2>1. /\ UNCHANGED deliveries
        /\ UNCHANGED <<plan, film, assemble, mails, extra, request, w>>
    BY <1>2 DEF GuiCancel, Launch, LaunchFinish, rows, files, world, history, deliveries
  <2>2. g' = "prompts" => g = "prompts" \/ ~Active'
    BY <1>2 DEF GuiCancel, Launch, LaunchFinish, Abandoned, Active
  <2>3. Aged /\ Seen BY <2>1 DEF deliveries, Aged, Seen, Dead
  <2> QED BY <2>1, <2>2, <2>3, AgedKeeps DEF deliveries
<1>3. CASE GuiCancelPrompts
  <2>1. /\ UNCHANGED <<step, bound, marker, posts, sentModes, legacy>>
        /\ UNCHANGED <<plan, film, assemble, mails, extra, request, w>> /\ g' = "idle"
    BY <1>3 DEF GuiCancelPrompts, rows, files, history
  <2>2. ~Active' BY <1>3 DEF GuiCancelPrompts, EffectsOK, OnceOK
  <2>3. Aged BY <1>0, <1>3, CancelAges DEF GuiCancelPrompts
  <2>4. Seen BY <2>2 DEF Seen
  <2> QED BY <2>1, <2>2, <2>3, <2>4, AgedKeeps
<1>4. CASE LaunchAbandon
  <2>1. /\ UNCHANGED <<step, bound, marker, posts, sentModes, legacy>>
        /\ UNCHANGED <<plan, film, assemble, mails, extra, request, w, g>>
    BY <1>4 DEF LaunchAbandon, files, history
  <2>2. ~Active' BY <1>4 DEF LaunchAbandon, Abandoned, Active
  <2>3. Aged BY <1>0, <1>4, CancelAges DEF LaunchAbandon
  <2>4. Seen BY <2>2 DEF Seen
  <2> QED BY <2>1, <2>2, <2>3, <2>4, AgedKeeps
<1> QED BY <1>1, <1>2, <1>3, <1>4 DEF Environment

\* A prompt posts its scene: asked for, and not yet counted.
LEMMA PromptPostsEffects ==
  ASSUME IInv, EffectsOK, NEW p \in Prompts, PromptPosts(p) PROVE EffectsOK'
<1> DEFINE s0 == prompts[p].scene
<1>1. /\ UNCHANGED <<pipe, status, plan, step, bound, assemble, request, marker, film>>
      /\ UNCHANGED <<mails, extra, w, g, legacy>>
      /\ prompts' = [prompts EXCEPT ![p].st = "posted"]
      /\ posts' = [posts EXCEPT ![s0] = @ + 1]
      /\ sentModes' = sentModes \cup {prompts[p].mode}
      /\ prompts[p].st = "live"
  BY DEF PromptPosts, rows, files, history
<1>2. prompts \in [Prompts -> PromptRecords] /\ posts \in [Scenes -> Nat] BY DEF IInv, TypeOK
<1>3. /\ DeliveryOn /\ s0 \in Scenes
      /\ \/ prompts[p].mode = "legacy" /\ legacy
         \/ prompts[p].mode = plan.mode /\ step[s0] # "absent"
  BY <1>1 DEF EffectsOK, SelectedOK
<1>4. /\ prompts'[p].st = "posted" /\ prompts'[p].scene = s0 /\ prompts'[p].mode = prompts[p].mode
      /\ \A q \in Prompts : q # p => prompts'[q] = prompts[q]
  BY <1>1, <1>2 DEF PromptRecords
<1>5. posts'[s0] = posts[s0] + 1 /\ \A s \in Scenes : s # s0 => posts'[s] = posts[s]
  BY <1>1, <1>2, <1>3
<1>6. ASSUME NEW s PROVE Asked(s)' = Asked(s) BY <1>1, <1>4 DEF Asked, Of
<1>7. ASSUME NEW s, s # s0 PROVE Spent(s)' = Spent(s) BY <1>4, <1>6, <1>7 DEF Asked, Spent, Of
<1>8. Spent(s0)' = Spent(s0) \cup {p} /\ p \notin Spent(s0) /\ p \in Asked(s0)
  BY <1>1, <1>4, <1>6 DEF Asked, Spent, Of
<1>9. (Active' <=> Active) /\ \A s : PlanMarker(s)' = PlanMarker(s) BY <1>1 DEF Active, PlanMarker, Planned, Rev
<1>10. SelectedOK' /\ FilesOK'
  <2>1. FilesOK' BY <1>1 DEF EffectsOK, FilesOK, Rev, Clip
  <2>2. sentModes' \subseteq {plan.mode, "legacy"} BY <1>1, <1>3 DEF EffectsOK, SelectedOK, OneSelection
  <2>3. sentModes' \subseteq {"legacy"} \/ \E s \in Scenes : step[s] # "absent"
    BY <1>1, <1>3 DEF EffectsOK, SelectedOK
  <2> QED BY <1>1, <1>4, <2>1, <2>2, <2>3 DEF EffectsOK, SelectedOK, OneSelection
<1>11. ASSUME NEW q, NEW s PROVE Of(q, s)' <=> Of(q, s) BY <1>1, <1>4 DEF Of
<1>12. LinksOK' BY <1>1, <1>11 DEF EffectsOK, LinksOK
<1>13. SentOK'
  <2>1. \A s \in Scenes : posts[s] >= 1 => posts'[s] >= 1 BY <1>2, <1>5
  <2>2. \A q \in Prompts : prompts'[q].st \in {"posted", "done"} => posts'[prompts'[q].scene] >= 1
    <3> SUFFICES ASSUME NEW q \in Prompts, prompts'[q].st \in {"posted", "done"}
                 PROVE  posts'[prompts'[q].scene] >= 1
      OBVIOUS
    <3>1. CASE q = p BY <1>2, <1>3, <1>4, <1>5, <3>1
    <3>2. CASE q # p
      <4>1. prompts[q].scene \in Scenes BY <1>4, <3>2 DEF EffectsOK, SelectedOK
      <4> QED BY <1>4, <2>1, <3>2, <4>1 DEF EffectsOK, SentOK
    <3> QED BY <3>1, <3>2
  <2>3. w.pc \in {"commit", "sent", "confirm"} => w.scene \in Scenes BY HasScene DEF SceneSteps
  <2> QED BY <1>1, <2>1, <2>2, <2>3 DEF EffectsOK, SentOK, ConfirmedMeansPosted
<1>14. LateOK' /\ WorkingOK'
  BY <1>1 DEF EffectsOK, LateOK, Late, WorkingOK, AllDone, CompletedIsDone
<1>15. AskedOK'
  <2> SUFFICES ASSUME ~legacy PROVE AskedOK' BY <1>1 DEF AskedOK
  <2>1. ASSUME NEW s \in Scenes
        PROVE  /\ posts'[s] <= 2
               /\ posts'[s] >= 1 => Spent(s)' # {}
               /\ posts'[s] = 2 => ~One(Spent(s)')
    <3>1. CASE s # s0 BY <1>5, <1>7, <3>1 DEF EffectsOK, AskedOK, One
    <3>2. CASE s = s0
      <4>1. posts[s0] \in {0, 1, 2} /\ Two(Asked(s0)) BY <1>2, <1>3 DEF EffectsOK, AskedOK
      <4>2. posts[s0] # 2
        <5> SUFFICES ASSUME posts[s0] = 2 PROVE FALSE OBVIOUS
        <5>1. PICK q, r \in Spent(s0) : q # r BY <1>3 DEF EffectsOK, AskedOK, One
        <5>2. q \in Asked(s0) /\ r \in Asked(s0) /\ q # p /\ r # p BY <1>8 DEF Spent
        <5> QED BY <1>8, <4>1, <5>1, <5>2 DEF Two
      <4>3. posts[s0] = 1 => Spent(s0) # {} BY <1>3 DEF EffectsOK, AskedOK
      <4>4. posts[s0] = 1 => ~One(Spent(s0) \cup {p}) BY <1>8, <4>3 DEF One
      <4>5. Spent(s)' = Spent(s0) \cup {p}
        BY <1>1, <1>4, <3>2 DEF Asked, Spent, Of
      <4>6. posts'[s] = posts[s0] + 1 BY <1>5, <3>2
      <4>7. Spent(s)' # {} BY <4>5
      <4>8. posts'[s] = 2 => ~One(Spent(s)') BY <4>1, <4>4, <4>5, <4>6
      <4> QED BY <4>1, <4>2, <4>6, <4>7, <4>8
    <3> QED BY <3>1, <3>2
  <2> QED BY <1>1, <1>6, <1>9, <2>1 DEF EffectsOK, AskedOK, One, Two
<1>16. AskingOK' BY <1>1, <1>6, <1>9 DEF EffectsOK, AskingOK, Holding, Postable, One
<1>17. OnceOK'
  <2>0. g' = "prompts" => ~Active' BY <1>1, <1>9 DEF EffectsOK, OnceOK
  <2> SUFFICES ASSUME ~legacy PROVE OnceOK' BY <1>1, <2>0 DEF OnceOK
  <2>1. ASSUME NEW s \in Scenes, Once(s)
        PROVE  /\ posts'[s] <= 1
               /\ One({q \in Asked(s) : prompts'[q].st = "live"})
               /\ posts'[s] = 1 => \A q \in Asked(s) : prompts'[q].st # "live"
               /\ Active /\ posts'[s] = 1 => \E q \in Asked(s) : prompts'[q].st \in {"posted", "done"}
    <3>1. CASE s # s0
      <4>1. \A q \in Asked(s) : prompts'[q] = prompts[q] BY <1>4, <3>1 DEF Asked, Of
      <4> QED BY <1>5, <2>1, <3>1, <4>1 DEF EffectsOK, OnceOK, One
    <3>2. CASE s = s0
      <4>0. Once(s0) BY <2>1, <3>2
      <4>1. posts[s0] = 0
        <5>1. posts[s0] \in Nat /\ posts[s0] <= 1 BY <1>2, <1>3, <4>0 DEF EffectsOK, OnceOK
        <5>2. posts[s0] # 1 BY <1>1, <1>3, <1>8, <4>0 DEF EffectsOK, OnceOK
        <5> QED BY <5>1, <5>2
      <4>2. \A q \in Asked(s0) : prompts[q].st = "live" => q = p
        BY <1>1, <1>3, <1>8, <2>1, <3>2 DEF EffectsOK, OnceOK, One
      <4>3. \A q \in Asked(s0) : prompts'[q].st # "live" BY <1>4, <4>2 DEF Asked, Of
      <4> QED BY <1>4, <1>5, <1>8, <3>2, <4>1, <4>3 DEF One
    <3> QED BY <3>1, <3>2
  <2> QED BY <1>1, <1>6, <1>9, <2>1 DEF EffectsOK, OnceOK, Once, One
<1>18. AgainOK'
  <2> SUFFICES ASSUME ~legacy, w.pc \in RenderSteps, Once(w.scene)
               PROVE  /\ w.pc \in {"rehistory", "requeue"} => Dead(w.prompt)'
                      /\ w.pc \in {"intend", "post"} => Unsent(w.scene)'
                      /\ Holding /\ Active =>
                           /\ Postable => Unsent(w.scene)'
                           /\ w.pc \in PromptSteps =>
                                \A q \in Asked(w.scene) : q = w.prompt \/ Dead(q)'
    BY <1>1, <1>6, <1>9 DEF AgainOK, Holding, Postable, Once
  <2>1. ~Dead(p) BY <1>1 DEF Dead
  <2>2. \A q \in Prompts : Dead(q) => Dead(q)' BY <1>1, <1>4, <2>1 DEF Dead
  <2>3. w.scene \in Scenes BY HasScene DEF RenderSteps
  <2>4. Unsent(w.scene) => Unsent(w.scene)'
    <3> SUFFICES ASSUME Unsent(w.scene) PROVE Unsent(w.scene)' OBVIOUS
    <3>1. w.scene # s0 BY <1>8, <2>1 DEF Unsent
    <3>2. Asked(w.scene) \subseteq Prompts BY DEF Asked
    <3> QED BY <1>1, <1>5, <1>6, <2>2, <2>3, <3>1, <3>2 DEF Unsent
  <2>5. \A q \in Asked(w.scene) : q \in Prompts BY DEF Asked
  <2>6. w.pc \in PromptSteps => w.prompt \in Prompts BY DEF EffectsOK, LinksOK, Of
  <2>7. w.pc \in {"rehistory", "requeue"} => Dead(w.prompt)'
    <3>1. w.pc \in {"rehistory", "requeue"} => w.pc \in PromptSteps BY DEF PromptSteps
    <3>2. w.pc \in {"rehistory", "requeue"} => Dead(w.prompt) BY DEF EffectsOK, AgainOK
    <3>3. ASSUME w.pc \in {"rehistory", "requeue"} PROVE Dead(w.prompt)'
      <4>1. w' = w BY <1>1
      <4>2. w.prompt \in Prompts /\ Dead(w.prompt) BY <2>6, <3>1, <3>2, <3>3
      <4> QED BY <1>4, <4>1, <4>2, <2>1 DEF Dead
    <3> QED BY <3>3
  <2>8. w.pc \in {"intend", "post"} => Unsent(w.scene)' BY <2>4 DEF EffectsOK, AgainOK
  <2>9. Holding /\ Active =>
          /\ Postable => Unsent(w.scene)
          /\ w.pc \in PromptSteps => \A q \in Asked(w.scene) : q = w.prompt \/ Dead(q)
    BY DEF EffectsOK, AgainOK
  <2> QED BY <2>2, <2>4, <2>5, <2>7, <2>8, <2>9
<1> QED BY <1>10, <1>12, <1>13, <1>14, <1>15, <1>16, <1>17, <1>18 DEF EffectsOK

\* ComfyUI posts, ends, fails or forgets its prompts.
LEMMA ComfyUIEffects ==
  ASSUME IInv, EffectsOK, ComfyUI PROVE EffectsOK'
<1>0. prompts \in [Prompts -> PromptRecords] BY DEF IInv, TypeOK
<1>1. ASSUME NEW p \in Prompts, PromptEnds(p) \/ PromptErrors(p) PROVE EffectsOK'
  <2>1. /\ UNCHANGED <<step, bound, marker, posts, sentModes, legacy, pipe, status, g>>
        /\ UNCHANGED <<plan, film, assemble, mails, extra, request, w>>
    BY <1>1 DEF PromptEnds, PromptErrors, rows, files, history
  <2>2. PICK st \in {"done", "failed"} :
          /\ prompts' = [prompts EXCEPT ![p].st = st]
          /\ prompts[p].st = IF st = "done" THEN "posted" ELSE "live"
    BY <1>1 DEF PromptEnds, PromptErrors
  <2>3. /\ prompts'[p].st = st /\ prompts'[p].scene = prompts[p].scene
        /\ prompts'[p].mode = prompts[p].mode
        /\ \A q \in Prompts : q # p => prompts'[q] = prompts[q]
    BY <1>0, <2>2 DEF PromptRecords
  <2>4. Aged /\ Seen BY <2>2, <2>3 DEF Aged, Seen, Dead
  <2>5. Active' <=> Active BY <2>1 DEF Active
  <2> QED BY <2>1, <2>4, <2>5, AgedKeeps
<1>2. CASE ComfyRestart
  <2>1. /\ UNCHANGED <<step, bound, marker, posts, sentModes, legacy, pipe, status, g>>
        /\ UNCHANGED <<plan, film, assemble, mails, extra, request, w>>
    BY <1>2 DEF ComfyRestart, rows, files, history
  <2>2. \A p \in Prompts : /\ prompts[p].st = "free" => prompts'[p] = prompts[p]
                           /\ prompts[p].st # "free" =>
                                /\ prompts'[p].st = "gone" /\ prompts'[p].scene = prompts[p].scene
                                /\ prompts'[p].mode = prompts[p].mode
    BY <1>0, <1>2 DEF ComfyRestart, PromptRecords
  <2>3. Aged BY <2>2 DEF Aged, Dead
  <2>4. Seen BY <1>2 DEF Seen, Once, ComfyRestart
  <2>5. Active' <=> Active BY <2>1 DEF Active
  <2> QED BY <2>1, <2>3, <2>4, <2>5, AgedKeeps
<1> QED BY <1>1, <1>2, PromptPostsEffects DEF ComfyUI

-----------------------------------------------------------------------------
(* The delivery of a scene: what the rows say, and what the thread may still do *)

AfterScenes == LateSteps \cup {"ask"}
RowsLinked ==
  /\ \A s \in Scenes, r \in {1, 2} :
       /\ marker[<<s, r>>].prompt # NoPrompt => Of(marker[<<s, r>>].prompt, s)
       /\ marker[<<s, r>>].st = "queued" => marker[<<s, r>>].prompt # NoPrompt
  /\ \A s \in Scenes : bound[s] # NoPrompt => Of(bound[s], s)
RowsSent ==
  /\ \A p \in Prompts : prompts[p].st \in {"posted", "done"} => posts[prompts[p].scene] >= 1
  /\ \A s \in Scenes, r \in {1, 2} : marker[<<s, r>>].st = "sent" => posts[s] >= 1
  /\ ConfirmedMeansPosted
RowsOK == SelectedOK /\ FilesOK /\ RowsLinked /\ RowsSent /\ LateOK /\ AskedOK /\ OnceOK
ThreadOK ==
  /\ w.pc \in RenderSteps /\ w.existing # NoPrompt =>
       Of(w.existing, w.scene) /\ bound[w.scene] # NoPrompt
  /\ w.pc \in PromptSteps => Of(w.prompt, w.scene)
  /\ w.pc \in {"commit", "sent", "confirm"} /\ DeliveryOn => posts[w.scene] >= 1
others == <<pipe, status, plan, assemble, request, film, mails, extra, g, legacy>>

\* The invariant is what rows and thread say each, and what relates the two.
LEMMA Parts ==
  ASSUME RowsOK', ThreadOK', WorkingOK', AskingOK', AgainOK' PROVE EffectsOK'
BY DEF RowsOK, ThreadOK, RowsLinked, RowsSent, EffectsOK, LinksOK, SentOK

LEMMA PartsOf == ASSUME EffectsOK PROVE RowsOK /\ ThreadOK
BY DEF RowsOK, ThreadOK, RowsLinked, RowsSent, EffectsOK, LinksOK, SentOK

\* Whether the job is active is a matter of its rows.
LEMMA SameActive == ASSUME UNCHANGED others PROVE Active' <=> Active
BY DEF others, Active

\* The film and the request wait as long as scenes are delivered.
LEMMA LateKept ==
  ASSUME EffectsOK, UNCHANGED others, UNCHANGED step, w'.pc \notin AfterScenes PROVE LateOK'
BY DEF EffectsOK, others, LateOK, Late, AllDone, CompletedIsDone, AfterScenes, LateSteps, FilmSteps

\* Nothing is written.
LEMMA RowsKept ==
  ASSUME EffectsOK, UNCHANGED deliveries, UNCHANGED others, w'.pc \notin AfterScenes
  PROVE  RowsOK'
<1>1. plan'.mode = plan.mode /\ (Active' => Active) /\ (g' = "prompts" => g = "prompts" \/ ~Active')
  BY SameActive DEF others
<1>2. SelectedOK' /\ FilesOK' /\ AskedOK' /\ OnceOK' BY <1>1, TablesKept
<1>3. LateOK' BY LateKept DEF deliveries
<1>4. RowsLinked' BY PartsOf DEF RowsOK, RowsLinked, deliveries, Of
<1>5. RowsSent' BY PartsOf DEF RowsOK, RowsSent, deliveries, ConfirmedMeansPosted
<1> QED BY <1>2, <1>3, <1>4, <1>5 DEF RowsOK

\* What the plan reads of the markers after one was written.
LEMMA MarkedPlan ==
  ASSUME IInv, EffectsOK, ~legacy, w.pc \in SceneSteps, NEW st, NEW p, marker' = Marked(st, p),
         plan' = plan
  PROVE  \A s \in Scenes : IF s = w.scene THEN PlanMarker(s)'.st = st ELSE PlanMarker(s)' = PlanMarker(s)
<1>0. TypeOK /\ w.scene \in Scenes BY HasScene DEF IInv
<1>1. File = Planned(w.scene) /\ \A s \in Scenes : s # w.scene => Planned(s) # File
  BY PlanFile, PlanThread DEF WorkSteps
<1>2. marker'[File].st = st
      /\ \A s \in Scenes, r \in {1, 2} : <<s, r>> # File => marker'[<<s, r>>] = marker[<<s, r>>]
  BY <1>0, MarkedFields
<1> SUFFICES ASSUME NEW s \in Scenes
             PROVE  IF s = w.scene THEN PlanMarker(s)'.st = st ELSE PlanMarker(s)' = PlanMarker(s)
  OBVIOUS
<1>3. PlanMarker(s)' = marker'[Planned(s)] BY DEF PlanMarker, Planned, Rev
<1>4. Rev(s, plan.mode) \in {1, 2} BY DEF Rev
<1>5. CASE s = w.scene BY <1>1, <1>2, <1>3, <1>5
<1>6. CASE s # w.scene BY <1>1, <1>2, <1>3, <1>4, <1>6 DEF Planned, PlanMarker
<1> QED BY <1>5, <1>6

\* The marker of the scene at hand is written.
LEMMA MarkerWritten ==
  ASSUME IInv, EffectsOK, w.pc \in RenderSteps, NEW st, NEW p, marker' = Marked(st, p),
         UNCHANGED <<step, bound, prompts, posts, sentModes>>, UNCHANGED others,
         w'.pc \notin AfterScenes, st # "none", p # NoPrompt => Of(p, w.scene),
         st = "queued" => p # NoPrompt /\ (~legacy /\ Active => bound[w.scene] # NoPrompt),
         st = "sent" => posts[w.scene] >= 1,
         st = "failed" /\ ~legacy /\ Active /\ bound[w.scene] = NoPrompt => Asked(w.scene) = {}
  PROVE  RowsOK'
<1>0. TypeOK /\ w.scene \in Scenes /\ w.pc \in SceneSteps BY HasScene DEF IInv, RenderSteps
<1>1. /\ marker'[File].st = st /\ marker'[File].prompt = p /\ marker'[File].clip = Clip(w.scene, w.mode)
      /\ \A s \in Scenes, r \in {1, 2} : <<s, r>> # File => marker'[<<s, r>>] = marker[<<s, r>>]
  BY <1>0, MarkedFields
<1>2. Active' <=> Active BY SameActive
<1>3. plan' = plan /\ g' = g /\ legacy' = legacy BY DEF others
<1>4. \A s \in Scenes, r \in {1, 2} : <<s, r>> = File => s = w.scene BY DEF File
<1>5. ASSUME NEW s PROVE Asked(s)' = Asked(s) /\ Spent(s)' = Spent(s) BY DEF Asked, Spent, Of
<1>6. SelectedOK' BY <1>3 DEF EffectsOK, SelectedOK, OneSelection
<1>7. FilesOK'
  <2> SUFFICES ASSUME ~legacy PROVE FilesOK' BY <1>3 DEF FilesOK
  <2>1. w.mode = plan.mode /\ step[w.scene] # "absent" /\ w.mode # "legacy"
    BY <1>0, PlanThread DEF EffectsOK, WorkingOK, WorkSteps
  <2>2. File = <<w.scene, Rev(w.scene, plan.mode)>> BY <2>1 DEF File
  <2> SUFFICES ASSUME NEW s \in Scenes, NEW r \in {1, 2}, marker'[<<s, r>>].st # "none"
               PROVE  /\ r = Rev(s, plan.mode) /\ step[s] # "absent"
                      /\ marker'[<<s, r>>].clip = Clip(s, plan.mode)
    BY <1>3 DEF FilesOK, Rev, Clip
  <2>3. CASE <<s, r>> = File BY <1>1, <2>1, <2>2, <2>3
  <2>4. CASE <<s, r>> # File BY <1>1, <2>4 DEF EffectsOK, FilesOK
  <2> QED BY <2>3, <2>4
<1>8. AskedOK'
  <2> SUFFICES ASSUME ~legacy PROVE AskedOK' BY <1>3 DEF AskedOK
  <2>1. \A s \in Scenes : IF s = w.scene THEN PlanMarker(s)'.st = st ELSE PlanMarker(s)' = PlanMarker(s)
    BY <1>0, <1>3, MarkedPlan
  <2> QED BY <1>2, <1>5, <2>1 DEF EffectsOK, AskedOK, One, Two
<1>9. OnceOK' BY <1>2, <1>3, <1>5 DEF EffectsOK, OnceOK, One
<1>10. LateOK' BY LateKept
<1>11. RowsLinked' BY <1>1, <1>4, PartsOf DEF RowsOK, RowsLinked, Of
<1>12. RowsSent' BY <1>1, <1>4, PartsOf DEF RowsOK, RowsSent, ConfirmedMeansPosted
<1> QED BY <1>6, <1>7, <1>8, <1>9, <1>10, <1>11, <1>12 DEF RowsOK

\* The receipt of the scene at hand names a prompt of the scene.
LEMMA BoundWritten ==
  ASSUME IInv, EffectsOK, w.pc \in PromptSteps, bound' = Recorded,
         UNCHANGED <<step, marker, prompts, posts, sentModes>>, UNCHANGED others,
         w'.pc \notin AfterScenes
  PROVE  RowsOK' /\ (bound[w.scene] # NoPrompt \/ ~legacy => bound'[w.scene] # NoPrompt)
<1>0. TypeOK /\ w.scene \in Scenes /\ w.pc \in SceneSteps
  BY HasScene DEF IInv, PromptSteps, SceneSteps
<1>1. CASE w.mode = "legacy"
  <2>1. bound' = bound /\ legacy
    BY <1>0, <1>1, PlanThread DEF Recorded, WorkSteps
  <2>2. UNCHANGED deliveries BY <2>1 DEF deliveries, others
  <2> QED BY <2>1, <2>2, RowsKept
<1>2. CASE w.mode # "legacy"
  <2>1. Of(w.prompt, w.scene) /\ w.prompt # NoPrompt
    BY PromptAssumption, PartsOf DEF ThreadOK, Of
  <2>2. bound'[w.scene] = w.prompt /\ \A s \in Scenes : s # w.scene => bound'[s] = bound[s]
    BY <1>0, <1>2 DEF TypeOK, Recorded
  <2>3. legacy \/ PlanMarker(w.scene).st # "none"
    <3>1. w.prompt \in Asked(w.scene) BY <2>1 DEF Asked, Of
    <3> QED BY <1>0, <3>1 DEF EffectsOK, AskedOK
  <2>4. (Active' <=> Active) /\ legacy' = legacy /\ plan' = plan BY SameActive DEF others
  <2>5. ASSUME NEW s PROVE Asked(s)' = Asked(s) /\ Spent(s)' = Spent(s) /\ PlanMarker(s)' = PlanMarker(s)
    BY <2>4 DEF Asked, Spent, Of, PlanMarker, Planned, Rev
  <2>6. SelectedOK' BY DEF others, EffectsOK, SelectedOK, OneSelection
  <2>7. FilesOK' BY <2>4 DEF EffectsOK, FilesOK, Rev, Clip
  <2>8. AskedOK' BY <2>1, <2>2, <2>3, <2>4, <2>5 DEF EffectsOK, AskedOK, One, Two
  <2>9. OnceOK' BY <2>4, <2>5 DEF others, EffectsOK, OnceOK, One
  <2>10. LateOK' BY LateKept
  <2>11. RowsLinked' BY <2>1, <2>2, PartsOf DEF RowsOK, RowsLinked, Of
  <2>12. RowsSent' BY PartsOf DEF RowsOK, RowsSent, ConfirmedMeansPosted
  <2> QED BY <2>1, <2>2, <2>6, <2>7, <2>8, <2>9, <2>10, <2>11, <2>12 DEF RowsOK
<1> QED BY <1>1, <1>2

\* The row of a delivery step is written.
LEMMA StepWritten ==
  ASSUME IInv, EffectsOK, w.pc \in SceneSteps \cup {"scene"}, w.mode # "legacy",
         NEW s \in Scenes, NEW v, step' = [step EXCEPT ![s] = v],
         UNCHANGED <<bound, marker, prompts, posts, sentModes>>, UNCHANGED others,
         w'.pc \notin AfterScenes, v # "absent", step[s] = "COMPLETED" => v = "COMPLETED",
         v = "COMPLETED" /\ step[s] # "COMPLETED" /\ DeliveryOn => posts[s] >= 1
  PROVE  RowsOK'
<1>0. TypeOK BY DEF IInv
<1>1. step'[s] = v /\ \A r \in Scenes : r # s => step'[r] = step[r] BY <1>0 DEF TypeOK
<1>2. plan.mode # "none" BY DEF EffectsOK, WorkingOK, WorkSteps, Modes
<1>3. (Active' <=> Active) /\ legacy' = legacy /\ plan' = plan BY SameActive DEF others
<1>4. ASSUME NEW r PROVE Asked(r)' = Asked(r) /\ Spent(r)' = Spent(r) /\ PlanMarker(r)' = PlanMarker(r)
  BY <1>3 DEF Asked, Spent, Of, PlanMarker, Planned, Rev
<1>5. SelectedOK' BY <1>1, <1>2, <1>3 DEF EffectsOK, SelectedOK, OneSelection
<1>6. FilesOK' BY <1>1, <1>3 DEF EffectsOK, FilesOK, Rev, Clip
<1>7. AskedOK' BY <1>3, <1>4 DEF EffectsOK, AskedOK, One, Two
<1>8. OnceOK' BY <1>3, <1>4 DEF others, EffectsOK, OnceOK, One
<1>9. AllDone => AllDone' BY <1>1 DEF AllDone
<1>10. LateOK'
  BY <1>9 DEF others, EffectsOK, LateOK, Late, AllDone, CompletedIsDone, AfterScenes, LateSteps, FilmSteps
<1>11. RowsLinked' BY PartsOf DEF RowsOK, RowsLinked, Of
<1>12. RowsSent' BY <1>1, PartsOf DEF RowsOK, RowsSent, ConfirmedMeansPosted
<1> QED BY <1>5, <1>6, <1>7, <1>8, <1>10, <1>11, <1>12 DEF RowsOK

\* The thread goes on with the scene.
LEMMA StillRendering ==
  ASSUME EffectsOK, w.pc \in RenderSteps, w'.pc \in SceneSteps \ {"dispatch"},
         w'.mode = w.mode, w'.todo = w.todo, w'.scene = w.scene, UNCHANGED <<plan, step, legacy>>
  PROVE  WorkingOK' /\ w'.pc \notin AfterScenes
BY DEF EffectsOK, WorkingOK, WorkSteps, AfterScenes, LateSteps, FilmSteps, RenderSteps, SceneSteps,
       LegacySteps, Modes

\* It looks at the prompt it knows, or gives the scene up.
LEMMA StillAsking ==
  ASSUME IInv, EffectsOK, w.pc \in PromptSteps, Same, UNCHANGED legacy,
         w'.pc \in PromptSteps \/ (w'.pc = "error" /\ w'.err = "AMBIGUOUS"),
         ~legacy /\ w'.pc \in PromptSteps \ {"bind"} => bound'[w.scene] # NoPrompt,
         Asked(w.scene)' = Asked(w.scene),
         \A p \in Asked(w.scene) : Dead(p) => prompts'[p].st \in {"failed", "gone"},
         w'.pc \in {"rehistory", "requeue"} /\ Once(w.scene) /\ ~legacy =>
           prompts'[w.prompt].st \in {"failed", "gone"},
         Active' => Active
  PROVE  AskingOK' /\ AgainOK'
<1> SUFFICES ASSUME ~legacy PROVE AskingOK' /\ AgainOK' BY DEF AskingOK, AgainOK
<1>1. /\ w'.pc \notin Asks /\ ~Postable' /\ w.pc \notin Asks
      /\ w.pc \in RenderSteps /\ w'.pc \in RenderSteps
  BY DEF PromptSteps, RenderSteps, SceneSteps, Postable, Asks
<1>2. Holding' <=> Holding BY <1>1 DEF Holding, Same
<1>3. AskingOK'
  <2>1. w'.pc \in PromptSteps \ {"bind"} => bound'[w'.scene] # NoPrompt BY DEF Same
  <2>2. w'.pc # "error" \/ w'.err # "FAILED" BY DEF PromptSteps
  <2>3. Holding /\ w.try = 1 => One(Asked(w.scene)) BY DEF EffectsOK, AskingOK
  <2>4. Holding' /\ w'.try = 1 => One(Asked(w.scene)') BY <1>2, <2>3 DEF Same
  <2>5. w'.pc \notin {"deliver", "reuse", "start", "intend", "post"} BY <1>1 DEF Asks
  <2> QED BY <1>1, <2>1, <2>2, <2>4, <2>5 DEF AskingOK
<1>4. AgainOK'
  <2>1. Once(w.scene)' <=> Once(w.scene) BY DEF Once, Same
  <2>2. Dead(w.prompt)' <=> prompts'[w.prompt].st \in {"failed", "gone"} BY DEF Dead, Same
  <2>3. w'.pc \notin {"intend", "post"} BY <1>1 DEF Asks
  <2>4. Holding /\ Active /\ Once(w.scene) => \A p \in Asked(w.scene) : p = w.prompt \/ Dead(p)
    BY <1>1 DEF EffectsOK, AgainOK
  <2> QED BY <1>1, <1>2, <2>1, <2>2, <2>3, <2>4 DEF AgainOK, Dead, Same
<1> QED BY <1>3, <1>4

\* The renderer asks whether the job is still there, and goes on.
LEMMA CheckEffects ==
  ASSUME IInv, EffectsOK, CheckDelivery \/ CheckDispatch PROVE EffectsOK'
<1>0. TypeOK /\ WorkerOK BY DEF IInv
<1>1. /\ UNCHANGED others /\ UNCHANGED deliveries /\ UNCHANGED <<plan, step, bound, legacy>>
      /\ RenderActive
      /\ (w.pc = "deliver" /\ GoTo("reuse")) \/ (w.pc = "start" /\ GoTo("intend"))
  BY DEF CheckDelivery, CheckDispatch, At, rows, files, world, history, others, deliveries
<1>2. Same /\ ((w.pc = "deliver" /\ w'.pc = "reuse") \/ (w.pc = "start" /\ w'.pc = "intend"))
  BY <1>0, <1>1, GoToFields
<1>3. w.pc \in RenderSteps /\ w'.pc \in RenderSteps /\ w'.pc \in SceneSteps \ {"dispatch"}
  BY <1>2 DEF RenderSteps, SceneSteps
<1>4. WorkingOK' /\ w'.pc \notin AfterScenes BY <1>1, <1>2, <1>3, StillRendering DEF Same
<1>5. RowsOK' BY <1>1, <1>4, RowsKept
<1>6. Asked(w.scene)' = Asked(w.scene) /\ PlanMarker(w.scene)' = PlanMarker(w.scene)
  BY <1>1, <1>2 DEF Asked, Of, deliveries, Same, PlanMarker, Planned, Rev
<1>7. (Holding' <=> Holding) /\ (Active' <=> Active) BY <1>1, <1>2, <1>3, SameActive DEF Holding, Same
<1>8. w.pc \in Asks /\ w'.pc \in Asks /\ w'.pc \notin PromptSteps
  BY <1>2 DEF Asks, PromptSteps
<1>9. Postable' => Postable BY <1>2, <1>6, <1>8 DEF Postable
<1>10. AskingOK'
  <2> SUFFICES ASSUME ~legacy PROVE AskingOK' BY <1>1 DEF AskingOK
  <2>1. Holding => /\ One(Asked(w.scene))
                   /\ Postable /\ bound[w.scene] = NoPrompt => Asked(w.scene) = {}
    BY <1>8 DEF EffectsOK, AskingOK
  <2>2. Holding' => /\ One(Asked(w.scene)')
                    /\ Postable' /\ bound'[w'.scene] = NoPrompt => Asked(w.scene)' = {}
    BY <1>1, <1>2, <1>6, <1>7, <1>9, <2>1 DEF Same
  <2>3. w.try = 1 => w.existing = bound[w.scene] BY <1>8 DEF EffectsOK, AskingOK
  <2> QED BY <1>1, <1>2, <1>6, <1>8, <2>2, <2>3 DEF EffectsOK, AskingOK, Same
<1>11. AgainOK'
  <2> SUFFICES ASSUME ~legacy, Once(w.scene) PROVE AgainOK'
    BY <1>1, <1>2 DEF AgainOK, Once, Same
  <2>1. Holding /\ Active /\ Postable => Unsent(w.scene) BY <1>3 DEF EffectsOK, AgainOK
  <2>2. Unsent(w.scene) => Unsent(w.scene)' BY <1>1, <1>2, <1>6 DEF Unsent, Dead, deliveries, Same
  <2>3. w'.pc = "intend" => Holding /\ Active /\ Postable
    <3> SUFFICES ASSUME w'.pc = "intend" PROVE Holding /\ Active /\ Postable OBVIOUS
    <3>1. w.pc = "start" BY <1>2
    <3>2. Rev(w.scene, w.mode) = 1 BY DEF Once, Rev
    <3>3. Active BY <1>1, <3>2 DEF RenderActive, Watched
    <3>4. w.existing = NoPrompt /\ PlanMarker(w.scene).st \in {"none", "failed"}
      BY <3>1 DEF EffectsOK, AskingOK
    <3> QED BY <1>3, <1>8, <3>3, <3>4 DEF Holding, Postable
  <2>4. w'.pc \notin {"rehistory", "requeue", "post"} BY <1>2
  <2> QED BY <1>7, <1>8, <1>9, <2>1, <2>2, <2>3, <2>4 DEF AgainOK
<1>12. ThreadOK'
  <2>1. w'.pc \notin {"commit", "sent", "confirm"} BY <1>2
  <2> QED BY <1>1, <1>2, <1>3, <1>8, <2>1, PartsOf DEF ThreadOK, deliveries, Same, Of
<1> QED BY <1>4, <1>5, <1>10, <1>11, <1>12, Parts

\* A step that only moves the thread from one look at its prompt to another.
LEMMA LookEffects ==
  ASSUME IInv, EffectsOK,
         SeeDone \/ SeeFailed \/ PollFails \/ PromptTimeout \/ NotInHistory \/ CheckCommit
  PROVE  EffectsOK'
<1>0. TypeOK /\ WorkerOK BY DEF IInv
<1>1. /\ UNCHANGED others /\ UNCHANGED <<step, bound, marker, posts, sentModes>>
      /\ w.pc \in PromptSteps \ {"bind"}
  BY DEF SeeDone, SeeFailed, PollFails, PromptTimeout, NotInHistory, CheckCommit, rows, files, world,
     history, others, PromptSteps, At
<1>2. /\ w.pc \in RenderSteps /\ w.scene \in Scenes /\ Of(w.prompt, w.scene)
      /\ (~legacy => bound[w.scene] # NoPrompt) /\ bound' = bound /\ UNCHANGED <<legacy, plan>>
  BY <1>1, HasScene, PartsOf
     DEF PromptSteps, RenderSteps, SceneSteps, EffectsOK, AskingOK, ThreadOK, others
<1>3. (Same /\ w'.pc \in PromptSteps \ {"bind"}) \/ (Same /\ w'.pc = "error" /\ w'.err = "AMBIGUOUS")
  <2>1. ASSUME NEW pc \in PromptSteps \ {"bind"}, GoTo(pc) PROVE Same /\ w'.pc \in PromptSteps \ {"bind"}
    BY <1>0, <2>1, GoToFields
  <2>2. ASSUME Fails("AMBIGUOUS") PROVE Same /\ w'.pc = "error" /\ w'.err = "AMBIGUOUS"
    BY <1>0, <2>2, FailsFields
  <2>3. (\E pc \in PromptSteps \ {"bind"} : GoTo(pc)) \/ Fails("AMBIGUOUS")
    BY DEF SeeDone, SeeFailed, PollFails, PromptTimeout, NotInHistory, CheckCommit, PromptSteps
  <2> QED BY <2>1, <2>2, <2>3
<1>4. WorkingOK' /\ w'.pc \notin AfterScenes
  BY <1>1, <1>2, <1>3, StillRendering DEF Same, others, PromptSteps, SceneSteps
<1>5. Active' <=> Active BY <1>1, SameActive
<1>6. ASSUME UNCHANGED prompts,
             w'.pc = "commit" => prompts[w.prompt].st = "done", w'.pc = "sent" => w.pc = "commit",
             w'.pc \in {"rehistory", "requeue"} /\ Once(w.scene) /\ ~legacy => Dead(w.prompt)
      PROVE  EffectsOK'
  <2>1. RowsOK' BY <1>1, <1>2, <1>4, <1>6, RowsKept DEF deliveries
  <2>2. Asked(w.scene)' = Asked(w.scene) BY <1>3, <1>6 DEF Asked, Of, Same
  <2>3. AskingOK' /\ AgainOK' BY <1>1, <1>2, <1>3, <1>5, <1>6, <2>2, StillAsking DEF Dead
  <2>4. ThreadOK'
    <3>1. w'.pc \in {"commit", "sent"} => posts[w.scene] >= 1
      BY <1>2, <1>6, PartsOf DEF RowsOK, RowsSent, Of, ThreadOK, EffectsOK, WorkingOK
    <3>2. w'.existing # NoPrompt => Of(w.existing, w.scene)' /\ bound'[w'.scene] # NoPrompt
      BY <1>1, <1>2, <1>3, <1>6, PartsOf DEF ThreadOK, Same, Of
    <3>3. Of(w.prompt, w.scene)' BY <1>2, <1>3, <1>6 DEF Same, Of
    <3>4. w'.pc # "confirm" BY <1>3 DEF PromptSteps
    <3> QED BY <1>1, <1>3, <3>1, <3>2, <3>3, <3>4 DEF ThreadOK, Same
  <2> QED BY <1>4, <2>1, <2>3, <2>4, Parts
<1>7. CASE SeeDone
  <2>1. UNCHANGED prompts /\ GoTo("commit") /\ prompts[w.prompt].st = "done"
    BY <1>7 DEF SeeDone, world, history
  <2>2. w'.pc = "commit" BY <1>0, <2>1, GoToFields
  <2> QED BY <1>6, <2>1, <2>2
<1>8. CASE SeeFailed
  <2>1. UNCHANGED prompts /\ GoTo("rehistory") /\ prompts[w.prompt].st = "failed"
    BY <1>8 DEF SeeFailed, world, history
  <2>2. w'.pc = "rehistory" BY <1>0, <2>1, GoToFields
  <2> QED BY <1>6, <2>1, <2>2 DEF Dead
<1>9. CASE PollFails
  <2>1. UNCHANGED prompts /\ ~Once(w.scene) BY <1>9 DEF PollFails, Once, world, history
  <2>2. w'.pc \notin {"commit", "sent"}
    <3>1. (\E pc \in {"rehistory", "requeue"} : GoTo(pc)) \/ Fails("AMBIGUOUS")
      BY <1>9 DEF PollFails
    <3> QED BY <1>0, <3>1, GoToFields, FailsFields
  <2> QED BY <1>6, <2>1, <2>2
<1>10. CASE NotInHistory
  <2>1. CASE w.pc = "history" /\ GoTo("queue")
    <3>1. UNCHANGED prompts BY <1>10 DEF NotInHistory, world, history
    <3>2. w'.pc = "queue" BY <1>0, <2>1, GoToFields
    <3> QED BY <1>6, <3>1, <3>2
  <2>2. CASE w.pc = "rehistory" /\ GoTo("requeue")
    <3>1. UNCHANGED prompts BY <1>10 DEF NotInHistory, world, history
    <3>2. w'.pc = "requeue" BY <1>0, <2>2, GoToFields
    <3>3. Once(w.scene) /\ ~legacy => Dead(w.prompt) BY <1>2, <2>2 DEF EffectsOK, AgainOK
    <3> QED BY <1>6, <3>1, <3>2, <3>3
  <2> QED BY <1>10, <2>1, <2>2 DEF NotInHistory, At
<1>11. CASE PromptTimeout
  <2>1. GoTo("rehistory") /\ CancelSome({w.prompt})
        /\ (prompts[w.prompt].st = "gone" \/ ComfyTrouble)
    BY <1>11 DEF PromptTimeout
  <2>2. w'.pc = "rehistory" BY <1>0, <2>1, GoToFields
  <2>3. CASE prompts[w.prompt].st = "gone"
    <3>1. UNCHANGED prompts
      <4>1. {p \in {w.prompt} : Running(p)} = {} BY <2>3 DEF Running
      <4>2. prompts' = [p \in Prompts |-> prompts[p]] BY <2>1, <4>1 DEF CancelSome
      <4> QED BY <1>0, <4>2 DEF TypeOK
    <3> QED BY <1>6, <2>2, <2>3, <3>1 DEF Dead
  <2>4. CASE ComfyTrouble
    <3>1. Aged BY <1>0, <2>1, CancelAges
    <3>2. Seen /\ ~Once(w.scene) BY <2>4 DEF Seen, Once
    <3>3. plan' = plan /\ g' = g BY <1>1 DEF others
    <3>4. /\ SelectedOK' /\ FilesOK' /\ AskedOK' /\ OnceOK' /\ RowsLinked' /\ RowsSent'
      BY <1>1, <1>5, <3>1, <3>2, <3>3, AgedTables, PartsOf
         DEF RowsOK, RowsSent, RowsLinked, ConfirmedMeansPosted, Of, others
    <3>5. RowsOK' BY <1>1, <1>4, <3>4, LateKept DEF RowsOK
    <3>6. Asked(w.scene)' = Asked(w.scene) /\ \A p \in Asked(w.scene) : p \in Prompts
      BY <1>3, <3>1, AgedAsked DEF Asked, Of, Aged, Same
    <3>7. \A p \in Asked(w.scene) : Dead(p) => prompts'[p].st \in {"failed", "gone"}
      BY <3>1, <3>6 DEF Aged, Dead
    <3>8. AskingOK' /\ AgainOK' BY <1>1, <1>2, <1>3, <1>5, <3>2, <3>6, <3>7, StillAsking
    <3>9. ThreadOK'
      <4>1. w'.existing # NoPrompt => Of(w.existing, w.scene)' /\ bound'[w'.scene] # NoPrompt
        BY <1>1, <1>2, <1>3, <3>1, PartsOf DEF ThreadOK, Same, Of, Aged
      <4>2. Of(w.prompt, w.scene)' BY <1>2, <1>3, <3>1 DEF Same, Of, Aged
      <4> QED BY <2>2, <4>1, <4>2 DEF ThreadOK
    <3> QED BY <1>4, <3>5, <3>8, <3>9, Parts
  <2> QED BY <2>1, <2>3, <2>4
<1>12. CASE CheckCommit
  <2>1. UNCHANGED prompts /\ GoTo("sent") /\ w.pc = "commit" BY <1>12 DEF CheckCommit, At, world
  <2>2. w'.pc = "sent" BY <1>0, <2>1, GoToFields
  <2> QED BY <1>6, <2>1, <2>2
<1> QED BY <1>7, <1>8, <1>9, <1>10, <1>11, <1>12

\* The thread binds its prompt, and writes what became of it.
LEMMA PromptWriteEffects ==
  ASSUME IInv, EffectsOK,
         BindPrompt \/ MarkQueued \/ ReclaimQueued \/ ReclaimLost \/ ResolveError \/ CommitSent
  PROVE  EffectsOK'
<1>0. TypeOK /\ WorkerOK BY DEF IInv
<1>1. /\ UNCHANGED others /\ UNCHANGED <<step, prompts, posts, sentModes>>
      /\ w.pc \in PromptSteps /\ UNCHANGED <<legacy, plan>>
  BY DEF BindPrompt, MarkQueued, ReclaimQueued, ReclaimLost, ResolveError, CommitSent,
     rows, files, world, history, others, PromptSteps, At
<1>2. /\ w.pc \in RenderSteps /\ w.scene \in Scenes /\ Of(w.prompt, w.scene)
      /\ w.prompt # NoPrompt /\ (w.pc # "bind" /\ ~legacy => bound[w.scene] # NoPrompt)
  BY <1>1, HasScene, PartsOf, PromptAssumption
     DEF PromptSteps, RenderSteps, SceneSteps, EffectsOK, AskingOK, ThreadOK, Of
<1>3. Active' <=> Active BY <1>1, SameActive
<1>4. ASSUME NEW pc \in {"mark", "wait", "error", "confirm"}, Same, w'.pc = pc
      PROVE  WorkingOK' /\ w'.pc \notin AfterScenes
  BY <1>1, <1>2, <1>4, StillRendering DEF Same, others, SceneSteps
\* the thread is left with what it knows of the prompt
<1>5. ASSUME Same, w'.pc \in {"mark", "wait"} \/ (w'.pc = "error" /\ w'.err = "AMBIGUOUS"),
             RowsOK', bound'[w.scene] # NoPrompt \/ w'.pc = "error" \/ legacy
      PROVE  EffectsOK'
  <2>1. Asked(w.scene)' = Asked(w.scene) BY <1>1, <1>5 DEF Asked, Of, Same
  <2>2. w'.pc \in PromptSteps \/ w'.pc = "error" BY <1>5 DEF PromptSteps
  <2>3. w'.pc \notin {"rehistory", "requeue", "commit", "sent", "confirm"} BY <1>5
  <2>4. "error" \notin PromptSteps BY DEF PromptSteps
  <2>5. AskingOK' /\ AgainOK'
    BY <1>1, <1>2, <1>3, <1>5, <2>1, <2>2, <2>3, <2>4, StillAsking DEF Dead
  <2>6. w.existing # NoPrompt => Of(w.existing, w.scene) /\ bound[w.scene] # NoPrompt
    BY <1>2, PartsOf DEF ThreadOK
  <2>7. bound'[w.scene] = bound[w.scene] \/ bound'[w.scene] # NoPrompt
    <3>1. bound' = bound \/ bound' = [bound EXCEPT ![w.scene] = w.prompt]
      BY DEF BindPrompt, MarkQueued, ReclaimQueued, ReclaimLost, ResolveError, CommitSent, Recorded, rows, history
    <3> QED BY <1>0, <1>2, <3>1 DEF TypeOK
  <2>8. ThreadOK' BY <1>1, <1>2, <1>5, <2>3, <2>6, <2>7 DEF ThreadOK, Same, Of
  <2>9. WorkingOK' BY <1>4, <1>5
  <2> QED BY <1>5, <2>5, <2>8, <2>9, Parts
<1>6. CASE BindPrompt
  <2>1. CASE Active
    <3>1. /\ bound' = Recorded /\ GoTo("mark") /\ UNCHANGED marker
      BY <1>6, <2>1 DEF BindPrompt
    <3>2. Same /\ w'.pc = "mark" BY <1>0, <3>1, GoToFields
    <3>3. RowsOK' /\ (bound'[w.scene] # NoPrompt \/ legacy) BY <1>1, <1>4, <3>1, <3>2, BoundWritten
    <3> QED BY <1>5, <3>2, <3>3
  <2>2. CASE ~Active
    <3>1. /\ marker' = Marked("queued", w.prompt) /\ Fails("AMBIGUOUS") /\ UNCHANGED bound
      BY <1>6, <2>2 DEF BindPrompt
    <3>2. Same /\ w'.pc = "error" /\ w'.err = "AMBIGUOUS" BY <1>0, <3>1, FailsFields
    <3>3. RowsOK' BY <1>1, <1>2, <1>4, <2>2, <3>1, <3>2, MarkerWritten
    <3> QED BY <1>5, <3>2, <3>3
  <2> QED BY <2>1, <2>2
<1>7. CASE MarkQueued
  <2>1. /\ marker' = Marked("queued", w.prompt) /\ UNCHANGED bound /\ w.pc = "mark"
        /\ GoTo("wait") \/ Fails("AMBIGUOUS")
    BY <1>7 DEF MarkQueued, At, rows, history
  <2>2. Same /\ (w'.pc = "wait" \/ (w'.pc = "error" /\ w'.err = "AMBIGUOUS"))
    BY <1>0, <2>1, GoToFields, FailsFields
  <2>3. RowsOK' BY <1>1, <1>2, <1>4, <2>1, <2>2, MarkerWritten
  <2> QED BY <1>2, <1>5, <2>1, <2>2, <2>3
<1>8. CASE ReclaimQueued
  <2>1. /\ bound' = Recorded /\ GoTo("wait") /\ UNCHANGED marker
    BY <1>8 DEF ReclaimQueued, files, history
  <2>2. Same /\ w'.pc = "wait" BY <1>0, <2>1, GoToFields
  <2>3. RowsOK' /\ (bound'[w.scene] # NoPrompt \/ legacy) BY <1>1, <1>4, <2>1, <2>2, BoundWritten
  <2> QED BY <1>5, <2>2, <2>3
<1>9. CASE ReclaimLost
  <2>1. marker' = Marked("ambiguous", w.prompt) /\ Fails("AMBIGUOUS") /\ UNCHANGED bound
    BY <1>9 DEF ReclaimLost, rows, history
  <2>2. Same /\ w'.pc = "error" /\ w'.err = "AMBIGUOUS" BY <1>0, <2>1, FailsFields
  <2>3. RowsOK' BY <1>1, <1>2, <1>4, <2>1, <2>2, MarkerWritten
  <2> QED BY <1>5, <2>2, <2>3
<1>10. CASE ResolveError
  <2>0. w.pc = "requeue" /\ UNCHANGED bound BY <1>10 DEF ResolveError, At, rows, history
  <2>1. CASE Running(w.prompt)
    <3>1. Fails("AMBIGUOUS") /\ UNCHANGED marker BY <1>10, <2>1 DEF ResolveError
    <3>2. Same /\ w'.pc = "error" /\ w'.err = "AMBIGUOUS" BY <1>0, <3>1, FailsFields
    <3>3. RowsOK' BY <1>1, <1>4, <2>0, <3>1, <3>2, RowsKept DEF deliveries
    <3> QED BY <1>5, <3>2, <3>3
  <2>2. CASE ~Running(w.prompt)
    <3>1. marker' = Marked("failed", w.prompt) /\ Fails("FAILED") BY <1>10, <2>2 DEF ResolveError
    <3>2. Same /\ w'.pc = "error" /\ w'.err = "FAILED" BY <1>0, <3>1, FailsFields
    <3>3. ~legacy => bound[w.scene] # NoPrompt BY <1>2, <2>0
    <3>4. RowsOK' BY <1>1, <1>2, <1>4, <2>0, <3>1, <3>2, <3>3, MarkerWritten
    <3>5. ~legacy => PlanMarker(w.scene)'.st = "failed"
      <4> SUFFICES ASSUME ~legacy PROVE PlanMarker(w.scene)'.st = "failed" OBVIOUS
      <4>1. w.pc \in SceneSteps BY <2>0 DEF SceneSteps
      <4>2. \A s \in Scenes : s = w.scene => PlanMarker(s)'.st = "failed" BY <1>1, <3>1, <4>1, MarkedPlan
      <4> QED BY <1>2, <3>2, <4>2 DEF Same, PlanMarker, Planned, Rev
    <3>6. Asked(w.scene)' = Asked(w.scene) BY <1>1, <3>2 DEF Asked, Of, Same
    <3>7. w.pc \notin Asks /\ w'.pc \notin Asks /\ (Holding' <=> Holding)
      BY <1>2, <2>0, <3>2 DEF Holding, Same, RenderSteps, SceneSteps, Asks
    <3>8. AskingOK'
      <4> SUFFICES ASSUME ~legacy PROVE AskingOK' BY <1>1 DEF AskingOK
      <4>1. Holding /\ w.try = 1 => One(Asked(w.scene)) BY DEF EffectsOK, AskingOK
      <4>2. Holding' /\ w'.try = 1 => One(Asked(w.scene)') BY <3>2, <3>6, <3>7, <4>1 DEF Same
      <4>3. w'.pc \notin {"deliver", "reuse", "start", "intend", "post"} BY <3>2
      <4>4. bound' = bound BY <2>0
      <4> QED BY <3>2, <3>3, <3>5, <3>7, <4>2, <4>3, <4>4 DEF AskingOK, PromptSteps, Same
    <3>9. AgainOK'
      <4> SUFFICES ASSUME ~legacy PROVE AgainOK' BY <1>1 DEF AgainOK
      <4>1. Once(w.scene)' <=> Once(w.scene) BY <3>2 DEF Once, Same
      <4>2. ASSUME Holding, Active, Once(w.scene) PROVE Unsent(w.scene)'
        <5>1. \A p \in Asked(w.scene) : Dead(p)
          BY <1>1, <1>2, <2>0, <4>2 DEF EffectsOK, AgainOK
        <5>2. \A p \in Asked(w.scene) : prompts[p].st \notin {"posted", "done"} BY <5>1 DEF Dead
        <5>3. posts[w.scene] \in Nat /\ posts[w.scene] <= 1 /\ posts[w.scene] # 1
          BY <1>0, <1>2, <4>2, <5>2 DEF TypeOK, EffectsOK, OnceOK
        <5> QED BY <1>1, <3>2, <3>6, <5>1, <5>3 DEF Unsent, Dead, Same
      <4> QED BY <1>3, <3>2, <3>7, <4>1, <4>2 DEF AgainOK, PromptSteps
    <3>10. ThreadOK'
      BY <1>1, <1>2, <2>0, <3>2, PartsOf DEF ThreadOK, PromptSteps, Same, Of
    <3>11. WorkingOK' BY <1>4, <3>2
    <3> QED BY <3>4, <3>8, <3>9, <3>10, <3>11, Parts
  <2> QED BY <2>1, <2>2
<1>11. CASE CommitSent
  <2>1. marker' = Marked("sent", w.prompt) /\ GoTo("confirm") /\ UNCHANGED bound /\ w.pc = "sent"
    BY <1>11 DEF CommitSent, At, rows, history
  <2>2. Same /\ w'.pc = "confirm" BY <1>0, <2>1, GoToFields
  <2>3. posts[w.scene] >= 1 BY <1>2, <2>1, PartsOf DEF ThreadOK, EffectsOK, WorkingOK
  <2>4. RowsOK' BY <1>1, <1>2, <1>4, <2>1, <2>2, <2>3, MarkerWritten
  <2>5. AskingOK' /\ AgainOK' BY <2>2, NotRendering DEF RenderSteps
  <2>6. ThreadOK' BY <1>1, <2>2, <2>3 DEF ThreadOK, RenderSteps, PromptSteps, Same
  <2>7. WorkingOK' BY <1>4, <2>2
  <2> QED BY <2>4, <2>5, <2>6, <2>7, Parts
<1> QED BY <1>6, <1>7, <1>8, <1>9, <1>10, <1>11

\* The POST is answered, or not, or refused: another prompt for the scene, or none.
LEMMA PromptQueued ==
  ASSUME IInv, EffectsOK, w.pc = "post", NEW p \in Prompts, prompts[p].st = "free",
         prompts' = [prompts EXCEPT ![p] = [st |-> "live", scene |-> w.scene, mode |-> w.mode]],
         UNCHANGED <<step, bound, posts, sentModes>>, UNCHANGED others, w'.pc \notin AfterScenes,
         marker' = marker \/ marker' = Marked("ambiguous", NoPrompt)
  PROVE  /\ RowsOK'
         /\ Asked(w.scene) \cup {p} = {q \in Prompts : prompts'[q].st # "free" /\ prompts'[q].scene = w.scene}
         /\ ~legacy /\ w.try = 1 => Asked(w.scene) = {}
         /\ ~legacy /\ Once(w.scene) => Unsent(w.scene)
         /\ \A q \in Prompts : q # p => prompts'[q] = prompts[q]
         /\ prompts'[p].st = "live" /\ prompts'[p].scene = w.scene
<1> DEFINE s0 == w.scene
<1>0. TypeOK /\ s0 \in Scenes /\ w.pc \in RenderSteps /\ w.pc \in SceneSteps
  BY HasScene DEF IInv, RenderSteps, SceneSteps
<1>1. /\ prompts'[p] = [st |-> "live", scene |-> s0, mode |-> w.mode]
      /\ \A q \in Prompts : q # p => prompts'[q] = prompts[q]
  BY <1>0 DEF TypeOK
<1>2. /\ DeliveryOn
      /\ \/ w.mode = "legacy" /\ legacy
         \/ w.mode = plan.mode /\ w.mode # "legacy" /\ step[s0] # "absent"
  BY <1>0 DEF EffectsOK, WorkingOK, WorkSteps, RenderSteps, Modes
<1>3. ~legacy => /\ w.existing = NoPrompt /\ PlanMarker(s0).st = "dispatching"
                 /\ One(Asked(s0)) /\ (bound[s0] = NoPrompt => Asked(s0) = {})
                 /\ (w.try = 1 => bound[s0] = NoPrompt)
  BY <1>0 DEF EffectsOK, AskingOK, Holding, Postable, Asks
<1>4. ~legacy /\ Once(s0) => Unsent(s0) BY <1>0 DEF EffectsOK, AgainOK
<1>5. ASSUME NEW s, s # s0 PROVE Asked(s)' = Asked(s) /\ Spent(s)' = Spent(s)
  BY <1>1, <1>5 DEF Asked, Spent, Of
<1>6. ASSUME NEW s, s = s0 PROVE Asked(s)' = Asked(s0) \cup {p} /\ Spent(s)' = Spent(s0)
  BY <1>1, <1>6 DEF Asked, Spent, Of
<1>8. Active' <=> Active BY SameActive
<1>9. plan' = plan /\ g' = g /\ legacy' = legacy BY DEF others
<1>7. \A s \in Scenes, r \in {1, 2} :
        \/ marker'[<<s, r>>] = marker[<<s, r>>]
        \/ /\ <<s, r>> = File /\ marker'[<<s, r>>].st = "ambiguous" /\ marker'[<<s, r>>].prompt = NoPrompt
           /\ marker'[<<s, r>>].clip = Clip(s, w.mode)
  <2>1. CASE marker' = marker BY <2>1
  <2>2. CASE marker' = Marked("ambiguous", NoPrompt)
    <3>1. /\ marker'[File].st = "ambiguous" /\ marker'[File].prompt = NoPrompt
          /\ marker'[File].clip = Clip(w.scene, w.mode)
          /\ \A s \in Scenes, r \in {1, 2} : <<s, r>> # File => marker'[<<s, r>>] = marker[<<s, r>>]
      BY <1>0, <2>2, MarkedFields
    <3>2. \A s \in Scenes, r \in {1, 2} : <<s, r>> = File => s = w.scene BY DEF File
    <3> QED BY <3>1, <3>2
  <2> QED BY <2>1, <2>2
<1>18. FilesOK'
  <2> SUFFICES ASSUME ~legacy PROVE FilesOK' BY <1>9 DEF FilesOK
  <2>1. w.mode = plan.mode /\ File = <<s0, Rev(s0, plan.mode)>> BY <1>2 DEF File
  <2>2. \A s \in Scenes, r \in {1, 2} : marker[<<s, r>>].st # "none" =>
          /\ r = Rev(s, plan.mode) /\ step[s] # "absent"
          /\ marker[<<s, r>>].clip = Clip(s, plan.mode)
    BY DEF EffectsOK, FilesOK
  <2>3. \A s \in Scenes, r \in {1, 2} : marker'[<<s, r>>].st # "none" =>
          /\ r = Rev(s, plan.mode) /\ step[s] # "absent"
          /\ marker'[<<s, r>>].clip = Clip(s, plan.mode)
    <3> SUFFICES ASSUME NEW s \in Scenes, NEW r \in {1, 2}, marker'[<<s, r>>].st # "none"
                 PROVE  /\ r = Rev(s, plan.mode) /\ step[s] # "absent"
                        /\ marker'[<<s, r>>].clip = Clip(s, plan.mode)
      OBVIOUS
    <3>1. CASE marker'[<<s, r>>] = marker[<<s, r>>] BY <2>2, <3>1
    <3>2. CASE <<s, r>> = File /\ marker'[<<s, r>>].clip = Clip(s, w.mode)
      <4>1. s = s0 /\ r = Rev(s0, plan.mode) BY <2>1, <3>2
      <4> QED BY <1>2, <2>1, <3>2, <4>1
    <3> QED BY <1>7, <3>1, <3>2
  <2> QED BY <1>9, <2>3 DEF FilesOK, Rev, Clip
<1>19. ~legacy => \A s \in Scenes :
        IF s = s0 THEN PlanMarker(s)'.st \in {"dispatching", "ambiguous"} ELSE PlanMarker(s)' = PlanMarker(s)
  <2> SUFFICES ASSUME ~legacy, NEW s \in Scenes
               PROVE  IF s = s0 THEN PlanMarker(s)'.st \in {"dispatching", "ambiguous"}
                      ELSE PlanMarker(s)' = PlanMarker(s)
    OBVIOUS
  <2>1. CASE marker' = marker
    <3>1. PlanMarker(s)' = PlanMarker(s) BY <1>9, <2>1 DEF PlanMarker, Planned, Rev
    <3> QED BY <1>3, <3>1
  <2>2. CASE marker' = Marked("ambiguous", NoPrompt)
    BY <1>0, <1>9, <2>2, MarkedPlan
  <2> QED BY <2>1, <2>2
<1>10. ASSUME NEW q, NEW s, Of(q, s) PROVE Of(q, s)' BY <1>1, <1>10 DEF Of
<1>11. SelectedOK'
  BY <1>0, <1>1, <1>2, <1>9 DEF EffectsOK, SelectedOK, OneSelection
<1>12. RowsLinked'
  <2>1. \A s \in Scenes, r \in {1, 2} :
          /\ marker'[<<s, r>>].prompt # NoPrompt => Of(marker'[<<s, r>>].prompt, s)
          /\ marker'[<<s, r>>].st = "queued" => marker'[<<s, r>>].prompt # NoPrompt
    BY <1>7, PartsOf DEF RowsOK, RowsLinked
  <2>2. \A s \in Scenes : bound[s] # NoPrompt => Of(bound[s], s) BY PartsOf DEF RowsOK, RowsLinked
  <2>3. \A q, s : Of(q, s) => q \in Prompts /\ prompts'[q].st # "free" /\ prompts'[q].scene = s
    BY <1>1 DEF Of
  <2> QED BY <2>1, <2>2, <2>3 DEF RowsLinked, Of
<1>13. RowsSent'
  BY <1>1, <1>7, PartsOf DEF RowsOK, RowsSent, ConfirmedMeansPosted
<1>14. AskedOK'
  <2> SUFFICES ASSUME ~legacy, NEW s \in Scenes
               PROVE  /\ Two(Asked(s)') /\ posts'[s] <= 2
                      /\ posts'[s] >= 1 => Spent(s)' # {}
                      /\ posts'[s] = 2 => ~One(Spent(s)')
                      /\ bound'[s] = NoPrompt => One(Asked(s)')
                      /\ PlanMarker(s)'.st = "none" => Asked(s)' = {} /\ bound'[s] = NoPrompt
                      /\ Active' /\ PlanMarker(s)'.st = "failed" /\ bound'[s] = NoPrompt => Asked(s)' = {}
                      /\ Active' /\ PlanMarker(s)'.st = "queued" => bound'[s] # NoPrompt
    BY <1>9 DEF AskedOK, One, Two
  <2>1. CASE s # s0 BY <1>5, <1>19, <1>8, <2>1 DEF EffectsOK, AskedOK, One, Two
  <2>2. CASE s = s0
    <3>1. Asked(s)' = Asked(s0) \cup {p} /\ Spent(s)' = Spent(s0) BY <1>6, <2>2
    <3>2. Two(Asked(s0) \cup {p}) BY <1>3 DEF One, Two
    <3>3. bound[s0] = NoPrompt => One(Asked(s0) \cup {p}) BY <1>3 DEF One
    <3>4. PlanMarker(s)'.st \in {"dispatching", "ambiguous"} BY <1>19, <2>2
    <3>5. /\ posts[s0] <= 2 /\ (posts[s0] >= 1 => Spent(s0) # {})
          /\ (posts[s0] = 2 => ~One(Spent(s0)))
      BY <1>0 DEF EffectsOK, AskedOK
    <3> QED BY <2>2, <3>1, <3>2, <3>3, <3>4, <3>5
  <2> QED BY <2>1, <2>2
<1>15. OnceOK'
  <2>0. g' = "prompts" => ~Active' BY <1>8, <1>9 DEF EffectsOK, OnceOK
  <2>1. ASSUME ~legacy, NEW s \in Scenes, Once(s)
        PROVE  /\ posts'[s] <= 1
               /\ One({q \in Asked(s)' : prompts'[q].st = "live"})
               /\ posts'[s] = 1 => \A q \in Asked(s)' : prompts'[q].st # "live"
               /\ Active' /\ posts'[s] = 1 => \E q \in Asked(s)' : prompts'[q].st \in {"posted", "done"}
    <3>1. CASE s # s0
      <4>1. Asked(s)' = Asked(s) /\ \A q \in Asked(s) : prompts'[q] = prompts[q]
        BY <1>1, <1>5, <3>1 DEF Asked, Of
      <4> QED BY <1>8, <2>1, <4>1 DEF EffectsOK, OnceOK, One
    <3>2. CASE s = s0
      <4>1. Unsent(s0) BY <1>4, <2>1, <3>2
      <4>2. posts'[s] = 0 BY <3>2, <4>1 DEF Unsent
      <4>3. \A q \in Asked(s0) \cup {p} : prompts'[q].st = "live" => q = p
        BY <1>1, <4>1 DEF Unsent, Dead, Asked
      <4>4. Asked(s)' = Asked(s0) \cup {p} BY <1>6, <3>2
      <4> QED BY <4>2, <4>3, <4>4 DEF One
    <3> QED BY <3>1, <3>2
  <2> QED BY <1>9, <2>0, <2>1 DEF OnceOK, Once, One
<1>16. LateOK' BY LateKept
<1>17. Asked(s0) \cup {p} = {q \in Prompts : prompts'[q].st # "free" /\ prompts'[q].scene = s0}
  BY <1>1 DEF Asked, Of
<1> QED BY <1>1, <1>3, <1>4, <1>18, <1>11, <1>12, <1>13, <1>14, <1>15, <1>16, <1>17 DEF RowsOK

\* The POST of a delivery, whatever becomes of it.
LEMMA PostEffects ==
  ASSUME IInv, EffectsOK, (\E p \in Prompts : QueuePrompt(p)) \/ QueueRejected \/ QueueAmbiguous
  PROVE  EffectsOK'
<1>0. TypeOK /\ WorkerOK BY DEF IInv
<1>9. w.pc = "post" /\ UNCHANGED rows /\ UNCHANGED <<film, posts, sentModes, mails, extra, g, legacy>>
  <2>1. CASE \E p \in Prompts : QueuePrompt(p) BY <2>1, Zenon DEF QueuePrompt, At, files, history
  <2>2. CASE QueueRejected BY <2>2, Zenon DEF QueueRejected, At, world, history
  <2>3. CASE QueueAmbiguous BY <2>3, Zenon DEF QueueAmbiguous, At, history
  <2> QED BY <2>1, <2>2, <2>3
<1>1. UNCHANGED others /\ UNCHANGED <<step, bound, posts, sentModes>> /\ UNCHANGED <<legacy, plan>>
  BY <1>9 DEF rows, history, others
<1>2. /\ w.pc \in RenderSteps /\ w.scene \in Scenes
      /\ (w.existing # NoPrompt => Of(w.existing, w.scene) /\ bound[w.scene] # NoPrompt)
  <2>1. w.pc \in RenderSteps BY <1>9 DEF RenderSteps, SceneSteps
  <2> QED BY <1>9, <2>1, HasScene, PartsOf DEF RenderSteps, ThreadOK
<1>10. ~legacy => /\ w.existing = NoPrompt /\ Holding /\ Postable /\ PlanMarker(w.scene).st = "dispatching"
                 /\ One(Asked(w.scene)) /\ (bound[w.scene] = NoPrompt => Asked(w.scene) = {})
                 /\ (w.try = 1 => bound[w.scene] = NoPrompt)
  BY <1>9, <1>2 DEF EffectsOK, AskingOK, Holding, Postable, Asks
<1>3. Active' <=> Active BY <1>1, SameActive
<1>4. ASSUME NEW pc \in {"bind", "error"}, Same, w'.pc = pc PROVE WorkingOK' /\ w'.pc \notin AfterScenes
  BY <1>1, <1>2, <1>4, StillRendering DEF Same, others, SceneSteps
\* a prompt was queued
<1>5. ASSUME NEW p \in Prompts, prompts[p].st = "free",
             prompts' = [prompts EXCEPT ![p] = [st |-> "live", scene |-> w.scene, mode |-> w.mode]],
             Same, marker' = marker \/ marker' = Marked("ambiguous", NoPrompt),
             (w'.pc = "error" /\ w'.err = "AMBIGUOUS")
      PROVE  EffectsOK'
  <2>1. w'.pc \notin AfterScenes /\ WorkingOK' BY <1>4, <1>5
  <2>2. RowsOK' /\ (~legacy /\ w.try = 1 => Asked(w.scene) = {})
        /\ Asked(w.scene) \cup {p} = {q \in Prompts : prompts'[q].st # "free" /\ prompts'[q].scene = w.scene}
    BY <1>9, <1>1, <1>5, <2>1, PromptQueued
  <2>3. Asked(w.scene)' = Asked(w.scene) \cup {p} BY <1>5, <2>2 DEF Asked, Of, Same
  <2>4. AskingOK'
    <3>1. ~legacy /\ w'.try = 1 => One(Asked(w.scene)') BY <1>5, <2>2, <2>3 DEF One, Same
    <3> QED BY <1>1, <1>5, <3>1 DEF AskingOK, Postable, PromptSteps, Asks
  <2>5. AgainOK' BY <1>5 DEF AgainOK, Postable, PromptSteps, Asks
  <2>6. ThreadOK'
    <3>1. w.existing # NoPrompt => Of(w.existing, w.scene)' /\ bound'[w'.scene] # NoPrompt
      <4>1. prompts'[w.existing] = prompts[w.existing] \/ w.existing = NoPrompt
        BY <1>0, <1>2, <1>5 DEF TypeOK, Of
      <4> QED BY <1>1, <1>2, <1>5, <4>1 DEF Of, Same
    <3> QED BY <1>5, <3>1 DEF ThreadOK, PromptSteps, Same
  <2> QED BY <2>1, <2>2, <2>4, <2>5, <2>6, Parts
<1>6. CASE \E p \in Prompts : QueuePrompt(p)
  <2>1. PICK p \in Prompts : QueuePrompt(p) BY <1>6
  <2>2. /\ prompts[p].st = "free" /\ marker' = marker
        /\ prompts' = [prompts EXCEPT ![p] = [st |-> "live", scene |-> w.scene, mode |-> w.mode]]
        /\ w' = [w EXCEPT !.pc = "bind", !.prompt = p]
    BY <2>1, Zenon DEF QueuePrompt, files
  <2>3. /\ w'.pc = "bind" /\ w'.prompt = p /\ w'.mode = w.mode /\ w'.todo = w.todo
        /\ w'.scene = w.scene /\ w'.existing = w.existing /\ w'.try = w.try
    BY <1>0, <2>2 DEF WorkerOK, WorkerStates
  <2>4. WorkingOK' /\ w'.pc \notin AfterScenes
    BY <1>1, <1>2, <2>3, StillRendering DEF others, SceneSteps
  <2>5. /\ RowsOK' /\ (~legacy /\ w.try = 1 => Asked(w.scene) = {})
        /\ (~legacy /\ Once(w.scene) => Unsent(w.scene))
        /\ Asked(w.scene) \cup {p} = {q \in Prompts : prompts'[q].st # "free" /\ prompts'[q].scene = w.scene}
        /\ \A q \in Prompts : q # p => prompts'[q] = prompts[q]
        /\ prompts'[p].st = "live" /\ prompts'[p].scene = w.scene
    BY <1>9, <1>1, <2>2, <2>4, PromptQueued
  <2>6. Asked(w.scene)' = Asked(w.scene) \cup {p} BY <2>3, <2>5 DEF Asked, Of
  <2>7. AskingOK'
    <3>1. ~legacy /\ w'.try = 1 => One(Asked(w.scene)') BY <2>3, <2>5, <2>6 DEF One
    <3> QED BY <1>1, <2>3, <3>1 DEF AskingOK, Postable, PromptSteps, Asks
  <2>8. AgainOK'
    <3> SUFFICES ASSUME ~legacy PROVE AgainOK' BY <1>1 DEF AgainOK
    <3>1. Once(w.scene)' => Unsent(w.scene) BY <2>3, <2>5 DEF Once
    <3>2. Unsent(w.scene) => \A q \in Asked(w.scene)' : q = w'.prompt \/ prompts'[q].st \in {"failed", "gone"}
      BY <2>3, <2>5, <2>6 DEF Unsent, Dead, Asked
    <3> QED BY <2>3, <3>1, <3>2 DEF AgainOK, Postable, Dead, Asks
  <2>9. ThreadOK'
    <3>1. w.existing # NoPrompt => Of(w.existing, w.scene)' /\ bound'[w'.scene] # NoPrompt
      <4>1. prompts'[w.existing] = prompts[w.existing] \/ w.existing = NoPrompt
        BY <1>2, <2>2, <2>5 DEF Of
      <4> QED BY <1>1, <1>2, <2>3, <4>1 DEF Of
    <3> QED BY <2>3, <2>5, <3>1 DEF ThreadOK, Of
  <2> QED BY <2>4, <2>5, <2>7, <2>8, <2>9, Parts
<1>7. CASE QueueAmbiguous
  <2>1. marker' = Marked("ambiguous", NoPrompt) /\ Fails("AMBIGUOUS")
    BY <1>7, Zenon DEF QueueAmbiguous
  <2>2. Same /\ w'.pc = "error" /\ w'.err = "AMBIGUOUS" BY <1>0, <2>1, FailsFields
  <2>3. CASE UNCHANGED prompts
    <3>1. WorkingOK' /\ w'.pc \notin AfterScenes BY <1>4, <2>2
    <3>2. RowsOK' BY <1>1, <1>2, <2>1, <2>3, <3>1, MarkerWritten
    <3>3. Asked(w.scene)' = Asked(w.scene) BY <2>2, <2>3 DEF Asked, Of, Same
    <3>4. AskingOK' BY <1>1, <1>10, <2>2, <3>3 DEF AskingOK, Postable, PromptSteps, Asks
    <3>5. AgainOK' BY <2>2 DEF AgainOK, Postable, PromptSteps, Asks
    <3>6. ThreadOK' BY <1>1, <1>2, <2>2, <2>3 DEF ThreadOK, PromptSteps, Same, Of
    <3> QED BY <3>1, <3>2, <3>4, <3>5, <3>6, Parts
  <2>4. CASE \E p \in Prompts : /\ prompts[p].st = "free"
                                /\ prompts' = [prompts EXCEPT ![p] =
                                     [st |-> "live", scene |-> w.scene, mode |-> w.mode]]
    BY <1>5, <2>1, <2>2, <2>4
  <2> QED BY <1>7, <2>3, <2>4, Zenon DEF QueueAmbiguous
<1>8. CASE QueueRejected
  <2>1. marker' = Marked("failed", NoPrompt) /\ Fails("FAILED") /\ UNCHANGED prompts
    BY <1>8, Zenon DEF QueueRejected, world, history
  <2>2. Same /\ w'.pc = "error" /\ w'.err = "FAILED" BY <1>0, <2>1, FailsFields
  <2>3. WorkingOK' /\ w'.pc \notin AfterScenes BY <1>4, <2>2
  <2>4. RowsOK' BY <1>1, <1>2, <1>10, <2>1, <2>3, MarkerWritten
  <2>5. ~legacy => PlanMarker(w.scene)'.st = "failed"
    <3> SUFFICES ASSUME ~legacy PROVE PlanMarker(w.scene)'.st = "failed" OBVIOUS
    <3>1. w.pc \in SceneSteps BY <1>9 DEF SceneSteps
    <3>2. \A s \in Scenes : s = w.scene => PlanMarker(s)'.st = "failed" BY <1>1, <2>1, <3>1, MarkedPlan
    <3> QED BY <1>2, <2>2, <3>2 DEF Same, PlanMarker, Planned, Rev
  <2>6. Asked(w.scene)' = Asked(w.scene) BY <2>1, <2>2 DEF Asked, Of, Same
  <2>7. AskingOK'
    BY <1>1, <1>10, <2>2, <2>5, <2>6 DEF AskingOK, PromptSteps, Same, Asks
  <2>8. AgainOK'
    <3> SUFFICES ASSUME ~legacy PROVE AgainOK' BY <1>1 DEF AgainOK
    <3>1. Once(w.scene)' => Unsent(w.scene) BY <1>9, <1>2, <2>2 DEF EffectsOK, AgainOK, Once, Same
    <3>2. Unsent(w.scene) => Unsent(w.scene)'
      BY <1>1, <2>1, <2>2, <2>6 DEF Unsent, Dead, Same
    <3> QED BY <2>2, <3>1, <3>2 DEF AgainOK, PromptSteps
  <2>9. ThreadOK' BY <1>1, <1>2, <2>1, <2>2 DEF ThreadOK, PromptSteps, Same, Of
  <2> QED BY <2>3, <2>4, <2>7, <2>8, <2>9, Parts
<1> QED BY <1>6, <1>7, <1>8

\* The prompt that was written down is looked up before anything is sent.
LEMMA ReclaimsEffects ==
  ASSUME IInv, EffectsOK, w.pc = "reuse", NEW p, Reclaims(p), Of(p, w.scene),
         ~legacy => bound[w.scene] # NoPrompt, UNCHANGED others, UNCHANGED <<step, bound, posts, sentModes>>
  PROVE  EffectsOK'
<1>0. TypeOK /\ WorkerOK BY DEF IInv
<1>1. /\ marker' = Marked("queued", p) /\ UNCHANGED prompts
      /\ w' = [w EXCEPT !.pc = "history", !.prompt = p]
  BY DEF Reclaims
<1>2. /\ w'.pc = "history" /\ w'.prompt = p /\ w'.mode = w.mode /\ w'.todo = w.todo
      /\ w'.scene = w.scene /\ w'.existing = w.existing /\ w'.try = w.try
  BY <1>0, <1>1 DEF WorkerOK, WorkerStates
<1>3. /\ w.pc \in RenderSteps /\ p # NoPrompt /\ p \in Asked(w.scene)
      /\ UNCHANGED <<legacy, plan>>
  BY PromptAssumption DEF RenderSteps, SceneSteps, Of, Asked, others
<1>4. WorkingOK' /\ w'.pc \notin AfterScenes
  BY <1>2, <1>3, StillRendering DEF SceneSteps
<1>5. RowsOK' BY <1>1, <1>3, <1>4, MarkerWritten
<1>6. Asked(w.scene)' = Asked(w.scene) BY <1>1, <1>2 DEF Asked, Of
<1>7. ~legacy /\ Holding => One(Asked(w.scene)) BY DEF EffectsOK, AskingOK, Asks
<1>8. Holding' => Holding BY <1>2, <1>3 DEF Holding
<1>9. AskingOK'
  BY <1>2, <1>3, <1>6, <1>7, <1>8 DEF AskingOK, Postable, Asks
<1>10. AgainOK'
  <2>1. ~legacy /\ Holding' => \A q \in Asked(w.scene)' : q = w'.prompt
    BY <1>2, <1>3, <1>6, <1>7, <1>8 DEF One
  <2> QED BY <1>2, <1>3, <2>1 DEF AgainOK, Postable, Asks
<1>11. ThreadOK' BY <1>1, <1>2, <1>3, PartsOf DEF ThreadOK, Of
<1> QED BY <1>4, <1>5, <1>9, <1>10, <1>11, Parts

\* What an earlier attempt left is of the scene, and of the clip unless the legacy route wrote it.
LEMMA Inherited ==
  ASSUME IInv, EffectsOK, w.pc = "reuse"
  PROVE  /\ w.pc \in RenderSteps /\ w.scene \in Scenes
         /\ (w.existing # NoPrompt => Of(w.existing, w.scene) /\ bound[w.scene] # NoPrompt)
         /\ (marker[File].st = "queued" => Of(marker[File].prompt, w.scene))
         /\ (marker[File].st = "sent" => posts[w.scene] >= 1)
         /\ (~legacy => /\ PlanMarker(w.scene) = marker[File]
                        /\ (marker[File].st # "none" => Matches)
                        /\ (marker[File].st = "queued" => bound[w.scene] # NoPrompt))
<1>1. w.pc \in RenderSteps /\ w.pc \in SceneSteps BY DEF RenderSteps, SceneSteps
<1>2. w.scene \in Scenes BY <1>1, HasScene
<1>3. File[1] = w.scene /\ \E r \in {1, 2} : File = <<w.scene, r>> BY DEF File, Rev
<1>4. w.existing # NoPrompt => Of(w.existing, w.scene) /\ bound[w.scene] # NoPrompt
  BY <1>1, PartsOf DEF ThreadOK
<1>5. /\ (marker[File].st = "queued" => Of(marker[File].prompt, w.scene))
      /\ (marker[File].st = "sent" => posts[w.scene] >= 1)
  BY <1>2, <1>3, PartsOf DEF RowsOK, RowsLinked, RowsSent
<1>6. ASSUME ~legacy
      PROVE  /\ PlanMarker(w.scene) = marker[File]
             /\ (marker[File].st # "none" => Matches)
             /\ (marker[File].st = "queued" => bound[w.scene] # NoPrompt)
  <2>1. w.mode = plan.mode /\ w.mode # "legacy" BY <1>1, <1>6, PlanThread DEF WorkSteps
  <2>2. PlanMarker(w.scene) = marker[File] BY <1>1, <2>1, PlanFile
  <2>3. marker[File].st # "none" => Matches
    BY <1>2, <1>3, <1>6, <2>1 DEF EffectsOK, FilesOK, Matches
  <2>4. PlanMarker(w.scene).st = "queued" => bound[w.scene] # NoPrompt BY <1>6 DEF EffectsOK, AskingOK
  <2> QED BY <2>2, <2>3, <2>4
<1> QED BY <1>1, <1>2, <1>4, <1>5, <1>6

\* The marker of an earlier attempt decides what may be sent.
LEMMA ReuseEffects == ASSUME IInv, EffectsOK, ReuseMarker PROVE EffectsOK'
<1>0. TypeOK /\ WorkerOK BY DEF IInv
<1>1. /\ UNCHANGED others /\ UNCHANGED <<step, bound, posts, sentModes>> /\ w.pc = "reuse"
  BY DEF ReuseMarker, At, rows, history, others
<1>2. UNCHANGED <<legacy, plan>> BY <1>1 DEF others
<1>3. /\ w.pc \in RenderSteps /\ w.scene \in Scenes
      /\ (w.existing # NoPrompt => Of(w.existing, w.scene) /\ bound[w.scene] # NoPrompt)
      /\ (marker[File].st = "queued" => Of(marker[File].prompt, w.scene))
      /\ (marker[File].st = "sent" => posts[w.scene] >= 1)
      /\ (~legacy /\ marker[File].st = "queued" => bound[w.scene] # NoPrompt)
  BY <1>1, Inherited
<1>4. ASSUME NEW pc \in {"error", "confirm"}, Same, w'.pc = pc
      PROVE  WorkingOK' /\ w'.pc \notin AfterScenes
  BY <1>1, <1>2, <1>3, <1>4, StillRendering DEF Same, SceneSteps
\* the scene is given up
<1>5. ASSUME Fails("AMBIGUOUS"), UNCHANGED prompts,
             marker' = marker \/ marker' = Marked("ambiguous", NoPrompt)
      PROVE  EffectsOK'
  <2>1. Same /\ w'.pc = "error" /\ w'.err = "AMBIGUOUS" BY <1>0, <1>5, FailsFields
  <2>2. WorkingOK' /\ w'.pc \notin AfterScenes BY <1>4, <2>1
  <2>3. RowsOK'
    <3>1. CASE marker' = marker BY <1>1, <1>2, <1>5, <2>2, <3>1, RowsKept DEF deliveries
    <3>2. CASE marker' = Marked("ambiguous", NoPrompt)
      BY <1>1, <1>3, <1>5, <2>2, <3>2, MarkerWritten
    <3> QED BY <1>5, <3>1, <3>2
  <2>4. Asked(w.scene)' = Asked(w.scene) BY <1>5, <2>1 DEF Asked, Of, Same
  <2>5. ~legacy /\ Holding => One(Asked(w.scene)) BY <1>1 DEF EffectsOK, AskingOK, Asks
  <2>6. Holding' => Holding BY <1>3, <2>1 DEF Holding, Same
  <2>7. AskingOK' BY <1>2, <2>1, <2>4, <2>5, <2>6 DEF AskingOK, Postable, PromptSteps, Asks, Same
  <2>8. AgainOK' BY <2>1 DEF AgainOK, Postable, PromptSteps, Asks
  <2>9. ThreadOK' BY <1>1, <1>3, <1>5, <2>1 DEF ThreadOK, PromptSteps, Same, Of
  <2> QED BY <2>2, <2>3, <2>7, <2>8, <2>9, Parts
<1>6. CASE marker[File].st = "sent" /\ GoTo("confirm") /\ UNCHANGED <<marker, prompts>>
  <2>1. Same /\ w'.pc = "confirm" BY <1>0, <1>6, GoToFields
  <2>2. WorkingOK' /\ w'.pc \notin AfterScenes BY <1>4, <2>1
  <2>3. RowsOK' BY <1>1, <1>2, <1>6, <2>2, RowsKept DEF deliveries
  <2>4. AskingOK' /\ AgainOK' BY <2>1, NotRendering DEF RenderSteps
  <2>5. ThreadOK' BY <1>1, <1>3, <1>6, <2>1 DEF ThreadOK, RenderSteps, PromptSteps, Same
  <2> QED BY <2>2, <2>3, <2>4, <2>5, Parts
<1>7. CASE marker[File].st = "queued" /\ Reclaims(marker[File].prompt)
  BY <1>1, <1>3, <1>7, ReclaimsEffects
<1>8. CASE marker[File].st = "ambiguous" /\ Fails("AMBIGUOUS") /\ UNCHANGED <<marker, prompts>>
  BY <1>5, <1>8
<1>9. CASE marker[File].st = "dispatching"
           /\ IF w.existing # NoPrompt THEN Reclaims(w.existing)
              ELSE marker' = Marked("ambiguous", NoPrompt) /\ Fails("AMBIGUOUS") /\ UNCHANGED prompts
  <2>1. CASE w.existing # NoPrompt BY <1>1, <1>3, <1>9, <2>1, ReclaimsEffects
  <2>2. CASE w.existing = NoPrompt BY <1>5, <1>9, <2>2
  <2> QED BY <2>1, <2>2
<1> QED BY <1>6, <1>7, <1>8, <1>9 DEF ReuseMarker

\* Nothing stands in the way of a delivery: the marker of another clip is set aside.
LEMMA StartEffects == ASSUME IInv, EffectsOK, StartDelivery PROVE EffectsOK'
<1>0. TypeOK /\ WorkerOK BY DEF IInv
<1>1. /\ UNCHANGED others /\ UNCHANGED <<step, bound, posts, sentModes>> /\ w.pc = "reuse"
      /\ (~Matches \/ marker[File].st \in {"none", "failed"})
  BY DEF StartDelivery, At, rows, history, others
<1>2. UNCHANGED <<legacy, plan, g>> /\ (Active' <=> Active) BY <1>1, SameActive DEF others
<1>3. /\ w.pc \in RenderSteps /\ w.scene \in Scenes
      /\ (w.existing # NoPrompt => Of(w.existing, w.scene) /\ bound[w.scene] # NoPrompt)
      /\ (~legacy => /\ PlanMarker(w.scene) = marker[File] /\ PlanMarker(w.scene).st \in {"none", "failed"})
  BY <1>0, <1>1, Inherited
<1>4. CASE w.existing # NoPrompt
  <2>1. Reclaims(w.existing) BY <1>4 DEF StartDelivery
  <2> QED BY <1>1, <1>3, <1>4, <2>1, ReclaimsEffects
<1>5. CASE w.existing = NoPrompt
  <2>1. /\ GoTo("start") /\ UNCHANGED marker
        /\ IF marker[File].st = "queued" THEN CancelSome({marker[File].prompt}) ELSE UNCHANGED prompts
    BY <1>5 DEF StartDelivery
  <2>2. Same /\ w'.pc = "start" BY <1>0, <2>1, GoToFields
  <2>3. WorkingOK' /\ w'.pc \notin AfterScenes
    BY <1>1, <1>2, <1>3, <2>2, StillRendering DEF Same, SceneSteps
  <2>4. Aged /\ (~legacy => UNCHANGED prompts)
    <3>1. CASE UNCHANGED prompts BY <3>1 DEF Aged, Dead
    <3>2. CASE marker[File].st = "queued" /\ CancelSome({marker[File].prompt})
      <4>1. Aged BY <1>0, <3>2, CancelAges
      <4>2. legacy BY <1>3, <3>2
      <4> QED BY <4>1, <4>2
    <3> QED BY <2>1, <3>1, <3>2
  <2>5. Seen BY <1>2, <2>4 DEF Seen, Dead
  <2>6. RowsOK'
    <3>1. /\ SelectedOK' /\ FilesOK' /\ AskedOK' /\ OnceOK' /\ RowsLinked' /\ RowsSent'
      BY <1>1, <1>2, <2>1, <2>4, <2>5, AgedTables, PartsOf
         DEF RowsOK, RowsSent, RowsLinked, ConfirmedMeansPosted, Of, others
    <3> QED BY <1>1, <2>3, <3>1, LateKept DEF RowsOK
  <2>7. ~legacy => Asked(w.scene)' = Asked(w.scene) BY <2>2, <2>4 DEF Asked, Of, Same
  <2>8. ~legacy => /\ Holding /\ Postable /\ PlanMarker(w.scene)' = PlanMarker(w.scene)
                   /\ One(Asked(w.scene)) /\ (bound[w.scene] = NoPrompt => Asked(w.scene) = {})
                   /\ (w.try = 1 => w.existing = bound[w.scene])
    <3> SUFFICES ASSUME ~legacy
                 PROVE  /\ Holding /\ Postable /\ PlanMarker(w.scene)' = PlanMarker(w.scene)
                        /\ One(Asked(w.scene)) /\ (bound[w.scene] = NoPrompt => Asked(w.scene) = {})
                        /\ (w.try = 1 => w.existing = bound[w.scene])
      OBVIOUS
    <3>1. Holding /\ Postable BY <1>1, <1>3, <1>5 DEF Holding, Postable, Asks
    <3>2. PlanMarker(w.scene)' = PlanMarker(w.scene) BY <1>2, <2>1, <2>2 DEF PlanMarker, Planned, Rev, Same
    <3> QED BY <1>1, <3>1, <3>2 DEF EffectsOK, AskingOK, Asks
  <2>9. AskingOK'
    <3> SUFFICES ASSUME ~legacy PROVE AskingOK' BY <1>2 DEF AskingOK
    <3> QED BY <1>1, <1>3, <1>5, <2>2, <2>7, <2>8 DEF AskingOK, PromptSteps, Same, Asks
  <2>10. AgainOK'
    <3> SUFFICES ASSUME ~legacy PROVE AgainOK' BY <1>2 DEF AgainOK
    <3>1. Once(w.scene) /\ Active => Unsent(w.scene)
      BY <1>3, <2>8 DEF EffectsOK, AgainOK
    <3>2. Unsent(w.scene) => Unsent(w.scene)'
      BY <1>1, <2>2, <2>4, <2>7 DEF Unsent, Dead, Same
    <3>3. Once(w.scene)' <=> Once(w.scene) BY <2>2 DEF Once, Same
    <3> QED BY <1>2, <2>2, <3>1, <3>2, <3>3 DEF AgainOK, PromptSteps, Same
  <2>11. ThreadOK' BY <1>5, <2>2 DEF ThreadOK, PromptSteps, Same
  <2> QED BY <2>3, <2>6, <2>9, <2>10, <2>11, Parts
<1> QED BY <1>4, <1>5

\* The intent is on disk before the POST.
LEMMA IntentEffects == ASSUME IInv, EffectsOK, WriteIntent PROVE EffectsOK'
<1>0. TypeOK /\ WorkerOK BY DEF IInv
<1>1. /\ UNCHANGED others /\ UNCHANGED <<step, bound, prompts, posts, sentModes>> /\ w.pc = "intend"
      /\ marker' = Marked("dispatching", NoPrompt) /\ GoTo("post")
  BY DEF WriteIntent, At, rows, world, others
<1>2. UNCHANGED <<legacy, plan>> BY <1>1 DEF others
<1>3. w.pc \in RenderSteps /\ w.pc \in SceneSteps /\ w.scene \in Scenes
  BY <1>1, HasScene DEF RenderSteps, SceneSteps
<1>4. Same /\ w'.pc = "post" BY <1>0, <1>1, GoToFields
<1>5. WorkingOK' /\ w'.pc \notin AfterScenes
  BY <1>1, <1>2, <1>3, <1>4, StillRendering DEF Same, SceneSteps
<1>6. RowsOK' BY <1>1, <1>3, <1>5, MarkerWritten
<1>7. Asked(w.scene)' = Asked(w.scene) BY <1>1, <1>4 DEF Asked, Of, Same
<1>8. AskingOK'
  <2> SUFFICES ASSUME ~legacy PROVE AskingOK' BY <1>2 DEF AskingOK
  <2>1. PlanMarker(w.scene)'.st = "dispatching"
    <3>1. \A s \in Scenes : s = w.scene => PlanMarker(s)'.st = "dispatching"
      BY <1>1, <1>2, <1>3, MarkedPlan
    <3> QED BY <1>3, <1>4, <3>1 DEF Same, PlanMarker, Planned, Rev
  <2>2. w.existing = NoPrompt /\ PlanMarker(w.scene).st \in {"none", "failed"}
    BY <1>1 DEF EffectsOK, AskingOK
  <2>3. Holding /\ Postable BY <1>1, <1>3, <2>2 DEF Holding, Postable, Asks
  <2>4. /\ One(Asked(w.scene)) /\ (bound[w.scene] = NoPrompt => Asked(w.scene) = {})
        /\ (w.try = 1 => w.existing = bound[w.scene])
    BY <1>1, <2>3 DEF EffectsOK, AskingOK, Asks
  <2> QED BY <1>1, <1>4, <1>7, <2>1, <2>2, <2>4 DEF AskingOK, PromptSteps, Same, Asks
<1>9. AgainOK'
  <2> SUFFICES ASSUME ~legacy PROVE AgainOK' BY <1>2 DEF AgainOK
  <2>1. Once(w.scene)' => Unsent(w.scene) BY <1>1, <1>3, <1>4 DEF EffectsOK, AgainOK, Once, Same
  <2>2. Unsent(w.scene) => Unsent(w.scene)' BY <1>1, <1>4, <1>7 DEF Unsent, Dead, Same
  <2> QED BY <1>4, <2>1, <2>2 DEF AgainOK, PromptSteps, Same
<1>10. ThreadOK'
  BY <1>1, <1>3, <1>4, PartsOf DEF ThreadOK, PromptSteps, Same, Of
<1> QED BY <1>5, <1>6, <1>8, <1>9, <1>10, Parts

\* The scene is tried once more, and only when nothing of it can still come out.
LEMMA RetryEffects == ASSUME IInv, EffectsOK, RetryDelivery PROVE EffectsOK'
<1>0. TypeOK /\ WorkerOK BY DEF IInv
<1>1. /\ UNCHANGED others /\ UNCHANGED deliveries
      /\ w.pc = "error" /\ w.err = "FAILED" /\ w.try = 1
      /\ w' = [w EXCEPT !.pc = "deliver", !.try = 2]
  BY DEF RetryDelivery, At, rows, files, world, history, others, deliveries
<1>2. /\ w'.pc = "deliver" /\ w'.try = 2 /\ w'.mode = w.mode /\ w'.todo = w.todo
      /\ w'.scene = w.scene /\ w'.existing = w.existing
  BY <1>0, <1>1 DEF WorkerOK, WorkerStates
<1>3. w.pc \in RenderSteps /\ UNCHANGED <<legacy, plan, step>>
  BY <1>1 DEF RenderSteps, SceneSteps, others, deliveries
<1>4. WorkingOK' /\ w'.pc \notin AfterScenes
  BY <1>1, <1>2, <1>3, StillRendering DEF SceneSteps
<1>5. RowsOK' BY <1>1, <1>4, RowsKept
<1>6. ~legacy => /\ PlanMarker(w.scene).st = "failed" /\ Postable /\ (Holding => One(Asked(w.scene)))
                 /\ (Holding /\ bound[w.scene] = NoPrompt => Asked(w.scene) = {})
  BY <1>1 DEF EffectsOK, AskingOK, Postable
<1>7. Asked(w.scene)' = Asked(w.scene) /\ PlanMarker(w.scene)' = PlanMarker(w.scene)
  BY <1>1, <1>2, <1>3 DEF Asked, Of, deliveries, PlanMarker, Planned, Rev
<1>8. Holding' => Holding BY <1>2, <1>3 DEF Holding
<1>9. AskingOK'
  BY <1>1, <1>2, <1>3, <1>6, <1>7, <1>8 DEF AskingOK, PromptSteps, deliveries, Asks
<1>10. AgainOK'
  <2> SUFFICES ASSUME ~legacy PROVE AgainOK' BY <1>3 DEF AgainOK
  <2>1. Once(w.scene) /\ Active /\ Holding => Unsent(w.scene)
    BY <1>3, <1>6 DEF EffectsOK, AgainOK
  <2>2. Unsent(w.scene) => Unsent(w.scene)' BY <1>1, <1>2, <1>7 DEF Unsent, Dead, deliveries
  <2>3. Once(w.scene)' <=> Once(w.scene) BY <1>2 DEF Once
  <2>4. Active' <=> Active BY <1>1, SameActive
  <2> QED BY <1>2, <1>8, <2>1, <2>2, <2>3, <2>4 DEF AgainOK, PromptSteps
<1>11. ThreadOK' BY <1>1, <1>2, <1>3, PartsOf DEF ThreadOK, PromptSteps, deliveries, Of
<1> QED BY <1>4, <1>5, <1>9, <1>10, <1>11, Parts

\* A delivery step is begun, or found done, or found unresolved.
LEMMA BeginDeliveryEffects ==
  ASSUME IInv, EffectsOK, NEW s \in Scenes, BeginDelivery(s) PROVE EffectsOK'
<1>0. TypeOK /\ WorkerOK BY DEF IInv
<1>1. /\ UNCHANGED others /\ UNCHANGED <<bound, marker, prompts, posts, sentModes>>
      /\ w.pc = "scene" /\ w.mode \in Modes /\ w.mode # "legacy" /\ s \in w.todo
      /\ step' = [step EXCEPT ![s] = Begun(@)]
  BY DEF BeginDelivery, At, IsNext, files, world, history, others, Modes
<1>2. step' = [step EXCEPT ![s] = Begun(step[s])] BY <1>0, <1>1 DEF TypeOK
<1>3. /\ step'[s] = Begun(step[s]) /\ \A r \in Scenes : r # s => step'[r] = step[r]
      /\ Begun(step[s]) # "absent" /\ (Begun(step[s]) = "COMPLETED" <=> step[s] = "COMPLETED")
  BY <1>0, <1>2 DEF TypeOK, Begun
<1>4. /\ w.mode \in Modes /\ plan.mode = w.mode
      /\ \A r \in Scenes \ w.todo : step[r] = "COMPLETED"
  BY <1>1 DEF EffectsOK, WorkingOK, WorkSteps
<1>5. plan' = plan /\ legacy' = legacy BY <1>1 DEF others
<1>6. CASE step[s] = "COMPLETED"
  <2>1. w' = [w EXCEPT !.todo = @ \ {s}] BY <1>6 DEF BeginDelivery
  <2>2. w'.pc = "scene" /\ w'.todo = w.todo \ {s} /\ w'.mode = w.mode
    BY <1>0, <1>1, <2>1 DEF WorkerOK, WorkerStates
  <2>3. RowsOK' BY <1>1, <1>2, <1>3, <2>2, StepWritten DEF AfterScenes, LateSteps, FilmSteps
  <2>4. AskingOK' /\ AgainOK' BY <2>2, NotRendering DEF RenderSteps, SceneSteps
  <2>5. WorkingOK'
    <3>1. \A r \in Scenes \ w'.todo : step'[r] = "COMPLETED" BY <1>3, <1>4, <1>6, <2>2
    <3> QED BY <1>1, <1>4, <1>5, <2>2, <3>1 DEF WorkingOK, RenderSteps, SceneSteps
  <2>6. ThreadOK' BY <2>2 DEF ThreadOK, RenderSteps, SceneSteps, PromptSteps
  <2> QED BY <2>3, <2>4, <2>5, <2>6, Parts
<1>7. CASE step[s] \in {"AMBIGUOUS", "FAILED"}
  <2>1. w' = [w EXCEPT !.pc = "block"] BY <1>7 DEF BeginDelivery
  <2>2. w'.pc = "block" BY <1>0, <2>1 DEF WorkerOK, WorkerStates
  <2>3. RowsOK' BY <1>1, <1>2, <1>3, <2>2, StepWritten DEF AfterScenes, LateSteps, FilmSteps
  <2>4. AskingOK' /\ AgainOK' BY <2>2, NotRendering DEF RenderSteps, SceneSteps
  <2>5. WorkingOK' BY <2>2, Ended
  <2>6. ThreadOK' BY <2>2 DEF ThreadOK, RenderSteps, SceneSteps, PromptSteps
  <2> QED BY <2>3, <2>4, <2>5, <2>6, Parts
<1>8. CASE step[s] \notin {"COMPLETED", "AMBIGUOUS", "FAILED"}
  <2>1. w' = [w EXCEPT !.scene = s, !.pc = IF DeliveryOn THEN "dispatch" ELSE "confirm"]
    BY <1>8 DEF BeginDelivery
  <2>2. /\ w'.pc = IF DeliveryOn THEN "dispatch" ELSE "confirm"
        /\ w'.scene = s /\ w'.todo = w.todo /\ w'.mode = w.mode
    BY <1>0, <2>1 DEF WorkerOK, WorkerStates
  <2>3. RowsOK' BY <1>1, <1>2, <1>3, <2>2, StepWritten DEF AfterScenes, LateSteps, FilmSteps
  <2>4. AskingOK' /\ AgainOK' BY <2>2, NotRendering DEF RenderSteps
  <2>5. WorkingOK'
    BY <1>1, <1>3, <1>4, <1>5, <1>8, <2>2 DEF WorkingOK, WorkSteps, RenderSteps, SceneSteps
  <2>6. ThreadOK' BY <2>2 DEF ThreadOK, RenderSteps, PromptSteps
  <2> QED BY <2>3, <2>4, <2>5, <2>6, Parts
<1> QED BY <1>6, <1>7, <1>8

\* The thread takes the receipt of its step along.
LEMMA MarkDispatchingEffects ==
  ASSUME IInv, EffectsOK, MarkDispatching PROVE EffectsOK'
<1>0. TypeOK /\ WorkerOK BY DEF IInv
<1>1. /\ UNCHANGED others /\ UNCHANGED <<bound, marker, prompts, posts, sentModes>>
      /\ w.pc = "dispatch" /\ Active
  BY DEF MarkDispatching, At, files, world, history, others
<1>2. w.scene \in Scenes BY <1>1, HasScene DEF SceneSteps
<1>5. w.mode \in Modes /\ plan.mode = w.mode /\ w.mode # "legacy"
  BY <1>1, PlanThread DEF WorkSteps, SceneSteps, LegacySteps
<1>3. CASE Leave /\ UNCHANGED step
  <2>1. w'.pc = "idle" BY <1>3, LeaveFields
  <2>2. RowsOK' BY <1>1, <1>3, <2>1, RowsKept
       DEF others, deliveries, AfterScenes, LateSteps, FilmSteps
  <2>3. AskingOK' /\ AgainOK' BY <2>1, NotRendering DEF RenderSteps, SceneSteps
  <2>4. ThreadOK' BY <2>1 DEF ThreadOK, RenderSteps, SceneSteps, PromptSteps
  <2> QED BY <2>1, <2>2, <2>3, <2>4, Ended, Parts
<1>4. CASE step[w.scene] \in {"INTENT", "DISPATCHING"}
  <2>1. /\ step' = [step EXCEPT ![w.scene] = "DISPATCHING"]
        /\ w' = [w EXCEPT !.pc = "deliver", !.existing = bound[w.scene], !.try = 1]
    BY <1>4 DEF MarkDispatching
  <2>2. /\ w'.pc = "deliver" /\ w'.existing = bound[w.scene] /\ w'.try = 1
        /\ w'.scene = w.scene /\ w'.todo = w.todo /\ w'.mode = w.mode
    BY <1>0, <2>1 DEF WorkerOK, WorkerStates
  <2>3. step'[w.scene] = "DISPATCHING" /\ \A r \in Scenes : r # w.scene => step'[r] = step[r]
    BY <1>0, <1>2, <2>1 DEF TypeOK
  <2>4. RowsOK'
    BY <1>1, <1>2, <1>4, <1>5, <2>1, <2>2, StepWritten DEF AfterScenes, LateSteps, FilmSteps, SceneSteps
  <2>5. /\ plan' = plan /\ legacy' = legacy /\ DeliveryOn
        /\ \A r \in Scenes \ w.todo : step[r] = "COMPLETED"
    BY <1>1, <1>5 DEF others, EffectsOK, WorkingOK, SceneSteps
  <2>6. WorkingOK' BY <1>4, <1>5, <2>2, <2>3, <2>5 DEF WorkingOK, WorkSteps
  <2>7. ThreadOK'
    <3>1. bound[w.scene] # NoPrompt => Of(bound[w.scene], w.scene)
      BY <1>2, PartsOf DEF RowsOK, RowsLinked
    <3> QED BY <1>1, <1>2, <2>2, <3>1 DEF ThreadOK, PromptSteps, Of
  <2>8. ~legacy =>
        /\ bound[w.scene] = NoPrompt => One(Asked(w.scene))
        /\ PlanMarker(w.scene).st \in {"none", "failed"} /\ bound[w.scene] = NoPrompt => Asked(w.scene) = {}
        /\ PlanMarker(w.scene).st = "queued" => bound[w.scene] # NoPrompt
        /\ posts[w.scene] >= 1 => Spent(w.scene) # {}
    BY <1>1, <1>2 DEF EffectsOK, AskedOK
  <2>9. Asked(w.scene)' = Asked(w.scene) /\ PlanMarker(w.scene)' = PlanMarker(w.scene)
    BY <1>1, <2>2, <2>5 DEF Asked, Of, PlanMarker, Planned, Rev
  <2>10. AskingOK'
    <3> SUFFICES ASSUME ~legacy PROVE AskingOK' BY <2>5 DEF AskingOK
    <3> QED BY <1>1, <2>2, <2>8, <2>9 DEF AskingOK, Holding, Postable, PromptSteps, Asks
  <2>11. AgainOK'
    <3> SUFFICES ASSUME ~legacy PROVE AgainOK' BY <2>5 DEF AgainOK
    <3>1. Holding' /\ Postable' => Asked(w.scene)' = {}
      BY <1>1, <2>2, <2>8, <2>9 DEF Holding, Postable
    <3>2. Asked(w.scene) = {} => posts[w.scene] = 0
      <4>1. posts[w.scene] \in Nat BY <1>0, <1>2 DEF TypeOK
      <4> QED BY <2>8, <4>1 DEF Spent
    <3> QED BY <1>1, <2>2, <2>9, <3>1, <3>2 DEF AgainOK, Unsent, PromptSteps
  <2> QED BY <2>4, <2>6, <2>7, <2>10, <2>11, Parts
<1> QED BY <1>3, <1>4 DEF MarkDispatching

\* A delivery step is held, or completed when the scene is out.
LEMMA StepOutcomeEffects ==
  ASSUME IInv, EffectsOK, HoldDelivery \/ ConfirmDelivery PROVE EffectsOK'
<1>0. TypeOK /\ WorkerOK BY DEF IInv
<1>1. /\ UNCHANGED others /\ UNCHANGED <<bound, marker, prompts, posts, sentModes>>
      /\ w.pc \in {"error", "confirm"} /\ w.mode \in Modes /\ w.mode # "legacy"
  BY DEF HoldDelivery, ConfirmDelivery, At, files, world, history, others, Modes
<1>2. w.scene \in Scenes BY <1>1, HasScene DEF SceneSteps
<1>3. /\ step[w.scene] # "COMPLETED" /\ w.mode \in Modes /\ plan.mode = w.mode
      /\ plan' = plan /\ legacy' = legacy
      /\ \A r \in Scenes \ w.todo : step[r] = "COMPLETED"
  BY <1>1 DEF others, EffectsOK, WorkingOK, WorkSteps, SceneSteps
<1>4. CASE HoldDelivery
  <2>1. step' = [step EXCEPT ![w.scene] = w.err] /\ GoTo("block") BY <1>4 DEF HoldDelivery
  <2>2. w'.pc = "block" BY <1>0, <2>1, GoToFields
  <2>3. w.err # "absent" /\ w.err # "COMPLETED" BY <1>0 DEF WorkerOK, WorkerStates, Errors
  <2>4. RowsOK'
    BY <1>1, <1>2, <1>3, <2>1, <2>2, <2>3, StepWritten DEF AfterScenes, LateSteps, FilmSteps, SceneSteps
  <2>5. AskingOK' /\ AgainOK' BY <2>2, NotRendering DEF RenderSteps, SceneSteps
  <2>6. ThreadOK' BY <2>2 DEF ThreadOK, RenderSteps, SceneSteps, PromptSteps
  <2> QED BY <2>2, <2>4, <2>5, <2>6, Ended, Parts
<1>5. CASE ConfirmDelivery
  <2>1. /\ step' = [step EXCEPT ![w.scene] = "COMPLETED"] /\ w.pc = "confirm"
        /\ w' = [w EXCEPT !.pc = "scene", !.todo = @ \ {w.scene}]
    BY <1>5 DEF ConfirmDelivery, At
  <2>2. w'.pc = "scene" /\ w'.todo = w.todo \ {w.scene} /\ w'.mode = w.mode
    BY <1>0, <2>1 DEF WorkerOK, WorkerStates
  <2>3. DeliveryOn => posts[w.scene] >= 1 BY <2>1, PartsOf DEF ThreadOK
  <2>4. RowsOK'
    BY <1>1, <1>2, <2>1, <2>2, <2>3, StepWritten DEF AfterScenes, LateSteps, FilmSteps, SceneSteps
  <2>5. step'[w.scene] = "COMPLETED" /\ \A r \in Scenes : r # w.scene => step'[r] = step[r]
    BY <1>0, <1>2, <2>1 DEF TypeOK
  <2>6. WorkingOK'
    <3>1. \A r \in Scenes \ w'.todo : step'[r] = "COMPLETED" BY <1>3, <2>2, <2>5
    <3> QED BY <1>1, <1>3, <2>2, <3>1 DEF WorkingOK, RenderSteps, SceneSteps
  <2>7. AskingOK' /\ AgainOK' BY <2>2, NotRendering DEF RenderSteps, SceneSteps
  <2>8. ThreadOK' BY <2>2 DEF ThreadOK, RenderSteps, SceneSteps, PromptSteps
  <2> QED BY <2>4, <2>6, <2>7, <2>8, Parts
<1> QED BY <1>4, <1>5

\* The legacy route goes from scene to scene and writes none of these rows.
LEMMA LegacyStepEffects ==
  ASSUME IInv, EffectsOK, (\E s \in Scenes : LegacyScene(s)) \/ LegacyNext PROVE EffectsOK'
<1>0. TypeOK /\ WorkerOK BY DEF IInv
<1>1. /\ UNCHANGED others /\ UNCHANGED deliveries
      /\ w.mode = "legacy" /\ w.pc \in {"scene", "confirm", "error"}
  <2>1. CASE \E s \in Scenes : LegacyScene(s)
    BY <2>1 DEF LegacyScene, At, rows, files, world, history, others, deliveries
  <2>2. CASE LegacyNext BY <2>2 DEF LegacyNext, rows, files, world, history, others, deliveries
  <2> QED BY <2>1, <2>2
<1>2. /\ legacy /\ legacy' = legacy /\ plan' = plan
      /\ w.todo # {} => DeliveryOn
  BY <1>1 DEF EffectsOK, WorkingOK, WorkSteps, SceneSteps, Modes, others
<1>3. AskingOK' /\ AgainOK' BY <1>2 DEF AskingOK, AgainOK
<1>4. CASE \E s \in Scenes : LegacyScene(s)
  <2>1. PICK s \in Scenes : LegacyScene(s) BY <1>4
  <2>2. s \in w.todo /\ w' = [w EXCEPT !.pc = "deliver", !.scene = s, !.existing = NoPrompt, !.try = 1]
    BY <2>1 DEF LegacyScene, IsNext
  <2>3. /\ w'.pc = "deliver" /\ w'.scene = s /\ w'.existing = NoPrompt
        /\ w'.mode = "legacy" /\ w'.todo = w.todo
    BY <1>0, <1>1, <2>2 DEF WorkerOK, WorkerStates
  <2>4. RowsOK' BY <1>1, <2>3, RowsKept DEF AfterScenes, LateSteps, FilmSteps
  <2>5. WorkingOK'
    BY <1>2, <2>2, <2>3 DEF WorkingOK, LegacySteps, SceneSteps
  <2>6. ThreadOK' BY <2>3 DEF ThreadOK, PromptSteps
  <2> QED BY <1>3, <2>4, <2>5, <2>6, Parts
<1>5. CASE LegacyNext
  <2>1. w'.pc \in {"idle", "scene"}
        /\ (w'.pc = "scene" => w'.mode = "legacy" /\ w'.todo \subseteq w.todo)
    <3>1. CASE Leave BY <3>1, LeaveFields
    <3>2. CASE w' = [w EXCEPT !.pc = "scene", !.todo = @ \ {w.scene}]
      BY <1>0, <1>1, <3>2 DEF WorkerOK, WorkerStates
    <3> QED BY <1>5, <3>1, <3>2 DEF LegacyNext
  <2>2. RowsOK' BY <1>1, <2>1, RowsKept DEF AfterScenes, LateSteps, FilmSteps
  <2>3. WorkingOK'
    BY <1>2, <2>1 DEF WorkingOK, WorkSteps, LateSteps, FilmSteps, LegacySteps, RenderSteps, SceneSteps
  <2>4. ThreadOK' BY <2>1 DEF ThreadOK, RenderSteps, SceneSteps, PromptSteps
  <2> QED BY <1>3, <2>2, <2>3, <2>4, Parts
<1> QED BY <1>4, <1>5

\* The steps of a delivery keep the invariant.
LEMMA DeliveryEffects ==
  ASSUME IInv, EffectsOK, Delivery, Active' => Active PROVE EffectsOK'
BY RowEffects, CheckEffects, LookEffects, PromptWriteEffects, PostEffects, ReuseEffects, StartEffects,
   IntentEffects, RetryEffects, BeginDeliveryEffects, LegacyStepEffects, MarkDispatchingEffects,
   StepOutcomeEffects DEF Delivery

-----------------------------------------------------------------------------
(* The invariant, and what it says of the effects                               *)

\* At first nothing is asked for.
LEMMA EffectsInit == ASSUME Init PROVE EffectsOK
<1>1. /\ \A s \in Scenes : step[s] = "absent" /\ bound[s] = NoPrompt /\ posts[s] = 0
      /\ \A s \in Scenes, r \in {1, 2} : marker[<<s, r>>] = NoMarker
      /\ \A p \in Prompts : prompts[p].st = "free"
      /\ plan.mode = "none" /\ plan.state = "PLAN_COMMITTED"
      /\ ~film.published /\ mails = 0 /\ extra = 0 /\ ~legacy
      /\ assemble = "absent" /\ request = "absent" /\ sentModes = {} /\ w.pc = "idle" /\ g = "idle"
  BY DEF Init, NoPlan, Unused, Idle
<1>2. ASSUME NEW s PROVE Asked(s) = {} /\ Spent(s) = {} BY <1>1 DEF Asked, Spent, Of
<1>3. SelectedOK BY <1>1 DEF SelectedOK, OneSelection
<1>4. FilesOK BY <1>1 DEF FilesOK, NoMarker
<1>5. LinksOK BY <1>1 DEF LinksOK, RenderSteps, SceneSteps, PromptSteps, NoMarker
<1>6. SentOK BY <1>1 DEF SentOK, ConfirmedMeansPosted, NoMarker
<1>7. LateOK BY <1>1 DEF LateOK, Late, CompletedIsDone, LateSteps, FilmSteps
<1>8. AskedOK
  <2>1. \A s \in Scenes : PlanMarker(s) = NoMarker BY <1>1 DEF PlanMarker, Planned, Rev
  <2> QED BY <1>1, <1>2, <2>1 DEF AskedOK, One, Two, NoMarker
<1>9. OnceOK BY <1>1, <1>2 DEF OnceOK, One
<1>10. WorkingOK BY <1>1 DEF WorkingOK, WorkSteps, LateSteps, FilmSteps, RenderSteps, SceneSteps
<1>11. AskingOK BY <1>1 DEF AskingOK, Holding, RenderSteps, SceneSteps, PromptSteps, Asks
<1>12. AgainOK BY <1>1 DEF AgainOK, RenderSteps, SceneSteps
<1> QED BY <1>3, <1>4, <1>5, <1>6, <1>7, <1>8, <1>9, <1>10, <1>11, <1>12 DEF EffectsOK

\* And every step keeps who asked for what in order.
LEMMA EffectsStep == ASSUME IInv, EffectsOK, [Next]_vars PROVE EffectsOK'
<1>1. Active' => Active BY StaysInactive
<1>2. CASE UNCHANGED vars
  <2>1. /\ UNCHANGED <<step, bound, marker, posts, sentModes, prompts, g, legacy>>
        /\ UNCHANGED <<plan, film, assemble, mails, extra, request, w>>
    BY <1>2 DEF vars, rows, files, world, history
  <2>2. Aged /\ Seen BY <2>1 DEF Aged, Seen, Dead
  <2> QED BY <1>1, <2>1, <2>2, AgedKeeps
<1> QED BY <1>1, <1>2, TickEffects, PlanWorkEffects, DeliveryEffects, FilmAndMailEffects,
       ComfyUIEffects, EnvironmentEffects DEF Next, Worker

\* Who asked ComfyUI for which post, what the rows may say of it and how often a
\* scene may still be asked for is settled in every state of every run; of how often,
\* nothing is claimed any more once the legacy route has taken the job.
THEOREM EffectsInvariance == Spec => []EffectsOK
<1>1. Init => EffectsOK BY EffectsInit
<1>2. IInv /\ EffectsOK /\ [Next]_vars => EffectsOK' BY EffectsStep
<1> QED BY <1>1, <1>2, Invariance, PTL DEF Spec

\* All scenes Discord receives are of the selection of the plan, or of the legacy route;
\* and unless that route takes the job over, no crash, no cancel, no rejected or unanswered
\* POST and no restart makes it receive a scene twice as long as nothing goes wrong at ComfyUI.
THEOREM OnePost == Spec => []PostsConsistent
<1>1. EffectsOK => PostsConsistent
  BY DEF EffectsOK, OnceOK, SelectedOK, PostsConsistent, PostedAtMostOnce
<1> QED BY <1>1, EffectsInvariance, PTL

\* The rows are well-typed, what the durable plan calls done has happened, and an outcome
\* it is not sure of has held back the film and the request.
THEOREM Truthful == Spec => []PlanTruthful
<1>1. IInv /\ EffectsOK => PlanTruthful
  <2> SUFFICES ASSUME IInv, EffectsOK PROVE PlanTruthful OBVIOUS
  <2>1. ConfirmedMeansPosted /\ LateOK BY DEF EffectsOK, SentOK
  <2>2. CompletedIsDone BY <2>1 DEF LateOK
  <2>3. UnresolvedBlocks
    <3> SUFFICES ASSUME ~AllDone PROVE ~film.published /\ mails = 0
      BY DEF UnresolvedBlocks, AllDone
    <3>1. mails \in Nat BY DEF IInv, TypeOK
    <3> QED BY <2>1, <3>1 DEF LateOK
  <2> QED BY <2>1, <2>2, <2>3 DEF PlanTruthful, IInv
<1> QED BY <1>1, Invariance, EffectsInvariance, PTL

-----------------------------------------------------------------------------
(* The delivery whose check came before the cancel                              *)

\* The one late delivery is the end of its window: a thread that has passed the check of
\* an original scene before the write has not started one yet.
WindowOK ==
  /\ status # "cancelled" => late = 0
  /\ late <= 1
  /\ late = 1 => ~(w.pc = "intend" /\ Watched)

\* Only the check opens the window, only the write counts, and a cancel is final.
LEMMA Windows ==
  ASSUME WorkerOK, [Next]_vars
  PROVE  \/ CheckDispatch \/ WriteIntent
         \/ /\ late' = late /\ (w' = w \/ w'.pc # "intend")
            /\ (status = "cancelled" => status' = "cancelled")
<1> DEFINE Elsewhere == /\ late' = late /\ (w' = w \/ w'.pc # "intend")
                        /\ (status = "cancelled" => status' = "cancelled")
<1>1. ASSUME UNCHANGED late, status = "cancelled" => status' = "cancelled",
             w' = w \/ Leave \/ (\E pc : pc # "intend" /\ GoTo(pc)) \/ (\E err : Fails(err))
      PROVE  Elsewhere
  BY <1>1, GoToFields, FailsFields, LeaveFields
<1>2. CASE Tick
  <2>1. w' = w \/ w'.pc # "intend"
    BY <1>2, LeaveFields DEF Tick, ProcessJob, ProcessJobLegacy, RunEpoch, ResumePlan, LateWorkRejected,
       Enter, GoTo, WorkerOK, WorkerStates, Idle
  <2>2. late' = late /\ (status = "cancelled" => status' = "cancelled")
    BY <1>2 DEF Tick, ProcessJob, ProcessJobLegacy, RunEpoch, ResumePlan, LateWorkRejected,
       Active, rows, history
  <2> QED BY <2>1, <2>2
<1>3. CASE PlanWork
  <2>1. late' = late /\ (status = "cancelled" => status' = "cancelled")
    BY <1>3 DEF PlanWork, Discard, EnsurePlan, Transition, AdvancePlan, JobStatus, Active, rows, history
  <2>2. CASE Discard \/ EnsurePlan \/ JobStatus
    BY <1>1, <2>1, <2>2 DEF Discard, EnsurePlan, JobStatus
  <2>3. CASE Transition BY <2>1, <2>3 DEF Transition, WorkerOK, WorkerStates, Idle
  <2>4. CASE AdvancePlan BY <2>1, <2>4 DEF AdvancePlan, WorkerOK, WorkerStates, PlanSteps
  <2> QED BY <1>3, <2>2, <2>3, <2>4 DEF PlanWork
<1>4. CASE Delivery /\ ~CheckDispatch /\ ~WriteIntent
  <2>1. CASE \E s \in Scenes : BeginDelivery(s) \/ LegacyScene(s)
    <3>1. PICK s \in Scenes : BeginDelivery(s) \/ LegacyScene(s) BY <2>1
    <3>2. CASE BeginDelivery(s) BY <3>2 DEF BeginDelivery, WorkerOK, WorkerStates, At, history
    <3>3. CASE LegacyScene(s) BY <3>3 DEF LegacyScene, WorkerOK, WorkerStates, rows, history
    <3> QED BY <3>1, <3>2, <3>3
  <2>2. CASE AllDelivered \/ CheckDelivery \/ SeeDone \/ SeeFailed \/ NotInHistory \/ CheckCommit
    <3>1. UNCHANGED late /\ UNCHANGED status
      BY <2>2 DEF AllDelivered, CheckDelivery, SeeDone, SeeFailed, NotInHistory, CheckCommit, rows, history
    <3>2. \E pc : pc # "intend" /\ GoTo(pc)
      BY <2>2 DEF AllDelivered, CheckDelivery, SeeDone, SeeFailed, NotInHistory, CheckCommit
    <3> QED BY <1>1, <3>1, <3>2
  <2>3. CASE PollFails \/ PromptTimeout
    <3>1. UNCHANGED late /\ UNCHANGED status BY <2>3 DEF PollFails, PromptTimeout, rows, history
    <3>2. (\E pc : pc # "intend" /\ GoTo(pc)) \/ Fails("AMBIGUOUS")
      BY <2>3 DEF PollFails, PromptTimeout
    <3> QED BY <1>1, <3>1, <3>2
  <2>4. CASE QueueRejected \/ QueueAmbiguous
    <3>1. (Fails("FAILED") \/ Fails("AMBIGUOUS")) /\ UNCHANGED late /\ UNCHANGED status
      BY <2>4, Zenon DEF QueueRejected, QueueAmbiguous, rows, history
    <3> QED BY <1>1, <3>1
  <2>5. CASE BindPrompt \/ MarkQueued \/ ReclaimQueued \/ ReclaimLost \/ ResolveError \/ CommitSent
    <3>1. UNCHANGED late /\ UNCHANGED status
      BY <2>5 DEF BindPrompt, MarkQueued, ReclaimQueued, ReclaimLost, ResolveError, CommitSent, rows, history
    <3>2. (\E pc : pc # "intend" /\ GoTo(pc)) \/ (\E err : Fails(err))
      BY <2>5 DEF BindPrompt, MarkQueued, ReclaimQueued, ReclaimLost, ResolveError, CommitSent
    <3> QED BY <1>1, <3>1, <3>2
  <2>6. CASE MarkDispatching \/ RetryDelivery \/ ConfirmDelivery \/ LegacyNext
    BY <2>6, LeaveFields DEF MarkDispatching, RetryDelivery, ConfirmDelivery, LegacyNext, WorkerOK,
       WorkerStates, rows, history
  <2>7. CASE HoldDelivery BY <1>1, <2>7 DEF HoldDelivery, history
  <2>8. CASE \E p \in Prompts : QueuePrompt(p)
    <3>1. PICK p \in Prompts : QueuePrompt(p) BY <2>8
    <3>2. w' = [w EXCEPT !.pc = "bind", !.prompt = p] /\ UNCHANGED late /\ UNCHANGED status
      BY <3>1, Zenon DEF QueuePrompt, rows, history
    <3> QED BY <3>2 DEF WorkerOK, WorkerStates
  <2>9. CASE ReuseMarker \/ StartDelivery
    <3>1. UNCHANGED late /\ UNCHANGED status BY <2>9 DEF ReuseMarker, StartDelivery, rows, history
    <3>2. CASE \E p : Reclaims(p)
      BY <3>1, <3>2 DEF Reclaims, WorkerOK, WorkerStates
    <3>3. (\E p : Reclaims(p)) \/ GoTo("confirm") \/ GoTo("start") \/ Fails("AMBIGUOUS")
      BY <2>9 DEF ReuseMarker, StartDelivery
    <3> QED BY <1>1, <3>1, <3>2, <3>3
  <2> QED BY <1>4, <2>1, <2>2, <2>3, <2>4, <2>5, <2>6, <2>7, <2>8, <2>9 DEF Delivery
<1>5. CASE FilmAndMail
  <2>1. UNCHANGED late /\ UNCHANGED status
    BY <1>5 DEF FilmAndMail, BeginAssembly, Encode, AssemblyFails, Publish, CompleteAssembly, LegacyStitch,
       BeginRequest, LookupSeen, LookupUnseen, LookupFails, ClaimRequest, SendRequest, SendFails,
       HoldRequest, RecordRequest, LegacyAsk, LegacyAskFails, rows, history
  <2>2. Leave \/ \E pc : pc # "intend" /\ GoTo(pc)
    <3>1. CASE BeginRequest
      <4>1. w'.pc = "intent" BY <1>5, <3>1, GoToFields DEF BeginRequest
      <4> QED BY <3>1 DEF BeginRequest
    <3> QED
      BY <1>5, <3>1 DEF FilmAndMail, BeginAssembly, Encode, AssemblyFails, Publish, CompleteAssembly,
         LegacyStitch, LookupSeen, LookupUnseen, LookupFails, ClaimRequest, SendRequest, SendFails,
         HoldRequest, RecordRequest, LegacyAsk, LegacyAskFails
  <2> QED BY <1>1, <2>1, <2>2
<1>6. CASE ComfyUI
  BY <1>6 DEF ComfyUI, ComfyRestart, PromptPosts, PromptEnds, PromptErrors, rows, history
<1>7. CASE Environment
  BY <1>7, LeaveFields DEF Environment, GuiCancel, GuiCancelPrompts, Crash, Launch, LaunchFinish,
     LaunchAbandon, Abandoned, rows, history
<1>8. CASE UNCHANGED vars BY <1>8 DEF vars, rows, history
<1> QED BY <1>2, <1>3, <1>4, <1>5, <1>6, <1>7, <1>8 DEF Next, Worker

\* Once the job is cancelled, the renderer starts one more delivery of an original scene
\* at most: that of a check made before the cancel, in whatever order the two fall.
THEOREM OneLate == Spec => []OneLateDelivery
<1>1. Init => WindowOK BY DEF Init, WindowOK
<1>2. ASSUME IInv, WindowOK, [Next]_vars PROVE WindowOK'
  <2>0. WorkerOK /\ late \in Nat BY <1>2 DEF IInv, TypeOK
  <2>1. CASE CheckDispatch
    <3>1. /\ w' = [w EXCEPT !.pc = "intend"] /\ UNCHANGED <<late, status>> /\ RenderActive
      BY <2>1 DEF CheckDispatch, GoTo, rows, history
    <3>2. Watched' <=> Watched BY <2>0, <3>1 DEF Watched, WorkerOK, WorkerStates, Rev
    <3>3. Watched => late = 0 BY <1>2, <3>1 DEF WindowOK, RenderActive, Active
    <3> QED BY <1>2, <3>1, <3>2, <3>3 DEF WindowOK
  <2>2. CASE WriteIntent
    <3>1. /\ w.pc = "intend" /\ GoTo("post") /\ UNCHANGED status
          /\ late' = IF Watched /\ status = "cancelled" THEN late + 1 ELSE late
      BY <2>2 DEF WriteIntent, At, rows
    <3>2. w'.pc = "post" BY <2>0, <3>1, GoToFields
    <3> QED BY <1>2, <2>0, <3>1, <3>2 DEF WindowOK
  <2>3. CASE /\ late' = late /\ (w' = w \/ w'.pc # "intend")
             /\ (status = "cancelled" => status' = "cancelled")
    BY <1>2, <2>3 DEF WindowOK, Watched, Rev
  <2> QED BY <1>2, <2>0, <2>1, <2>2, <2>3, Windows
<1>3. WindowOK => OneLateDelivery BY DEF WindowOK, OneLateDelivery
<1> QED BY <1>1, <1>2, <1>3, Invariance, PTL DEF Spec

-----------------------------------------------------------------------------
(* The refinement: what the outside world sees                                  *)

effects == <<posts, film.published, mails + extra>>

\* As long as nobody switches quality control off, the legacy route is not taken.
QualityControlled == enabled /\ ~legacy

\* Nothing switches it off but a restart that may.
LEMMA StaysControlled ==
  ASSUME ~MayToggle, QualityControlled, [Next]_vars PROVE QualityControlled'
<1>0. enabled /\ ~legacy BY DEF QualityControlled
<1> SUFFICES UNCHANGED <<enabled, legacy>> BY <1>0, Zenon DEF QualityControlled
<1>1. CASE Tick
  <2>1. ~ProcessJobLegacy BY <1>0 DEF ProcessJobLegacy
  <2> QED BY <1>1, <2>1 DEF Tick, ProcessJob, RunEpoch, ResumePlan, LateWorkRejected, history
<1>2. CASE PlanWork
  BY <1>2 DEF PlanWork, Discard, EnsurePlan, Transition, AdvancePlan, JobStatus, history
<1>3. CASE Delivery
  <2>1. CASE (\E p \in Prompts : QueuePrompt(p)) \/ QueueAmbiguous
    BY <2>1, Zenon DEF QueuePrompt, QueueAmbiguous, history
  <2>2. CASE \E s \in Scenes : BeginDelivery(s) \/ LegacyScene(s)
    BY <2>2, Zenon DEF BeginDelivery, LegacyScene, history
  <2>3. CASE \/ AllDelivered \/ MarkDispatching \/ CheckDelivery \/ ReuseMarker \/ StartDelivery
             \/ CheckDispatch \/ WriteIntent \/ QueueRejected \/ BindPrompt \/ MarkQueued
    BY <2>3, Zenon DEF AllDelivered, MarkDispatching, CheckDelivery, ReuseMarker, StartDelivery,
       CheckDispatch, WriteIntent, QueueRejected, BindPrompt, MarkQueued, history
  <2>4. CASE \/ SeeDone \/ SeeFailed \/ PollFails \/ PromptTimeout \/ NotInHistory
             \/ ReclaimQueued \/ ReclaimLost \/ ResolveError \/ CheckCommit \/ CommitSent
             \/ RetryDelivery \/ HoldDelivery \/ ConfirmDelivery \/ LegacyNext
    BY <2>4, Zenon DEF SeeDone, SeeFailed, PollFails, PromptTimeout, NotInHistory, ReclaimQueued,
       ReclaimLost, ResolveError, CheckCommit, CommitSent, RetryDelivery, HoldDelivery, ConfirmDelivery,
       LegacyNext, history
  <2> QED BY <1>3, <2>1, <2>2, <2>3, <2>4 DEF Delivery
<1>4. CASE FilmAndMail
  BY <1>4 DEF FilmAndMail, BeginAssembly, Encode, AssemblyFails, Publish, CompleteAssembly, LegacyStitch,
     BeginRequest, LookupSeen, LookupUnseen, LookupFails, ClaimRequest, SendRequest, SendFails,
     HoldRequest, RecordRequest, LegacyAsk, LegacyAskFails, history
<1>5. CASE ComfyUI
  BY <1>5 DEF ComfyUI, ComfyRestart, PromptPosts, PromptEnds, PromptErrors, history
<1>6. CASE Environment
  BY <1>6 DEF Environment, GuiCancel, GuiCancelPrompts, Crash, Restart, Launch, LaunchFinish,
     LaunchAbandon, history
<1>7. CASE UNCHANGED vars BY <1>7 DEF vars, history
<1> QED BY <1>1, <1>2, <1>3, <1>4, <1>5, <1>6, <1>7 DEF Next, Worker

\* Every step of the finalization is then an effect allowed now, or not seen outside.
LEMMA StepRefines ==
  ASSUME IInv, EffectsOK, EffectsOK', [Next]_vars, QualityControlled, QualityControlled'
  PROVE  [Effects!Next]_effects
<1>0. /\ posts \in [Scenes -> Nat] /\ mails \in Nat /\ extra \in Nat
      /\ film \in [built : BOOLEAN, published : BOOLEAN, intact : BOOLEAN] /\ MailOK /\ LateOK
      /\ ~legacy /\ ~legacy' /\ extra = 0
  <2>1. extra \in Nat /\ (extra > 0 => legacy) BY DEF IInv, TypeOK, EffectsOK, LateOK
  <2> QED BY <2>1 DEF IInv, TypeOK, EffectsOK, QualityControlled
<1>1. CASE Tick \/ PlanWork
  <2>1. UNCHANGED <<posts, film, mails, extra>>
    BY <1>1 DEF Tick, ProcessJob, ProcessJobLegacy, RunEpoch, ResumePlan, LateWorkRejected,
       PlanWork, Discard, EnsurePlan, Transition, AdvancePlan, JobStatus, files, world
  <2> QED BY <2>1 DEF effects
<1>2. CASE Delivery
  <2>1. UNCHANGED <<posts, film, mails, extra>>
    <3>1. CASE (\E p \in Prompts : QueuePrompt(p)) \/ QueueAmbiguous
      BY <3>1, Zenon DEF QueuePrompt, QueueAmbiguous, files
    <3>2. CASE ReuseMarker \/ StartDelivery BY <3>2 DEF ReuseMarker, StartDelivery
    <3>3. CASE \E r \in Scenes : BeginDelivery(r) \/ LegacyScene(r)
      BY <3>3 DEF BeginDelivery, LegacyScene, files, world
    <3>4. CASE \/ AllDelivered \/ MarkDispatching \/ SeeDone \/ SeeFailed \/ PollFails
               \/ PromptTimeout \/ NotInHistory \/ ReclaimQueued \/ CheckDelivery \/ CheckDispatch
      BY <3>4 DEF AllDelivered, MarkDispatching, SeeDone, SeeFailed, PollFails,
         PromptTimeout, NotInHistory, ReclaimQueued, CheckDelivery, CheckDispatch, files, world
    <3>5. CASE \/ QueueRejected \/ BindPrompt \/ MarkQueued \/ ReclaimLost \/ ResolveError \/ WriteIntent
               \/ CheckCommit \/ CommitSent \/ RetryDelivery \/ HoldDelivery \/ ConfirmDelivery \/ LegacyNext
      BY <3>5 DEF QueueRejected, BindPrompt, MarkQueued, ReclaimLost, ResolveError, WriteIntent,
         CheckCommit, CommitSent, RetryDelivery, HoldDelivery, ConfirmDelivery, LegacyNext, files, world
    <3> QED BY <1>2, <3>1, <3>2, <3>3, <3>4, <3>5 DEF Delivery
  <2> QED BY <2>1 DEF effects
<1>3. CASE FilmAndMail
  <2>1. CASE Publish
    <3>1. film'.published /\ w.pc = "publish" /\ UNCHANGED <<posts, mails, extra>>
      BY <1>0, <2>1 DEF Publish, At, world
    <3>2. AllDone
      <4>1. w.mode # "legacy" BY <1>0, <3>1, PlanThread DEF WorkSteps, LateSteps
      <4> QED BY <1>0, <3>1, <4>1 DEF LateOK, Late, LateSteps
    <3>3. DeliveryOn => \A s \in Scenes : posts[s] >= 1
      BY <3>2 DEF AllDone, EffectsOK, SentOK, ConfirmedMeansPosted
    <3>4. CASE film.published BY <1>0, <3>1, <3>4 DEF effects
    <3>5. CASE ~film.published BY <1>0, <3>1, <3>3, <3>5 DEF Effects!Publish, Effects!Next
    <3> QED BY <3>4, <3>5
  <2>2. CASE SendRequest \/ SendFails
    <3>1. w.pc = "send" /\ UNCHANGED <<film, posts, extra>> /\ mails' \in {mails, mails + 1}
      BY <1>0, <2>2 DEF SendRequest, SendFails, At, files
    <3>2. mails = 0 /\ film.published
      <4>1. w.mode # "legacy" BY <1>0, <3>1, PlanThread DEF WorkSteps, LateSteps, FilmSteps
      <4> QED BY <1>0, <3>1, <4>1 DEF MailOK, LateOK, Late, FilmSteps
    <3>3. CASE mails' = mails BY <3>1, <3>3 DEF effects
    <3>4. CASE mails' = mails + 1 BY <1>0, <3>1, <3>2, <3>4 DEF Effects!Ask, Effects!Next
    <3> QED BY <3>1, <3>3, <3>4
  <2>3. CASE Encode \/ LegacyStitch
    <3>1. film'.published = film.published BY <1>0, <2>3 DEF Encode, LegacyStitch
    <3>2. UNCHANGED <<posts, mails, extra>> BY <2>3 DEF Encode, LegacyStitch, world
    <3> QED BY <3>1, <3>2 DEF effects
  <2>4. CASE \/ BeginAssembly \/ AssemblyFails \/ CompleteAssembly
             \/ BeginRequest \/ LookupSeen \/ LookupUnseen \/ LookupFails \/ ClaimRequest
             \/ HoldRequest \/ RecordRequest
    <3>1. UNCHANGED <<posts, film, mails, extra>>
      BY <2>4 DEF BeginAssembly, AssemblyFails, CompleteAssembly, BeginRequest, LookupSeen,
         LookupUnseen, LookupFails, ClaimRequest, HoldRequest, RecordRequest, files, world
    <3> QED BY <3>1 DEF effects
  <2>5. CASE LegacyAsk \/ LegacyAskFails
    BY <1>0, <2>5 DEF LegacyAsk, LegacyAskFails, At, LateOK
  <2> QED BY <1>3, <2>1, <2>2, <2>3, <2>4, <2>5 DEF FilmAndMail
<1>4. CASE ComfyUI
  <2>1. ASSUME NEW p \in Prompts, PromptPosts(p) PROVE Effects!Next
    <3> DEFINE s == prompts[p].scene
    <3>1. /\ posts' = [posts EXCEPT ![s] = @ + 1] /\ UNCHANGED <<film, mails, extra>>
          /\ DeliveryOn /\ s \in Scenes
      BY <2>1 DEF PromptPosts, files, EffectsOK, SelectedOK
    <3>2. posts'[s] = posts[s] + 1 BY <1>0, <3>1
    <3>3. posts'[s] <= 2 /\ (Once(s) => posts'[s] <= 1)
      BY <1>0, <3>1 DEF EffectsOK, AskedOK, OnceOK, Once
    <3>4. posts[s] < [r \in Scenes |-> IF Once(r) THEN 1 ELSE 2][s]
      BY <1>0, <3>1, <3>2, <3>3
    <3>5. Effects!Post(s) BY <3>1, <3>4 DEF Effects!Post
    <3> QED BY <3>1, <3>5 DEF Effects!Next
  <2>2. CASE \E p \in Prompts : PromptEnds(p) \/ PromptErrors(p)
    BY <2>2 DEF PromptEnds, PromptErrors, files, effects
  <2>3. CASE ComfyRestart BY <2>3 DEF ComfyRestart, files, effects
  <2> QED BY <1>4, <2>1, <2>2, <2>3 DEF ComfyUI
<1>5. CASE Environment
  <2>1. UNCHANGED <<posts, film, mails, extra>>
    BY <1>5 DEF Environment, GuiCancel, GuiCancelPrompts, Crash, Launch, LaunchFinish,
       LaunchAbandon, files, world
  <2> QED BY <2>1 DEF effects
<1>6. CASE UNCHANGED vars BY <1>6 DEF vars, files, world, effects
<1> QED BY <1>1, <1>2, <1>3, <1>4, <1>5, <1>6 DEF Next, Worker

\* Seen from outside, a finalization posts its scenes a bounded number of times, then
\* publishes one film, then asks once: through every crash, cancel and restart, as long as
\* nobody switches quality control off in between.
THEOREM EffectsRefined == ASSUME ~MayToggle PROVE Spec => EffectsInOrder
<1>1. Init => Effects!Init /\ QualityControlled BY DEF Init, Effects!Init, QualityControlled
<1>2. QualityControlled /\ [Next]_vars => QualityControlled' BY StaysControlled
<1>3. IInv /\ EffectsOK /\ EffectsOK' /\ [Next]_vars /\ QualityControlled /\ QualityControlled'
        => [Effects!Next]_<<posts, film.published, mails + extra>>
  BY StepRefines DEF effects
<1> QED BY <1>1, <1>2, <1>3, Invariance, EffectsInvariance, PTL DEF Spec, EffectsInOrder, Effects!Spec

-----------------------------------------------------------------------------
(* The receipt of a scene that is the same clip in every route                  *)

Plain == Scenes \ (Repaired \cup Drafted)
SentPlain(s) == marker[<<s, 1>>].st = "sent" /\ marker[<<s, 1>>].clip = "original"

\* A completed step leaves a marker that every route goes by: none gets past reading it.
StandsOK ==
  DeliveryOn => \A s \in Plain :
    /\ step[s] = "COMPLETED" =>
         SentPlain(s) /\ (w.pc \in RenderSteps /\ w.scene = s => w.pc \in {"deliver", "reuse"})
    /\ w.pc = "confirm" /\ w.scene = s => SentPlain(s)

\* Only the POST of a scene asks for it.
LEMMA AskedKept ==
  ASSUME IInv, EffectsOK, [Next]_vars, NEW s \in Scenes, ~(w.pc = "post" /\ w.scene = s)
  PROVE  Asked(s)' = Asked(s)
<1>0. TypeOK BY DEF IInv
<1>1. ASSUME UNCHANGED prompts PROVE Asked(s)' = Asked(s) BY <1>1 DEF Asked, Of
<1>2. ASSUME NEW P, CancelSome(P) PROVE Asked(s)' = Asked(s) BY <1>0, <1>2, CancelAges, AgedAsked
<1>3. ASSUME NEW p \in Prompts, prompts[p].st = "free", w.scene # s,
             prompts' = [prompts EXCEPT ![p] = [st |-> "live", scene |-> w.scene, mode |-> w.mode]]
      PROVE  Asked(s)' = Asked(s)
  <2>1. prompts'[p].scene # s /\ \A q \in Prompts : q # p => prompts'[q] = prompts[q]
    BY <1>0, <1>3 DEF TypeOK
  <2> QED BY <1>3, <2>1 DEF Asked
<1>4. CASE Tick \/ PlanWork
  BY <1>1, <1>4 DEF Tick, ProcessJob, ProcessJobLegacy, RunEpoch, ResumePlan, LateWorkRejected,
     PlanWork, Discard, EnsurePlan, Transition, AdvancePlan, JobStatus, world
<1>5. CASE FilmAndMail
  BY <1>1, <1>5 DEF FilmAndMail, BeginAssembly, Encode, AssemblyFails, Publish, CompleteAssembly,
     LegacyStitch, BeginRequest, LookupSeen, LookupUnseen, LookupFails, ClaimRequest, SendRequest,
     SendFails, HoldRequest, RecordRequest, LegacyAsk, LegacyAskFails, world
<1>6. CASE Environment
  BY <1>1, <1>2, <1>6 DEF Environment, GuiCancel, GuiCancelPrompts, Crash, Launch, LaunchFinish,
     LaunchAbandon, world
<1>7. CASE ComfyUI
  <2>1. \A p \in Prompts : /\ prompts'[p].scene = prompts[p].scene
                           /\ prompts'[p].st = "free" <=> prompts[p].st = "free"
    <3>1. CASE \E p \in Prompts : PromptPosts(p) \/ PromptEnds(p) \/ PromptErrors(p)
      BY <1>0, <3>1 DEF PromptPosts, PromptEnds, PromptErrors, TypeOK, PromptRecords
    <3>2. CASE ComfyRestart BY <1>0, <3>2 DEF ComfyRestart, TypeOK, PromptRecords
    <3> QED BY <1>7, <3>1, <3>2 DEF ComfyUI
  <2> QED BY <2>1 DEF Asked
<1>8. CASE Delivery
  <2>1. CASE \E r \in Scenes : BeginDelivery(r) \/ LegacyScene(r)
    BY <1>1, <2>1 DEF BeginDelivery, LegacyScene, world
  <2>2. CASE \/ AllDelivered \/ MarkDispatching \/ CheckDelivery \/ CheckDispatch \/ WriteIntent
             \/ QueueRejected \/ BindPrompt \/ MarkQueued \/ SeeDone \/ SeeFailed \/ PollFails
    BY <1>1, <2>2 DEF AllDelivered, MarkDispatching, CheckDelivery, CheckDispatch, WriteIntent,
       QueueRejected, BindPrompt, MarkQueued, SeeDone, SeeFailed, PollFails, world
  <2>3. CASE \/ NotInHistory \/ ReclaimQueued \/ ReclaimLost \/ ResolveError \/ CheckCommit
             \/ CommitSent \/ RetryDelivery \/ HoldDelivery \/ ConfirmDelivery \/ LegacyNext
    BY <1>1, <2>3 DEF NotInHistory, ReclaimQueued, ReclaimLost, ResolveError, CheckCommit,
       CommitSent, RetryDelivery, HoldDelivery, ConfirmDelivery, LegacyNext, world
  <2>4. CASE ReuseMarker \/ StartDelivery \/ PromptTimeout
    <3>1. UNCHANGED prompts \/ \E P : CancelSome(P)
      BY <2>4 DEF ReuseMarker, StartDelivery, Reclaims, PromptTimeout
    <3> QED BY <1>1, <1>2, <3>1
  <2>5. CASE (\E p \in Prompts : QueuePrompt(p)) \/ QueueAmbiguous
    <3>1. w.pc = "post" /\ (UNCHANGED prompts \/ \E p \in Prompts : /\ prompts[p].st = "free"
            /\ prompts' = [prompts EXCEPT ![p] = [st |-> "live", scene |-> w.scene, mode |-> w.mode]])
      BY <2>5, Zenon DEF QueuePrompt, QueueAmbiguous, At
    <3> QED BY <1>1, <1>3, <3>1
  <2> QED BY <1>8, <2>1, <2>2, <2>3, <2>4, <2>5 DEF Delivery
<1>9. CASE UNCHANGED vars BY <1>1, <1>9 DEF vars, world
<1> QED BY <1>4, <1>5, <1>6, <1>7, <1>8, <1>9 DEF Next, Worker

\* Away from the delivery of scenes, nothing of it changes.
LEMMA AsideStands ==
  ASSUME StandsOK, UNCHANGED <<step, marker>>,
         w' = w \/ w'.pc \notin SceneSteps \/ w'.pc \in {"dispatch", "deliver", "reuse"}
  PROVE  StandsOK'
BY DEF StandsOK, SentPlain, RenderSteps, SceneSteps

\* The delivery at hand writes its own marker only.
LEMMA WritingStands ==
  ASSUME IInv, StandsOK, w.pc \in RenderSteps \ {"deliver", "reuse"}, UNCHANGED step,
         w'.scene = w.scene,
         marker' = marker \/ \E st, p : marker' = Marked(st, p) /\ (w'.pc = "confirm" => st = "sent"),
         w'.pc = "confirm" => marker' # marker \/ SentPlain(w.scene)
  PROVE  StandsOK'
<1>0. TypeOK /\ w.scene \in Scenes BY HasScene DEF IInv, RenderSteps
<1> SUFFICES ASSUME DeliveryOn, NEW s \in Plain
             PROVE  /\ step[s] = "COMPLETED" =>
                         /\ SentPlain(s)'
                         /\ w'.pc \in RenderSteps /\ w'.scene = s => w'.pc \in {"deliver", "reuse"}
                    /\ w'.pc = "confirm" /\ w'.scene = s => SentPlain(s)'
  BY DEF StandsOK
<1>1. CASE s # w.scene
  <2>1. marker'[<<s, 1>>] = marker[<<s, 1>>]
    <3>1. <<s, 1>> # File /\ s \in Scenes BY <1>1 DEF File, Plain
    <3> QED BY <1>0, <3>1, MarkedFields
  <2> QED BY <1>1, <2>1 DEF StandsOK, SentPlain
<1>2. CASE s = w.scene
  <2>1. step[s] # "COMPLETED" BY <1>2 DEF StandsOK
  <2>2. ASSUME w'.pc = "confirm" PROVE SentPlain(s)'
    <3>1. CASE marker' = marker BY <1>2, <2>2, <3>1 DEF SentPlain
    <3>2. CASE \E p : marker' = Marked("sent", p)
      <4>1. File = <<s, 1>> /\ Clip(w.scene, w.mode) = "original" BY <1>2 DEF File, Rev, Clip, Plain
      <4>2. marker'[File].st = "sent" /\ marker'[File].clip = Clip(w.scene, w.mode)
        BY <1>0, <3>2, MarkedFields
      <4> QED BY <4>1, <4>2 DEF SentPlain
    <3> QED BY <2>2, <3>1, <3>2
  <2> QED BY <1>2, <2>1, <2>2
<1> QED BY <1>1, <1>2

\* No step takes a receipt back.
LEMMA StandsStep == ASSUME IInv, StandsOK, [Next]_vars PROVE StandsOK'
<1>0. TypeOK /\ WorkerOK BY DEF IInv
<1>1. CASE Tick
  <2>1. UNCHANGED <<step, marker>>
    BY <1>1 DEF Tick, ProcessJob, ProcessJobLegacy, RunEpoch, ResumePlan, LateWorkRejected, rows, files
  <2>2. w' = w \/ w'.pc \in {"scene", "discard", "ensure", "block", "idle"}
    BY <1>0, <1>1, LeaveFields DEF Tick, ProcessJob, ProcessJobLegacy, RunEpoch, ResumePlan,
       LateWorkRejected, Enter, GoTo, Idle, WorkerOK, WorkerStates
  <2> QED BY <2>1, <2>2, AsideStands DEF SceneSteps
<1>2. CASE PlanWork
  <2>1. UNCHANGED <<step, marker>>
    BY <1>2 DEF PlanWork, Discard, EnsurePlan, Transition, AdvancePlan, JobStatus, rows, files
  <2>2. w'.pc \notin SceneSteps
    <3>1. CASE Discard \/ EnsurePlan \/ JobStatus
      <4>1. Leave \/ \E pc \in {"ensure", "release", "open", "ask", "committed"} : GoTo(pc)
        BY <3>1 DEF Discard, EnsurePlan, JobStatus
      <4> QED BY <1>0, <4>1, LeaveFields, GoToFields DEF SceneSteps
    <3>2. CASE Transition BY <1>0, <3>2 DEF Transition, WorkerOK, WorkerStates, Idle, SceneSteps
    <3>3. CASE AdvancePlan
      BY <1>0, <3>3 DEF AdvancePlan, WorkerOK, WorkerStates, PlanSteps, SceneSteps
    <3> QED BY <1>2, <3>1, <3>2, <3>3 DEF PlanWork
  <2> QED BY <2>1, <2>2, AsideStands
<1>3. CASE FilmAndMail
  <2>1. UNCHANGED <<step, marker>>
    BY <1>3 DEF FilmAndMail, BeginAssembly, Encode, AssemblyFails, Publish, CompleteAssembly, LegacyStitch,
       BeginRequest, LookupSeen, LookupUnseen, LookupFails, ClaimRequest, SendRequest, SendFails,
       HoldRequest, RecordRequest, LegacyAsk, LegacyAskFails, rows, files
  <2>2. Leave \/ \E pc : pc \notin SceneSteps /\ GoTo(pc)
    BY <1>3 DEF FilmAndMail, BeginAssembly, Encode, AssemblyFails, Publish, CompleteAssembly,
       LegacyStitch, BeginRequest, LookupSeen, LookupUnseen, LookupFails, ClaimRequest, SendRequest,
       SendFails, HoldRequest, RecordRequest, LegacyAsk, LegacyAskFails, SceneSteps
  <2>3. w'.pc \notin SceneSteps BY <1>0, <2>2, LeaveFields, GoToFields DEF SceneSteps
  <2> QED BY <2>1, <2>3, AsideStands
<1>4. CASE ComfyUI \/ Environment \/ UNCHANGED vars
  <2>1. UNCHANGED <<step, marker>> /\ (w' = w \/ Leave)
    BY <1>4 DEF ComfyUI, ComfyRestart, PromptPosts, PromptEnds, PromptErrors, Environment, GuiCancel,
       GuiCancelPrompts, Crash, Launch, LaunchFinish, LaunchAbandon, vars, rows, files
  <2>2. w' = w \/ w'.pc \notin SceneSteps BY <2>1, LeaveFields DEF SceneSteps
  <2> QED BY <2>1, <2>2, AsideStands
<1>5. CASE Delivery
  <2>1. CASE \E s \in Scenes : BeginDelivery(s)
    <3>1. PICK s \in Scenes : BeginDelivery(s) BY <2>1
    <3>2. UNCHANGED marker /\ step' = [step EXCEPT ![s] = Begun(step[s])]
      BY <1>0, <3>1 DEF BeginDelivery, files, TypeOK
    <3>3. \A r \in Scenes : step'[r] = "COMPLETED" => step[r] = "COMPLETED"
      BY <1>0, <3>2 DEF TypeOK, Begun
    <3>4. w'.pc \in {"scene", "block", "dispatch"} \/ (w'.pc = "confirm" /\ ~DeliveryOn)
      BY <1>0, <3>1 DEF BeginDelivery, WorkerOK, WorkerStates, At
    <3> QED BY <3>2, <3>3, <3>4 DEF StandsOK, SentPlain, Plain, RenderSteps, SceneSteps
  <2>2. CASE (\E s \in Scenes : LegacyScene(s)) \/ AllDelivered \/ CheckDelivery \/ LegacyNext
    <3>1. UNCHANGED <<step, marker>>
      BY <2>2 DEF LegacyScene, AllDelivered, CheckDelivery, LegacyNext, rows, files
    <3>2. w'.pc \in {"deliver", "open", "delivered", "reuse", "scene", "idle"}
      BY <1>0, <2>2, LeaveFields
         DEF LegacyScene, AllDelivered, CheckDelivery, LegacyNext, GoTo, WorkerOK, WorkerStates
    <3> QED BY <3>1, <3>2, AsideStands DEF SceneSteps
  <2>3. CASE MarkDispatching
    <3>1. UNCHANGED marker /\ w'.pc \in {"idle", "deliver"}
      BY <1>0, <2>3, LeaveFields DEF MarkDispatching, files, WorkerOK, WorkerStates
    <3>2. \A r \in Scenes : step'[r] = "COMPLETED" => step[r] = "COMPLETED"
      BY <1>0, <2>3 DEF MarkDispatching, TypeOK
    <3> QED BY <3>1, <3>2 DEF StandsOK, SentPlain, Plain, RenderSteps, SceneSteps
  <2>4. CASE HoldDelivery
    <3>1. UNCHANGED marker /\ w'.pc = "block" /\ step' = [step EXCEPT ![w.scene] = w.err]
      BY <1>0, <2>4, GoToFields DEF HoldDelivery, files
    <3>2. w.err # "COMPLETED" BY <1>0 DEF WorkerOK, WorkerStates, Errors
    <3>3. \A r \in Scenes : step'[r] = "COMPLETED" => step[r] = "COMPLETED"
      BY <1>0, <3>1, <3>2 DEF TypeOK
    <3> QED BY <3>1, <3>3 DEF StandsOK, SentPlain, Plain, RenderSteps, SceneSteps
  <2>5. CASE ConfirmDelivery
    <3>1. UNCHANGED marker /\ w'.pc = "scene" /\ step' = [step EXCEPT ![w.scene] = "COMPLETED"]
          /\ w.pc = "confirm"
      BY <1>0, <2>5 DEF ConfirmDelivery, files, At, WorkerOK, WorkerStates
    <3>2. \A r \in Scenes : r # w.scene => step'[r] = step[r] BY <1>0, <3>1 DEF TypeOK
    <3> QED BY <3>1, <3>2 DEF StandsOK, SentPlain, Plain, RenderSteps, SceneSteps
  <2>6. CASE ReuseMarker \/ StartDelivery
    <3>0. w.pc = "reuse" /\ UNCHANGED step /\ w.scene \in Scenes
      BY <2>6, HasScene DEF ReuseMarker, StartDelivery, At, rows, SceneSteps
    <3>1. ASSUME w.scene \in Plain
          PROVE  /\ File = <<w.scene, 1>> /\ Clip(w.scene, w.mode) = "original"
                 /\ SentPlain(w.scene) => Matches /\ marker[File].st = "sent"
      BY <3>1 DEF File, Rev, Clip, Plain, SentPlain, Matches
    <3>2. CASE marker[File].st = "sent" /\ Matches
      <4>1. UNCHANGED marker /\ GoTo("confirm") BY <2>6, <3>2 DEF ReuseMarker, StartDelivery
      <4>2. w'.pc = "confirm" /\ w'.scene = w.scene BY <1>0, <4>1, GoToFields DEF Same
      <4>3. w.scene \in Plain => SentPlain(w.scene) BY <3>1, <3>2 DEF SentPlain, Matches
      <4> QED BY <3>0, <4>1, <4>2, <4>3 DEF StandsOK, SentPlain, RenderSteps
    <3>3. CASE ~(marker[File].st = "sent" /\ Matches)
      <4>1. /\ w'.pc \in {"history", "start", "error"} /\ w'.scene = w.scene
            /\ marker' = marker \/ \E st, p : marker' = Marked(st, p)
        <5>1. CASE \E p : Reclaims(p)
          BY <1>0, <5>1 DEF Reclaims, WorkerOK, WorkerStates
        <5>2. CASE (GoTo("start") \/ Fails("AMBIGUOUS"))
                   /\ (marker' = marker \/ marker' = Marked("ambiguous", NoPrompt))
          BY <1>0, <5>2, GoToFields, FailsFields DEF Same
        <5> QED BY <2>6, <3>3, <5>1, <5>2 DEF ReuseMarker, StartDelivery
      <4> SUFFICES ASSUME DeliveryOn, NEW s \in Plain, step[s] = "COMPLETED"
                   PROVE  SentPlain(s)' /\ s # w.scene
        BY <3>0, <4>1 DEF StandsOK
      <4>2. SentPlain(s) BY DEF StandsOK
      <4>3. s # w.scene BY <3>1, <3>3, <4>2
      <4>4. <<s, 1>> # File /\ s \in Scenes BY <4>3 DEF File, Plain
      <4>5. marker'[<<s, 1>>] = marker[<<s, 1>>] BY <1>0, <3>0, <4>1, <4>4, MarkedFields
      <4> QED BY <4>2, <4>3, <4>5 DEF SentPlain
    <3> QED BY <3>2, <3>3
  <2>7. CASE CommitSent
    <3>1. w.pc = "sent" /\ UNCHANGED step /\ marker' = Marked("sent", w.prompt) /\ GoTo("confirm")
      BY <2>7 DEF CommitSent, At, rows
    <3>2. w'.pc = "confirm" /\ w'.scene = w.scene BY <1>0, <3>1, GoToFields DEF Same
    <3>3. w.scene \in Scenes BY <3>1, HasScene DEF SceneSteps
    <3> SUFFICES ASSUME DeliveryOn, NEW s \in Plain
                 PROVE  /\ step[s] = "COMPLETED" => SentPlain(s)'
                        /\ w.scene = s => SentPlain(s)'
      BY <3>1, <3>2 DEF StandsOK, RenderSteps
    <3>4. CASE s = w.scene
      <4>1. File = <<s, 1>> /\ Clip(w.scene, w.mode) = "original" BY <3>4 DEF File, Rev, Clip, Plain
      <4> QED BY <1>0, <3>1, <3>3, <4>1, MarkedFields DEF SentPlain
    <3>5. CASE s # w.scene
      <4>1. <<s, 1>> # File /\ s \in Scenes BY <3>5 DEF File, Plain
      <4> QED BY <1>0, <3>1, <3>3, <3>5, <4>1, MarkedFields DEF SentPlain, StandsOK
    <3> QED BY <3>4, <3>5
  <2>8. CASE CheckDispatch \/ CheckCommit \/ SeeDone \/ SeeFailed \/ PollFails \/ PromptTimeout
             \/ NotInHistory \/ ReclaimQueued
    <3>1. UNCHANGED <<step, marker>> /\ w.pc \in RenderSteps \ {"deliver", "reuse"}
      BY <2>8 DEF CheckDispatch, CheckCommit, SeeDone, SeeFailed, PollFails, PromptTimeout,
         NotInHistory, ReclaimQueued, rows, files, At, RenderSteps, SceneSteps
    <3>2. (\E pc \in {"intend", "sent", "commit", "rehistory", "requeue", "queue", "wait"} : GoTo(pc))
          \/ Fails("AMBIGUOUS")
      BY <2>8 DEF CheckDispatch, CheckCommit, SeeDone, SeeFailed, PollFails, PromptTimeout,
         NotInHistory, ReclaimQueued
    <3>3. w'.scene = w.scene /\ w'.pc # "confirm" BY <1>0, <3>2, GoToFields, FailsFields DEF Same
    <3> QED BY <3>1, <3>3, WritingStands
  <2>9. CASE WriteIntent \/ QueueRejected \/ QueueAmbiguous \/ BindPrompt \/ MarkQueued
             \/ ReclaimLost \/ ResolveError
    <3>1. UNCHANGED step /\ w.pc \in RenderSteps \ {"deliver", "reuse"}
          /\ (marker' = marker \/ \E st, p : marker' = Marked(st, p))
      <4>1. CASE QueueAmbiguous BY <4>1, Zenon DEF QueueAmbiguous, rows, At, RenderSteps, SceneSteps
      <4> QED BY <2>9, <4>1 DEF WriteIntent, QueueRejected, BindPrompt, MarkQueued,
         ReclaimLost, ResolveError, rows, At, RenderSteps, SceneSteps
    <3>2. (\E pc \in {"post", "mark", "wait"} : GoTo(pc)) \/ Fails("AMBIGUOUS") \/ Fails("FAILED")
      <4>1. CASE QueueAmbiguous BY <4>1, Zenon DEF QueueAmbiguous
      <4> QED BY <2>9, <4>1 DEF WriteIntent, QueueRejected, BindPrompt, MarkQueued,
         ReclaimLost, ResolveError
    <3>3. w'.scene = w.scene /\ w'.pc # "confirm" BY <1>0, <3>2, GoToFields, FailsFields DEF Same
    <3> QED BY <3>1, <3>3, WritingStands
  <2>10. CASE \E p \in Prompts : QueuePrompt(p)
    <3>1. PICK p \in Prompts : QueuePrompt(p) BY <2>10
    <3>2. UNCHANGED <<step, marker>> /\ w.pc = "post" /\ w' = [w EXCEPT !.pc = "bind", !.prompt = p]
      BY <3>1, Zenon DEF QueuePrompt, rows, files, At
    <3>3. w'.pc = "bind" /\ w'.scene = w.scene BY <1>0, <3>2 DEF WorkerOK, WorkerStates
    <3> QED BY <3>2, <3>3, WritingStands DEF RenderSteps, SceneSteps
  <2>11. CASE RetryDelivery
    <3>1. UNCHANGED <<step, marker>> /\ w'.pc = "deliver" /\ w'.scene = w.scene
      BY <1>0, <2>11 DEF RetryDelivery, rows, files, WorkerOK, WorkerStates
    <3> QED BY <3>1, AsideStands
  <2> QED BY <1>5, <2>1, <2>2, <2>3, <2>4, <2>5, <2>6, <2>7, <2>8, <2>9, <2>10, <2>11 DEF Delivery
<1> QED BY <1>1, <1>2, <1>3, <1>4, <1>5 DEF Next, Worker

\* A scene whose delivery is recorded is not asked for again by any route, as long as it is
\* one and the same clip in all of them: through every switch of quality control, crash and restart.
THEOREM ReceiptsStand == Spec => ConfirmedStands
<1>1. Init => StandsOK BY DEF Init, StandsOK, Plain, Idle
<1>2. IInv /\ StandsOK /\ [Next]_vars => StandsOK' BY StandsStep
<1>3. ASSUME IInv, EffectsOK, StandsOK, [Next]_vars PROVE [NotAskedAgain]_vars
  <2>1. ASSUME NEW s \in Plain, step[s] = "COMPLETED" PROVE Asked(s)' = Asked(s)
    <3>1. s \in Scenes BY <2>1 DEF Plain
    <3>2. w.pc = "post" /\ w.scene = s => DeliveryOn
      BY <1>3 DEF EffectsOK, WorkingOK, RenderSteps, SceneSteps
    <3>3. ~(w.pc = "post" /\ w.scene = s)
      BY <1>3, <2>1, <3>2 DEF StandsOK, RenderSteps, SceneSteps
    <3> QED BY <1>3, <3>1, <3>3, AskedKept
  <2> QED BY <2>1 DEF NotAskedAgain, Plain
<1> QED BY <1>1, <1>2, <1>3, Invariance, EffectsInvariance, PTL DEF Spec, ConfirmedStands
=============================================================================
