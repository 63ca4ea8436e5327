---------------------------- MODULE QcCandidates ----------------------------
(* The quality control of one scene: its lineage of candidates in the store,    *)
(* the epoch loop of Phase1QcController, the repair and FINAL renderers of the  *)
(* supervisor, and the operator who decides, pauses and resumes in the GUI      *)
(* while the worker is between two of its transactions.                         *)
EXTENDS Naturals, Sequences, FiniteSets

CONSTANTS
  Settings,      \* the settings a job may run under: [auto |-> auto_advance_pass, draft |-> the
                 \* original clip is a draft.mp4 and not a legacy final clip]
  MaxCands,      \* bound on the candidates of the scene (the D variants are unbounded)
  MaxRevs,       \* bound on the scene's revisions, remakes included
  MaxFaults,     \* bound on crashes, outages and failed renders
  MaxOps         \* bound on pauses, resumes and remakes of the operator

ASSUME SettingsAssumption == Settings \subseteq [auto : BOOLEAN, draft : BOOLEAN]
ASSUME BoundAssumption == /\ {MaxCands, MaxRevs} \subseteq Nat \ {0}   \* room for the original
                          /\ {MaxFaults, MaxOps} \subseteq Nat

VARIABLES
  setting, \* the settings of this job
  cands,   \* qc_candidates of the scene in creation order, with the rows and files hung on each
  revs,    \* the highest revision in scene_revisions
  pstate,  \* state of the pipeline row
  w,       \* the worker thread inside run_epoch
  comfy,   \* ComfyUI runs a prompt
  server,  \* the llama server: down, owned by this process, or orphaned by a crash
  faults, ops

vars == <<setting, cands, revs, pstate, w, comfy, server, faults, ops>>

Tiers == {"ORIGINAL", "A1", "A2", "B1", "B2", "C", "D"}
States == {"PENDING_GENERATION", "GENERATING", "PENDING_QC", "QC_RUNNING", "PASS_PENDING_HUMAN",
           "HOLD_FOR_REVIEW", "DEFERRED", "PAUSED", "FINAL_PENDING", "FINAL_RENDERING",
           "ACCEPTED", "SUPERSEDED"}
NextActions == {"none", "evaluate", "retry_evaluation", "route_existing_evidence", "await_human",
                "hold_for_review", "planner_failure", "deferred_untried_strategy_required",
                "resume_adaptive", "human_hold", "operator_pause", "retry_repair_generation",
                "render_a1", "render_b1", "render_b2", "render_adaptive_draft", "render_final"}
Verdicts == {"PASS", "FAIL", "FRAME"}   \* FRAME: a FAIL whose defect is in the starting frame
Rank(t) == CASE t \in {"ORIGINAL", "A1", "A2"} -> 0 [] t \in {"B1", "B2"} -> 1
             [] t = "C" -> 2 [] t = "D" -> 3

Candidates == [tier : Tiers, par : Nat, rev : Nat, stage : {"DRAFT", "LEGACY_FINAL", "FINAL"},
               path : {"draft", "clip"}, state : States, next : NextActions, infra : 0..2,
               frame : Nat, dest : Nat, clip : Nat,
               owner : {"none", "t2i", "i2v"},
               ev : {"none", "RUNNING", "raw", "manifest", "COMPLETE"},
               verdict : Verdicts \cup {"none"},
               human : {"none", "APPROVE", "REJECT", "HOLD"},
               claim : {"none", "CLAIMED", "COMPLETED", "FAILED_CLOSED"}, calls : Nat,
               patch : {"none", "ACCEPTED", "REJECTED", "FAILED", "AMBIGUOUS"}, planned : Nat,
               repair : {"none", "ACCEPTED", "REJECTED"},
               b2row : BOOLEAN,
               final : {"none", "PENDING", "RENDERING", "FAILED", "COMPLETE"},
               ledger : {"none", "PLANNED", "RECIPE_BOUND", "QC_COMPLETE"}]

Ids == DOMAIN cands
InState(S) == {i \in Ids : cands[i].state \in S}
OfTier(t) == {i \in Ids : cands[i].tier = t}
Least(S) == CHOOSE i \in S : \A j \in S : i <= j

\* A repair candidate as its scheduler inserts it: a revision of its own, a
\* starting frame, no video yet.
NewCandidate(t, p, r, path, next, ledger) ==
  [tier |-> t, par |-> p, rev |-> r, stage |-> "DRAFT", path |-> path,
   state |-> "PENDING_GENERATION", next |-> next, infra |-> 0,
   frame |-> cands[p].frame, dest |-> 0, clip |-> 0, owner |-> "none",
   ev |-> "none", verdict |-> "none", human |-> "none", claim |-> "none", calls |-> 0,
   patch |-> "none", planned |-> 0, repair |-> "none", b2row |-> FALSE,
   final |-> "none", ledger |-> ledger]

\* ensure_original_qc_candidates: the baseline clip of the scene, already rendered.
Original ==
  [tier |-> "ORIGINAL", par |-> 0, rev |-> 1,
   stage |-> IF setting.draft THEN "DRAFT" ELSE "LEGACY_FINAL",
   path |-> IF setting.draft THEN "draft" ELSE "clip",
   state |-> "PENDING_QC", next |-> "evaluate", infra |-> 0,
   frame |-> 1, dest |-> 1, clip |-> 1, owner |-> "none",
   ev |-> "none", verdict |-> "none", human |-> "none", claim |-> "none", calls |-> 0,
   patch |-> "none", planned |-> 0, repair |-> "none", b2row |-> FALSE,
   final |-> "none", ledger |-> "none"]

NoWork == [pc |-> "idle", todo |-> {}, cur |-> 0, decision |-> "none", resumed |-> FALSE,
           child |-> 0, out |-> "none", seen |-> {}, retry |-> FALSE]

Goto(p) == w' = [w EXCEPT !.pc = p]
Take(i, p) == w' = [w EXCEPT !.pc = p, !.cur = i]
\* The next candidate of the list the worker is going through.
Done(i, p) == w' = [w EXCEPT !.pc = p, !.todo = @ \ {i}, !.cur = 0, !.decision = "none",
                             !.resumed = FALSE, !.child = 0, !.out = "none"]
Next1(p) == Done(w.cur, p)
\* An exception that leaves run_epoch: the tick is over, the rows stay as they are.
Raise == w' = NoWork
Fault == faults < MaxFaults /\ faults' = faults + 1

Init ==
  /\ setting \in Settings
  /\ cands = <<>> /\ revs = 1
  /\ pstate = "RUNNING_QC"
  /\ w = NoWork
  /\ comfy = FALSE /\ server = "down"
  /\ faults = 0 /\ ops = 0

-----------------------------------------------------------------------------
(* The store: what one transaction does to the candidates.                      *)

SetState(c, i, s, next) == [c EXCEPT ![i].state = s, ![i].next = next]

\* ensure_adaptive_attempt: the ledger row is written once.
EnsureAttempt(c, i) == [c EXCEPT ![i].ledger = IF @ = "none" THEN "PLANNED" ELSE @]

\* update_adaptive_attempt: nothing where there is no ledger row.
UpdateAttempt(c, i, s) == [c EXCEPT ![i].ledger = IF @ = "none" THEN @ ELSE s]

\* bind_qc_draft_recipe.
BindRecipe(c, i) ==
  IF c[i].stage # "DRAFT" THEN c ELSE UpdateAttempt(c, i, "RECIPE_BOUND")

\* set_qc_generation_owner: it launches the candidate whatever its state is.
SetOwner(c, i, stage) == [c EXCEPT ![i].owner = stage, ![i].state = "GENERATING"]

InfraFailure_Uncapped(c, i) ==
  SetState([c EXCEPT ![i].infra = @ + 1], i, "PENDING_QC", "retry_evaluation")

InfraFailure_NeverHolds(c, i) ==
  SetState([c EXCEPT ![i].infra = IF @ >= 2 THEN 2 ELSE @ + 1], i,
           "PENDING_QC", "retry_evaluation")

\* record_qc_infrastructure_failure: at most two are charged; it reads no state.
InfraFailure(c, i) ==
  IF c[i].infra >= 2 THEN c
  ELSE LET n == c[i].infra + 1 IN
       SetState([c EXCEPT ![i].infra = n], i,
                IF n >= 2 THEN "HOLD_FOR_REVIEW" ELSE "PENDING_QC",
                IF n >= 2 THEN "hold_for_review" ELSE "retry_evaluation")

\* record_qc_generation_failure, where it does not refuse.
Generating(c, i) == c[i].state \in {"PENDING_GENERATION", "GENERATING"}
GenerationFailure(c, i, retryable) ==
  IF c[i].state = "HOLD_FOR_REVIEW" THEN c
  ELSE LET hold == ~retryable \/ c[i].infra >= 1 IN
       SetState([c EXCEPT ![i].infra = IF @ >= 2 THEN 2 ELSE @ + 1], i,
                IF hold THEN "HOLD_FOR_REVIEW" ELSE "PENDING_GENERATION",
                IF hold THEN "hold_for_review" ELSE "retry_repair_generation")

\* complete_qc_candidate_generation, where it does not refuse.
CompleteGeneration(c, i) ==
  SetState([c EXCEPT ![i].clip = c[i].dest], i, "PENDING_QC", "evaluate")

\* begin_qc_evaluation: the evidence row is inserted once.
BeginEvaluation(c, i) == [c EXCEPT ![i].ev = IF @ = "none" THEN "RUNNING" ELSE @]

\* update_qc_final_artifact.
UpdateFinal(c, i, s) ==
  LET d == [c EXCEPT ![i].final = s] IN
  CASE s = "COMPLETE" -> SetState([d EXCEPT ![i].stage = "FINAL"], i, "ACCEPTED", "none")
    [] s = "RENDERING" -> SetState(d, i, "FINAL_RENDERING", "render_final")
    [] OTHER -> d

\* Every other candidate of the scene gives way to i.
Supersede(c, S) ==
  [j \in DOMAIN c |-> IF j \in S THEN [c[j] EXCEPT !.state = "SUPERSEDED", !.next = "none"]
                                 ELSE c[j]]

\* The clip file still is the one whose hash the candidate recorded.
Intact(c, i) == c[i].clip # 0 /\ c[i].dest = c[i].clip

\* qc_final_selection: exactly one ACCEPTED candidate, with a clip assembly takes.
Selectable(c) ==
  LET accepted == {i \in DOMAIN c : c[i].state = "ACCEPTED"} IN
  /\ Cardinality(accepted) = 1
  /\ \A i \in accepted :
       /\ Intact(c, i)
       /\ \/ c[i].stage = "FINAL" /\ c[i].final = "COMPLETE"
          \/ c[i].stage = "LEGACY_FINAL"

-----------------------------------------------------------------------------
(* The epoch loop.                                                              *)

Deferred == {i \in Ids : cands[i].state = "DEFERRED" /\ cands[i].next = "resume_adaptive"}
Finals == InState({"FINAL_PENDING", "FINAL_RENDERING"})
Generation == InState({"PENDING_GENERATION", "GENERATING"})
Pending == InState({"PENDING_QC", "QC_RUNNING"})
WorkState == [i \in Ids |-> <<cands[i].state, cands[i].infra, cands[i].next,
                              cands[i].clip, cands[i].owner>>]

\* supervisor.tick in RUNNING_QC and AWAITING_QC_REVIEW, and the start of
\* run_epoch: a backend kept by a failed close is proved gone first (a close that
\* fails again leaves everything as it is).
EpochStart ==
  /\ w.pc = "idle" /\ pstate \in {"RUNNING_QC", "AWAITING_QC_REVIEW"}
  /\ server' = IF server = "owned" THEN "down" ELSE server
  /\ Goto(IF cands = <<>> THEN "register" ELSE "loop")
  /\ UNCHANGED <<setting, cands, revs, pstate, comfy, faults, ops>>

Register ==
  /\ w.pc = "register"
  /\ cands' = <<Original>>
  /\ Goto("loop")
  /\ UNCHANGED <<setting, revs, pstate, comfy, server, faults, ops>>

\* A scene of the job has no clip: hold_incomplete_qc_job.
HoldIncomplete ==
  /\ w.pc = "register"
  /\ pstate' = "QC_BLOCKED"
  /\ Raise
  /\ UNCHANGED <<setting, cands, revs, comfy, server, faults, ops>>

Requeue ==
  \/ /\ w.pc = "loop" /\ Deferred # {}
     /\ w' = [w EXCEPT !.pc = "requeue", !.todo = Deferred]
     /\ UNCHANGED cands
  \/ \E i \in w.todo :
       /\ w.pc = "requeue"
       /\ cands' = SetState(cands, i, "PENDING_QC", "route_existing_evidence")
       /\ w' = [w EXCEPT !.todo = @ \ {i}, !.pc = IF w.todo = {i} THEN "loop" ELSE @]

\* One turn of the loop; a work state seen before ends the epoch with an error.
Repeated == WorkState \in w.seen
Turn ==
  /\ w.pc = "loop" /\ Deferred = {}
  /\ UNCHANGED cands
  /\ \/ /\ Finals \cup Generation \cup Pending = {}
        /\ Goto("select")
     \/ /\ Finals \cup Generation \cup Pending # {}
        /\ Repeated \/ (Finals \cup Generation # {} /\ server # "down")
        /\ Raise
     \/ /\ ~Repeated /\ Finals # {} /\ server = "down"
        /\ w' = [w EXCEPT !.pc = "final", !.todo = Finals, !.seen = @ \cup {WorkState}]
     \/ /\ ~Repeated /\ Finals = {} /\ Generation # {} /\ server = "down"
        /\ w' = [w EXCEPT !.pc = "generate", !.todo = Generation, !.retry = FALSE,
                          !.seen = @ \cup {WorkState}]
     \/ /\ ~Repeated /\ Finals \cup Generation = {} /\ Pending # {}
        /\ w' = [w EXCEPT !.pc = "pending", !.seen = @ \cup {WorkState}]

Loop == (Requeue \/ Turn) /\ UNCHANGED <<setting, revs, pstate, comfy, server, faults, ops>>

\* The end of the epoch: the selection goes to _finalize_qc_result, or the job waits.
Select ==
  /\ w.pc = "select"
  /\ pstate' = IF Selectable(cands) THEN "STITCHING" ELSE "AWAITING_QC_REVIEW"
  /\ Raise
  /\ UNCHANGED <<setting, cands, revs, comfy, server, faults, ops>>

-----------------------------------------------------------------------------
(* render_qc_finals: the approved draft is rendered to its FINAL clip.          *)

FinalsDone ==
  /\ w.pc = "final" /\ w.todo = {}
  /\ Goto("loop")
  /\ UNCHANGED <<setting, cands, revs, pstate, comfy, server, faults, ops>>

FinalEnsure_NoRestart(i) ==
  LET c == cands[i] IN
  /\ w.pc = "final" /\ i \in w.todo
  /\ IF c.frame = 0 \/ c.state \notin {"FINAL_PENDING", "ACCEPTED"}
     THEN Raise /\ UNCHANGED cands
     ELSE /\ cands' = [BindRecipe(cands, i) EXCEPT
                         ![i].final = IF @ = "none" THEN "PENDING" ELSE @]
          /\ IF c.final = "COMPLETE" THEN Done(i, "final") ELSE Take(i, "final launch")
  /\ UNCHANGED <<setting, revs, pstate, comfy, server, faults, ops>>

\* bind_qc_draft_recipe and ensure_qc_final_artifact; a candidate that was paused
\* since the list was read, or lost its starting frame, ends the epoch.
FinalEnsure(i) ==
  LET c == cands[i] IN
  /\ w.pc = "final" /\ i \in w.todo
  /\ IF c.frame = 0 \/ c.state \notin {"FINAL_PENDING", "FINAL_RENDERING", "ACCEPTED"}
     THEN Raise /\ UNCHANGED cands
     ELSE /\ cands' = [BindRecipe(cands, i) EXCEPT
                         ![i].final = IF @ = "none" THEN "PENDING" ELSE @]
          /\ IF c.final = "COMPLETE" THEN Done(i, "final") ELSE Take(i, "final launch")
  /\ UNCHANGED <<setting, revs, pstate, comfy, server, faults, ops>>

FinalLaunch ==
  /\ w.pc = "final launch"
  /\ cands' = UpdateFinal(cands, w.cur, "RENDERING")
  /\ comfy' = TRUE
  /\ Goto("final wait")
  /\ UNCHANGED <<setting, revs, pstate, server, faults, ops>>

\* A FINAL of a candidate whose own clip has the path of a final clip replaces it:
\* the clip of the candidate then is not the one it recorded (dest 0).
FinalDone ==
  /\ w.pc = "final wait"
  /\ cands' = [UpdateFinal(cands, w.cur, "COMPLETE") EXCEPT
                 ![w.cur].dest = IF cands[w.cur].path = "clip" THEN 0 ELSE @]
  /\ comfy' = FALSE
  /\ Next1("final")
  /\ UNCHANGED <<setting, revs, pstate, server, faults, ops>>

FinalFails ==
  /\ w.pc = "final wait"
  /\ cands' = UpdateFinal(cands, w.cur, "FAILED")
  /\ comfy' \in BOOLEAN
  /\ Raise /\ Fault
  /\ UNCHANGED <<setting, revs, pstate, server, ops>>

-----------------------------------------------------------------------------
(* render_qc_candidates: the repair drafts are rendered.                        *)

\* The handlers around render_qc_candidates: the failure is charged, or, when the
\* candidate no longer is one that generates, the error ends the epoch.
Charge(i, retryable) ==
  IF Generating(cands, i) \/ cands[i].state = "HOLD_FOR_REVIEW"
  THEN LET c == GenerationFailure(cands, i, retryable) IN
       /\ cands' = c
       /\ w' = [w EXCEPT !.pc = "generate", !.todo = @ \ {i}, !.cur = 0,
                         !.retry = @ \/ (retryable /\ c[i].state = "PENDING_GENERATION")]
  ELSE UNCHANGED cands /\ Raise

\* The list is done: the epoch ends when a render is to be tried again, and goes on
\* with the evaluations otherwise.
GenerateDone ==
  /\ w.pc = "generate" /\ w.todo = {}
  /\ IF w.retry THEN Raise ELSE Goto("pending")
  /\ UNCHANGED <<setting, cands, revs, pstate, comfy, server, faults, ops>>

\* ComfyUI is down or an asset is missing.
GenerateRefused(i) ==
  /\ w.pc = "generate" /\ i \in w.todo /\ Fault
  /\ \E retryable \in BOOLEAN : Charge(i, retryable)
  /\ UNCHANGED <<setting, revs, pstate, comfy, server, ops>>

\* A B2 candidate gets a new starting frame, unless the prompt that makes it is the
\* last one recorded and its file is there.
NeedsFrame(c) == c.tier = "B2" /\ ~(c.owner = "t2i" /\ c.frame # 0)

UnlinkFrame(i) ==
  /\ w.pc = "generate" /\ i \in w.todo /\ NeedsFrame(cands[i])
  /\ cands' = [cands EXCEPT ![i].frame = 0]
  /\ Take(i, "t2i")
  /\ UNCHANGED <<setting, revs, pstate, comfy, server, faults, ops>>

LaunchFrame ==
  /\ w.pc = "t2i"
  /\ cands' = SetOwner(cands, w.cur, "t2i")
  /\ comfy' = TRUE
  /\ Goto("t2i wait")
  /\ UNCHANGED <<setting, revs, pstate, server, faults, ops>>

\* The frame a recipe gives is named after its candidate: the same one when the
\* prompt is reclaimed or run again.
FrameDone ==
  /\ w.pc = "t2i wait"
  /\ cands' = [cands EXCEPT ![w.cur].frame = w.cur]
  /\ comfy' = FALSE
  /\ Goto("bind")
  /\ UNCHANGED <<setting, revs, pstate, server, faults, ops>>

\* bind_qc_draft_recipe, and the clip of an interrupted render that is on the disk.
Bind(i) ==
  /\ \/ w.pc = "bind" /\ i = w.cur
     \/ w.pc = "generate" /\ i \in w.todo /\ ~NeedsFrame(cands[i]) /\ cands[i].frame # 0
  /\ cands' = BindRecipe(cands, i)
  /\ Take(i, IF cands[i].state = "GENERATING" /\ cands[i].dest # 0 THEN "complete" ELSE "i2v")
  /\ UNCHANGED <<setting, revs, pstate, comfy, server, faults, ops>>

LaunchClip ==
  /\ w.pc = "i2v"
  /\ cands' = SetOwner(cands, w.cur, "i2v")
  /\ comfy' = TRUE
  /\ Goto("i2v wait")
  /\ UNCHANGED <<setting, revs, pstate, server, faults, ops>>

ClipDone ==
  /\ w.pc = "i2v wait"
  /\ cands' = [cands EXCEPT ![w.cur].dest = cands[w.cur].frame]
  /\ comfy' = FALSE
  /\ Goto("complete")
  /\ UNCHANGED <<setting, revs, pstate, server, faults, ops>>

\* A render that fails may be tried again; an ambiguous dispatch of a clip may not.
RenderFails ==
  /\ w.pc \in {"t2i wait", "i2v wait"} /\ Fault
  /\ \E retryable \in IF w.pc = "t2i wait" THEN {TRUE} ELSE BOOLEAN : Charge(w.cur, retryable)
  /\ comfy' \in BOOLEAN
  /\ UNCHANGED <<setting, revs, pstate, server, ops>>

\* complete_qc_candidate_generation refuses a candidate that was paused meanwhile.
Complete ==
  /\ w.pc = "complete"
  /\ IF Generating(cands, w.cur)
     THEN cands' = CompleteGeneration(cands, w.cur) /\ Next1("generate")
     ELSE Charge(w.cur, FALSE)
  /\ UNCHANGED <<setting, revs, pstate, comfy, server, faults, ops>>

-----------------------------------------------------------------------------
(* The evaluation epoch: one load of the model for all that is pending.         *)

Barrier_NoQueue ==
  /\ w.pc = "pending"
  /\ IF Pending = {} THEN Goto("loop")
     ELSE w' = [w EXCEPT !.pc = "start", !.todo = Pending]
  /\ UNCHANGED <<setting, cands, revs, pstate, comfy, server, faults, ops>>

\* _strict_generation_barrier: a busy ComfyUI queue ends the epoch.
Barrier ==
  /\ w.pc = "pending"
  /\ CASE Pending = {} -> Goto("loop")
       [] Pending # {} /\ comfy -> Raise
       [] OTHER -> w' = [w EXCEPT !.pc = "start", !.todo = Pending]
  /\ UNCHANGED <<setting, cands, revs, pstate, comfy, server, faults, ops>>

\* The server refuses to start on a port that is in use.
Start ==
  /\ w.pc = "start" /\ server = "down"
  /\ server' = "owned"
  /\ Goto("evaluate")
  /\ UNCHANGED <<setting, cands, revs, pstate, comfy, faults, ops>>

StartFails ==
  /\ w.pc = "start"
  /\ IF server = "orphan" THEN UNCHANGED faults ELSE Fault
  /\ Goto("charge")
  /\ UNCHANGED <<setting, cands, revs, pstate, comfy, server, ops>>

\* A failed start is charged to everything that was pending.
ChargeAll ==
  /\ w.pc = "charge"
  /\ \E i \in w.todo :
       /\ cands' = InfraFailure(cands, i)
       /\ w' = [w EXCEPT !.todo = @ \ {i}, !.pc = IF w.todo = {i} THEN "loop" ELSE @]
  /\ UNCHANGED <<setting, revs, pstate, comfy, server, faults, ops>>

\* An exception of an evaluation or of its routing: the candidate is charged, and the
\* worker goes on with the next one.
Charged(i) == cands' = InfraFailure(cands, i) /\ Done(i, "evaluate")

\* _evaluate_candidate up to the judgement: complete evidence is returned, a manifest
\* on the disk is taken, and a clip that is not the recorded one is refused.
Begin(i) ==
  LET c == cands[i] IN
  /\ w.pc = "evaluate" /\ i \in w.todo
  /\ IF c.stage = "FINAL" \/ ~Intact(cands, i) THEN Charged(i)
     ELSE /\ cands' = BeginEvaluation(cands, i)
          /\ Take(i, CASE c.ev = "COMPLETE" -> "route" [] c.ev = "manifest" -> "evidence"
                    [] OTHER -> "judge")
  /\ UNCHANGED <<setting, revs, pstate, comfy, server, faults, ops>>

Running ==
  /\ w.pc = "judge"
  /\ cands' = SetState(cands, w.cur, "QC_RUNNING", "evaluate")
  /\ Goto("judging")
  /\ UNCHANGED <<setting, revs, pstate, comfy, server, faults, ops>>

\* The answer of the model goes to raw.txt, which is immutable: an answer that
\* differs from the one a crash left there is an error.
Judge ==
  /\ w.pc = "judging"
  /\ \E v \in Verdicts :
       IF cands[w.cur].ev = "raw" /\ cands[w.cur].verdict # v
       THEN Charged(w.cur)
       ELSE /\ cands' = [cands EXCEPT ![w.cur].ev = "raw", ![w.cur].verdict = v]
            /\ Goto("manifest")
  /\ UNCHANGED <<setting, revs, pstate, comfy, server, faults, ops>>

\* The server dies or answers nonsense (the epoch ends), or the sampling fails.
JudgeFails ==
  /\ w.pc = "judging" /\ Fault
  /\ \/ Charged(w.cur)
     \/ cands' = InfraFailure(cands, w.cur) /\ w' = [NoWork EXCEPT !.pc = "close", !.seen = w.seen]
  /\ UNCHANGED <<setting, revs, pstate, comfy, server, ops>>

Manifest ==
  /\ w.pc = "manifest"
  /\ cands' = [cands EXCEPT ![w.cur].ev = "manifest"]
  /\ Goto("evidence")
  /\ UNCHANGED <<setting, revs, pstate, comfy, server, faults, ops>>

\* complete_qc_evaluation.
Evidence ==
  /\ w.pc = "evidence"
  /\ cands' = [cands EXCEPT ![w.cur].ev = "COMPLETE"]
  /\ Goto("route")
  /\ UNCHANGED <<setting, revs, pstate, comfy, server, faults, ops>>

\* backend.close(): the epoch goes on once the port is closed; otherwise the backend
\* is kept and the error ends the epoch.
AtClose == w.pc = "close" \/ (w.pc = "evaluate" /\ w.todo = {})
Close ==
  /\ AtClose
  /\ server' = "down"
  /\ Goto("loop")
  /\ UNCHANGED <<setting, cands, revs, pstate, comfy, faults, ops>>

CloseFails ==
  /\ AtClose /\ Fault
  /\ Raise
  /\ UNCHANGED <<setting, cands, revs, pstate, comfy, server, ops>>

-----------------------------------------------------------------------------
(* route_completed_evaluation.                                                  *)

\* What is read of the candidate before its route is taken: a REJECT or a HOLD of
\* the operator outranks a PASS once the candidate was resumed.
RouteRead ==
  LET c == cands[w.cur]
      resumed == c.next = "route_existing_evidence"
      overruled == c.human \in {"REJECT", "HOLD"} /\ c.state = "PENDING_QC" /\ resumed IN
  /\ w.pc = "route"
  /\ cands' = UpdateAttempt(cands, w.cur, "QC_COMPLETE")
  /\ w' = [w EXCEPT !.pc = "routed", !.resumed = resumed,
                    !.decision = IF overruled /\ c.verdict = "PASS" THEN "FAIL" ELSE c.verdict]
  /\ UNCHANGED <<setting, revs, pstate, comfy, server, faults, ops>>

RoutePass_RendersFinal ==
  /\ w.pc = "routed" /\ w.decision = "PASS"
  /\ cands' = IF setting.auto THEN SetState(cands, w.cur, "FINAL_PENDING", "render_final")
              ELSE SetState(cands, w.cur, "PASS_PENDING_HUMAN", "await_human")
  /\ Next1("evaluate")
  /\ UNCHANGED <<setting, revs, pstate, comfy, server, faults, ops>>

RoutePass ==
  /\ w.pc = "routed" /\ w.decision = "PASS"
  /\ IF setting.auto
     THEN cands' = SetState(cands, w.cur, "ACCEPTED", "none") /\ Goto("promote")
     ELSE cands' = SetState(cands, w.cur, "PASS_PENDING_HUMAN", "await_human") /\ Next1("evaluate")
  /\ UNCHANGED <<setting, revs, pstate, comfy, server, faults, ops>>

Promote_WinnerToo ==
  /\ w.pc = "promote"
  /\ cands' = Supersede(cands, Ids) /\ Next1("evaluate")
  /\ UNCHANGED <<setting, revs, pstate, comfy, server, faults, ops>>

\* promote_accepted_qc_candidate.
Promote ==
  /\ w.pc = "promote"
  /\ IF cands[w.cur].state = "ACCEPTED" /\ Intact(cands, w.cur)
     THEN /\ cands' = Supersede(cands, (Ids \ {w.cur}) \ InState({"ACCEPTED"}))
          /\ Next1("evaluate")
     ELSE Charged(w.cur)
  /\ UNCHANGED <<setting, revs, pstate, comfy, server, faults, ops>>

\* The tier the next repair of candidate c has.
FrameRoute(c) == w.decision = "FRAME" /\ c.tier \in {"ORIGINAL", "A1", "A2", "B1"}
Escalation(c) ==
  IF FrameRoute(c) THEN "B2"
  ELSE CASE c.tier = "ORIGINAL" -> "A1"
         [] c.tier = "A1" -> "A2"
         [] c.tier = "A2" -> IF c.repair = "REJECTED" THEN "C" ELSE "B1"
         [] c.tier \in {"B1", "B2"} -> "C"
         [] c.tier \in {"C", "D"} -> "D"

\* A first D is not repaired before somebody resumes it.
RouteDefer ==
  /\ w.pc = "routed" /\ w.decision # "PASS"
  /\ cands[w.cur].tier = "D" /\ ~w.resumed
  /\ cands' = SetState(cands, w.cur, "DEFERRED", "deferred_untried_strategy_required")
  /\ Next1("evaluate")
  /\ UNCHANGED <<setting, revs, pstate, comfy, server, faults, ops>>

ScheduleA1_OldRevision ==
  /\ w.pc = "routed" /\ w.decision # "PASS" /\ Escalation(cands[w.cur]) = "A1"
  /\ Len(cands) < MaxCands
  /\ cands' = Append(cands, NewCandidate("A1", w.cur, revs, cands[w.cur].path,
                                         "render_a1", "none"))
  /\ w' = [w EXCEPT !.pc = "ledger", !.child = Len(cands) + 1]
  /\ UNCHANGED <<setting, revs, pstate, comfy, server, faults, ops>>

\* schedule_a1_retry and ensure_a1_candidate_revision: the one A1 of the scene.
ScheduleA1 ==
  LET old == OfTier("A1") IN
  /\ w.pc = "routed" /\ w.decision # "PASS" /\ Escalation(cands[w.cur]) = "A1"
  /\ IF old # {}
     THEN UNCHANGED <<cands, revs>> /\ w' = [w EXCEPT !.pc = "ledger", !.child = Least(old)]
     ELSE /\ Len(cands) < MaxCands /\ revs < MaxRevs
          /\ cands' = Append(cands, NewCandidate("A1", w.cur, revs + 1, cands[w.cur].path,
                                                 "render_a1", "none"))
          /\ revs' = revs + 1
          /\ w' = [w EXCEPT !.pc = "ledger", !.child = Len(cands) + 1]
  /\ UNCHANGED <<setting, pstate, comfy, server, faults, ops>>

Untried_Always(t) == t \in Tiers

\* validate_repair_plan: a strategy of the lineage is not tried again (the variants
\* of D have names of their own).
Untried(t) == OfTier(t) = {} \/ (t = "D" /\ cands[w.cur].tier = "D")

\* create_adaptive_candidate_revision: refused where the parent is paused or the tier
\* would go down; a second B2 is the one the scene has.
CreateAdaptive(t) ==
  LET p == cands[w.cur] IN
  IF p.state = "PAUSED" \/ Rank(t) < Rank(p.tier) THEN Charged(w.cur) /\ UNCHANGED revs
  ELSE IF t = "B2" /\ OfTier(t) # {} THEN Goto("supersede") /\ UNCHANGED <<cands, revs>>
  ELSE /\ Len(cands) < MaxCands /\ revs < MaxRevs
       /\ cands' = Append(cands, NewCandidate(t, w.cur, revs + 1, "draft",
                                              "render_adaptive_draft", "PLANNED"))
       /\ revs' = revs + 1
       /\ w' = [w EXCEPT !.pc = "supersede", !.child = Len(cands) + 1]

\* _schedule_server_validated_strategy for A2, C and D.
ScheduleStrategy ==
  LET t == Escalation(cands[w.cur]) IN
  /\ w.pc = "routed" /\ w.decision # "PASS" /\ t \in {"A2", "C", "D"}
  /\ cands[w.cur].tier = "D" => w.resumed
  /\ IF Untried(t) THEN CreateAdaptive(t) ELSE Charged(w.cur) /\ UNCHANGED revs
  /\ UNCHANGED <<setting, pstate, comfy, server, faults, ops>>

\* _schedule_start_frame_regeneration: B2 for a starting frame that is at fault.
RegenerateFrame ==
  /\ w.pc = "routed" /\ FrameRoute(cands[w.cur]) /\ cands[w.cur].tier # "B1"
  /\ CreateAdaptive("B2")
  /\ UNCHANGED <<setting, pstate, comfy, server, faults, ops>>

\* schedule_b2_retry: the revision behind the one of the B1 is taken first, and the
\* candidate inserted by a second transaction.
ReserveB2 ==
  LET p == cands[w.cur] IN
  /\ w.pc = "routed" /\ FrameRoute(p) /\ p.tier = "B1"
  /\ IF p.b2row \/ revs = p.rev
     THEN /\ p.b2row \/ revs < MaxRevs
          /\ revs' = IF p.b2row THEN revs ELSE revs + 1
          /\ cands' = [cands EXCEPT ![w.cur].b2row = TRUE]
          /\ Goto("b2")
     ELSE Charged(w.cur) /\ UNCHANGED revs
  /\ UNCHANGED <<setting, pstate, comfy, server, faults, ops>>

ScheduleB2 ==
  LET old == OfTier("B2") IN
  /\ w.pc = "b2"
  /\ CASE old # {} /\ cands[Least(old)].par # w.cur -> Charged(w.cur)
       [] old # {} /\ cands[Least(old)].par = w.cur ->
            UNCHANGED cands /\ w' = [w EXCEPT !.pc = "ledger", !.child = Least(old)]
       [] OTHER ->
            /\ Len(cands) < MaxCands
            /\ cands' = Append(cands, NewCandidate("B2", w.cur, cands[w.cur].rev + 1, "draft",
                                                   "render_b2", "none"))
            /\ w' = [w EXCEPT !.pc = "ledger", !.child = Len(cands) + 1]
  /\ UNCHANGED <<setting, revs, pstate, comfy, server, faults, ops>>

Ledger_Forgotten ==
  /\ w.pc = "ledger" /\ UNCHANGED cands
  /\ Goto("supersede")
  /\ UNCHANGED <<setting, revs, pstate, comfy, server, faults, ops>>

Ledger ==
  /\ w.pc = "ledger"
  /\ cands' = EnsureAttempt(cands, w.child)
  /\ Goto("supersede")
  /\ UNCHANGED <<setting, revs, pstate, comfy, server, faults, ops>>

SupersedeParent ==
  /\ w.pc = "supersede"
  /\ cands' = Supersede(cands, {w.cur})
  /\ Next1("evaluate")
  /\ UNCHANGED <<setting, revs, pstate, comfy, server, faults, ops>>

-----------------------------------------------------------------------------
(* The B1 repair of an A2 candidate: one call of the planner model per candidate. *)

AtPlanner == w.pc = "routed" /\ w.decision # "PASS" /\ Escalation(cands[w.cur]) = "B1"

Claim_Again ==
  /\ AtPlanner /\ cands[w.cur].repair = "none"
  /\ cands' = [cands EXCEPT ![w.cur].claim = "CLAIMED"] /\ Goto("plan")
  /\ UNCHANGED <<setting, revs, pstate, comfy, server, faults, ops>>

\* claim_qc_repair_planner: a claim without a repair is one whose answer was lost.
Claim ==
  /\ AtPlanner /\ cands[w.cur].repair = "none"
  /\ IF cands[w.cur].claim = "none"
     THEN cands' = [cands EXCEPT ![w.cur].claim = "CLAIMED"] /\ Goto("plan")
     ELSE UNCHANGED cands /\ w' = [w EXCEPT !.pc = "patch", !.out = "AMBIGUOUS"]
  /\ UNCHANGED <<setting, revs, pstate, comfy, server, faults, ops>>

\* backend.plan_repair, and the validation of what it answers.
Plan ==
  /\ w.pc = "plan"
  /\ cands' = [cands EXCEPT ![w.cur].calls = @ + 1]
  /\ \/ \E out \in {"ACCEPTED", "REJECTED"} :
          w' = [w EXCEPT !.pc = "patch", !.out = out] /\ UNCHANGED faults
     \/ Fault /\ w' = [w EXCEPT !.pc = "patch", !.out = "FAILED"]
  /\ UNCHANGED <<setting, revs, pstate, comfy, server, ops>>

\* schedule_b1_retry up to the manifest of the repair, an immutable file.  It wants
\* the evidence of a defect: a PASS the operator rejected is refused here.
Patch ==
  LET c == cands[w.cur] IN
  /\ w.pc = "patch"
  /\ IF c.verdict = "PASS" \/ c.patch \notin {"none", w.out}
     THEN Charged(w.cur)
     ELSE /\ cands' = [cands EXCEPT ![w.cur].patch = w.out, ![w.cur].planned = revs + 1]
          /\ Goto("record")
  /\ UNCHANGED <<setting, revs, pstate, comfy, server, faults, ops>>

\* record_qc_repair.
Record ==
  /\ w.pc = "record"
  /\ cands' = [cands EXCEPT ![w.cur].repair = IF w.out = "ACCEPTED" THEN w.out ELSE "REJECTED"]
  /\ Goto(IF w.out = "ACCEPTED" THEN "b1" ELSE "reject")
  /\ UNCHANGED <<setting, revs, pstate, comfy, server, faults, ops>>

Reject ==
  /\ w.pc = "reject"
  /\ cands' = SetState(cands, w.cur, "HOLD_FOR_REVIEW", "hold_for_review")
  /\ Goto("settle")
  /\ UNCHANGED <<setting, revs, pstate, comfy, server, faults, ops>>

\* ensure_b1_candidate_revision, after the repair was recorded or when an accepted
\* repair is found again: the revision the repair planned has to be the next one.
ScheduleB1 ==
  LET p == cands[w.cur]
      old == OfTier("B1") IN
  /\ w.pc = "b1" \/ (AtPlanner /\ p.repair = "ACCEPTED")
  /\ CASE old # {} ->
            /\ UNCHANGED <<cands, revs>>
            /\ w' = [w EXCEPT !.pc = IF w.out = "none" THEN "ledger" ELSE "settle",
                              !.child = Least(old)]
       [] old = {} /\ revs + 1 # p.planned ->
            /\ UNCHANGED revs
            /\ IF w.out = "none" THEN Charged(w.cur)
               ELSE UNCHANGED cands /\ w' = [w EXCEPT !.pc = "settle", !.out = "STALE"]
       [] OTHER ->
            /\ Len(cands) < MaxCands /\ revs < MaxRevs
            /\ cands' = Append(cands, NewCandidate("B1", w.cur, revs + 1, "draft",
                                                   "render_b1", "none"))
            /\ revs' = revs + 1
            /\ w' = [w EXCEPT !.pc = IF w.out = "none" THEN "ledger" ELSE "settle",
                              !.child = Len(cands) + 1]
  /\ UNCHANGED <<setting, pstate, comfy, server, faults, ops>>

\* complete_qc_repair_planner_claim; a rejected patch goes on to the C repair.
Settle ==
  /\ w.pc = "settle"
  /\ cands' = [cands EXCEPT ![w.cur].claim =
                 IF w.out \in {"FAILED", "AMBIGUOUS"} THEN "FAILED_CLOSED" ELSE "COMPLETED"]
  /\ CASE w.out = "ACCEPTED" -> Goto("ledger")
       [] w.out = "REJECTED" -> Goto("routed")
       [] w.out = "AMBIGUOUS" -> Next1("evaluate")
       [] w.out \in {"FAILED", "STALE"} -> Goto("failed")
  /\ UNCHANGED <<setting, revs, pstate, comfy, server, faults, ops>>

PlannerFailed ==
  /\ w.pc = "failed"
  /\ cands' = SetState(cands, w.cur, "HOLD_FOR_REVIEW", "planner_failure")
  /\ Next1("evaluate")
  /\ UNCHANGED <<setting, revs, pstate, comfy, server, faults, ops>>

-----------------------------------------------------------------------------
(* The operator in the GUI, between any two transactions of the worker.         *)

Undecided(i) == pstate = "AWAITING_QC_REVIEW" /\ cands[i].human = "none"

\* decide_qc_candidate on the candidate that waits for the operator; an approval
\* makes it the only one of the scene.
Approve(i) ==
  /\ Undecided(i) /\ cands[i].state = "PASS_PENDING_HUMAN"
  /\ cands[i].verdict = "PASS" /\ Intact(cands, i)
  /\ cands' = Supersede(
       SetState([cands EXCEPT ![i].human = "APPROVE"], i,
                IF cands[i].stage = "DRAFT" THEN "FINAL_PENDING" ELSE "ACCEPTED",
                IF cands[i].stage = "DRAFT" THEN "render_final" ELSE "none"), Ids \ {i})
  /\ UNCHANGED <<setting, revs, pstate, w, comfy, server, faults, ops>>

Decline(i, d) ==
  /\ Undecided(i) /\ cands[i].state = "PASS_PENDING_HUMAN"
  /\ cands[i].verdict = "PASS" /\ Intact(cands, i)
  /\ cands' = IF d = "REJECT"
              THEN SetState([cands EXCEPT ![i].human = d], i, "DEFERRED", "resume_adaptive")
              ELSE SetState([cands EXCEPT ![i].human = d], i, "PAUSED", "human_hold")
  /\ UNCHANGED <<setting, revs, pstate, w, comfy, server, faults, ops>>

\* accept_automatic_hold_override: the hold is the last candidate that is alive.
Override(i) ==
  /\ Undecided(i) /\ cands[i].state = "HOLD_FOR_REVIEW"
  /\ Ids \ {i} = InState({"SUPERSEDED"})
  /\ cands[i].ev = "COMPLETE" /\ Intact(cands, i)
  /\ cands' = SetState([cands EXCEPT ![i].human = "APPROVE"], i,
                       IF cands[i].stage = "DRAFT" THEN "FINAL_PENDING" ELSE "ACCEPTED",
                       IF cands[i].stage = "DRAFT" THEN "render_final" ELSE "none")
  /\ UNCHANGED <<setting, revs, pstate, w, comfy, server, faults, ops>>

Op == ops < MaxOps /\ ops' = ops + 1

Pause_Anything(i) ==
  /\ Op /\ cands[i].state # "PAUSED"
  /\ cands' = SetState(cands, i, "PAUSED", "operator_pause")
  /\ UNCHANGED <<setting, revs, pstate, w, comfy, server, faults>>

Pause(i) ==
  /\ Op /\ cands[i].state \notin {"ACCEPTED", "SUPERSEDED", "FINAL_RENDERING", "PAUSED"}
  /\ cands' = SetState(cands, i, "PAUSED", "operator_pause")
  /\ UNCHANGED <<setting, revs, pstate, w, comfy, server, faults>>

Resume(i) ==
  /\ Op /\ cands[i].state \in {"PAUSED", "HOLD_FOR_REVIEW", "DEFERRED"}
  /\ cands' = SetState(cands, i, "DEFERRED", "resume_adaptive")
  /\ UNCHANGED <<setting, revs, pstate, w, comfy, server, faults>>

\* resume_automatic_holds.
ResumeHolds ==
  LET held == {i \in InState({"HOLD_FOR_REVIEW"}) : cands[i].human \in {"none", "REJECT"}} IN
  /\ Op /\ held # {}
  /\ cands' = [i \in Ids |-> IF i \in held
                             THEN [cands[i] EXCEPT !.state = "DEFERRED", !.next = "resume_adaptive"]
                             ELSE cands[i]]
  /\ UNCHANGED <<setting, revs, pstate, w, comfy, server, faults>>

\* create_remake_batch: a remake of the scene takes the next revision.
Remake ==
  /\ Op /\ revs < MaxRevs
  /\ revs' = revs + 1
  /\ UNCHANGED <<setting, cands, pstate, w, comfy, server, faults>>

Operator ==
  \/ \E i \in Ids : Approve(i) \/ Override(i) \/ Pause(i) \/ Resume(i)
                    \/ \E d \in {"REJECT", "HOLD"} : Decline(i, d)
  \/ ResumeHolds \/ Remake

-----------------------------------------------------------------------------
(* The process dies at any step; its server dies with it or is left behind.     *)
Crash ==
  /\ w.pc # "idle" /\ Fault
  /\ w' = NoWork
  /\ server' \in IF server = "owned" THEN {"down", "orphan"} ELSE {server}
  /\ UNCHANGED <<setting, cands, revs, pstate, comfy, ops>>

\* The orphan ends, by itself or killed by the operator.
OrphanEnds ==
  /\ server = "orphan" /\ server' = "down"
  /\ UNCHANGED <<setting, cands, revs, pstate, w, comfy, faults, ops>>

\* A prompt nobody waits for any more ends.
Waiting == w.pc \in {"final wait", "t2i wait", "i2v wait"}
ComfyEnds ==
  /\ comfy /\ ~Waiting /\ comfy' = FALSE
  /\ UNCHANGED <<setting, cands, revs, pstate, w, server, faults, ops>>

Epoch == EpochStart \/ Register \/ HoldIncomplete \/ Loop \/ Select
Render == \/ FinalsDone \/ FinalLaunch \/ FinalDone
          \/ GenerateDone \/ LaunchFrame \/ FrameDone
          \/ \E i \in Ids : FinalEnsure(i) \/ UnlinkFrame(i) \/ Bind(i)
          \/ LaunchClip \/ ClipDone \/ Complete
Evaluate == \/ Barrier \/ Start \/ (StartFails /\ server = "orphan") \/ ChargeAll
            \/ (\E i \in Ids : Begin(i)) \/ Running \/ Judge \/ Manifest \/ Evidence \/ Close
Route == \/ RouteRead \/ RoutePass \/ Promote \/ RouteDefer \/ ScheduleA1 \/ ScheduleStrategy \/ RegenerateFrame
         \/ ReserveB2 \/ ScheduleB2 \/ Ledger \/ SupersedeParent
         \/ Claim \/ Plan \/ Patch \/ Record \/ Reject \/ ScheduleB1 \/ Settle \/ PlannerFailed
Worker == Epoch \/ Render \/ Evaluate \/ Route
Failures == \/ FinalFails \/ (\E i \in Ids : GenerateRefused(i)) \/ RenderFails \/ StartFails \/ JudgeFails
            \/ CloseFails \/ Crash

Next == Worker \/ Failures \/ Operator \/ OrphanEnds \/ ComfyEnds
Spec == Init /\ [][Next]_vars
Fairness == WF_vars(Worker) /\ WF_vars(OrphanEnds) /\ WF_vars(ComfyEnds)
FairSpec == Spec /\ Fairness

-----------------------------------------------------------------------------
\* The rows, the worker and the two devices stay within their values.
TypeOK ==
  /\ \A i \in Ids : cands[i] \in Candidates
  /\ Len(cands) <= MaxCands /\ revs \in 1..MaxRevs
  /\ pstate \in {"RUNNING_QC", "AWAITING_QC_REVIEW", "STITCHING", "QC_BLOCKED"}
  /\ w.todo \subseteq Ids /\ w.cur \in Ids \cup {0} /\ w.child \in Ids \cup {0}
  /\ comfy \in BOOLEAN /\ server \in {"down", "owned", "orphan"}
  /\ faults \in 0..MaxFaults /\ ops \in 0..MaxOps

\* The planner model is asked at most once for a candidate, whatever crashes, retries
\* and resumes lie between the claim and the recorded repair.
PlannerOnce == \A i \in Ids : cands[i].calls <= 1

\* qc_final_selection finds one accepted candidate at most: two are never accepted, unless the
\* operator overrode a hold while its repair was being scheduled, or a crash left a D with two
\* repairs of its own.  Every other lineage is a chain, and only its end can pass.
Overridden(i) == cands[i].human = "APPROVE" /\ cands[i].verdict # "PASS"
OneAccepted ==
  \A i, j \in InState({"ACCEPTED"}) :
    i = j \/ Overridden(i) \/ Overridden(j) \/ (cands[i].tier = "D" /\ cands[j].tier = "D")

\* The scene always keeps a candidate that is not superseded: no interleaving of the
\* scheduler, the operator and crashes gives up a parent without a child to follow.
NeverOrphaned == cands # <<>> => InState(States \ {"SUPERSEDED"}) # {}

\* The llama server never runs while the worker has a prompt in ComfyUI: the port
\* check and the queue barrier keep the two off the same GPU, orphans included.
GpuExclusive == comfy => server = "down"

\* No FINAL is rendered of a draft the operator did not approve, whatever he pauses,
\* rejects or resumes while the worker holds an old list of candidates.
OnlyApprovedFinals == \A i \in Ids : cands[i].final # "none" => cands[i].human = "APPROVE"

\* Every candidate has a revision of its own, with remakes taking revisions between
\* the reads and the inserts of the schedulers.
RevisionsDistinct == \A i, j \in Ids : cands[i].rev = cands[j].rev => i = j

\* Whatever was repaired has the repair in the ledger: a superseded parent is one whose
\* child is recorded with its strategy, or one that gave way to an accepted candidate.
Chosen == InState({"ACCEPTED"}) \cup {i \in Ids : cands[i].human = "APPROVE"}
LedgerComplete ==
  \A i \in InState({"SUPERSEDED"}) :
    Chosen # {} \/ \E j \in Ids : j # i /\ cands[j].ledger # "none" /\ cands[j].tier # "ORIGINAL"

\* A selection that was handed to finalization stays one, whatever the operator does to
\* the scene's candidates afterwards.
SelectionStands == pstate = "STITCHING" => Selectable(cands)

\* The lineage of the scene is whole: well-typed rows with revisions of their own, a ledger
\* of every repair, and always a candidate to go on with.
LineageWhole == TypeOK /\ RevisionsDistinct /\ LedgerComplete /\ NeverOrphaned

\* The decision of the operator holds: FINALs of approved drafts only, one candidate
\* accepted in the end, and a selection that is not taken back.
DecisionHolds == OnlyApprovedFinals /\ OneAccepted /\ SelectionStands

\* The worker would insert a candidate the model has no room for.
AtBound == w.pc \in {"routed", "b1", "b2"} /\ w.decision # "PASS" /\ Len(cands) = MaxCands

\* An approved draft is delivered: it gets its FINAL and the job is ready to be
\* assembled, whatever crash, outage or failed render comes between, as long as the
\* operator does not pause it or approve another one beside it.
Rivals == Cardinality({i \in Ids : cands[i].human = "APPROVE"}) > 1
ApprovedDelivers ==
  \A i \in 1..MaxCands :
    (i \in Ids /\ cands[i].human = "APPROVE" /\ cands[i].verdict = "PASS")
      ~> (pstate = "STITCHING" \/ ops > 0 \/ AtBound \/ Rivals)

\* The epochs come to rest: while the operator does nothing, the work of the scene ends
\* in a clip that is selected or in a candidate that waits for the operator.
Rest == Finals \cup Generation \cup Pending \cup Deferred = {}
WorkDrains == (cands # <<>>) ~> (Rest \/ pstate = "STITCHING" \/ ops > 0 \/ AtBound)

=============================================================================
