-------------------------- MODULE ContinuationChunks --------------------------
(***************************************************************************)
(* One scene revision rendered as a chain of temporal chunks               *)
(* (continuation_renderer.py) over the scene_chunks and chunk_attempts     *)
(* tables of state_store.py.  Every store call is one transaction and one  *)
(* step; between two of them the process may crash, ComfyUI may die, a     *)
(* checkpoint may be damaged, the generation code may be upgraded, or the  *)
(* project may be cancelled from the GUI thread.                           *)
(*                                                                         *)
(* Chunks are numbered from 1 (0 in the code).  The artifact hash of an    *)
(* attempt is its number: COMPLETE.json names the attempt and is written   *)
(* once.  `inputs' stands for the seed, variation and parameters document  *)
(* of an attempt, which change only with the generation contract.          *)
(***************************************************************************)
EXTENDS Integers, Sequences, FiniteSets

CONSTANTS NChunks,       \* chunks of the scene's plan
          MaxAttempts,   \* TENMIN_MAX_STAGE_ATTEMPTS
          MaxFaults,     \* bound: faults of every kind in one behaviour
          Faults         \* the kinds of fault considered

ASSUME ChunkAssumption == /\ NChunks \in Nat \ {0}
                          /\ MaxAttempts \in Nat \ {0}
                          /\ MaxFaults \in Nat

VARIABLES db,        \* SQLite: scene state, chunk rows, attempt rows
          disk,      \* valid files of each attempt
          clip,      \* the assembled scene and its COMPLETE.json
          prompts,   \* every prompt ever sent to ComfyUI, in order
          comfy,     \* whether the ComfyUI process runs
          contract,  \* identity of the generation code and the node contracts
          w,         \* the worker thread inside render_scene
          env        \* faults spent, the GUI's cancellation, whether a prompt id was lost

vars == <<db, disk, clip, prompts, comfy, contract, w, env>>

Chunks == 1 .. NChunks
Active == {"GENERATING_STAGE1", "STAGE1_COMPLETE", "GENERATING_STAGE2",
           "DECODED", "VALIDATING"}
Voided == {"CANCELLED", "INVALIDATED", "STALE_UPSTREAM"}
FinalStates == Voided \cup {"COMPLETE", "FAILED_RETRYABLE", "FAILED_TERMINAL"}
Startable == {"READY", "FAILED_RETRYABLE", "INVALIDATED", "COMPLETE"}
Required == {"stage1", "stage2", "window", "complete"}
NoPrompts == [s \in 1 .. 3 |-> 0]
Highest(S) == CHOOSE n \in S : \A m \in S : m <= n

-----------------------------------------------------------------------------
(* The three ComfyUI graphs: checkpoints they load, checkpoints they save. *)
Stage1Graph == [reads |-> {}, saves |-> {"stage1"}, attempt |-> "GENERATING_STAGE1"]
Stage2Graph == [reads |-> {"stage1"}, saves |-> {"stage2"},
                attempt |-> "GENERATING_STAGE2"]
DecodeGraph == [reads |-> {"stage2"}, saves |-> {}, attempt |-> "DECODED"]
Graph == <<Stage1Graph, Stage2Graph, DecodeGraph>>

Live(p) == prompts[p].st \in {"queued", "saved"}
CancelPrompts(ids) == IF comfy
                      THEN [p \in DOMAIN prompts |->
                              IF p \in ids /\ Live(p)
                              THEN [prompts[p] EXCEPT !.st = "gone"] ELSE prompts[p]]
                      ELSE prompts

-----------------------------------------------------------------------------
(* state_store.py *)
WorkIsActive(d) == d.scene # "CANCELLED"

EnsurePlan(d) == [d EXCEPT !.plan = TRUE]

PlanChunks(d) == IF d.chunks[1].state # "NONE" THEN d
                 ELSE [d EXCEPT !.chunks = [c \in Chunks |->
                         [state |-> IF c = 1 THEN "READY" ELSE "BLOCKED_UPSTREAM",
                          acc |-> 0]]]

Upstream(d, c) == IF c = 1 THEN 0 ELSE d.chunks[c - 1].acc

ActiveAttempts(d, c) == {a \in DOMAIN d.atts[c] : d.atts[c][a].state \in Active}

Matches(d, c, a, con, up) == d.atts[c][a].inputs = con /\ d.atts[c][a].up = up

BeginRefused(d, c, con, up) ==
    \/ ~WorkIsActive(d)
    \/ c > 1 /\ Upstream(d, c) = 0
    \/ up # 0 /\ up # Upstream(d, c)
    \/ LET live == ActiveAttempts(d, c)
       IN IF live # {} THEN ~Matches(d, c, Highest(live), con, Upstream(d, c))
                       ELSE d.chunks[c].state \notin Startable

BeginAttempt_Anew(d, c, con) ==
    [d EXCEPT !.atts[c] = Append(@, [state |-> "GENERATING_STAGE1", inputs |-> con,
                                     up |-> Upstream(d, c), ids |-> NoPrompts]),
              !.chunks[c].state = IF d.chunks[c].acc = 0 THEN "GENERATING_STAGE1" ELSE @]
BeginAttempt(d, c, con) ==
    IF ActiveAttempts(d, c) # {} THEN d
    ELSE [d EXCEPT !.atts[c] = Append(@, [state |-> "GENERATING_STAGE1", inputs |-> con,
                                          up |-> Upstream(d, c), ids |-> NoPrompts]),
                   !.chunks[c].state = IF d.chunks[c].acc = 0
                                       THEN "GENERATING_STAGE1" ELSE @]

UpdateRefused_AnyOwner(d, c, a, state, ids) ==
    /\ d.atts[c][a].state \in FinalStates
    /\ \/ ids # d.atts[c][a].ids
       \/ state # d.atts[c][a].state /\ (state \notin Voided \/ d.chunks[c].acc = a)
UpdateRefused(d, c, a, state, ids) ==
    \/ state # "CANCELLED" /\ ~WorkIsActive(d)
    \/ /\ d.atts[c][a].state \in FinalStates
       /\ \/ ids # d.atts[c][a].ids
          \/ state # d.atts[c][a].state /\ (state \notin Voided \/ d.chunks[c].acc = a)

UpdateAttempt(d, c, a, state, ids) ==
    IF d.atts[c][a].state \in FinalStates /\ d.atts[c][a].state = state THEN d
    ELSE [d EXCEPT !.atts[c][a].state = state,
                   !.atts[c][a].ids = ids,
                   !.chunks[c].state = IF d.chunks[c].acc \in {0, a} THEN state ELSE @]

InvalidateFrom_OnlyThis(d, c) ==
    [d EXCEPT !.chunks[c] = [state |-> "READY", acc |-> 0],
              !.atts[c] = [a \in DOMAIN d.atts[c] |->
                             [d.atts[c][a] EXCEPT !.state = "INVALIDATED"]]]
InvalidateFrom(d, c) ==
    LET ready == c = 1 \/ (d.chunks[c - 1].state = "COMPLETE" /\ d.chunks[c - 1].acc # 0)
    IN [d EXCEPT
          !.chunks = [i \in Chunks |->
             IF i < c THEN d.chunks[i]
             ELSE [state |-> IF i = c /\ ready THEN "READY" ELSE "STALE_UPSTREAM",
                   acc |-> 0]],
          !.atts = [i \in Chunks |->
             IF i < c THEN d.atts[i]
             ELSE [a \in DOMAIN d.atts[i] |->
                     IF d.atts[i][a].state = "CANCELLED" THEN d.atts[i][a]
                     ELSE [d.atts[i][a] EXCEPT
                             !.state = IF i = c THEN "INVALIDATED"
                                       ELSE "STALE_UPSTREAM"]]]]

SelectRefused(d, c, a) == \/ ~WorkIsActive(d)
                          \/ d.atts[c][a].state # "COMPLETE"
                          \/ d.atts[c][a].up # Upstream(d, c)
                          \/ d.chunks[c].state = "CANCELLED"

SelectAttempt(d, c, a) ==
    IF d.chunks[c].acc = a THEN d
    ELSE LET e == IF d.chunks[c].acc # 0 /\ c < NChunks THEN InvalidateFrom(d, c + 1) ELSE d
         IN [e EXCEPT !.chunks = [i \in Chunks |->
               CASE i = c -> [state |-> "COMPLETE", acc |-> a]
                 [] i = c + 1 /\ e.chunks[i].acc = 0
                     /\ e.chunks[i].state \in {"BLOCKED_UPSTREAM", "STALE_UPSTREAM",
                                               "INVALIDATED"}
                     -> [e.chunks[i] EXCEPT !.state = "READY"]
                 [] OTHER -> e.chunks[i]]]

\* retry_job: failed attempts leave the budget, unaccepted chunks are released.
Accepted(d, c) == d.chunks[c].state = "COMPLETE" /\ d.chunks[c].acc # 0
RetryJob(d) ==
    LET atts == [c \in Chunks |-> [a \in DOMAIN d.atts[c] |->
                   IF d.atts[c][a].state \in {"FAILED_RETRYABLE", "FAILED_TERMINAL"}
                   THEN [d.atts[c][a] EXCEPT !.state = "INVALIDATED"] ELSE d.atts[c][a]]]
        restored(c) == LET live == ActiveAttempts(d, c)
                       IN CASE live # {} -> d.atts[c][Highest(live)].state
                            [] live = {} /\ \A i \in 1 .. c - 1 : Accepted(d, i) -> "READY"
                            [] OTHER -> "BLOCKED_UPSTREAM"
    IN [d EXCEPT !.scene = "PENDING", !.atts = atts,
                 !.chunks = [c \in Chunks |->
                    IF d.chunks[c].state = "NONE" \/ Accepted(d, c) THEN d.chunks[c]
                    ELSE [d.chunks[c] EXCEPT !.state = restored(c)]]]

AbandonJob(d) ==
    [d EXCEPT !.scene = "CANCELLED",
              !.atts = [c \in Chunks |-> [a \in DOMAIN d.atts[c] |->
                 IF d.atts[c][a].state \in Active
                 THEN [d.atts[c][a] EXCEPT !.state = "CANCELLED"] ELSE d.atts[c][a]]],
              !.chunks = [c \in Chunks |->
                 IF d.chunks[c].state = "NONE" \/ Accepted(d, c) THEN d.chunks[c]
                 ELSE [d.chunks[c] EXCEPT !.state = "CANCELLED"]]]

-----------------------------------------------------------------------------
(* The worker thread: continuation_renderer.py *)
At(pc) == w.pc = pc
Idle(pc) == [pc |-> pc, con |-> 0, c |-> 1, taken |-> <<>>, a |-> 0, k |-> 0,
             ids |-> NoPrompts, stage |-> 0, p |-> 0, tries |-> 0, err |-> ""]
Go(pc) == w' = [w EXCEPT !.pc = pc]
Raise == Go("raise")                     \* leaves render_scene as a ComfyHttpError
Escape == w' = Idle("idle")              \* leaves it as a StateTransitionError
Fail(kind) == w' = [w EXCEPT !.pc = "failed", !.err = kind]  \* caught by _render_chunk
Files(c, a) == disk[c][a]
Loadable(c, a, kinds) == kinds \subseteq Files(c, a)       \* hash-verified checkpoints
Quiet == UNCHANGED <<comfy, contract, env>>
OnlyWorker == UNCHANGED <<db, disk, clip, prompts>> /\ Quiet

\* A fatal error restarts ComfyUI before the next tick of the worker.
StartRender == At("idle") /\ db.scene = "PENDING" /\ comfy /\ Go("plan") /\ OnlyWorker

\* render_scene down to the loop: plan, chunk rows, live node contract.
PersistPlan ==
    /\ At("plan")
    /\ CASE ~WorkIsActive(db) -> Raise /\ UNCHANGED db
         [] WorkIsActive(db) /\ ~comfy ->
              db' = PlanChunks(EnsurePlan(db)) /\ Raise
         [] OTHER -> /\ db' = PlanChunks(EnsurePlan(db))
                     /\ w' = [w EXCEPT !.pc = "chunk", !.con = contract]
    /\ UNCHANGED <<disk, clip, prompts>> /\ Quiet

AttemptValid_DecodeToo(c, a) ==
    /\ db.atts[c][a].state = "COMPLETE"
    /\ db.atts[c][a].inputs = w.con
    /\ db.atts[c][a].up = Upstream(db, c)
    /\ c > 1 => Upstream(db, c) # 0
    /\ \A s \in 1 .. 3 : db.atts[c][a].ids[s] # 0
    /\ Required \subseteq Files(c, a)
AttemptValid(c, a) ==
    /\ db.atts[c][a].state = "COMPLETE"
    /\ db.atts[c][a].inputs = w.con
    /\ db.atts[c][a].up = Upstream(db, c)
    /\ c > 1 => Upstream(db, c) # 0
    /\ db.atts[c][a].ids[1] # 0 /\ db.atts[c][a].ids[2] # 0  \* workflow hashes recorded
    /\ Required \subseteq Files(c, a)

\* The accepted direct predecessor whose window starts chunk c.
FrameSource(c) == w.taken[c - 1]

\* The exact last frame of the accepted predecessor, extracted once per attempt.
ExtractFrame(c, up) == /\ {"window", "frame"} \cap Files(c - 1, up) # {}
                       /\ disk' = [disk EXCEPT ![c - 1][up] = @ \cup {"frame"}]

Take_Forgets(a) == w' = [w EXCEPT !.pc = "chunk", !.c = @ + 1, !.a = 0, !.k = 0,
                                  !.ids = NoPrompts, !.stage = 0, !.p = 0, !.tries = 0]
Take(a) == w' = [w EXCEPT !.pc = "chunk", !.taken = Append(@, a), !.c = @ + 1,
                          !.a = 0, !.k = 0, !.ids = NoPrompts, !.stage = 0, !.p = 0,
                          !.tries = 0]

\* The for loop of render_scene and the reads of _accepted_attempt.
NextChunk ==
    /\ At("chunk")
    /\ IF ~WorkIsActive(db) THEN Raise /\ UNCHANGED disk
       ELSE IF w.c > NChunks THEN Go("assemble") /\ UNCHANGED disk
       ELSE LET c == w.c
                acc == db.chunks[c].acc
            IN \/ /\ IF c = 1 THEN UNCHANGED disk ELSE ExtractFrame(c, FrameSource(c))
                  /\ CASE acc = 0 -> w' = [w EXCEPT !.pc = "recover",
                                                    !.k = Len(db.atts[c])]
                       [] acc # 0 /\ AttemptValid(c, acc) -> Take(acc)
                       [] OTHER -> Go("invalidate")
               \/ /\ c > 1 /\ {"window", "frame"} \cap Files(c - 1, FrameSource(c)) = {}
                  /\ Raise /\ UNCHANGED disk
    /\ UNCHANGED <<db, clip, prompts>> /\ Quiet

InvalidateAccepted ==
    /\ At("invalidate")
    /\ IF WorkIsActive(db) THEN db' = InvalidateFrom(db, w.c) /\ Go("loop")
                           ELSE Escape /\ UNCHANGED db
    /\ UNCHANGED <<disk, clip, prompts>> /\ Quiet

\* A crash fell between COMPLETE and the selection of the attempt.
RecoverComplete ==
    /\ At("recover")
    /\ LET done == {a \in 1 .. w.k : db.atts[w.c][a].state = "COMPLETE"}
           a == Highest(done)
       IN CASE done = {} -> Go("loop") /\ UNCHANGED db
            [] done # {} /\ AttemptValid(w.c, a) ->
                 IF SelectRefused(db, w.c, a) THEN Escape /\ UNCHANGED db
                 ELSE db' = SelectAttempt(db, w.c, a) /\ Take(a)
            [] OTHER ->
                 /\ w' = [w EXCEPT !.k = a - 1]
                 /\ LET ids == db.atts[w.c][a].ids
                    IN db' = IF UpdateRefused(db, w.c, a, "INVALIDATED", ids) THEN db
                             ELSE UpdateAttempt(db, w.c, a, "INVALIDATED", ids)
    /\ UNCHANGED <<disk, clip, prompts>> /\ Quiet

\* The attempts that count against max_attempts.
Budget_FailuresFree(c, con, up) ==
    {a \in DOMAIN db.atts[c] : /\ db.atts[c][a].state \in Active \cup {"COMPLETE"}
                               /\ Matches(db, c, a, con, up)}
Budget(c, con, up) == {a \in DOMAIN db.atts[c] : /\ db.atts[c][a].state \notin Voided
                                                 /\ Matches(db, c, a, con, up)}
ExpectedUp == IF w.c = 1 THEN 0 ELSE w.taken[w.c - 1]
Mismatched == {a \in ActiveAttempts(db, w.c) : ~Matches(db, w.c, a, w.con, ExpectedUp)}

BudgetSpent == /\ Budget(w.c, w.con, ExpectedUp) \cap ActiveAttempts(db, w.c) = {}
               /\ Cardinality(Budget(w.c, w.con, ExpectedUp)) >= MaxAttempts

\* The top of the while loop of _render_chunk.
BeginOrResume ==
    /\ At("loop")
    /\ CASE db.chunks[w.c].state = "FAILED_TERMINAL" ->
              Raise /\ UNCHANGED <<db, disk>>
         [] db.chunks[w.c].state # "FAILED_TERMINAL" /\ Mismatched # {} ->
              w' = [w EXCEPT !.pc = "discard", !.a = Highest(Mismatched)]
              /\ UNCHANGED <<db, disk>>
         [] OTHER ->
              IF BudgetSpent \/ BeginRefused(db, w.c, w.con, ExpectedUp)
              THEN Raise /\ UNCHANGED <<db, disk>>
              ELSE LET d == BeginAttempt(db, w.c, w.con)
                       a == Highest(ActiveAttempts(d, w.c))
                   IN /\ db' = d
                      /\ disk' = IF d = db THEN disk
                                 ELSE [disk EXCEPT ![w.c] = Append(@, {})]
                      /\ w' = [w EXCEPT !.pc = "stage1", !.a = a, !.p = 0, !.stage = 0,
                                        !.k = 0, !.ids = d.atts[w.c][a].ids]
    /\ UNCHANGED <<clip, prompts>> /\ Quiet

\* The inputs changed under an active attempt: its stage prompts are cancelled.
DiscardMismatched ==
    /\ At("discard")
    /\ LET ids == db.atts[w.c][w.a].ids
       IN /\ prompts' = CancelPrompts({ids[1], ids[2]})
          /\ IF UpdateRefused(db, w.c, w.a, "INVALIDATED", ids)
             THEN Escape /\ UNCHANGED db
             ELSE /\ db' = UpdateAttempt(db, w.c, w.a, "INVALIDATED", ids)
                  /\ w' = [w EXCEPT !.pc = "loop", !.a = 0]
    /\ UNCHANGED <<disk, clip>> /\ Quiet

\* update_chunk_attempt by the worker, then `next'; a refusal is a failed attempt.
Commit(state, ids, next) ==
    IF UpdateRefused(db, w.c, w.a, state, ids) THEN Fail("other") /\ UNCHANGED db
    ELSE /\ db' = UpdateAttempt(db, w.c, w.a, state, ids)
         /\ w' = [w EXCEPT !.pc = next, !.ids = ids]

RunGraph(s) == IF UpdateRefused(db, w.c, w.a, Graph[s].attempt, w.ids)
               THEN Fail("other") /\ UNCHANGED db
               ELSE /\ db' = UpdateAttempt(db, w.c, w.a, Graph[s].attempt, w.ids)
                    /\ w' = [w EXCEPT !.pc = "prompt", !.stage = s]

Stage1 == /\ At("stage1")
          /\ IF Loadable(w.c, w.a, {"stage1"}) THEN Go("stage1done") /\ UNCHANGED db
             ELSE RunGraph(1)
          /\ UNCHANGED <<disk, clip, prompts>> /\ Quiet

Stage1Done == /\ At("stage1done")
              /\ IF Loadable(w.c, w.a, {"stage1"})
                 THEN Commit("STAGE1_COMPLETE", w.ids, "stage2")
                 ELSE Fail("other") /\ UNCHANGED db
              /\ UNCHANGED <<disk, clip, prompts>> /\ Quiet

Stage2 == /\ At("stage2")
          /\ IF ~Loadable(w.c, w.a, {"stage2"}) THEN RunGraph(2)
             ELSE /\ Go(IF "window" \in Files(w.c, w.a) THEN "final" ELSE "reclaim")
                  /\ UNCHANGED db
          /\ UNCHANGED <<disk, clip, prompts>> /\ Quiet

\* download_output: the window is on disk, and valid when the output was.
Download(next, bad) ==
    /\ comfy
    /\ IF prompts[w.p].st = "done"
       THEN disk' = [disk EXCEPT ![w.c][w.a] = @ \cup {"window"}] /\ Go(next)
       ELSE UNCHANGED disk /\ bad
    /\ UNCHANGED env

LoseDownload == /\ \/ ~comfy /\ UNCHANGED env
                   \/ /\ comfy /\ "download" \in Faults /\ env.faults < MaxFaults
                      /\ env' = [env EXCEPT !.faults = @ + 1]
                /\ Fail("comfy") /\ UNCHANGED disk

Stage2Done == /\ At("stage2done")
              /\ Download("final", Go("final")) \/ LoseDownload
              /\ UNCHANGED <<db, clip, prompts, comfy, contract>>

\* Both latents are saved and the window is not: the original output, else a decode.
Reclaim ==
    /\ At("reclaim")
    /\ LET p == w.ids[2]
           known == comfy /\ p # 0
       IN /\ known => ~Live(p)
          /\ \/ /\ known /\ prompts[p].st = "done"
                /\ disk' = [disk EXCEPT ![w.c][w.a] = @ \cup {"window"}]
                /\ Go("final") /\ UNCHANGED db
             \/ /\ ~(known /\ prompts[p].st = "done")
                /\ RunGraph(3) /\ UNCHANGED disk
    /\ UNCHANGED <<clip, prompts>> /\ Quiet

DecodeDone == /\ At("decodedone")
              /\ Download("final", Fail("comfy")) \/ LoseDownload
              /\ UNCHANGED <<db, clip, prompts, comfy, contract>>

Finalize == /\ At("final")
            /\ IF Loadable(w.c, w.a, {"stage2"}) /\ "window" \in Files(w.c, w.a)
               THEN Commit("VALIDATING", w.ids, "complete")
               ELSE Fail("other") /\ UNCHANGED db
            /\ UNCHANGED <<disk, clip, prompts>> /\ Quiet

\* COMPLETE.json last, then the row.
Complete == /\ At("complete")
            /\ disk' = [disk EXCEPT ![w.c][w.a] = @ \cup {"complete"}]
            /\ Commit("COMPLETE", w.ids, "select")
            /\ UNCHANGED <<clip, prompts>> /\ Quiet

Select == /\ At("select")
          /\ IF SelectRefused(db, w.c, w.a) THEN Fail("other") /\ UNCHANGED db
             ELSE db' = SelectAttempt(db, w.c, w.a) /\ Take(w.a)
          /\ UNCHANGED <<disk, clip, prompts>> /\ Quiet

-----------------------------------------------------------------------------
(* _run_or_reclaim_prompt, and the ComfyUI client it calls. *)
Finished == <<"stage1done", "stage2done", "decodedone">>
Success(p) == prompts[p].st \in {"done", "bad"}

ReadHistory ==
    /\ At("prompt")
    /\ LET p == w.ids[w.stage]
       IN CASE ~WorkIsActive(db) -> Fail("comfy")
            [] WorkIsActive(db) /\ p = 0 -> Go("check")
            [] OTHER -> CASE ~comfy -> Fail("comfy")
                          [] comfy /\ prompts[p].st = "failed" -> Fail("comfy")
                          [] comfy /\ Success(p) ->
                               w' = [w EXCEPT !.pc = Finished[w.stage], !.p = p]
                          [] OTHER -> Go("queued")
    /\ OnlyWorker

InQueue_PendingOnly(p) == Live(p) /\ \E q \in 1 .. p - 1 : Live(q)
InQueue(p) == Live(p)

ReadQueue ==
    /\ At("queued")
    /\ CASE ~comfy -> Fail("comfy")
         [] comfy /\ InQueue(w.ids[w.stage]) ->
              w' = [w EXCEPT !.pc = "wait", !.p = w.ids[w.stage]]
         [] OTHER -> Go("check")
    /\ OnlyWorker

CheckBeforeQueue == /\ At("check")
                    /\ IF WorkIsActive(db) THEN Go("post") ELSE Fail("comfy")
                    /\ OnlyWorker

QueuePrompt ==
    /\ At("post")
    /\ LET sent == Append(prompts, [c |-> w.c, a |-> w.a, s |-> w.stage, st |-> "queued"])
       IN \/ /\ ~comfy /\ Fail("comfy")
             /\ UNCHANGED <<prompts, env>>
          \/ /\ comfy /\ prompts' = sent
             /\ w' = [w EXCEPT !.pc = "own", !.p = Len(sent)]
             /\ UNCHANGED env
          \* the connection is lost: the prompt may have been accepted
          \/ /\ comfy /\ "dispatch" \in Faults /\ env.faults < MaxFaults
             /\ prompts' = sent /\ Fail("comfy")
             /\ env' = [env EXCEPT !.faults = @ + 1, !.lost = TRUE]
    /\ UNCHANGED <<db, disk, clip, comfy, contract>>

Disown_Leaks(p) == UNCHANGED prompts
Disown(p) == prompts' = CancelPrompts({p})

\* The prompt id is persisted before the wait; failing that the prompt is cancelled.
OwnPrompt ==
    /\ At("own")
    /\ LET ids == [w.ids EXCEPT ![w.stage] = w.p]
       IN IF UpdateRefused(db, w.c, w.a, Graph[w.stage].attempt, ids)
          THEN /\ Disown(w.p)
               /\ Fail("other") /\ UNCHANGED db
          ELSE /\ db' = UpdateAttempt(db, w.c, w.a, Graph[w.stage].attempt, ids)
               /\ w' = [w EXCEPT !.pc = "wait", !.ids = ids]
               /\ UNCHANGED prompts
    /\ UNCHANGED <<disk, clip>> /\ Quiet

WaitPrompt ==
    /\ At("wait")
    /\ comfy => ~Live(w.p)
    /\ IF comfy /\ Success(w.p) /\ WorkIsActive(db) THEN Go(Finished[w.stage])
                                                    ELSE Fail("comfy")
    /\ OnlyWorker

\* A lost transport or download step of a persisted prompt, seen with ComfyUI alive.
MayReclaim_Unbounded(ids) == w.err = "comfy" /\ (ids[1] # 0 \/ ids[2] # 0)
MayReclaim(ids) == w.err = "comfy" /\ w.tries < MaxAttempts /\ (ids[1] # 0 \/ ids[2] # 0)

\* The except clause of _render_chunk.
HandleFailure ==
    /\ At("failed")
    /\ LET a == Len(db.atts[w.c])
           latest == db.atts[w.c][a]
           terminal == Cardinality(Budget(w.c, w.con, ExpectedUp)) >= MaxAttempts
           state == IF terminal THEN "FAILED_TERMINAL" ELSE "FAILED_RETRYABLE"
       IN IF \/ latest.state = "CANCELLED"
             \/ w.err = "comfy" /\ ~comfy
          THEN Raise /\ UNCHANGED db
          ELSE IF MayReclaim(latest.ids)
          THEN /\ w' = [w EXCEPT !.pc = "loop", !.err = "",
                               !.tries = IF @ < MaxAttempts THEN @ + 1 ELSE @]
               /\ UNCHANGED db
          ELSE /\ db' = IF UpdateRefused(db, w.c, a, state, latest.ids) THEN db
                        ELSE UpdateAttempt(db, w.c, a, state, latest.ids)
               /\ w' = [w EXCEPT !.pc = IF terminal THEN "raise" ELSE "loop", !.err = ""]
    /\ UNCHANGED <<disk, clip, prompts>> /\ Quiet

\* The supervisor: a dead ComfyUI is fatal and restarted, otherwise the scene failed.
StopScene == /\ At("raise")
             /\ w' = Idle("idle")
             /\ db' = IF comfy /\ db.scene = "PENDING"
                      THEN [db EXCEPT !.scene = "FAILED"] ELSE db
             /\ UNCHANGED <<disk, clip, prompts>> /\ Quiet

-----------------------------------------------------------------------------
(* Assembly of the accepted windows, and its manifest. *)
ClipValid_AnyAttempts == clip.file # <<>> /\ clip.file = clip.doc
ClipValid == clip.file # <<>> /\ clip.doc = w.taken /\ clip.file = clip.doc

Assemble ==
    /\ At("assemble")
    /\ CASE ~WorkIsActive(db) -> Raise /\ UNCHANGED clip
         [] WorkIsActive(db) /\ ClipValid -> Go("done") /\ UNCHANGED clip
         [] OTHER -> IF \A c \in Chunks : "window" \in Files(c, w.taken[c])
                     THEN clip' = [clip EXCEPT !.file = w.taken] /\ Go("manifest")
                     ELSE Raise /\ UNCHANGED clip
    /\ UNCHANGED <<db, disk, prompts>> /\ Quiet

WriteManifest ==
    /\ At("manifest")
    /\ IF WorkIsActive(db) THEN clip' = [clip EXCEPT !.doc = w.taken] /\ Go("done")
                           ELSE Raise /\ UNCHANGED clip
    /\ UNCHANGED <<db, disk, prompts>> /\ Quiet

SceneDone == /\ At("done")
             /\ IF WorkIsActive(db)
                THEN db' = [db EXCEPT !.scene = "SUCCEEDED"] /\ w' = Idle("idle")
                ELSE Raise /\ UNCHANGED db
             /\ UNCHANGED <<disk, clip, prompts>> /\ Quiet

Worker == \/ StartRender \/ PersistPlan \/ NextChunk \/ InvalidateAccepted
          \/ RecoverComplete \/ BeginOrResume \/ DiscardMismatched
          \/ Stage1 \/ Stage1Done \/ Stage2 \/ Stage2Done \/ Reclaim \/ DecodeDone
          \/ Finalize \/ Complete \/ Select
          \/ ReadHistory \/ ReadQueue \/ CheckBeforeQueue \/ QueuePrompt
          \/ OwnPrompt \/ WaitPrompt \/ HandleFailure \/ StopScene
          \/ Assemble \/ WriteManifest \/ SceneDone

-----------------------------------------------------------------------------
(* ComfyUI: one prompt at a time, in order. *)
Spend(kind) == /\ kind \in Faults /\ env.faults < MaxFaults
               /\ env' = [env EXCEPT !.faults = @ + 1]

SaveCheckpoints(c, a, kinds) == disk' = [disk EXCEPT ![c][a] = @ \cup kinds]

Finish(p, st) == prompts' = [prompts EXCEPT ![p].st = st]

RunPrompt ==
    /\ comfy
    /\ \E p \in DOMAIN prompts :
         /\ Live(p) /\ \A q \in 1 .. p - 1 : ~Live(q)
         /\ LET c == prompts[p].c
                a == prompts[p].a
                g == Graph[prompts[p].s]
            IN CASE prompts[p].st = "queued" /\ Loadable(c, a, g.reads) ->
                      \/ /\ SaveCheckpoints(c, a, g.saves)
                         /\ Finish(p, IF prompts[p].s = 1 THEN "done" ELSE "saved")
                         /\ UNCHANGED env
                      \/ Finish(p, "failed") /\ Spend("prompt") /\ UNCHANGED disk
                 [] prompts[p].st = "queued" /\ ~Loadable(c, a, g.reads) ->
                      Finish(p, "failed") /\ UNCHANGED <<disk, env>>
                 [] OTHER -> \/ Finish(p, "done") /\ UNCHANGED <<disk, env>>
                             \/ /\ Finish(p, "failed") \/ Finish(p, "bad")
                                /\ Spend("prompt") /\ UNCHANGED disk
    /\ UNCHANGED <<db, clip, comfy, contract, w>>

ComfyDies == /\ comfy /\ Spend("comfy")
             /\ comfy' = FALSE
             /\ prompts' = [p \in DOMAIN prompts |-> [prompts[p] EXCEPT !.st = "gone"]]
             /\ UNCHANGED <<db, disk, clip, contract, w>>

ComfyRestarts == /\ ~comfy /\ w.pc \in {"idle", "down"}
                 /\ comfy' = TRUE
                 /\ UNCHANGED <<db, disk, clip, prompts, contract, w, env>>

-----------------------------------------------------------------------------
(* The process, the operator and the disk. *)
Crash == /\ ~At("down") /\ "crash" \in Faults /\ env.faults < MaxFaults
         /\ w' = Idle("down")
         /\ env' = [faults |-> env.faults + 1, lost |-> env.lost \/ At("own"),
                    gui |-> IF env.gui = "cancel" THEN "died" ELSE env.gui]
         /\ UNCHANGED <<db, disk, clip, prompts, comfy, contract>>

Boot == /\ At("down") /\ w' = Idle("idle") /\ OnlyWorker

\* The launcher resumes a saved job before it starts the GUI.
Retry == /\ At("down") /\ db.scene \in {"PENDING", "FAILED"} /\ Spend("retry")
         /\ db' = RetryJob(db)
         /\ UNCHANGED <<disk, clip, prompts, comfy, contract, w>>

\* cancel_current_project on the HTTP thread: the tables first, then the queue.
Cancel == /\ "cancel" \in Faults /\ ~At("down") /\ db.scene = "PENDING"
          /\ db' = AbandonJob(db)
          /\ env' = [env EXCEPT !.gui = "cancel"]
          /\ UNCHANGED <<disk, clip, prompts, comfy, contract, w>>

CancelProjectPrompts == /\ env.gui = "cancel"
                        /\ prompts' = CancelPrompts(DOMAIN prompts)
                        /\ env' = [env EXCEPT !.gui = "idle"]
                        /\ UNCHANGED <<db, disk, clip, comfy, contract, w>>

Damage == /\ Spend("damage")
          /\ \/ /\ \E c \in Chunks : \E a \in DOMAIN disk[c] :
                     \E f \in Files(c, a) \ {"frame"} :
                       disk' = [disk EXCEPT ![c][a] = @ \ {f}]
                /\ UNCHANGED clip
             \/ /\ clip.file # <<>> /\ db.scene = "PENDING"
                /\ clip' = [clip EXCEPT !.file = <<>>]
                /\ UNCHANGED disk
          /\ UNCHANGED <<db, prompts, comfy, contract, w>>

\* New generation code is loaded with the process, new node contracts with ComfyUI.
Upgrade == /\ At("down") \/ ~comfy
           /\ Spend("upgrade")
           /\ contract' = contract + 1
           /\ UNCHANGED <<db, disk, clip, prompts, comfy, w>>

Init == /\ db = [scene |-> "PENDING", plan |-> FALSE,
                 chunks |-> [c \in Chunks |-> [state |-> "NONE", acc |-> 0]],
                 atts |-> [c \in Chunks |-> <<>>]]
        /\ disk = [c \in Chunks |-> <<>>]
        /\ clip = [file |-> <<>>, doc |-> <<>>]
        /\ prompts = <<>> /\ comfy = TRUE /\ contract = 1
        /\ w = Idle("idle")
        /\ env = [faults |-> 0, gui |-> "idle", lost |-> FALSE]

Next == \/ Worker \/ RunPrompt \/ ComfyDies \/ ComfyRestarts \/ Crash \/ Boot \/ Retry
        \/ Cancel \/ CancelProjectPrompts \/ Damage \/ Upgrade

Spec == Init /\ [][Next]_vars

\* The worker thread and the GUI handler are threads, ComfyUI serves its queue, and
\* the worker restarts a dead ComfyUI.  Nobody promises to start a crashed process.
FairSpec == Spec /\ WF_vars(Worker) /\ WF_vars(RunPrompt) /\ WF_vars(ComfyRestarts)
                 /\ WF_vars(CancelProjectPrompts)

-----------------------------------------------------------------------------
(* Properties *)

\* The types of the variables, and the lengths that must agree.
TypeOK ==
    /\ db.scene \in {"PENDING", "FAILED", "SUCCEEDED", "CANCELLED"}
    /\ \A c \in Chunks :
         /\ db.chunks[c].acc \in 0 .. Len(db.atts[c])
         /\ db.chunks[c].state \in {"NONE", "READY", "BLOCKED_UPSTREAM"}
                                   \cup Active \cup FinalStates
         /\ Len(disk[c]) = Len(db.atts[c])
         /\ \A a \in DOMAIN db.atts[c] :
              /\ db.atts[c][a].state \in Active \cup FinalStates
              /\ \A s \in 1 .. 3 : db.atts[c][a].ids[s] \in 0 .. Len(prompts)
              /\ Files(c, a) \subseteq Required \cup {"frame"}
    /\ w.c \in 1 .. NChunks + 1 /\ Len(w.taken) = w.c - 1
    /\ comfy \in BOOLEAN /\ env.faults \in 0 .. MaxFaults

\* Lineage: an accepted attempt is complete and was generated from the attempt that is
\* accepted below it, whatever was invalidated, recovered or retried meanwhile.
AcceptedChain ==
    \A c \in Chunks : db.chunks[c].acc # 0 =>
        /\ db.chunks[c].state = "COMPLETE"
        /\ db.atts[c][db.chunks[c].acc].state = "COMPLETE"
        /\ db.atts[c][db.chunks[c].acc].up = Upstream(db, c)
        /\ c > 1 => Upstream(db, c) # 0

\* At most one attempt of the scene is being executed, it belongs to the first chunk not
\* accepted, and it was begun from the predecessor that is accepted now.
OneActive ==
    \A c \in Chunks : \A a \in ActiveAttempts(db, c) :
        /\ ActiveAttempts(db, c) = {a}
        /\ db.chunks[c].acc = 0
        /\ db.atts[c][a].up = Upstream(db, c)
        /\ c > 1 => Upstream(db, c) # 0

\* No chunk gets more than max_attempts attempts with the same inputs, across crashes,
\* reclaims and invalidations; only an explicit retry opens a new budget.
BudgetKept ==
    \A c \in Chunks : \A con \in 1 .. contract : \A up \in 0 .. MaxFaults + MaxAttempts :
        Cardinality({a \in DOMAIN db.atts[c] : /\ db.atts[c][a].state \notin Voided
                                               /\ Matches(db, c, a, con, up)})
            <= MaxAttempts

\* The rows of a scene form one chain: well-typed, accepted bottom-up, extended at one place
\* at a time and within the budget.
ChainConsistent == TypeOK /\ AcceptedChain /\ OneActive /\ BudgetKept

\* The same graph of the same attempt is never in the ComfyUI queue twice, unless the
\* id of a prompt was lost: by a crash before its write or a connection lost in /prompt.
NoDuplicateWork ==
    env.lost \/ \A p, q \in DOMAIN prompts :
        /\ Live(p) /\ Live(q) /\ p # q
        => <<prompts[p].c, prompts[p].a, prompts[p].s>>
              # <<prompts[q].c, prompts[q].a, prompts[q].s>>

\* Once the renderer and the GUI handler are through with a cancelled project, no prompt
\* of it runs on: one queued around the cancellation is cancelled by whoever comes last.
CancelledQuiet ==
    (db.scene = "CANCELLED" /\ w.pc = "idle" /\ env.gui = "idle" /\ ~env.lost)
        => \A p \in DOMAIN prompts : ~Live(p)

\* Every prompt in ComfyUI is somebody's: sent once, and called back when its scene is cancelled.
PromptsAccounted == NoDuplicateWork /\ CancelledQuiet

\* A cancelled scene is frozen: no late result of the renderer reaches its chunk rows.
NoLateCommit == [][db.scene = "CANCELLED" => UNCHANGED db]_vars

\* An acceptance is withdrawn only for a cause: when the renderer looked, the artifact of that
\* chunk was damaged or had been generated under another contract, and what it then takes back
\* is that chunk and what was rendered on top of it.
Reason(c) == \/ ~(Required \subseteq Files(c, db.chunks[c].acc))
             \/ db.atts[c][db.chunks[c].acc].inputs # w.con
Withdrawn(c) == db.chunks[c].acc # 0 /\ db'.chunks[c].acc # db.chunks[c].acc
AcceptedStands ==
    [][env.lost \/ /\ At("chunk") /\ w'.pc = "invalidate" => Reason(w.c)
                   /\ \A c \in Chunks : Withdrawn(c) => At("invalidate") /\ w.c <= c]_vars

\* What is recorded stands: an acceptance is withdrawn for cause only, and a cancelled scene
\* does not change.
ResultsStand == AcceptedStands /\ NoLateCommit

\* The scene implements ChunkChain: it is published once, from the accepted chain as it
\* stands, and never from an assembly of earlier attempts.
Prefix == {n \in 0 .. NChunks : \A c \in 1 .. n : db.chunks[c].acc # 0}
Chain == INSTANCE ChunkChain
           WITH chain <- [c \in 1 .. Highest(Prefix) |-> db.chunks[c].acc],
                published <- IF db.scene = "SUCCEEDED" THEN clip.file ELSE <<>>
Publishes == Chain!ChainSpec

\* Rendering ends: the scene succeeds, fails or is cancelled, unless the process is down;
\* retries, reclaims and transport recoveries are all bounded.
RenderEnds == <>[](db.scene # "PENDING" \/ At("down"))
=============================================================================
