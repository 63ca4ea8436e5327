----------------------------- MODULE RemakeBatches -----------------------------
(***************************************************************************)
(* GUI remake batches and manual finals (gui_service.py) of one project,   *)
(* on the worker thread they share with the automatic pipeline, with the   *)
(* HTTP handlers that create and submit them running beside it.            *)
(*                                                                         *)
(* Item <<b, i>> is position i of batch b; it remakes a scene as a new     *)
(* revision, with a new image (both) or video only.  Frames and clips are  *)
(* known by the prompt that rendered them, 0 when there is no valid file;  *)
(* every scene has an original clip and frame, number Original.  The       *)
(* chunks of a continuation render and the marker of a Discord delivery    *)
(* have modules of their own.                                              *)
(***************************************************************************)
EXTENDS Integers, Sequences, FiniteSets

CONSTANTS Remakes,    \* the batches and their items: [scene, both], see Items
          MaxFinals,  \* bound: requests for a manual final
          MaxJobs,    \* bound: automatic jobs that arrive
          MaxFaults,  \* bound: faults of every kind in one behaviour
          Faults      \* the kinds of fault considered

ASSUME RemakeAssumption == /\ Remakes \in Seq(Seq([scene : Nat, both : BOOLEAN]))
                           /\ MaxFinals \in Nat /\ MaxJobs \in Nat /\ MaxFaults \in Nat

Batches == DOMAIN Remakes
Items == UNION {{b} \X DOMAIN Remakes[b] : b \in Batches}
Scene(y) == Remakes[y[1]][y[2]].scene
Both(y) == Remakes[y[1]][y[2]].both
Scenes == {Scene(y) : y \in Items}
Original == -1

VARIABLES batch,    \* remake_batches: state and collision policy
          item,     \* remake_items: state, prompt id and stage
          rev,      \* scene_revisions above 1: state, number, continuation plan
          disk,     \* frame, clip and generation manifest of each revision
          final,    \* manual_final_requests, oldest first
          pipe,     \* the automatic pipeline: "free", "active" or "error"
          prompts,  \* every prompt ever sent to ComfyUI, in order
          comfy,    \* whether the ComfyUI process runs
          posted,   \* posts on Discord: <<item, clip>>
          route,    \* the launcher's continuation setting of this process
          gui,      \* the HTTP handler inside queue_batch
          w,        \* the worker thread
          env       \* faults spent, jobs arrived, whether a prompt id was lost, whether a
                    \* prompt finished unseen between two looks for it, and whether a fatal
                    \* error was left without a recovery of the batches

vars == <<batch, item, rev, disk, final, pipe, prompts, comfy, posted, route, gui, w, env>>
store == <<batch, item, rev, final, pipe>>

-----------------------------------------------------------------------------
(* The worker's local state and its ComfyUI client. *)
Idle(pc) == [pc |-> pc, phase |-> "none", b |-> 0, i |-> 0, rows |-> <<>>, prep |-> {},
             route |-> <<>>, gen |-> {}, stage |-> "none", p |-> 0, again |-> FALSE]
At(pc) == w.pc = pc
Go(pc) == w' = [w EXCEPT !.pc = pc]
it == <<w.b, w.i>>                             \* the item in hand
Size == Len(Remakes[w.b])
Live(p) == prompts[p].st = "queued"
First(p) == Live(p) /\ \A q \in 1 .. p - 1 : ~Live(q)      \* the prompt that runs
\* A pending prompt is deleted, the running one is interrupted and stays in the history.
Cancelled == [p \in DOMAIN prompts |->
                CASE First(p) -> [prompts[p] EXCEPT !.st = "failed"]
                  [] Live(p) /\ ~First(p) -> [prompts[p] EXCEPT !.st = "gone"]
                  [] OTHER -> prompts[p]]
Spend(kind) == /\ kind \in Faults /\ env.faults < MaxFaults
               /\ env' = [env EXCEPT !.faults = @ + 1]

\* The except clauses around an item: a dead ComfyUI is fatal, the rest fails the item.
Transport == IF comfy THEN Go("mark") ELSE Go("fatal")
Settled == {"succeeded", "failed"}

-----------------------------------------------------------------------------
(* The HTTP handlers. *)
Number_PerBatch(z) == 2 + Cardinality({y \in Items : /\ Scene(y) = Scene(z)
                                                     /\ rev[y].state # "none"})
Number(z) == 2 + Cardinality({y \in Items : /\ Scene(y) = Scene(z)
                                            /\ \/ rev[y].state # "none"
                                               \/ y[1] = z[1] /\ y[2] < z[2]})

\* One transaction: the batch is a draft, its revisions exist already.
CreateRemakeBatch(b) ==
    /\ batch[b].state = "none" /\ \A c \in 1 .. b - 1 : batch[c].state # "none"
    /\ batch' = [batch EXCEPT ![b] = [state |-> "draft", policy |-> "none"]]
    /\ rev' = [y \in Items |->
                 IF y[1] # b THEN rev[y]
                 ELSE [state |-> "pending", number |-> Number(y), plan |-> FALSE]]
    /\ disk' = [y \in Items |-> IF y[1] # b \/ Both(y) THEN disk[y]
                               ELSE [disk[y] EXCEPT !.frame = Original]]
    /\ item' = [y \in Items |->
                  IF y[1] # b THEN item[y]
                  ELSE [state |-> "pending", prompt |-> 0, stage |-> "none"]]
    /\ UNCHANGED <<final, pipe, prompts, comfy, posted, route, gui, w, env>>

\* queue_batch: active_render is read first; interrupt_current_job reads it again.
SubmitBatch(b, policy) ==
    /\ gui.pc = "idle" /\ batch[b].state = "draft"
    /\ gui' = [pc |-> IF policy = "interrupt" /\ pipe = "active" THEN "abandon"
                                                                 ELSE "queue",
               b |-> b, policy |-> policy]
    /\ UNCHANGED <<store, disk, prompts, comfy, posted, route, w, env>>

AbandonCurrent == /\ gui.pc = "abandon"
                  /\ pipe' = IF pipe = "active" THEN "free" ELSE pipe
                  /\ gui' = [gui EXCEPT !.pc = IF pipe = "active" THEN "cancel" ELSE "queue"]
                  /\ UNCHANGED <<batch, item, rev, disk, final, prompts, comfy, posted,
                                 route, w, env>>

\* A ComfyUI that does not answer ends the request: the job is gone, the batch a draft.
CancelProjectPrompts == /\ gui.pc = "cancel"
                        /\ prompts' = IF comfy THEN Cancelled ELSE prompts
                        /\ gui' = [gui EXCEPT !.pc = IF comfy THEN "queue" ELSE "idle"]
                        /\ UNCHANGED <<store, disk, comfy, posted, route, w, env>>

QueueRemakeBatch ==
    /\ gui.pc = "queue"
    /\ batch' = IF batch[gui.b].state = "draft"
                THEN [batch EXCEPT ![gui.b] = [state |-> "queued", policy |-> gui.policy]]
                ELSE batch
    /\ gui' = [gui EXCEPT !.pc = "idle"]
    /\ UNCHANGED <<item, rev, disk, final, pipe, prompts, comfy, posted, route, w, env>>

\* _manual_final_selection: the newest succeeded revision of every scene.
Succeeded(i) == {y \in Items : Scene(y) = i /\ rev[y].state = "succeeded"}
Newest(S) == CHOOSE y \in S : \A z \in S : rev[z].number <= rev[y].number
Selected_Newest(i) ==
    LET S == {y \in Items : Scene(y) = i /\ rev[y].state # "none" /\ disk[y].clip # 0}
    IN IF S = {} THEN [of |-> <<0, i>>, clip |-> Original]
       ELSE [of |-> Newest(S), clip |-> disk[Newest(S)].clip]
Selected(i) == IF Succeeded(i) = {} THEN [of |-> <<0, i>>, clip |-> Original]
               ELSE [of |-> Newest(Succeeded(i)), clip |-> disk[Newest(Succeeded(i))].clip]

Pending(f) == f.state \in {"queued", "running"}
QueueManualFinal ==
    /\ Len(final) < MaxFinals
    /\ \A k \in DOMAIN final : ~Pending(final[k])     \* else the pending one is returned
    /\ \A i \in Scenes : Selected(i).clip # 0
    /\ final' = Append(final, [state |-> "queued", out |-> <<>>,
                               sel |-> [i \in Scenes |-> Selected(i)]])
    /\ UNCHANGED <<batch, item, rev, pipe, disk, prompts, comfy, posted, route, gui, w, env>>

Http == \/ \E b \in Batches : \/ CreateRemakeBatch(b)
                              \/ \E policy \in {"after", "interrupt"} : SubmitBatch(b, policy)
        \/ AbandonCurrent \/ CancelProjectPrompts \/ QueueRemakeBatch \/ QueueManualFinal

-----------------------------------------------------------------------------
(* The worker's loop: manual finals, then batches, then the automatic pipeline. *)
QueuedFinals == {k \in DOMAIN final : final[k].state = "queued"}
QueuedBatches == {b \in Batches : batch[b].state = "queued"}
Least(S) == CHOOSE n \in S : \A m \in S : n <= m
BatchCanRun(b) == pipe # "active" \/ batch[b].policy = "interrupt"
FinalCanRun == QueuedFinals # {} /\ pipe # "active"
Rest == UNCHANGED <<posted, route, gui>>

StartFinal == /\ At("idle") /\ FinalCanRun
              /\ final' = [final EXCEPT ![Least(QueuedFinals)].state = "running"]
              /\ w' = [w EXCEPT !.pc = "stitch", !.i = Least(QueuedFinals)]
              /\ UNCHANGED <<batch, item, rev, pipe, disk, prompts, comfy, env>> /\ Rest

ClipOf(s) == IF s.of[1] = 0 THEN Original ELSE disk[s.of].clip

\* The clips are read and checked against the snapshot while they are stitched.
Stitch == /\ At("stitch")
          /\ LET sel == final[w.i].sel
                 out == [i \in Scenes |-> ClipOf(sel[i])]
             IN final' = IF \E i \in Scenes : out[i] = 0
                         THEN [final EXCEPT ![w.i].state = "failed"]
                         ELSE [final EXCEPT ![w.i].state = "succeeded", ![w.i].out = out]
          /\ w' = Idle("idle")
          /\ UNCHANGED <<batch, item, rev, pipe, disk, prompts, comfy, env>> /\ Rest

\* The rows are read once, when the batch starts.
StartBatch ==
    /\ At("idle") /\ ~FinalCanRun /\ QueuedBatches # {}
    /\ LET b == Least(QueuedBatches)
       IN /\ BatchCanRun(b)
          /\ batch' = [batch EXCEPT ![b].state = "running"]
          /\ w' = [w EXCEPT !.pc = "next", !.phase = "prepare", !.b = b, !.i = 1,
                            !.rows = [i \in DOMAIN Remakes[b] |-> item[<<b, i>>]],
                            !.route = [i \in DOMAIN Remakes[b] |-> "none"]]
    /\ UNCHANGED <<item, rev, final, pipe, disk, prompts, comfy, env>> /\ Rest

\* supervisor.tick renders a whole automatic job, or finds a new one in the mailbox.
Tick == /\ At("idle") /\ ~FinalCanRun
        /\ \A b \in QueuedBatches : b = Least(QueuedBatches) => ~BatchCanRun(b)
        /\ \/ pipe = "active" /\ UNCHANGED <<pipe, env>>
           \/ /\ pipe = "free" /\ env.jobs < MaxJobs
              /\ pipe' = "active" /\ env' = [env EXCEPT !.jobs = @ + 1]
        /\ Go("job")
        /\ UNCHANGED <<batch, item, rev, final, disk, prompts, comfy>> /\ Rest

JobEnds == /\ At("job")
           /\ pipe' = IF pipe = "active" THEN "free" ELSE pipe
           /\ w' = Idle("idle")
           /\ UNCHANGED <<batch, item, rev, final, disk, prompts, comfy, env>> /\ Rest

-----------------------------------------------------------------------------
(* _run_remake_batch: every phase visits the items that are due in it, in order. *)
NextPhase_VideosFirst == [prepare |-> "videos", videos |-> "frames", frames |-> "deliver"]
NextPhase == [prepare |-> "frames", frames |-> "videos", videos |-> "deliver"]
Work(phase) == [prepare |-> "prepare", frames |-> "frame", videos |-> "video",
                  deliver |-> "deliver"][phase]

Due(i) == CASE w.phase = "prepare" -> w.rows[i].state \notin Settled
            [] w.phase = "frames" -> i \in w.prep /\ Both(<<w.b, i>>)
            [] w.phase = "videos" -> i \in w.prep /\ item[<<w.b, i>>].state # "failed"
            [] w.phase = "deliver" -> i \in w.gen

NextItem ==
    /\ At("next")
    /\ LET due == {i \in w.i .. Size : Due(i)}
       IN IF due # {}
          THEN /\ w' = [w EXCEPT !.i = Least(due), !.pc = Work(w.phase)]
               /\ item' = IF w.phase = "prepare"
                          THEN [item EXCEPT ![<<w.b, Least(due)>>].state = "running"]
                          ELSE item
          ELSE /\ w' = IF w.phase = "deliver" THEN [w EXCEPT !.pc = "verdict"]
                       ELSE [w EXCEPT !.phase = NextPhase[w.phase], !.i = 1]
               /\ UNCHANGED item
    /\ UNCHANGED <<batch, rev, final, pipe, disk, prompts, comfy, env>> /\ Rest

Skip == [w EXCEPT !.pc = "next", !.i = @ + 1, !.stage = "none", !.p = 0, !.again = FALSE]
Skipped == w' = Skip

\* The raw clip of an interrupted run counts only with everything it was bound to.
CheckpointValid_AnyFrame(y, r) ==
    LET m == disk[y].manifest
    IN m.status = "video_generated" /\ m.route = r /\ m.clip = disk[y].clip /\ m.clip # 0
CheckpointValid(y, r) ==
    LET m == disk[y].manifest
    IN /\ m.status = "video_generated" /\ m.route = r
       /\ m.clip = disk[y].clip /\ m.clip # 0
       /\ m.frame = disk[y].frame /\ m.frame # 0

\* The route of a started remake is kept whatever the setting says now.
UsesRoute_NoPlan(y, row) == IF row.stage \in {"legacy", "continuation"} THEN row.stage
                            ELSE route
UsesRoute(y, row) == CASE row.stage \in {"legacy", "continuation"} -> row.stage
                       [] OTHER -> IF rev[y].plan THEN "continuation" ELSE route

Prepare ==
    /\ At("prepare")
    /\ LET r == UsesRoute(it, w.rows[w.i])
       IN \/ /\ ~Both(it) /\ disk[it].frame = 0
             /\ Go("mark") /\ UNCHANGED <<rev, disk, env>>
          \/ /\ ~CheckpointValid(it, r)
             /\ Go("mark") /\ Spend("asset") /\ UNCHANGED <<rev, disk>>
          \/ /\ Both(it) \/ disk[it].frame # 0
             /\ rev' = [rev EXCEPT ![it].state = "running"]
             /\ disk' = IF CheckpointValid(it, r) THEN disk
                        ELSE [disk EXCEPT ![it].manifest =
                                [status |-> "running", route |-> r, frame |-> 0, clip |-> 0]]
             /\ w' = [Skip EXCEPT !.prep = @ \cup {w.i}, !.route[w.i] = r]
             /\ UNCHANGED env
    /\ UNCHANGED <<batch, item, final, pipe, prompts, comfy>> /\ Rest

\* _mark_remake_failure: the item, then its revision and manifest.
MarkItem == /\ At("mark")
            /\ item' = [item EXCEPT ![it].state = "failed"]
            /\ Go("markrev")
            /\ UNCHANGED <<batch, rev, final, pipe, disk, prompts, comfy, env>> /\ Rest

MarkRevision == /\ At("markrev")
                /\ rev' = [rev EXCEPT ![it].state = "failed"]
                /\ disk' = IF w.i \in w.prep
                           THEN [disk EXCEPT ![it].manifest.status = "failed"] ELSE disk
                /\ Skipped
                /\ UNCHANGED <<batch, item, final, pipe, prompts, comfy, env>> /\ Rest

\* _run_remake_t2i; a frame of an earlier run ends the ownership of its prompt.
Frame ==
    /\ At("frame")
    /\ LET mine == w.rows[w.i].stage = "t2i"
       IN IF disk[it].frame # 0
          THEN /\ item' = IF item[it].stage = "t2i" /\ mine
                          THEN [item EXCEPT ![it].prompt = 0, ![it].stage = "none"] ELSE item
               /\ Skipped
          ELSE /\ w' = [w EXCEPT !.pc = "history", !.stage = "t2i",
                                 !.p = IF mine THEN w.rows[w.i].prompt ELSE 0]
               /\ UNCHANGED item
    /\ UNCHANGED <<batch, rev, final, pipe, disk, prompts, comfy, env>> /\ Rest

\* _run_remake_i2v reads its row again; a continuation persists its plan first.
Video ==
    /\ At("video")
    /\ LET r == w.route[w.i]
       IN IF disk[it].manifest.status = "video_generated"      \* found valid in Prepare
          THEN w' = [Skip EXCEPT !.gen = @ \cup {w.i}] /\ UNCHANGED rev
          ELSE /\ w' = [w EXCEPT !.pc = "history", !.stage = r,
                                 !.p = IF item[it].stage = r THEN item[it].prompt ELSE 0]
               /\ rev' = IF r = "continuation" THEN [rev EXCEPT ![it].plan = TRUE] ELSE rev
    /\ UNCHANGED <<batch, item, final, pipe, disk, prompts, comfy, env>> /\ Rest

-----------------------------------------------------------------------------
(* run_or_reclaim_prompt *)
ReadHistory ==
    /\ At("history")
    /\ CASE w.p = 0 -> Go("post")
         [] w.p # 0 /\ ~comfy -> Transport
         [] OTHER -> CASE prompts[w.p].st = "done" -> Go("got")
                       [] prompts[w.p].st = "failed" -> Transport
                       [] OTHER -> Go("queue")
    /\ UNCHANGED <<store, disk, prompts, comfy, env>> /\ Rest

InQueue_PendingOnly(p) == Live(p) /\ ~First(p)
InQueue(p) == Live(p)

ReadQueue == /\ At("queue")
             /\ CASE ~comfy -> Transport /\ UNCHANGED env
                  [] comfy /\ InQueue(w.p) -> Go("wait") /\ UNCHANGED env
                  [] OTHER -> /\ Go("post")
                              /\ env' = [env EXCEPT !.unseen = @ \/ prompts[w.p].st = "done"]
             /\ UNCHANGED <<store, disk, prompts, comfy>> /\ Rest

QueuePrompt ==
    /\ At("post")
    /\ LET sent == Append(prompts, [of |-> it, stage |-> w.stage, st |-> "queued"])
       IN \/ ~comfy /\ Transport /\ UNCHANGED <<prompts, env>>
          \/ /\ comfy /\ prompts' = sent
             /\ w' = [w EXCEPT !.pc = "own", !.p = Len(sent)]
             /\ UNCHANGED env
          \/ /\ comfy /\ "dispatch" \in Faults /\ env.faults < MaxFaults
             /\ prompts' = sent /\ Transport
             /\ env' = [env EXCEPT !.faults = @ + 1, !.lost = TRUE]
    /\ UNCHANGED <<store, disk, comfy>> /\ Rest

OwnPrompt == /\ At("own")
             /\ item' = [item EXCEPT ![it].prompt = w.p, ![it].stage = w.stage]
             /\ Go("wait")
             /\ UNCHANGED <<batch, rev, final, pipe, disk, prompts, comfy, env>> /\ Rest

WaitPrompt == /\ At("wait")
              /\ comfy => ~Live(w.p)
              /\ IF comfy /\ prompts[w.p].st = "done" THEN Go("got") ELSE Transport
              /\ UNCHANGED <<store, disk, prompts, comfy, env>> /\ Rest

\* The frame was saved by its graph; a clip is downloaded and then bound.
Got ==
    /\ At("got")
    /\ IF w.stage = "t2i"
       THEN /\ item' = [item EXCEPT ![it].prompt = 0, ![it].stage = "none"]
            /\ IF disk[it].frame # 0 THEN Skipped ELSE Go("mark")
            /\ UNCHANGED disk
       ELSE /\ IF comfy THEN Go("bind") ELSE Transport
            /\ disk' = IF comfy THEN [disk EXCEPT ![it].clip = w.p] ELSE disk
            /\ UNCHANGED item
    /\ UNCHANGED <<batch, rev, final, pipe, prompts, comfy, env>> /\ Rest

Bind == /\ At("bind")
        /\ disk' = [disk EXCEPT ![it].manifest =
                       [status |-> "video_generated", route |-> w.stage,
                        frame |-> disk[it].frame, clip |-> disk[it].clip]]
        /\ w' = [Skip EXCEPT !.gen = @ \cup {w.i}]
        /\ UNCHANGED <<store, prompts, comfy, env>> /\ Rest

-----------------------------------------------------------------------------
(* _complete_remake_i2v.  The delivery is seen from outside, as QcFinalization shows   *)
(* it: it records its intent, posts the clip or not, and remembers what it knows.      *)
Marker(y, st) == disk' = [disk EXCEPT ![y].marker = [st |-> st, clip |-> disk[y].clip]]
Settles_Resend(m, clip) == m.clip = clip /\ m.st = "sent"
Settles(m, clip) == m.clip = clip /\ m.st \in {"sent", "dispatching", "ambiguous"}

Deliver ==
    /\ At("deliver")
    /\ LET m == disk[it].marker
       IN CASE disk[it].clip = 0 -> Go("mark") /\ UNCHANGED disk
            [] disk[it].clip # 0 /\ Settles(m, disk[it].clip) ->
                 /\ Marker(it, IF m.st = "dispatching" THEN "ambiguous" ELSE m.st)
                 /\ Go("expose")
            [] OTHER -> Marker(it, "dispatching") /\ Go("send")
    /\ UNCHANGED <<store, prompts, comfy, env>> /\ Rest

Send == /\ At("send")
        /\ \/ comfy /\ posted' = Append(posted, <<it, disk[it].clip>>) /\ Go("sent")
           \/ UNCHANGED posted /\ Go("unsent")
        /\ UNCHANGED <<store, disk, prompts, comfy, route, gui, env>>

\* A delivery known to have failed is tried once more.
Answer == /\ w.pc \in {"sent", "unsent"}
          /\ \E st \in IF At("sent") THEN {"sent", "ambiguous"} ELSE {"ambiguous", "failed"} :
               /\ Marker(it, st)
               /\ IF st = "failed" /\ ~w.again
                  THEN w' = [w EXCEPT !.pc = "deliver", !.again = TRUE] ELSE Go("expose")
          /\ UNCHANGED <<store, prompts, comfy, env>> /\ Rest

\* With or without the post: the revision, its manifest, then the item.
ExposeRevision == /\ At("expose")
                  /\ rev' = [rev EXCEPT ![it].state = "succeeded"]
                  /\ disk' = [disk EXCEPT ![it].manifest.status = "succeeded"]
                  /\ Go("settle")
                  /\ UNCHANGED <<batch, item, final, pipe, prompts, comfy, env>> /\ Rest

SettleItem == /\ At("settle")
              /\ item' = [item EXCEPT ![it] = [state |-> "succeeded", prompt |-> 0,
                                               stage |-> "none"]]
              /\ Skipped
              /\ UNCHANGED <<batch, rev, final, pipe, disk, prompts, comfy, env>> /\ Rest

Verdict_AnySuccess(b) == IF \E i \in DOMAIN Remakes[b] : item[<<b, i>>].state = "succeeded"
                         THEN "succeeded" ELSE "failed"
Verdict(b) == LET good == {i \in DOMAIN Remakes[b] : item[<<b, i>>].state = "succeeded"}
              IN CASE good = DOMAIN Remakes[b] -> "succeeded"
                   [] good = {} -> "failed"
                   [] OTHER -> "partial"

EndBatch == /\ At("verdict")
            /\ batch' = [batch EXCEPT ![w.b].state = Verdict(w.b)]
            /\ w' = Idle("idle")
            /\ UNCHANGED <<item, rev, final, pipe, disk, prompts, comfy, env>> /\ Rest

-----------------------------------------------------------------------------
(* Recovery: after a fatal error that restarted ComfyUI, and at the start of the GUI. *)
Mine(y) == batch[y[1]].state = "running" /\ item[y].state = "running"
Recovered_All == /\ item' = [y \in Items |-> IF Mine(y) THEN [item[y] EXCEPT !.state = "pending"]
                                           ELSE item[y]]
                 /\ rev' = [y \in Items |-> IF Mine(y) THEN [rev[y] EXCEPT !.state = "pending"]
                                          ELSE rev[y]]
                 /\ batch' = [b \in Batches |-> IF batch[b].state = "running"
                                THEN [batch[b] EXCEPT !.state = "queued"] ELSE batch[b]]
Recovered_KeepsBatch ==
    /\ item' = [y \in Items |-> IF Mine(y) THEN [item[y] EXCEPT !.state = "pending"]
                               ELSE item[y]]
    /\ rev' = [y \in Items |-> IF Mine(y) /\ rev[y].state = "running"
                              THEN [rev[y] EXCEPT !.state = "pending"] ELSE rev[y]]
    /\ UNCHANGED batch
Recovered ==
    /\ item' = [y \in Items |->
         CASE Mine(y) /\ rev[y].state = "succeeded" ->
                [state |-> "succeeded", prompt |-> 0, stage |-> "none"]
           [] Mine(y) /\ rev[y].state # "succeeded" -> [item[y] EXCEPT !.state = "pending"]
           [] OTHER -> item[y]]
    /\ rev' = [y \in Items |->
         IF /\ rev[y].state = "running" /\ batch[y[1]].state = "running"
            /\ item[y].state \in {"running", "pending"}
         THEN [rev[y] EXCEPT !.state = "pending"] ELSE rev[y]]
    /\ batch' = [b \in Batches |-> IF batch[b].state = "running"
                                   THEN [batch[b] EXCEPT !.state = "queued"] ELSE batch[b]]

\* handle_fatal: the automatic pipeline gets its state back only if ComfyUI restarts.
HandleFatal == /\ At("fatal")
               /\ \/ comfy' = TRUE /\ Go("recover") /\ UNCHANGED <<pipe, env>>
                  \/ /\ "restart" \in Faults /\ env.faults < MaxFaults
                     /\ env' = [env EXCEPT !.faults = @ + 1, !.stuck = TRUE]
                     /\ pipe' = "error" /\ w' = Idle("idle") /\ UNCHANGED comfy
               /\ UNCHANGED <<batch, item, rev, final, disk, prompts>> /\ Rest

RecoverBatches == /\ At("recover") /\ w' = Idle("idle")
                  /\ IF comfy THEN Recovered /\ UNCHANGED env
                     ELSE /\ UNCHANGED <<batch, item, rev>>
                          /\ env' = [env EXCEPT !.stuck = TRUE]
                  /\ UNCHANGED <<final, pipe, disk, prompts, comfy>> /\ Rest

Worker == \/ StartFinal \/ Stitch \/ StartBatch \/ Tick \/ JobEnds
          \/ NextItem \/ Prepare \/ MarkItem \/ MarkRevision \/ Frame \/ Video
          \/ ReadHistory \/ ReadQueue \/ QueuePrompt \/ OwnPrompt \/ WaitPrompt
          \/ Got \/ Bind \/ Deliver \/ Send \/ Answer \/ ExposeRevision \/ SettleItem
          \/ EndBatch \/ HandleFatal \/ RecoverBatches

-----------------------------------------------------------------------------
(* ComfyUI, the process and the disk. *)
Finish(p, st) == prompts' = [prompts EXCEPT ![p].st = st]

RunPrompt ==
    /\ comfy
    /\ \E p \in DOMAIN prompts :
         /\ First(p)
         /\ \/ /\ Finish(p, "done")
               /\ disk' = IF prompts[p].stage = "t2i"
                          THEN [disk EXCEPT ![prompts[p].of].frame = p] ELSE disk
               /\ UNCHANGED env
            \/ Finish(p, "failed") /\ Spend("prompt") /\ UNCHANGED disk
    /\ UNCHANGED <<store, comfy, posted, route, gui, w>>

ComfyDies == /\ comfy /\ Spend("comfy")
             /\ comfy' = FALSE
             /\ prompts' = [p \in DOMAIN prompts |-> [prompts[p] EXCEPT !.st = "gone"]]
             /\ UNCHANGED <<store, disk, posted, route, gui, w>>

Crash == /\ ~At("down") /\ "crash" \in Faults /\ env.faults < MaxFaults
         /\ env' = [env EXCEPT !.faults = @ + 1, !.lost = @ \/ At("own")]
         /\ w' = Idle("down") /\ gui' = [gui EXCEPT !.pc = "idle"]
         /\ UNCHANGED <<store, disk, prompts, comfy, posted, route>>

\* The launcher makes sure that ComfyUI runs; the setting may have been edited.
Boot == /\ At("down") /\ w' = Idle("idle")
        /\ Recovered
        /\ comfy' = TRUE
        /\ route' \in IF "setting" \in Faults THEN {"legacy", "continuation"} ELSE {route}
        /\ UNCHANGED <<final, pipe, disk, prompts, posted, gui, env>>

\* A file is damaged while nobody works on it.
Damage == /\ w.pc \in {"down", "idle"} /\ Spend("damage")
          /\ \E y \in Items : \/ /\ disk[y].frame # 0
                                 /\ disk' = [disk EXCEPT ![y].frame = 0]
                              \/ /\ disk[y].clip # 0
                                 /\ disk' = [disk EXCEPT ![y].clip = 0]
          /\ UNCHANGED <<store, prompts, comfy, posted, route, gui, w>>

NoManifest == [status |-> "none", route |-> "none", frame |-> 0, clip |-> 0]
Init == /\ batch = [b \in Batches |-> [state |-> "none", policy |-> "none"]]
        /\ item = [y \in Items |-> [state |-> "none", prompt |-> 0, stage |-> "none"]]
        /\ rev = [y \in Items |-> [state |-> "none", number |-> 0, plan |-> FALSE]]
        /\ disk = [y \in Items |-> [frame |-> 0, clip |-> 0, manifest |-> NoManifest,
                                    marker |-> [st |-> "none", clip |-> 0]]]
        /\ final = <<>> /\ pipe = "free" /\ prompts = <<>> /\ comfy = TRUE
        /\ posted = <<>> /\ route = "continuation"
        /\ gui = [pc |-> "idle", b |-> 0, policy |-> "none"]
        /\ w = Idle("idle")
        /\ env = [faults |-> 0, jobs |-> 0, lost |-> FALSE, unseen |-> FALSE,
                   stuck |-> FALSE]

Next == Http \/ Worker \/ RunPrompt \/ ComfyDies \/ Crash \/ Boot \/ Damage

Spec == Init /\ [][Next]_vars

\* The worker and a started handler are threads of a running process, and ComfyUI
\* serves its queue; nobody promises to submit a batch or to start a crashed process.
FairSpec == /\ Spec /\ WF_vars(Worker) /\ WF_vars(RunPrompt)
            /\ WF_vars(AbandonCurrent \/ CancelProjectPrompts \/ QueueRemakeBatch)

-----------------------------------------------------------------------------
(* Properties *)

\* The types of the variables, and what names what.
TypeOK ==
    /\ \A b \in Batches : batch[b].state \in {"none", "draft", "queued", "running",
                                              "succeeded", "partial", "failed"}
    /\ \A y \in Items :
         /\ item[y].state \in {"none", "pending", "running"} \cup Settled
         /\ rev[y].state \in {"none", "pending", "running"} \cup Settled
         /\ item[y].prompt \in 0 .. Len(prompts)
         /\ item[y].prompt # 0 => prompts[item[y].prompt].of = y
         /\ disk[y].clip \in 0 .. Len(prompts)
         /\ disk[y].frame \in Original .. Len(prompts)
         /\ rev[y].state # "none" => \A z \in Items \ {y} :
              Scene(z) = Scene(y) => rev[z].number # rev[y].number
    /\ pipe \in {"free", "active", "error"} /\ comfy \in BOOLEAN
    /\ w.gen \subseteq w.prep
    /\ env.faults \in 0 .. MaxFaults

\* All frames before any video: when an image-to-video prompt is queued, every image remake
\* of the batch that was prepared and has not failed has its frame.
FramesFirst ==
    [][\A p \in DOMAIN prompts' \ DOMAIN prompts :
         prompts'[p].stage # "t2i" =>
            \A i \in w.prep : \/ item[<<w.b, i>>].state = "failed"
                              \/ disk[<<w.b, i>>].frame # 0]_vars

\* Diffusion is not repeated: no video prompt is queued for a revision whose clip is bound
\* by a manifest that still verifies, nor any prompt while another one of the same revision
\* and stage is in the queue, unless the id of a prompt was lost, or one finished between
\* the look at the history and the look at the queue.
DiffusionOnce ==
    [][\A p \in DOMAIN prompts' \ DOMAIN prompts :
         LET y == prompts'[p].of
         IN /\ prompts'[p].stage # "t2i" => ~CheckpointValid(y, disk[y].manifest.route)
            /\ \/ env.lost \/ env.unseen
               \/ \A q \in DOMAIN prompts :
                    ~(Live(q) /\ prompts[q].of = y /\ prompts[q].stage = prompts'[p].stage)]_vars

\* A clip is rendered from the frame it is bound to: a checkpoint that lost its frame to
\* damage, and got another one, is not completed with the old clip.  A frame whose prompt
\* id was lost may still come after the clip.
ClipOfItsFrame ==
    \A y \in Items : rev[y].state = "succeeded" /\ Both(y) /\ disk[y].frame # 0
                     /\ disk[y].clip # 0
        => env.lost \/ disk[y].manifest.frame = disk[y].frame

\* No clip of a revision is posted twice, over crashes between the post and its record.
PostedOnce == \A j, k \in DOMAIN posted : posted[j] = posted[k] => j = k

\* A remake keeps its route although the setting may change between restarts: after a
\* continuation prompt of a revision no legacy prompt of it is sent, even when the id of
\* the prompt was lost, since the plan is durable; the other way unless the id was lost, or
\* the frame was rendered again in between, whose prompt takes the place of the route.
RouteKept ==
    \A p \in DOMAIN prompts : \A q \in p .. Len(prompts) :
        /\ prompts[p].of = prompts[q].of
        /\ "t2i" \notin {prompts[p].stage, prompts[q].stage}
        => \/ prompts[p].stage = prompts[q].stage
           \/ /\ prompts[p].stage = "legacy"
              /\ \/ env.lost
                 \/ \E r \in p .. q : prompts[r].of = prompts[p].of /\ prompts[r].stage = "t2i"

\* The verdict on a batch: when it has succeeded so has every revision in it, and once it
\* has ended no item of it waits or runs.
VerdictTrue ==
    \A y \in Items :
        /\ batch[y[1]].state = "succeeded" => rev[y].state = "succeeded"
        /\ batch[y[1]].state \in {"succeeded", "partial", "failed"}
             => item[y].state \in Settled

\* A succeeded revision, which finals may have selected, is never taken up again.
SucceededStands ==
    [][\A y \in Items : rev[y].state = "succeeded" => rev'[y].state = "succeeded"]_vars

\* The rows of the remakes agree: well-typed, a clip and its frame belong together, and the
\* verdict of a batch is that of its items and revisions.
RemakesConsistent == TypeOK /\ ClipOfItsFrame /\ VerdictTrue

\* Nothing is done twice or too early: no video before the frames of its batch, no diffusion
\* again, no succeeded revision taken up again.
WorkOnce == FramesFirst /\ DiffusionOnce /\ SucceededStands

\* A finished manual final is made of the clips selected at its request, all of succeeded
\* revisions, whatever the worker rendered in between.
FinalIsSnapshot ==
    \A k \in DOMAIN final : final[k].state = "succeeded" =>
        \A i \in Scenes :
            /\ final[k].out[i] = final[k].sel[i].clip
            /\ final[k].sel[i].of[1] # 0 => rev[final[k].sel[i].of].state = "succeeded"

\* A batch that is queued or running ends, unless the process is down, or ComfyUI could not
\* be restarted or died again before the recovery (env.stuck): that leaves the batch marked
\* as running, and nobody working on it, until the GUI is restarted.
Ended(b) == batch[b].state \in {"succeeded", "partial", "failed"}
BatchEnds == \A b \in Batches :
    batch[b].state \in {"queued", "running"} ~> (Ended(b) \/ At("down") \/ env.stuck)

=============================================================================
