------------------------ MODULE ContinuationChunksProofs ------------------------
(* What TLAPS proves about ContinuationChunks, for every number of chunks,      *)
(* attempts and faults of every kind: the rows of a scene stay one chain, no    *)
(* prompt is sent twice or left behind, acceptances are withdrawn for cause     *)
(* only, and the scene implements ChunkChain.                                   *)
EXTENDS ChunkStoreProofs

-----------------------------------------------------------------------------
(* The inductive invariant                                                      *)

Kinds == Required \cup {"frame"}
StageFile == <<"stage1", "stage2">>
PromptStates == {"queued", "saved", "done", "failed", "bad", "gone"}
PromptRows == [c : Chunks, a : Nat, s : 1 .. 3, st : PromptStates]

\* where the worker has a prompt in hand, an attempt that should run, an attempt, and a chunk
\* that is not accepted
PromptSteps == {"prompt", "queued", "check", "post", "own", "wait"}
ActiveSteps == {"stage1", "stage1done", "stage2", "stage2done", "reclaim", "decodedone",
                "final", "complete"} \cup PromptSteps
AttemptSteps == ActiveSteps \cup {"select"}
LoopSteps == ActiveSteps \cup {"loop", "discard", "failed"}
ChunkSteps == LoopSteps \cup {"recover", "select"}
EndSteps == {"assemble", "manifest", "done"}
RestSteps == {"idle", "down"}
WorkerSteps == ChunkSteps \cup EndSteps \cup RestSteps
                 \cup {"plan", "chunk", "invalidate", "raise"}
Errors == {"", "comfy", "other"}
WorkerStates ==
  [pc : WorkerSteps, con : Nat, c : 1 .. NChunks + 1, taken : Seq(Nat \ {0}), a : Nat,
   k : Nat, ids : PromptIds, stage : 0 .. 3, p : Nat, tries : Nat,
   err : Errors]

EnvStates == [faults : 0 .. MaxFaults, gui : {"idle", "cancel", "died"}, lost : BOOLEAN]

ShapeOK ==
  /\ disk \in [Chunks -> Seq(SUBSET Kinds)]
  /\ clip \in [file : Seq(Nat), doc : Seq(Nat)]
  /\ prompts \in Seq(PromptRows)
  /\ comfy \in BOOLEAN /\ contract \in Nat
  /\ w \in WorkerStates
  /\ env \in EnvStates

\* What is counted in two places is counted alike.
LengthsOK ==
  /\ \A c \in Chunks : /\ Len(disk[c]) = Len(db.atts[c])
                       /\ \A a \in DOMAIN db.atts[c] : \A s \in 1 .. 3 :
                            db.atts[c][a].ids[s] <= Len(prompts)
  /\ \A p \in DOMAIN prompts : prompts[p].a \in DOMAIN db.atts[prompts[p].c]
  /\ Len(w.taken) = w.c - 1

\* The worker is where the tables say it is.
PlaceOK ==
  /\ \A c \in 1 .. w.c - 1 : w.taken[c] = db.chunks[c].acc
  /\ w.pc \in ChunkSteps => w.c \in Chunks /\ db.chunks[w.c].acc = 0
  /\ w.pc = "invalidate" => w.c \in Chunks
  /\ w.pc = "recover" => w.k <= Len(db.atts[w.c])
  /\ w.pc \in AttemptSteps \cup {"discard"} => w.a \in DOMAIN db.atts[w.c]
  /\ w.pc = "failed" => db.atts[w.c] # <<>>
  /\ w.pc \in AttemptSteps => w.ids = db.atts[w.c][w.a].ids
  /\ w.pc \in PromptSteps => w.stage \in 1 .. 3
  /\ w.pc \in EndSteps => w.c = NChunks + 1

\* What the worker was told of its attempts still holds, unless the scene is cancelled.
Complete1(c, a) == db.atts[c][a].state = "COMPLETE"
CleanOK ==
  \/ db.scene = "CANCELLED"
  \/ /\ w.pc \in LoopSteps => \A a \in DOMAIN db.atts[w.c] : ~Complete1(w.c, a)
     /\ w.pc = "recover" => \A a \in DOMAIN db.atts[w.c] : Complete1(w.c, a) => a <= w.k
     /\ w.pc \in ActiveSteps => db.atts[w.c][w.a].state \in Active
     /\ w.pc = "select" => /\ Complete1(w.c, w.a) /\ db.chunks[w.c].state = "COMPLETE"
                           /\ db.atts[w.c][w.a].up = Upstream(db, w.c)

\* A finished scene is left alone, and what is published is what the worker has taken.
SceneOK ==
  /\ w.pc \notin RestSteps => db.scene # "SUCCEEDED"
  /\ w.pc \in {"manifest", "done"} => clip.file \in {<<>>, w.taken}

\* The id of a prompt is written before the next, and the worker posts a prompt only where
\* none of its stage runs.
Mine(p) == w.pc = "own" /\ w.p = p
Id(p) == db.atts[prompts[p].c][prompts[p].a].ids[prompts[p].s]
Work(p) == <<prompts[p].c, prompts[p].a, prompts[p].s>>
Turn == <<w.c, w.a, w.stage>>

Recorded == \/ env.lost \/ db.scene = "CANCELLED"
            \/ \A p \in DOMAIN prompts : Id(p) # 0 \/ Mine(p)
Saved == \A c \in Chunks : \A a \in DOMAIN disk[c] : \A s \in 1 .. 2 :
           StageFile[s] \in Files(c, a) => \E p \in DOMAIN prompts : Work(p) = <<c, a, s>>
Owned == env.lost \/ \A p \in DOMAIN prompts : Live(p) => Id(p) = p \/ Mine(p)
Fresh == env.lost \/ \A p \in DOMAIN prompts :
           /\ w.pc \in {"check", "post"} /\ Live(p) => Work(p) # Turn
           /\ w.pc = "own" /\ Live(p) /\ p # w.p => Work(p) # Turn
Posted == w.pc = "own" => w.p = Len(prompts) /\ w.p # 0 /\ Work(w.p) = Turn
Silent == ~comfy => \A p \in DOMAIN prompts : ~Live(p)
Hushed == (db.scene = "CANCELLED" /\ env.gui = "idle" /\ ~env.lost)
            => \A p \in DOMAIN prompts : Live(p) => Mine(p)
PromptsOK == /\ Recorded /\ Saved /\ Owned /\ Fresh /\ Posted /\ Silent /\ Hushed

IInv == /\ StoreOK(db) /\ ShapeOK /\ LengthsOK /\ PlaceOK /\ CleanOK /\ SceneOK /\ PromptsOK

-----------------------------------------------------------------------------
(* What a step may do to the prompts and stage files without touching PromptsOK *)

\* The prompt ids of the attempts that exist do not change.
IdsKept ==
  \A c \in Chunks : \A a \in DOMAIN db.atts[c] :
    a \in DOMAIN db'.atts[c] /\ db'.atts[c][a].ids = db.atts[c][a].ids

\* Prompts may leave the queue, and do not enter it.
PromptsShrink ==
  /\ prompts' \in Seq(PromptRows) /\ Len(prompts') = Len(prompts)
  /\ \A p \in DOMAIN prompts : Work(p)' = Work(p) /\ (Live(p)' => Live(p))

\* A new checkpoint is one that a prompt saved.
FilesEarned ==
  \A c \in Chunks : \A a \in DOMAIN disk'[c] : \A s \in 1 .. 2 :
    StageFile[s] \in disk'[c][a] =>
      \/ a \in DOMAIN disk[c] /\ StageFile[s] \in disk[c][a]
      \/ \E p \in DOMAIN prompts : Work(p) = <<c, a, s>>

\* The worker does not come to send a prompt, and keeps the one it has in hand.
HandsKept ==
  /\ w'.pc \in {"check", "post"} => w.pc \in {"check", "post"} /\ Turn' = Turn
  /\ w'.pc = "own" => w.pc = "own" /\ w'.p = w.p /\ Turn' = Turn
  /\ w.pc = "own" => w'.pc = "own" \/ env'.lost

\* The cancellation of the scene is not undone, and not through before the prompts are.
CancelKept ==
  /\ env.lost => env'.lost
  /\ db.scene = "CANCELLED" => db'.scene = "CANCELLED"
  /\ db'.scene = "CANCELLED" /\ env'.gui = "idle" =>
       \/ db.scene = "CANCELLED" /\ env.gui = "idle"
       \/ \A p \in DOMAIN prompts : ~Live(p)'
  /\ ~comfy' => ~comfy \/ \A p \in DOMAIN prompts : ~Live(p)'

LEMMA PromptsKept ==
  ASSUME ShapeOK, LengthsOK, PromptsOK, IdsKept, PromptsShrink, FilesEarned, HandsKept, CancelKept
  PROVE  PromptsOK'
<1>0. /\ DOMAIN prompts' = DOMAIN prompts /\ DOMAIN prompts = 1 .. Len(prompts)
      /\ Len(prompts) \in Nat
  BY DEF PromptsShrink, ShapeOK
<1>1. ASSUME NEW p \in DOMAIN prompts
      PROVE  /\ Id(p)' = Id(p)
             /\ prompts'[p].c = prompts[p].c /\ prompts'[p].a = prompts[p].a
             /\ prompts'[p].s = prompts[p].s
  <2>1. prompts[p] \in PromptRows BY DEF ShapeOK
  <2>2. prompts[p].c \in Chunks /\ prompts[p].a \in DOMAIN db.atts[prompts[p].c]
    BY <2>1 DEF PromptRows, LengthsOK
  <2>3. /\ prompts'[p].c = prompts[p].c /\ prompts'[p].a = prompts[p].a
        /\ prompts'[p].s = prompts[p].s
    BY DEF PromptsShrink, Work
  <2> QED BY <2>2, <2>3 DEF Id, IdsKept
<1>2. \A p \in DOMAIN prompts : env'.lost \/ (Mine(p) => Mine(p)')
  BY DEF Mine, HandsKept
<1>3. Recorded' BY <1>0, <1>1, <1>2 DEF Recorded, PromptsOK, CancelKept
<1>4. Saved'
  <2> SUFFICES ASSUME NEW c \in Chunks, NEW a \in DOMAIN disk'[c], NEW s \in 1 .. 2,
                      StageFile[s] \in disk'[c][a]
               PROVE  \E p \in DOMAIN prompts' : Work(p)' = <<c, a, s>>
    BY DEF Saved, Files
  <2>1. \E p \in DOMAIN prompts : Work(p) = <<c, a, s>>
    BY DEF FilesEarned, PromptsOK, Saved, Files
  <2> QED BY <2>1, <1>0 DEF PromptsShrink
<1>5. Owned' BY <1>0, <1>1, <1>2 DEF Owned, PromptsOK, PromptsShrink, CancelKept
<1>6. Fresh'
  <2> SUFFICES ASSUME ~env'.lost, NEW p \in DOMAIN prompts, Live(p)'
               PROVE  /\ w'.pc \in {"check", "post"} => Work(p)' # Turn'
                      /\ w'.pc = "own" /\ p # w'.p => Work(p)' # Turn'
    BY <1>0 DEF Fresh
  <2>1. ~env.lost /\ Live(p) /\ Work(p)' = Work(p) BY DEF CancelKept, PromptsShrink
  <2>2. /\ w.pc \in {"check", "post"} => Work(p) # Turn
        /\ w.pc = "own" /\ p # w.p => Work(p) # Turn
    BY <2>1 DEF PromptsOK, Fresh
  <2> QED BY <2>1, <2>2 DEF HandsKept
<1>7. Posted'
  <2> SUFFICES ASSUME w'.pc = "own"
               PROVE  w'.p = Len(prompts') /\ w'.p # 0 /\ Work(w.p)' = Turn'
    BY DEF Posted
  <2>1. w.pc = "own" /\ w'.p = w.p /\ Turn' = Turn BY DEF HandsKept
  <2>2. w.p = Len(prompts) /\ w.p # 0 /\ Work(w.p) = Turn BY <2>1 DEF PromptsOK, Posted
  <2>3. w.p \in DOMAIN prompts BY <1>0, <2>2
  <2>4. Work(w.p)' = Work(w.p) BY <2>1, <2>3 DEF PromptsShrink, Work
  <2> QED BY <2>1, <2>2, <2>4 DEF PromptsShrink
<1>8. Silent' BY <1>0 DEF Silent, PromptsOK, CancelKept, PromptsShrink
<1>9. Hushed'
  <2> SUFFICES ASSUME db'.scene = "CANCELLED", env'.gui = "idle", ~env'.lost,
                      NEW p \in DOMAIN prompts, Live(p)'
               PROVE  Mine(p)'
    BY <1>0 DEF Hushed
  <2>1. db.scene = "CANCELLED" /\ env.gui = "idle" /\ ~env.lost /\ Live(p)
    BY DEF CancelKept, PromptsShrink
  <2>2. Mine(p) BY <2>1 DEF PromptsOK, Hushed
  <2> QED BY <1>2, <2>2
<1> QED BY <1>3, <1>4, <1>5, <1>6, <1>7, <1>8, <1>9 DEF PromptsOK

\* The lengths agree after a step that keeps, or adds with an empty directory, attempts.
LEMMA LengthsKept ==
  ASSUME ShapeOK, LengthsOK, PromptsShrink,
         \A c \in Chunks : /\ Len(disk'[c]) = Len(db'.atts[c])
                           /\ \A a \in DOMAIN db'.atts[c] :
                                \/ a \in DOMAIN db.atts[c] /\ db'.atts[c][a].ids = db.atts[c][a].ids
                                \/ db'.atts[c][a].ids = NoPrompts,
         IdsKept, Len(w'.taken) = w'.c - 1
  PROVE  LengthsOK'
<1>0. /\ DOMAIN prompts' = DOMAIN prompts /\ Len(prompts') = Len(prompts) /\ Len(prompts) \in Nat
  BY DEF PromptsShrink, ShapeOK
<1>1. \A c \in Chunks : \A a \in DOMAIN db'.atts[c] : \A s \in 1 .. 3 :
        db'.atts[c][a].ids[s] <= Len(prompts')
  <2> SUFFICES ASSUME NEW c \in Chunks, NEW a \in DOMAIN db'.atts[c], NEW s \in 1 .. 3
               PROVE  db'.atts[c][a].ids[s] <= Len(prompts')
    OBVIOUS
  <2>1. CASE db'.atts[c][a].ids = NoPrompts BY <2>1, <1>0 DEF NoPrompts
  <2>2. CASE a \in DOMAIN db.atts[c] /\ db'.atts[c][a].ids = db.atts[c][a].ids
    BY <2>2, <1>0 DEF LengthsOK
  <2> QED BY <2>1, <2>2
<1>2. ASSUME NEW p \in DOMAIN prompts PROVE prompts'[p].a \in DOMAIN db'.atts[prompts'[p].c]
  <2>1. prompts[p] \in PromptRows BY DEF ShapeOK
  <2>2. prompts[p].c \in Chunks /\ prompts[p].a \in DOMAIN db.atts[prompts[p].c]
    BY <2>1 DEF PromptRows, LengthsOK
  <2>3. prompts'[p].c = prompts[p].c /\ prompts'[p].a = prompts[p].a
    BY DEF PromptsShrink, Work
  <2> QED BY <2>2, <2>3 DEF IdsKept
<1> QED BY <1>0, <1>1, <1>2 DEF LengthsOK

-----------------------------------------------------------------------------
(* Steps of the worker that send no prompt and persist no prompt id             *)

\* What such a step may do to everything but the worker itself.
QuietStep ==
  /\ StoreOK(db') /\ (db'.scene = "CANCELLED" <=> db.scene = "CANCELLED")
  /\ \A c \in Chunks : /\ Len(disk'[c]) = Len(db'.atts[c])
                       /\ \A a \in DOMAIN db'.atts[c] :
                            \/ a \in DOMAIN db.atts[c] /\ db'.atts[c][a].ids = db.atts[c][a].ids
                            \/ db'.atts[c][a].ids = NoPrompts
  /\ IdsKept /\ FilesEarned /\ PromptsShrink
  /\ disk' \in [Chunks -> Seq(SUBSET Kinds)]
  /\ clip' \in [file : Seq(Nat), doc : Seq(Nat)]
  /\ env' \in EnvStates /\ env'.gui = env.gui /\ env'.lost = env.lost
  /\ UNCHANGED <<comfy, contract>>

LEMMA HandsKeep ==
  ASSUME IInv, QuietStep, w' \in WorkerStates, Len(w'.taken) = w'.c - 1, HandsKept,
         PlaceOK', CleanOK', SceneOK'
  PROVE  IInv'
<1>1. StoreOK(db)' BY DEF QuietStep
<1>2. ShapeOK' BY DEF IInv, ShapeOK, QuietStep, PromptsShrink
<1>3. LengthsOK'
  BY LengthsKept DEF IInv, QuietStep
<1>4. PromptsOK'
  <2>1. CancelKept BY DEF QuietStep, CancelKept
  <2> QED BY <2>1, PromptsKept DEF IInv, QuietStep
<1> QED BY <1>1, <1>2, <1>3, <1>4 DEF IInv

LEMMA QuietKeeps ==
  ASSUME IInv, QuietStep, w' \in WorkerStates, Len(w'.taken) = w'.c - 1,
         w.pc # "own", w'.pc \notin {"check", "post", "own"}, PlaceOK', CleanOK', SceneOK'
  PROVE  IInv'
BY HandsKeep DEF HandsKept

LEMMA PromptsStay ==
  ASSUME ShapeOK, UNCHANGED prompts
  PROVE  PromptsShrink /\ \A p \in DOMAIN prompts : Live(p)' <=> Live(p)
BY DEF ShapeOK, PromptsShrink, Work, Live

\* Chunk directories that do not change, or gain files that no prompt saves.
LEMMA DiskStays == ASSUME UNCHANGED disk PROVE FilesEarned
BY DEF FilesEarned

LEMMA FileAdded ==
  ASSUME ShapeOK, NEW c \in Chunks, NEW a \in DOMAIN disk[c],
         NEW kinds \in SUBSET (Kinds \ {"stage1", "stage2"}),
         disk' = [disk EXCEPT ![c][a] = @ \cup kinds]
  PROVE  /\ disk' \in [Chunks -> Seq(SUBSET Kinds)] /\ FilesEarned
         /\ \A i \in Chunks : Len(disk'[i]) = Len(disk[i])
<1> DEFINE x == disk[c][a] \cup kinds
           t == [disk[c] EXCEPT ![a] = x]
<1>1. disk[c] \in Seq(SUBSET Kinds) /\ disk \in [Chunks -> Seq(SUBSET Kinds)] BY DEF ShapeOK
<1>2. x \in SUBSET Kinds BY <1>1
<1>3. t \in Seq(SUBSET Kinds) /\ Len(t) = Len(disk[c]) /\ DOMAIN t = DOMAIN disk[c]
  BY <1>1, <1>2, ExceptSeq
<1>4. disk' = [disk EXCEPT ![c] = t] BY <1>1
<1>5. \A b \in DOMAIN t : t[b] = IF b = a THEN x ELSE disk[c][b] OBVIOUS
<1> HIDE DEF t
<1>6. disk'[c] = t /\ \A i \in Chunks : i # c => disk'[i] = disk[i] BY <1>1, <1>4
<1>7. FilesEarned
  <2> SUFFICES ASSUME NEW i \in Chunks, NEW b \in DOMAIN disk'[i], NEW s \in 1 .. 2,
                      StageFile[s] \in disk'[i][b]
               PROVE  b \in DOMAIN disk[i] /\ StageFile[s] \in disk[i][b]
    BY DEF FilesEarned
  <2>1. StageFile[s] \in {"stage1", "stage2"} BY DEF StageFile
  <2>2. CASE i # c BY <2>2, <1>6
  <2>3. CASE i = c
    <3>1. b \in DOMAIN disk[c] BY <2>3, <1>3, <1>6
    <3>2. CASE b = a BY <2>1, <2>3, <3>1, <3>2, <1>5, <1>6, <1>3
    <3>3. CASE b # a BY <2>3, <3>1, <3>3, <1>5, <1>6, <1>3
    <3> QED BY <3>2, <3>3
  <2> QED BY <2>2, <2>3
<1> QED BY <1>1, <1>3, <1>4, <1>6, <1>7

\* A step that changes the worker only.
LEMMA QuietStutter ==
  ASSUME IInv, UNCHANGED <<db, disk, clip, prompts, comfy, contract, env>>
  PROVE  QuietStep
BY PromptsStay, DiskStays DEF IInv, ShapeOK, LengthsOK, QuietStep, IdsKept

\* The worker's record, put together and taken apart.
LEMMA WorkerMade ==
  ASSUME NEW v,
         v = [pc |-> v.pc, con |-> v.con, c |-> v.c, taken |-> v.taken, a |-> v.a, k |-> v.k,
              ids |-> v.ids, stage |-> v.stage, p |-> v.p, tries |-> v.tries, err |-> v.err],
         v.pc \in WorkerSteps, v.con \in Nat, v.c \in 1 .. NChunks + 1,
         v.taken \in Seq(Nat \ {0}), v.a \in Nat, v.k \in Nat, v.ids \in PromptIds,
         v.stage \in 0 .. 3, v.p \in Nat, v.tries \in Nat, v.err \in Errors
  PROVE  v \in WorkerStates
BY DEF WorkerStates

LEMMA WorkerParts ==
  ASSUME NEW v \in WorkerStates
  PROVE  /\ v.pc \in WorkerSteps /\ v.con \in Nat /\ v.c \in 1 .. NChunks + 1
         /\ v.taken \in Seq(Nat \ {0}) /\ v.a \in Nat /\ v.k \in Nat /\ v.ids \in PromptIds
         /\ v.stage \in 0 .. 3 /\ v.p \in Nat /\ v.tries \in Nat /\ v.err \in Errors
         /\ v = [pc |-> v.pc, con |-> v.con, c |-> v.c, taken |-> v.taken, a |-> v.a,
                 k |-> v.k, ids |-> v.ids, stage |-> v.stage, p |-> v.p, tries |-> v.tries,
                 err |-> v.err]
BY DEF WorkerStates

\* Moves that need nothing: out of the scene, and out of an attempt by an exception.
LEMMA IdleOK ==
  ASSUME NEW pc \in RestSteps, w' = Idle(pc)
  PROVE  w' \in WorkerStates /\ Len(w'.taken) = w'.c - 1 /\ PlaceOK' /\ CleanOK' /\ SceneOK'
<1>1. pc \in {"idle", "down"} BY DEF RestSteps
<1>2. w' \in WorkerStates
  <2>1. NoPrompts \in PromptIds BY DEF NoPrompts, PromptIds
  <2>2. <<>> \in Seq(Nat \ {0}) OBVIOUS
  <2>3. 1 \in 1 .. NChunks + 1 BY ChunkAssumption
  <2>4. pc \in WorkerSteps BY DEF WorkerSteps
  <2>5. "" \in Errors BY DEF Errors
  <2>6. w'.pc = pc /\ w'.err = "" /\ w'.c = 1 BY DEF Idle
  <2>7. w'.taken = <<>> /\ w'.ids = NoPrompts BY DEF Idle
  <2>8. w' = [pc |-> w'.pc, con |-> w'.con, c |-> w'.c, taken |-> w'.taken, a |-> w'.a,
              k |-> w'.k, ids |-> w'.ids, stage |-> w'.stage, p |-> w'.p,
              tries |-> w'.tries, err |-> w'.err]
    BY DEF Idle
  <2>9. w'.taken \in Seq(Nat \ {0}) /\ w'.ids \in PromptIds BY <2>1, <2>2, <2>7
  <2>10. w'.pc \in WorkerSteps /\ w'.err \in Errors BY <2>4, <2>5, <2>6
  <2>11. w'.c \in 1 .. NChunks + 1 BY <2>3, <2>6
  <2>12. /\ w'.con \in Nat /\ w'.a \in Nat /\ w'.k \in Nat /\ w'.p \in Nat /\ w'.tries \in Nat
         /\ w'.stage \in 0 .. 3
    <3>1. w'.con = 0 /\ w'.stage = 0 BY DEF Idle
    <3>2. w'.con \in Nat BY <3>1
    <3>3. w'.stage \in 0 .. 3 BY <3>1
    <3>4. w'.a \in Nat /\ w'.k \in Nat /\ w'.p \in Nat /\ w'.tries \in Nat BY DEF Idle
    <3> QED BY <3>2, <3>3, <3>4
  <2> QED BY <2>8, <2>9, <2>10, <2>11, <2>12, WorkerMade
<1>3. w'.c = 1 /\ w'.taken = <<>> /\ w'.pc = pc BY DEF Idle
<1>4. PlaceOK' 
  BY <1>1, <1>3 DEF PlaceOK, ChunkSteps, LoopSteps, ActiveSteps, AttemptSteps, PromptSteps, EndSteps
<1>5. CleanOK'
  BY <1>1, <1>3 DEF CleanOK, LoopSteps, ActiveSteps, PromptSteps
<1>6. SceneOK' BY <1>1, <1>3 DEF SceneOK, RestSteps
<1> QED BY <1>2, <1>3, <1>4, <1>5, <1>6
\* What the worker may assume wherever it has a chunk, an attempt, or a prompt in hand.
LEMMA Placed ==
  ASSUME IInv
  PROVE  /\ db \in Tables /\ w \in WorkerStates
         /\ w.pc \in ChunkSteps => w.c \in Chunks /\ db.chunks[w.c].acc = 0
         /\ w.pc \in AttemptSteps \cup {"discard"} =>
              /\ w.c \in Chunks /\ w.a \in DOMAIN db.atts[w.c] /\ w.a \in DOMAIN disk[w.c]
              /\ db.atts[w.c][w.a] \in Attempts /\ db.atts[w.c][w.a].ids \in PromptIds
         /\ w.pc \in AttemptSteps => w.ids = db.atts[w.c][w.a].ids
         /\ Len(w.taken) = w.c - 1
<1>1. db \in Tables /\ w \in WorkerStates /\ Len(w.taken) = w.c - 1
  BY DEF IInv, StoreOK, ShapeOK, LengthsOK
<1>2. w.pc \in ChunkSteps => w.c \in Chunks /\ db.chunks[w.c].acc = 0 BY DEF IInv, PlaceOK
<1>3. AttemptSteps \cup {"discard"} \subseteq ChunkSteps
  BY DEF AttemptSteps, ChunkSteps, LoopSteps
<1>4. ASSUME w.pc \in AttemptSteps \cup {"discard"}
      PROVE  /\ w.c \in Chunks /\ w.a \in DOMAIN db.atts[w.c] /\ w.a \in DOMAIN disk[w.c]
             /\ db.atts[w.c][w.a] \in Attempts /\ db.atts[w.c][w.a].ids \in PromptIds
  <2>1. w.c \in Chunks /\ w.a \in DOMAIN db.atts[w.c] BY <1>2, <1>3, <1>4 DEF IInv, PlaceOK
  <2>2. disk[w.c] \in Seq(SUBSET Kinds) /\ db.atts[w.c] \in Seq(Attempts)
    BY <1>1, <2>1, DomainOfRows DEF IInv, ShapeOK
  <2>3. w.a \in DOMAIN disk[w.c] BY <2>1, <2>2 DEF IInv, LengthsOK
  <2>4. db.atts[w.c][w.a] \in Attempts BY <2>1, <2>2
  <2> QED BY <2>1, <2>3, <2>4 DEF Attempts
<1>5. w.pc \in AttemptSteps => w.ids = db.atts[w.c][w.a].ids BY DEF IInv, PlaceOK
<1> QED BY <1>1, <1>2, <1>4, <1>5

\* An exception inside _render_chunk: the worker holds the attempt it failed with.
LEMMA FailOK ==
  ASSUME IInv, QuietStep, UNCHANGED db, NEW kind \in Errors, Fail(kind),
         \/ w.pc \in ActiveSteps \ {"own"}
         \/ w.pc = "select" /\ db.scene = "CANCELLED"
  PROVE  IInv'
<1>0. /\ w.pc \in AttemptSteps /\ w.pc # "own" /\ w.pc \in ChunkSteps
      /\ w.pc \notin RestSteps
  BY DEF AttemptSteps, ActiveSteps, ChunkSteps, LoopSteps, RestSteps, PromptSteps
<1>1. /\ w' = [w EXCEPT !.pc = "failed", !.err = kind] /\ w \in WorkerStates
      /\ w.c \in Chunks /\ db.chunks[w.c].acc = 0 /\ w.a \in DOMAIN db.atts[w.c]
      /\ Len(w.taken) = w.c - 1
  BY <1>0, Placed DEF Fail
<1>2. /\ w'.pc = "failed" /\ w'.c = w.c /\ w'.taken = w.taken /\ w' \in WorkerStates
  BY <1>1 DEF WorkerStates, WorkerSteps, ChunkSteps, LoopSteps
<1>3. PlaceOK'
  BY <1>1, <1>2
     DEF IInv, PlaceOK, ChunkSteps, LoopSteps, ActiveSteps, AttemptSteps, PromptSteps, EndSteps
<1>4. CleanOK'
  <2>1. w.pc \in LoopSteps \/ db.scene = "CANCELLED" BY DEF LoopSteps
  <2> QED BY <1>1, <1>2, <2>1
             DEF IInv, CleanOK, Complete1, LoopSteps, ActiveSteps, PromptSteps
<1>5. SceneOK'
  BY <1>0, <1>2 DEF IInv, SceneOK, RestSteps
<1> QED BY <1>0, <1>1, <1>2, <1>3, <1>4, <1>5, QuietKeeps
\* Moves between the parts of render_scene that have no chunk in hand.
LEMMA OutsideOK ==
  ASSUME IInv, QuietStep, \A c \in Chunks : db'.chunks[c].acc = db.chunks[c].acc,
         w.pc # "own", db'.scene # "SUCCEEDED",
         w' \in WorkerStates, w'.pc \in {"raise", "chunk", "plan"}, w'.c = w.c, w'.taken = w.taken
  PROVE  IInv'
<1>1. Len(w.taken) = w.c - 1 /\ w.c \in 1 .. NChunks + 1 BY Placed DEF WorkerStates
<1>2. \A c \in 1 .. w.c - 1 : c \in Chunks BY <1>1, ChunkAssumption DEF Chunks
<1>3. PlaceOK'
  BY <1>2
     DEF IInv, PlaceOK, ChunkSteps, LoopSteps, ActiveSteps, AttemptSteps, PromptSteps, EndSteps
<1>4. CleanOK' BY DEF CleanOK, LoopSteps, ActiveSteps, PromptSteps
<1>5. SceneOK' BY DEF SceneOK
<1> QED BY <1>1, <1>3, <1>4, <1>5, QuietKeeps

LEMMA RaiseOK ==
  ASSUME IInv, QuietStep, UNCHANGED db, Raise, w.pc \notin RestSteps \cup {"own"}
  PROVE  IInv'
<1>1. w \in WorkerStates /\ db.scene # "SUCCEEDED" BY Placed DEF IInv, SceneOK
<1>2. /\ w' \in WorkerStates /\ w'.pc = "raise" /\ w'.c = w.c /\ w'.taken = w.taken
  BY <1>1 DEF Raise, Go, WorkerStates, WorkerSteps
<1> QED BY <1>1, <1>2, OutsideOK

LEMMA EscapeOK ==
  ASSUME IInv, QuietStep, w.pc # "own", NEW pc \in RestSteps, w' = Idle(pc)
  PROVE  IInv'
<1>1. w'.pc = pc /\ pc \notin {"check", "post", "own"} BY DEF Idle, RestSteps
<1> QED BY <1>1, IdleOK, QuietKeeps

-----------------------------------------------------------------------------
(* The actions of the worker, from the top of render_scene                      *)

LEMMA StartRenderKeeps == ASSUME IInv, StartRender PROVE IInv'
<1>1. w \in WorkerStates /\ QuietStep
  BY Placed, QuietStutter DEF StartRender, OnlyWorker, Quiet
<1>2. w' \in WorkerStates /\ w'.pc = "plan" /\ w'.c = w.c /\ w'.taken = w.taken /\ w.pc # "own"
  BY <1>1 DEF StartRender, At, Go, WorkerStates, WorkerSteps
<1> QED BY <1>1, <1>2, OutsideOK DEF StartRender, OnlyWorker

LEMMA PersistPlanKeeps == ASSUME IInv, PersistPlan PROVE IInv'
<1>0. /\ w.pc = "plan" /\ w \in WorkerStates /\ StoreOK(db) /\ db.scene # "SUCCEEDED"
      /\ UNCHANGED <<disk, clip, prompts, comfy, contract, env>> /\ contract \in Nat
  BY Placed DEF PersistPlan, At, Quiet, IInv, SceneOK, ShapeOK, RestSteps
<1>1. CASE UNCHANGED db /\ Raise
  BY <1>0, <1>1, RaiseOK, QuietStutter DEF RestSteps
<1>2. CASE /\ db' = PlanChunks(EnsurePlan(db))
           /\ Raise \/ w' = [w EXCEPT !.pc = "chunk", !.con = contract]
  <2>1. /\ StoreOK(db') /\ db'.scene = db.scene /\ db'.atts = db.atts
        /\ \A c \in Chunks : db'.chunks[c].acc = db.chunks[c].acc
    BY <1>0, <1>2, PlanKeeps
  <2>2. QuietStep
    BY <1>0, <2>1, PromptsStay, DiskStays DEF IInv, ShapeOK, LengthsOK, QuietStep, IdsKept
  <2>3. /\ w' \in WorkerStates /\ w'.pc \in {"raise", "chunk"} /\ w'.c = w.c
        /\ w'.taken = w.taken
    BY <1>0, <1>2 DEF Raise, Go, WorkerStates, WorkerSteps
  <2> QED BY <1>0, <2>1, <2>2, <2>3, OutsideOK
<1> QED BY <1>1, <1>2 DEF PersistPlan

\* A step that changes the worker, files of the attempt directories and the count of faults.
LEMMA QuietFile ==
  ASSUME IInv, UNCHANGED <<db, clip, prompts, comfy, contract>>,
         env' \in EnvStates, env'.gui = env.gui, env'.lost = env.lost,
         disk' \in [Chunks -> Seq(SUBSET Kinds)], FilesEarned,
         \A c \in Chunks : Len(disk'[c]) = Len(disk[c])
  PROVE  QuietStep
BY PromptsStay DEF IInv, ShapeOK, LengthsOK, QuietStep, IdsKept

LEMMA TakeOK ==
  ASSUME IInv, QuietStep, w.pc \in {"chunk", "recover", "select"}, w.c \in Chunks,
         NEW a \in Nat \ {0}, Take(a), db'.chunks[w.c].acc = a, db'.scene = db.scene,
         \A i \in Chunks : i # w.c => db'.chunks[i].acc = db.chunks[i].acc
  PROVE  IInv'
<1>1. /\ Len(w.taken) = w.c - 1 /\ w \in WorkerStates /\ w.c \in 1 .. NChunks
      /\ w.taken \in Seq(Nat \ {0}) /\ w.c \in Nat /\ NChunks \in Nat
  <2>1. /\ Len(w.taken) = w.c - 1 /\ w \in WorkerStates /\ w.c \in 1 .. NChunks
        /\ w.taken \in Seq(Nat \ {0})
    BY Placed DEF WorkerStates, Chunks
  <2> QED BY <2>1, ChunkAssumption
<1>2. /\ w'.pc = "chunk" /\ w'.c = w.c + 1 /\ w'.taken = Append(w.taken, a)
  BY <1>1 DEF Take, WorkerStates
<1>3. /\ Append(w.taken, a) \in Seq(Nat \ {0}) /\ Len(Append(w.taken, a)) = w.c
      /\ Append(w.taken, a)[w.c] = a
      /\ \A i \in 1 .. w.c - 1 : Append(w.taken, a)[i] = w.taken[i]
  BY <1>1
<1>4. w' \in WorkerStates
  <2>1. w.c + 1 \in 1 .. NChunks + 1 BY <1>1, ChunkAssumption
  <2>2. NoPrompts \in PromptIds BY DEF NoPrompts, PromptIds
  <2>3. Append(w.taken, a) \in Seq(Nat \ {0}) BY <1>3
  <2>4. "chunk" \in WorkerSteps BY DEF WorkerSteps
  <2>5. w' = [pc |-> "chunk", con |-> w.con, c |-> w.c + 1, taken |-> Append(w.taken, a),
              a |-> 0, k |-> 0, ids |-> NoPrompts, stage |-> 0, p |-> 0, tries |-> 0,
              err |-> w.err]
    BY <1>1 DEF Take, WorkerStates
  <2>6. w.con \in Nat /\ w.err \in Errors BY <1>1, WorkerParts
  <2>7. /\ w'.pc = "chunk" /\ w'.con = w.con /\ w'.c = w.c + 1
        /\ w'.taken = Append(w.taken, a) /\ w'.a = 0 /\ w'.k = 0 /\ w'.ids = NoPrompts
        /\ w'.stage = 0 /\ w'.p = 0 /\ w'.tries = 0 /\ w'.err = w.err
        /\ w' = [pc |-> w'.pc, con |-> w'.con, c |-> w'.c, taken |-> w'.taken, a |-> w'.a,
                 k |-> w'.k, ids |-> w'.ids, stage |-> w'.stage, p |-> w'.p,
                 tries |-> w'.tries, err |-> w'.err]
    BY <2>5
  <2>8. /\ w'.pc \in WorkerSteps /\ w'.con \in Nat /\ w'.c \in 1 .. NChunks + 1
        /\ w'.taken \in Seq(Nat \ {0}) /\ w'.a \in Nat /\ w'.k \in Nat
        /\ w'.ids \in PromptIds /\ w'.stage \in 0 .. 3 /\ w'.p \in Nat /\ w'.tries \in Nat
        /\ w'.err \in Errors
    BY <2>1, <2>2, <2>3, <2>4, <2>6, <2>7
  <2> QED BY <2>7, <2>8, WorkerMade
<1>5. PlaceOK'
  <2>1. \A i \in 1 .. w'.c - 1 : w'.taken[i] = db'.chunks[i].acc
    <3> SUFFICES ASSUME NEW i \in 1 .. w.c
                 PROVE  Append(w.taken, a)[i] = db'.chunks[i].acc
      BY <1>1, <1>2
    <3>1. CASE i = w.c BY <1>3, <3>1
    <3>2. CASE i # w.c
      <4>1. i \in 1 .. w.c - 1 /\ i \in Chunks BY <3>2, <1>1 DEF Chunks
      <4>2. w.taken[i] = db.chunks[i].acc BY <4>1 DEF IInv, PlaceOK
      <4> QED BY <4>1, <4>2, <1>3, <3>2
    <3> QED BY <3>1, <3>2
  <2> QED BY <2>1, <1>2
          DEF PlaceOK, ChunkSteps, LoopSteps, ActiveSteps, AttemptSteps, PromptSteps, EndSteps
<1>6. CleanOK' BY <1>2 DEF CleanOK, LoopSteps, ActiveSteps, PromptSteps
<1>7. SceneOK' BY <1>2 DEF IInv, SceneOK, RestSteps
<1>8. Len(w'.taken) = w'.c - 1 BY <1>1, <1>2, <1>3
<1> QED BY <1>2, <1>4, <1>5, <1>6, <1>7, <1>8, QuietKeeps

\* The worker has taken the accepted attempts of the chunks below its own.
LEMMA TakenAccepted ==
  ASSUME IInv, NEW c \in 1 .. w.c - 1
  PROVE  /\ c \in Chunks /\ w.taken[c] = db.chunks[c].acc /\ w.taken[c] \in Nat \ {0}
         /\ w.taken[c] \in DOMAIN db.atts[c] /\ w.taken[c] \in DOMAIN disk[c]
<1>1. /\ Len(w.taken) = w.c - 1 /\ w \in WorkerStates /\ w.c \in 1 .. NChunks + 1
      /\ w.taken \in Seq(Nat \ {0}) /\ db \in Tables
  BY Placed DEF WorkerStates
<1>2. c \in Chunks /\ w.taken[c] = db.chunks[c].acc /\ w.taken[c] \in Nat \ {0}
  BY <1>1, ChunkAssumption DEF Chunks, IInv, PlaceOK
<1>3. db.chunks[c].acc <= Len(db.atts[c]) BY <1>2 DEF IInv, StoreOK, RowsOK, Linked
<1>4. DOMAIN db.atts[c] = 1 .. Len(db.atts[c]) /\ Len(db.atts[c]) \in Nat
  BY <1>1, <1>2, DomainOfRows
<1>5. DOMAIN disk[c] = 1 .. Len(db.atts[c])
  BY <1>2 DEF IInv, ShapeOK, LengthsOK
<1> QED BY <1>2, <1>3, <1>4, <1>5

LEMMA NextChunkKeeps == ASSUME IInv, NextChunk PROVE IInv'
<1>0. /\ w.pc = "chunk" /\ w \in WorkerStates /\ w.c \in 1 .. NChunks + 1
      /\ UNCHANGED <<db, clip, prompts, comfy, contract, env>> /\ env \in EnvStates
      /\ w.pc \notin RestSteps \cup {"own"} /\ db.scene # "SUCCEEDED" /\ db \in Tables
      /\ Len(w.taken) = w.c - 1
  BY Placed DEF NextChunk, At, Quiet, IInv, ShapeOK, RestSteps, SceneOK, WorkerStates
<1>1. ASSUME UNCHANGED disk PROVE QuietStep
  BY <1>0, <1>1, QuietStutter
<1>2. ASSUME w.c \in Chunks, IF w.c = 1 THEN UNCHANGED disk ELSE ExtractFrame(w.c, FrameSource(w.c))
      PROVE  QuietStep
  <2>1. CASE w.c = 1 BY <1>1, <1>2, <2>1
  <2>2. CASE w.c # 1
    <3>1. w.c - 1 \in 1 .. w.c - 1 BY <1>0, <2>2
    <3>2. w.c - 1 \in Chunks /\ w.taken[w.c - 1] \in DOMAIN disk[w.c - 1]
      BY <3>1, TakenAccepted
    <3>3. disk' = [disk EXCEPT ![w.c - 1][w.taken[w.c - 1]] = @ \cup {"frame"}]
      BY <1>2, <2>2 DEF ExtractFrame, FrameSource
    <3>4. {"frame"} \in SUBSET (Kinds \ {"stage1", "stage2"}) BY DEF Kinds
    <3> QED BY <3>2, <3>3, <3>4, <1>0, FileAdded, QuietFile DEF IInv
  <2> QED BY <2>1, <2>2
<1>3. CASE Raise /\ UNCHANGED disk BY <1>0, <1>1, <1>3, RaiseOK
<1>4. CASE w.c > NChunks /\ Go("assemble") /\ UNCHANGED disk
  <2>0. w.c = NChunks + 1 BY <1>0, <1>4, ChunkAssumption
  <2>1. /\ w'.pc = "assemble" /\ w'.c = w.c /\ w'.taken = w.taken /\ w' \in WorkerStates
    BY <1>0, <1>4 DEF Go, WorkerStates, WorkerSteps, EndSteps
  <2>2. PlaceOK'
    BY <1>0, <2>0, <2>1
       DEF IInv, PlaceOK, ChunkSteps, LoopSteps, ActiveSteps, AttemptSteps, PromptSteps, EndSteps
  <2>3. CleanOK' BY <2>1 DEF CleanOK, LoopSteps, ActiveSteps, PromptSteps
  <2>4. SceneOK' BY <1>0, <2>1 DEF SceneOK
  <2> QED BY <1>0, <1>1, <1>4, <2>1, <2>2, <2>3, <2>4, QuietKeeps
<1>5. CASE /\ ~(w.c > NChunks)
           /\ IF w.c = 1 THEN UNCHANGED disk ELSE ExtractFrame(w.c, FrameSource(w.c))
           /\ CASE db.chunks[w.c].acc = 0 -> w' = [w EXCEPT !.pc = "recover",
                                                            !.k = Len(db.atts[w.c])]
                [] db.chunks[w.c].acc # 0 /\ AttemptValid(w.c, db.chunks[w.c].acc) ->
                     Take(db.chunks[w.c].acc)
                [] OTHER -> Go("invalidate")
  <2>0. w.c \in Chunks BY <1>0, <1>5, ChunkAssumption DEF Chunks
  <2>1. QuietStep BY <1>2, <1>5, <2>0
  <2>2. CASE /\ db.chunks[w.c].acc = 0
             /\ w' = [w EXCEPT !.pc = "recover", !.k = Len(db.atts[w.c])]
    <3>1. Len(db.atts[w.c]) \in Nat /\ DOMAIN db.atts[w.c] = 1 .. Len(db.atts[w.c])
      BY <1>0, <2>0, DomainOfRows
    <3>2. /\ w'.pc = "recover" /\ w'.c = w.c /\ w'.taken = w.taken
          /\ w'.k = Len(db.atts[w.c]) /\ w' \in WorkerStates
      BY <1>0, <2>2, <3>1 DEF WorkerStates, WorkerSteps, ChunkSteps
    <3>3. PlaceOK'
      BY <1>0, <2>0, <2>2, <3>1, <3>2
         DEF IInv, PlaceOK, ChunkSteps, LoopSteps, ActiveSteps, AttemptSteps, PromptSteps, EndSteps
    <3>4. CleanOK'
      BY <1>0, <3>1, <3>2 DEF CleanOK, LoopSteps, ActiveSteps, PromptSteps
    <3>5. SceneOK' BY <1>0, <3>2 DEF SceneOK
    <3> QED BY <1>0, <2>1, <3>2, <3>3, <3>4, <3>5, QuietKeeps
  <2>3. CASE db.chunks[w.c].acc # 0 /\ Take(db.chunks[w.c].acc)
    <3>1. db.chunks[w.c].acc \in Nat \ {0}
      BY <1>0, <2>0, <2>3, DomainOfRows DEF ChunkRows
    <3> QED BY <1>0, <2>0, <2>1, <2>3, <3>1, TakeOK
  <2>4. CASE Go("invalidate")
    <3>1. /\ w'.pc = "invalidate" /\ w'.c = w.c /\ w'.taken = w.taken /\ w' \in WorkerStates
      BY <1>0, <2>4 DEF Go, WorkerStates, WorkerSteps
    <3>2. PlaceOK'
      BY <1>0, <2>0, <3>1
         DEF IInv, PlaceOK, ChunkSteps, LoopSteps, ActiveSteps, AttemptSteps, PromptSteps, EndSteps
    <3>3. CleanOK' BY <3>1 DEF CleanOK, LoopSteps, ActiveSteps, PromptSteps
    <3>4. SceneOK' BY <1>0, <3>1 DEF SceneOK
    <3> QED BY <1>0, <2>1, <3>1, <3>2, <3>3, <3>4, QuietKeeps
  <2> QED BY <1>5, <2>2, <2>3, <2>4
<1> QED BY <1>3, <1>4, <1>5 DEF NextChunk

LEMMA InvalidateAcceptedKeeps == ASSUME IInv, InvalidateAccepted PROVE IInv'
<1>0. /\ w.pc = "invalidate" /\ w \in WorkerStates /\ w.c \in Chunks /\ db \in Tables
      /\ UNCHANGED <<disk, clip, prompts, comfy, contract, env>> /\ StoreOK(db)
      /\ w.pc \notin RestSteps \cup {"own"} /\ db.scene # "SUCCEEDED"
      /\ Len(w.taken) = w.c - 1
  BY Placed DEF InvalidateAccepted, At, Quiet, IInv, PlaceOK, RestSteps, SceneOK
<1>1. CASE Escape /\ UNCHANGED db
  BY <1>0, <1>1, EscapeOK, QuietStutter DEF Escape, RestSteps
<1>2. CASE db' = InvalidateFrom(db, w.c) /\ Go("loop")
  <2>1. Invalidated(db, db', w.c) BY <1>0, <1>2, InvalidateDoes
  <2>2. StoreOK(db') BY <1>0, <2>1, InvalidateKeeps
  <2>3. \A c \in Chunks : /\ DOMAIN db.atts[c] = 1 .. Len(db.atts[c])
                          /\ DOMAIN db'.atts[c] = 1 .. Len(db'.atts[c])
                          /\ Len(db'.atts[c]) = Len(db.atts[c])
    <3>1. db' \in Tables BY <2>2 DEF StoreOK
    <3> QED BY <1>0, <2>1, <3>1, DomainOfRows DEF Invalidated
  <2>4. QuietStep
    BY <1>0, <2>1, <2>2, <2>3, PromptsStay, DiskStays
       DEF IInv, ShapeOK, LengthsOK, QuietStep, IdsKept, Invalidated
  <2>5. /\ w'.pc = "loop" /\ w'.c = w.c /\ w'.taken = w.taken /\ w' \in WorkerStates
    BY <1>0, <1>2 DEF Go, WorkerStates, WorkerSteps, ChunkSteps, LoopSteps
  <2>6. PlaceOK'
    <3>1. w.c \in Nat /\ db'.chunks[w.c].acc = 0 BY <1>0, <2>1 DEF Invalidated, Chunks
    <3>2. \A c \in 1 .. w.c - 1 : c \in Chunks /\ c < w.c
      BY <1>0, <3>1, ChunkAssumption DEF Chunks
    <3>3. \A c \in 1 .. w.c - 1 : w'.taken[c] = db'.chunks[c].acc
      BY <2>1, <2>5, <3>2 DEF Invalidated, IInv, PlaceOK
    <3> QED BY <1>0, <2>5, <3>1, <3>3
            DEF PlaceOK, ChunkSteps, LoopSteps, ActiveSteps, AttemptSteps, PromptSteps, EndSteps
  <2>7. CleanOK'
    <3>1. \A a \in DOMAIN db'.atts[w.c] : db'.atts[w.c][a].state \in Voided
      <4>1. w.c >= w.c BY <1>0 DEF Chunks
      <4> QED BY <1>0, <2>1, <2>3, <4>1 DEF Invalidated
    <3> QED BY <2>5, <3>1 DEF CleanOK, Complete1, ActiveSteps, PromptSteps, Voided
  <2>8. SceneOK' BY <1>0, <2>1, <2>5 DEF SceneOK, Invalidated
  <2> QED BY <1>0, <2>4, <2>5, <2>6, <2>7, <2>8, QuietKeeps
<1> QED BY <1>1, <1>2 DEF InvalidateAccepted

\* An update of the worker's own attempt, or of another one, that leaves its prompt ids.
LEMMA QuietUpdate ==
  ASSUME IInv, NEW c \in Chunks, NEW a \in DOMAIN db.atts[c], NEW state \in AttemptStates,
         ~UpdateRefused(db, c, a, state, db.atts[c][a].ids),
         db' = UpdateAttempt(db, c, a, state, db.atts[c][a].ids),
         UNCHANGED <<clip, comfy, contract, env>>, PromptsShrink,
         disk' \in [Chunks -> Seq(SUBSET Kinds)], FilesEarned,
         \A i \in Chunks : Len(disk'[i]) = Len(disk[i])
  PROVE  QuietStep /\ Updated(db, db', c, a, state, db.atts[c][a].ids)
<1>0. StoreOK(db) /\ db \in Tables /\ db.atts[c][a] \in Attempts
  BY DomainOfRows DEF IInv, StoreOK
<1>1. db.atts[c][a].ids \in PromptIds BY <1>0 DEF Attempts
<1>2. Updated(db, db', c, a, state, db.atts[c][a].ids) BY <1>0, <1>1, UpdateDoes
<1>3. StoreOK(db') BY <1>0, <1>1, <1>2, UpdateKeeps
<1>4. \A i \in Chunks : /\ DOMAIN db.atts[i] = 1 .. Len(db.atts[i])
                        /\ DOMAIN db'.atts[i] = 1 .. Len(db'.atts[i])
                        /\ Len(db'.atts[i]) = Len(db.atts[i])
  <2>1. db \in Tables BY <1>0 DEF IInv, StoreOK
  <2> QED BY <1>2, <2>1, UpdatedDomain
<1>5. db'.atts[c][a].ids = db.atts[c][a].ids BY <1>0, <1>2 DEF Updated, Attempts
<1>6. ASSUME NEW i \in Chunks, NEW b \in DOMAIN db.atts[i]
      PROVE  db'.atts[i][b].ids = db.atts[i][b].ids
  <2>1. CASE i # c
    <3>1. db'.atts[i] = db.atts[i] BY <1>2, <2>1 DEF Updated
    <3> QED BY <3>1
  <2>2. CASE i = c /\ b # a
    <3>1. db'.atts[i][b] = db.atts[i][b] BY <1>2, <2>2 DEF Updated
    <3> QED BY <3>1
  <2>3. CASE i = c /\ b = a BY <1>5, <2>3
  <2> QED BY <2>1, <2>2, <2>3
<1>7. IdsKept BY <1>4, <1>6 DEF IdsKept
<1>8. \A i \in Chunks : Len(disk'[i]) = Len(db'.atts[i])
  BY <1>4 DEF IInv, LengthsOK
<1>9. /\ clip' \in [file : Seq(Nat), doc : Seq(Nat)]
      /\ env' \in EnvStates /\ env'.gui = env.gui /\ env'.lost = env.lost
  BY DEF IInv, ShapeOK
<1>10. db'.scene = db.scene BY <1>2 DEF Updated
<1>11. \A i \in Chunks : \A b \in DOMAIN db'.atts[i] :
         b \in DOMAIN db.atts[i] /\ db'.atts[i][b].ids = db.atts[i][b].ids
  BY <1>4, <1>6
<1> QED BY <1>2, <1>3, <1>7, <1>8, <1>9, <1>10, <1>11 DEF QuietStep

LEMMA QuietUpdateOnly ==
  ASSUME IInv, NEW c \in Chunks, NEW a \in DOMAIN db.atts[c], NEW state \in AttemptStates,
         ~UpdateRefused(db, c, a, state, db.atts[c][a].ids),
         db' = UpdateAttempt(db, c, a, state, db.atts[c][a].ids),
         UNCHANGED <<disk, clip, prompts, comfy, contract, env>>
  PROVE  QuietStep /\ Updated(db, db', c, a, state, db.atts[c][a].ids)
BY QuietUpdate, PromptsStay, DiskStays DEF IInv, ShapeOK

LEMMA RecoverCompleteKeeps == ASSUME IInv, RecoverComplete PROVE IInv'
<1> DEFINE done == {a \in 1 .. w.k : Complete1(w.c, a)}
           a == Highest(done)
<1>0. /\ w.pc = "recover" /\ w \in WorkerStates /\ w.c \in Chunks /\ db \in Tables
      /\ db.chunks[w.c].acc = 0 /\ w.k <= Len(db.atts[w.c]) /\ w.k \in Nat
      /\ UNCHANGED <<disk, clip, prompts, comfy, contract, env>> /\ StoreOK(db)
      /\ w.pc \notin RestSteps \cup {"own"} /\ db.scene # "SUCCEEDED"
      /\ Len(w.taken) = w.c - 1
  <2>1. w.pc = "recover" /\ UNCHANGED <<disk, clip, prompts, comfy, contract, env>>
    BY DEF RecoverComplete, At, Quiet
  <2>2. w \in WorkerStates /\ db \in Tables /\ Len(w.taken) = w.c - 1 BY Placed
  <2>3. w.c \in Chunks /\ db.chunks[w.c].acc = 0 /\ w.k <= Len(db.atts[w.c])
    BY <2>1 DEF IInv, PlaceOK, ChunkSteps
  <2>4. db.scene # "SUCCEEDED" /\ StoreOK(db) BY <2>1 DEF IInv, SceneOK, RestSteps
  <2>5. w.k \in Nat BY <2>2 DEF WorkerStates
  <2> QED BY <2>1, <2>2, <2>3, <2>4, <2>5 DEF RestSteps
<1>1. DOMAIN db.atts[w.c] = 1 .. Len(db.atts[w.c]) /\ Len(db.atts[w.c]) \in Nat
  BY <1>0, DomainOfRows
<1>2. \/ db.scene = "CANCELLED"
      \/ \A b \in DOMAIN db.atts[w.c] : Complete1(w.c, b) => b <= w.k
  BY <1>0 DEF IInv, CleanOK
<1>3. CASE done = {}
  <2>1. Go("loop") /\ UNCHANGED db
    BY <1>3 DEF RecoverComplete, Complete1
  <2>2. /\ w'.pc = "loop" /\ w'.c = w.c /\ w'.taken = w.taken /\ w' \in WorkerStates
    BY <1>0, <2>1 DEF Go, WorkerStates, WorkerSteps, ChunkSteps, LoopSteps
  <2>3. PlaceOK'
    BY <1>0, <2>1, <2>2
       DEF IInv, PlaceOK, ChunkSteps, LoopSteps, ActiveSteps, AttemptSteps, PromptSteps, EndSteps
  <2>4. CleanOK'
    <3>1. db.scene = "CANCELLED" \/ \A b \in DOMAIN db.atts[w.c] : ~Complete1(w.c, b)
      BY <1>0, <1>1, <1>2, <1>3
    <3> QED BY <2>1, <2>2, <3>1 DEF CleanOK, Complete1, LoopSteps, ActiveSteps, PromptSteps
  <2>5. SceneOK' BY <1>0, <2>1, <2>2 DEF SceneOK
  <2>6. QuietStep BY <1>0, <2>1, QuietStutter
  <2> QED BY <1>0, <2>2, <2>3, <2>4, <2>5, <2>6, QuietKeeps
<1>4. CASE done # {}
  <2>1. a \in done /\ \A b \in done : b <= a
    <3>1. done \in SUBSET (0 .. w.k) BY <1>0
    <3> HIDE DEF done
    <3> QED BY <1>0, <1>4, <3>1, HighestIsGreatest
  <2>2. a \in DOMAIN db.atts[w.c] /\ a \in Nat \ {0} /\ Complete1(w.c, a) /\ a <= w.k
    BY <1>0, <1>1, <2>1
  <2>3. db.atts[w.c][a] \in Attempts BY <1>0, <2>2, DomainOfRows
  <2>4. \/ Escape /\ UNCHANGED db
        \/ ~SelectRefused(db, w.c, a) /\ db' = SelectAttempt(db, w.c, a) /\ Take(a)
        \/ /\ w' = [w EXCEPT !.k = a - 1]
           /\ LET ids == db.atts[w.c][a].ids
              IN db' = IF UpdateRefused(db, w.c, a, "INVALIDATED", ids) THEN db
                       ELSE UpdateAttempt(db, w.c, a, "INVALIDATED", ids)
    BY <1>4 DEF RecoverComplete, Complete1
  <2> HIDE DEF a, done
  <2>5. CASE Escape /\ UNCHANGED db
    BY <1>0, <2>5, EscapeOK, QuietStutter DEF Escape, RestSteps
  <2>6. CASE ~SelectRefused(db, w.c, a) /\ db' = SelectAttempt(db, w.c, a) /\ Take(a)
    <3>1. Selected(db, db', w.c, a) BY <1>0, <2>2, <2>6, SelectDoes
    <3>2. StoreOK(db') BY <1>0, <2>2, <2>6, <3>1, SelectKeeps
    <3>3. QuietStep
      BY <1>0, <3>1, <3>2, PromptsStay, DiskStays
         DEF IInv, ShapeOK, LengthsOK, QuietStep, IdsKept, Selected
    <3>4. /\ db'.chunks[w.c].acc = a /\ db'.scene = db.scene
          /\ \A i \in Chunks : i # w.c => db'.chunks[i].acc = db.chunks[i].acc
      BY <1>0, <3>1 DEF Selected
    <3> QED BY <1>0, <2>2, <2>6, <3>3, <3>4, TakeOK
  <2>7. CASE /\ w' = [w EXCEPT !.k = a - 1]
             /\ LET ids == db.atts[w.c][a].ids
                IN db' = IF UpdateRefused(db, w.c, a, "INVALIDATED", ids) THEN db
                         ELSE UpdateAttempt(db, w.c, a, "INVALIDATED", ids)
    <3>0. /\ w'.pc = "recover" /\ w'.c = w.c /\ w'.taken = w.taken /\ w'.k = a - 1
          /\ w' \in WorkerStates
      <4>1. a - 1 \in Nat BY <2>2
      <4> QED BY <1>0, <2>7, <4>1 DEF WorkerStates
    <3>1. CASE UNCHANGED db /\ db.scene = "CANCELLED"
      <4>1. PlaceOK'
        BY <1>0, <1>1, <2>2, <3>0, <3>1
           DEF IInv, PlaceOK, ChunkSteps, LoopSteps, ActiveSteps, AttemptSteps, PromptSteps,
               EndSteps
      <4>2. CleanOK' /\ SceneOK' BY <3>0, <3>1 DEF CleanOK, SceneOK
      <4> QED BY <1>0, <3>0, <3>1, <4>1, <4>2, QuietStutter, QuietKeeps
    <3>2. CASE ~UpdateRefused(db, w.c, a, "INVALIDATED", db.atts[w.c][a].ids)
      <4>1. db' = UpdateAttempt(db, w.c, a, "INVALIDATED", db.atts[w.c][a].ids)
        BY <2>7, <3>2
      <4>2. "INVALIDATED" \in AttemptStates BY DEF AttemptStates, FinalStates, Voided
      <4>3. QuietStep /\ Updated(db, db', w.c, a, "INVALIDATED", db.atts[w.c][a].ids)
        BY <1>0, <2>2, <3>2, <4>1, <4>2, QuietUpdateOnly
      <4>4. DOMAIN db'.atts[w.c] = DOMAIN db.atts[w.c] /\ Len(db'.atts[w.c]) = Len(db.atts[w.c])
        <5>1. db \in Tables /\ w.c \in Chunks BY <1>0, <1>1
        <5> QED BY <4>3, <5>1, UpdatedDomain
      <4>5. \A i \in Chunks : db'.chunks[i].acc = db.chunks[i].acc BY <4>3 DEF Updated
      <4>6. \A i \in 1 .. w.c - 1 : i \in Chunks BY TakenAccepted
      <4>7. PlaceOK'
        BY <1>0, <1>1, <2>2, <3>0, <4>4, <4>5, <4>6
           DEF IInv, PlaceOK, ChunkSteps, LoopSteps, ActiveSteps, AttemptSteps, PromptSteps,
               EndSteps
      <4>8. CleanOK'
        <5> SUFFICES ASSUME db.scene # "CANCELLED", NEW b \in DOMAIN db.atts[w.c],
                            db'.atts[w.c][b].state = "COMPLETE"
                     PROVE  b <= a - 1
          BY <3>0, <4>3, <4>4 DEF CleanOK, Complete1, Updated, LoopSteps, ActiveSteps, PromptSteps
        <5>1. b # a BY <2>2, <2>3, <4>3 DEF Updated, Attempts
        <5>2. Complete1(w.c, b) BY <5>1, <4>3 DEF Updated, Complete1
        <5>3. b <= w.k BY <1>2, <5>2
        <5>4. b \in done BY <1>0, <1>1, <5>2, <5>3 DEF done
        <5> QED BY <1>1, <2>1, <2>2, <5>1, <5>4
      <4>9. SceneOK' BY <1>0, <3>0, <4>3 DEF SceneOK, Updated
      <4> QED BY <1>0, <3>0, <4>3, <4>7, <4>8, <4>9, QuietKeeps
    <3>3. CASE UpdateRefused(db, w.c, a, "INVALIDATED", db.atts[w.c][a].ids)
      <4>1. db.scene = "CANCELLED"
        BY <1>0, <2>2, <3>3 DEF UpdateRefused, WorkIsActive, Voided
      <4>2. UNCHANGED db
        BY <2>7, <3>3
      <4> QED BY <3>1, <4>1, <4>2
    <3> QED BY <3>2, <3>3
  <2> QED BY <2>4, <2>5, <2>6, <2>7
<1> QED BY <1>3, <1>4

\* The expected predecessor is the accepted one.
LEMMA ExpectedIsUpstream ==
  ASSUME IInv, w.c \in Chunks PROVE ExpectedUp = Upstream(db, w.c)
<1>1. w.c # 1 => w.c - 1 \in 1 .. w.c - 1 BY DEF Chunks
<1>2. w.c # 1 => w.taken[w.c - 1] = db.chunks[w.c - 1].acc BY <1>1, TakenAccepted
<1> QED BY <1>2 DEF ExpectedUp, Upstream

\* A new attempt gets an empty directory.
LEMMA DirectoryAdded ==
  ASSUME ShapeOK, NEW c \in Chunks, disk' = [disk EXCEPT ![c] = Append(@, {})]
  PROVE  /\ disk' \in [Chunks -> Seq(SUBSET Kinds)] /\ FilesEarned
         /\ \A i \in Chunks : i # c => disk'[i] = disk[i]
         /\ Len(disk'[c]) = Len(disk[c]) + 1
<1>1. disk[c] \in Seq(SUBSET Kinds) /\ disk \in [Chunks -> Seq(SUBSET Kinds)] BY DEF ShapeOK
<1> DEFINE t == Append(disk[c], {})
<1>2. /\ t \in Seq(SUBSET Kinds) /\ Len(t) = Len(disk[c]) + 1
      /\ \A a \in DOMAIN t : (a \in DOMAIN disk[c] /\ t[a] = disk[c][a]) \/ t[a] = {}
  BY <1>1
<1>3. disk' = [disk EXCEPT ![c] = t] OBVIOUS
<1> HIDE DEF t
<1>4. disk'[c] = t /\ \A i \in Chunks : i # c => disk'[i] = disk[i] BY <1>1, <1>3
<1>5. FilesEarned BY <1>2, <1>4 DEF FilesEarned
<1> QED BY <1>1, <1>2, <1>3, <1>4, <1>5

\* The worker comes to the first step of an attempt in execution.
LEMMA Stage1OK ==
  ASSUME IInv, QuietStep, w.pc = "loop", NEW a \in Nat, a \in DOMAIN db'.atts[w.c],
         db'.atts[w.c][a].state \in Active, db'.scene = db.scene, db.scene # "CANCELLED",
         \A c \in Chunks : db'.chunks[c].acc = db.chunks[c].acc,
         w' = [w EXCEPT !.pc = "stage1", !.a = a, !.p = 0, !.stage = 0, !.k = 0,
                        !.ids = db'.atts[w.c][a].ids]
  PROVE  IInv'
<1>0. w \in WorkerStates /\ w.c \in Chunks /\ db.chunks[w.c].acc = 0 /\ Len(w.taken) = w.c - 1
      /\ db' \in Tables /\ db.scene # "SUCCEEDED"
  BY Placed DEF ChunkSteps, LoopSteps, QuietStep, StoreOK, IInv, SceneOK, RestSteps
<1>1. db'.atts[w.c][a].ids \in PromptIds
  <2>1. db'.atts[w.c][a] \in Attempts BY <1>0, DomainOfRows
  <2> QED BY <2>1 DEF Attempts
<1>2. /\ w'.pc = "stage1" /\ w'.c = w.c /\ w'.taken = w.taken /\ w'.a = a
      /\ w'.ids = db'.atts[w.c][a].ids /\ w' \in WorkerStates
  <2>1. "stage1" \in WorkerSteps BY DEF WorkerSteps, ChunkSteps, LoopSteps, ActiveSteps
  <2>2. w' = [pc |-> "stage1", con |-> w.con, c |-> w.c, taken |-> w.taken, a |-> a,
              k |-> 0, ids |-> db'.atts[w.c][a].ids, stage |-> 0, p |-> 0,
              tries |-> w.tries, err |-> w.err]
    BY <1>0 DEF WorkerStates
  <2>3. /\ w'.pc = "stage1" /\ w'.con = w.con /\ w'.c = w.c /\ w'.taken = w.taken /\ w'.a = a
        /\ w'.k = 0 /\ w'.ids = db'.atts[w.c][a].ids /\ w'.stage = 0 /\ w'.p = 0
        /\ w'.tries = w.tries /\ w'.err = w.err
        /\ w' = [pc |-> w'.pc, con |-> w'.con, c |-> w'.c, taken |-> w'.taken, a |-> w'.a,
                 k |-> w'.k, ids |-> w'.ids, stage |-> w'.stage, p |-> w'.p,
                 tries |-> w'.tries, err |-> w'.err]
    BY <2>2
  <2>4. /\ w.con \in Nat /\ w.c \in 1 .. NChunks + 1 /\ w.taken \in Seq(Nat \ {0})
        /\ w.tries \in Nat /\ w.err \in Errors
    BY <1>0, WorkerParts
  <2>5. w' \in WorkerStates BY <1>1, <2>1, <2>3, <2>4, WorkerMade
  <2> QED BY <2>3, <2>5
<1>3. \A c \in 1 .. w.c - 1 : c \in Chunks BY TakenAccepted
<1>4. PlaceOK'
  BY <1>0, <1>2, <1>3
     DEF IInv, PlaceOK, ChunkSteps, LoopSteps, ActiveSteps, AttemptSteps, PromptSteps, EndSteps
<1>5. CleanOK'
  <2>1. db'.atts[w.c][a].state # "COMPLETE" BY DEF Active
  <2>2. a \in ActiveAttempts(db', w.c) BY DEF ActiveAttempts
  <2>3. \A b \in DOMAIN db'.atts[w.c] : db'.atts[w.c][b].state # "COMPLETE"
    BY <1>0, <2>2 DEF QuietStep, StoreOK, RowsOK, Unrivalled
  <2> QED BY <1>2, <2>3 DEF CleanOK, Complete1
<1>6. SceneOK' BY <1>0, <1>2 DEF SceneOK
<1> QED BY <1>0, <1>2, <1>4, <1>5, <1>6, QuietKeeps

LEMMA BeginOrResumeKeeps == ASSUME IInv, BeginOrResume PROVE IInv'
<1>0. /\ w.pc = "loop" /\ w \in WorkerStates /\ w.c \in Chunks /\ db \in Tables
      /\ db.chunks[w.c].acc = 0 /\ Len(w.taken) = w.c - 1 /\ StoreOK(db)
      /\ UNCHANGED <<clip, prompts, comfy, contract, env>>
      /\ w.pc \notin RestSteps \cup {"own"} /\ db.scene # "SUCCEEDED"
  BY Placed DEF BeginOrResume, At, Quiet, IInv, RestSteps, SceneOK, ChunkSteps, LoopSteps
<1>1. DOMAIN db.atts[w.c] = 1 .. Len(db.atts[w.c]) /\ Len(db.atts[w.c]) \in Nat
  BY <1>0, DomainOfRows
<1>2. CASE Raise /\ UNCHANGED <<db, disk>> BY <1>0, <1>2, RaiseOK, QuietStutter
<1>3. CASE /\ Mismatched # {} /\ w' = [w EXCEPT !.pc = "discard", !.a = Highest(Mismatched)]
           /\ UNCHANGED <<db, disk>>
  <2> DEFINE a == Highest(Mismatched)
  <2>1. a \in DOMAIN db.atts[w.c] /\ a \in Nat
    <3>1. Mismatched \in SUBSET (0 .. Len(db.atts[w.c]))
      BY <1>1 DEF Mismatched, ActiveAttempts
    <3>2. a \in Mismatched BY <1>1, <1>3, <3>1, HighestIsGreatest
    <3>3. a \in ActiveAttempts(db, w.c) BY <3>2 DEF Mismatched
    <3>4. a \in DOMAIN db.atts[w.c] BY <3>3 DEF ActiveAttempts
    <3> QED BY <1>1, <3>4
  <2> HIDE DEF a
  <2>2. /\ w'.pc = "discard" /\ w'.c = w.c /\ w'.taken = w.taken /\ w'.a = a
        /\ w' \in WorkerStates
    BY <1>0, <1>3, <2>1 DEF WorkerStates, WorkerSteps, ChunkSteps, LoopSteps, a
  <2>3. PlaceOK'
    BY <1>0, <1>3, <2>1, <2>2
       DEF IInv, PlaceOK, ChunkSteps, LoopSteps, ActiveSteps, AttemptSteps, PromptSteps, EndSteps
  <2>4. CleanOK'
    BY <1>0, <1>3, <2>2 DEF IInv, CleanOK, Complete1, LoopSteps, ActiveSteps, PromptSteps
  <2>5. SceneOK' BY <1>0, <1>3, <2>2 DEF SceneOK
  <2> QED BY <1>0, <1>3, <2>2, <2>3, <2>4, <2>5, QuietStutter, QuietKeeps
<1>4. CASE LET d == BeginAttempt(db, w.c, w.con)
               a == Highest(ActiveAttempts(d, w.c))
           IN /\ ~BudgetSpent /\ ~BeginRefused(db, w.c, w.con, ExpectedUp)
              /\ db' = d
              /\ disk' = IF d = db THEN disk ELSE [disk EXCEPT ![w.c] = Append(@, {})]
              /\ w' = [w EXCEPT !.pc = "stage1", !.a = a, !.p = 0, !.stage = 0,
                                !.k = 0, !.ids = d.atts[w.c][a].ids]
  <2>0. db.scene # "CANCELLED" /\ w.con \in Nat
    BY <1>0, <1>4 DEF BeginRefused, WorkIsActive, WorkerStates
  <2>1. CASE ActiveAttempts(db, w.c) # {}
    <3>1. db' = db /\ disk' = disk BY <1>4, <2>1 DEF BeginAttempt
    <3>2. PICK a \in ActiveAttempts(db, w.c) : TRUE BY <2>1
    <3>3. a \in DOMAIN db.atts[w.c] /\ db.atts[w.c][a].state \in Active /\ a \in Nat
          /\ ActiveAttempts(db, w.c) = {a}
      BY <1>0, <1>1, <3>2 DEF ActiveAttempts, StoreOK, RowsOK, Alone
    <3>4. w' = [w EXCEPT !.pc = "stage1", !.a = a, !.p = 0, !.stage = 0, !.k = 0,
                         !.ids = db'.atts[w.c][a].ids]
      BY <1>4, <3>1, <3>3, HighestOfOne
    <3>5. QuietStep BY <1>0, <3>1, QuietStutter
    <3>6. \A c \in Chunks : db'.chunks[c].acc = db.chunks[c].acc BY <3>1
    <3> QED BY <1>0, <2>0, <3>1, <3>3, <3>4, <3>5, <3>6, Stage1OK
  <2>2. CASE ActiveAttempts(db, w.c) = {}
    <3> DEFINE a == Len(db.atts[w.c]) + 1
    <3>1. Begun(db, db', w.c, w.con) BY <1>0, <1>4, <2>0, <2>2, BeginDoes
    <3>2. Cardinality(Spent(db, w.c, w.con, Upstream(db, w.c))) < MaxAttempts
      <4>1. Budget(w.c, w.con, ExpectedUp) = Spent(db, w.c, w.con, Upstream(db, w.c))
        BY <1>0, ExpectedIsUpstream DEF Budget, Spent
      <4>2. ~(Cardinality(Budget(w.c, w.con, ExpectedUp)) >= MaxAttempts)
        BY <1>4, <2>2 DEF BudgetSpent
      <4>3. Cardinality(Spent(db, w.c, w.con, Upstream(db, w.c))) \in Nat
        <5>1. IsFiniteSet(DOMAIN db.atts[w.c]) BY <1>1, UpToIsFinite
        <5> QED BY <5>1, FS_Subset, FS_CardinalityType DEF Spent
      <4> QED BY <4>1, <4>2, <4>3, ChunkAssumption
    <3>3. \A b \in DOMAIN db.atts[w.c] : db.atts[w.c][b].state # "COMPLETE"
      BY <1>0, <2>0 DEF IInv, CleanOK, Complete1, LoopSteps
    <3>4. ~BeginRefused(db, w.c, w.con, ExpectedUp) BY <1>4
    <3>5. StoreOK(db') /\ ActiveAttempts(db', w.c) = {a}
      BY <1>0, <2>0, <2>2, <3>1, <3>2, <3>3, <3>4, BeginKeeps
    <3>6. /\ a \in Nat /\ a \in DOMAIN db'.atts[w.c] /\ db'.atts[w.c][a].state \in Active
          /\ db' # db /\ Len(db'.atts[w.c]) = a
      <4>1. db.atts[w.c] \in Seq(Attempts) BY <1>0, DomainOfRows
      <4>2. db'.atts[w.c] = Append(db.atts[w.c], NewAttempt(db, w.c, w.con))
        BY <3>1 DEF Begun
      <4>3. Len(db'.atts[w.c]) = a BY <4>1, <4>2
      <4>4. a \in ActiveAttempts(db', w.c) BY <3>5
      <4> QED BY <1>1, <4>3, <4>4 DEF ActiveAttempts
    <3>7. /\ db'.atts[w.c][a].ids = NoPrompts
          /\ \A b \in DOMAIN db'.atts[w.c] : b = a \/ b \in DOMAIN db.atts[w.c]
          /\ \A b \in DOMAIN db.atts[w.c] : /\ b \in DOMAIN db'.atts[w.c]
                                            /\ db'.atts[w.c][b] = db.atts[w.c][b]
      <4>1. db.atts[w.c] \in Seq(Attempts) BY <1>0, DomainOfRows
      <4>2. db'.atts[w.c] = Append(db.atts[w.c], NewAttempt(db, w.c, w.con))
        BY <3>1 DEF Begun
      <4>3. db'.atts[w.c][a].ids = NoPrompts BY <4>1, <4>2, <1>1 DEF NewAttempt
      <4>4. DOMAIN db'.atts[w.c] = 1 .. a BY <4>1, <4>2, <1>1
      <4>5. \A b \in DOMAIN db.atts[w.c] : db'.atts[w.c][b] = db.atts[w.c][b]
        BY <4>1, <4>2, <1>1
      <4>6. \A b \in DOMAIN db'.atts[w.c] : b = a \/ b \in DOMAIN db.atts[w.c]
        BY <4>4, <1>1
      <4>7. \A b \in DOMAIN db.atts[w.c] : b \in DOMAIN db'.atts[w.c]
        BY <4>4, <1>1
      <4> QED BY <4>3, <4>5, <4>6, <4>7
    <3>8. disk' = [disk EXCEPT ![w.c] = Append(@, {})]
      BY <1>4, <3>6
    <3>9. /\ disk' \in [Chunks -> Seq(SUBSET Kinds)] /\ FilesEarned
          /\ \A i \in Chunks : i # w.c => disk'[i] = disk[i]
          /\ Len(disk'[w.c]) = Len(disk[w.c]) + 1
      BY <1>0, <3>8, DirectoryAdded DEF IInv
    <3>10. db'.scene = db.scene /\ \A c \in Chunks : db'.chunks[c].acc = db.chunks[c].acc
      BY <3>1 DEF Begun
    <3>11. \A i \in Chunks : i # w.c => db'.atts[i] = db.atts[i] BY <3>1 DEF Begun
    <3>12. IdsKept
      <4> SUFFICES ASSUME NEW i \in Chunks, NEW b \in DOMAIN db.atts[i]
                   PROVE  b \in DOMAIN db'.atts[i] /\ db'.atts[i][b].ids = db.atts[i][b].ids
        BY DEF IdsKept
      <4> QED BY <3>7, <3>11
    <3>13. \A i \in Chunks :
             /\ Len(disk'[i]) = Len(db'.atts[i])
             /\ \A b \in DOMAIN db'.atts[i] :
                  \/ b \in DOMAIN db.atts[i] /\ db'.atts[i][b].ids = db.atts[i][b].ids
                  \/ db'.atts[i][b].ids = NoPrompts
      BY <1>0, <3>6, <3>7, <3>9, <3>11 DEF IInv, LengthsOK
    <3>14. QuietStep
      BY <1>0, <3>5, <3>9, <3>10, <3>12, <3>13, PromptsStay DEF IInv, ShapeOK, QuietStep
    <3>15. w' = [w EXCEPT !.pc = "stage1", !.a = a, !.p = 0, !.stage = 0, !.k = 0,
                          !.ids = db'.atts[w.c][a].ids]
      BY <1>4, <3>5, <3>6, HighestOfOne
    <3> HIDE DEF a
    <3> QED BY <1>0, <2>0, <3>6, <3>10, <3>14, <3>15, Stage1OK
  <2> QED BY <2>1, <2>2
<1> QED BY <1>2, <1>3, <1>4 DEF BeginOrResume

LEMMA CancelPromptsShrinks ==
  ASSUME ShapeOK, NEW ids, prompts' = CancelPrompts(ids)
  PROVE  PromptsShrink /\ \A p \in DOMAIN prompts : comfy /\ p \in ids => ~Live(p)'
<1>1. prompts \in Seq(PromptRows) /\ DOMAIN prompts = 1 .. Len(prompts) BY DEF ShapeOK
<1>2. CASE ~comfy BY <1>2, PromptsStay DEF CancelPrompts
<1>3. CASE comfy
  <2> DEFINE row(p) == IF p \in ids /\ Live(p) THEN [prompts[p] EXCEPT !.st = "gone"]
                       ELSE prompts[p]
  <2>1. prompts' = [p \in DOMAIN prompts |-> row(p)] BY <1>3 DEF CancelPrompts
  <2>2. \A p \in DOMAIN prompts :
          /\ row(p) \in PromptRows
          /\ row(p).c = prompts[p].c /\ row(p).a = prompts[p].a /\ row(p).s = prompts[p].s
          /\ row(p).st \in {"queued", "saved"} => Live(p) /\ p \notin ids
    <3> SUFFICES ASSUME NEW p \in DOMAIN prompts
                 PROVE  /\ row(p) \in PromptRows
                        /\ row(p).c = prompts[p].c /\ row(p).a = prompts[p].a
                        /\ row(p).s = prompts[p].s
                        /\ row(p).st \in {"queued", "saved"} => Live(p) /\ p \notin ids
      OBVIOUS
    <3>1. prompts[p] \in PromptRows /\ "gone" \in PromptStates BY <1>1 DEF PromptStates
    <3>2. CASE p \in ids /\ Live(p) BY <3>1, <3>2 DEF PromptRows
    <3>3. CASE ~(p \in ids /\ Live(p)) BY <3>1, <3>3 DEF Live
    <3> QED BY <3>2, <3>3
  <2> HIDE DEF row
  <2>3. prompts' \in Seq(PromptRows) /\ Len(prompts') = Len(prompts)
    BY <1>1, <2>1, <2>2
  <2>4. \A p \in DOMAIN prompts : prompts'[p] = row(p) BY <2>1
  <2> QED BY <2>2, <2>3, <2>4 DEF PromptsShrink, Work, Live
<1> QED BY <1>2, <1>3

LEMMA DiscardMismatchedKeeps == ASSUME IInv, DiscardMismatched PROVE IInv'
<1> DEFINE ids == db.atts[w.c][w.a].ids
<1>0. /\ w.pc = "discard" /\ w \in WorkerStates /\ w.c \in Chunks /\ db \in Tables
      /\ db.chunks[w.c].acc = 0 /\ Len(w.taken) = w.c - 1 /\ w.a \in DOMAIN db.atts[w.c]
      /\ UNCHANGED <<disk, clip, comfy, contract, env>>
      /\ w.pc \notin RestSteps \cup {"own"} /\ db.scene # "SUCCEEDED"
  BY Placed DEF DiscardMismatched, At, Quiet, IInv, RestSteps, SceneOK, ChunkSteps, LoopSteps
<1>1. PromptsShrink BY CancelPromptsShrinks DEF DiscardMismatched, IInv
<1>2. CASE Escape /\ UNCHANGED db
  <2>1. QuietStep BY <1>0, <1>1, <1>2, DiskStays DEF QuietStep, IInv, ShapeOK, LengthsOK, IdsKept
  <2> QED BY <1>0, <1>2, <2>1, EscapeOK DEF Escape, RestSteps
<1>3. CASE /\ ~UpdateRefused(db, w.c, w.a, "INVALIDATED", ids)
           /\ db' = UpdateAttempt(db, w.c, w.a, "INVALIDATED", ids)
           /\ w' = [w EXCEPT !.pc = "loop", !.a = 0]
  <2>1. "INVALIDATED" \in AttemptStates BY DEF AttemptStates, FinalStates, Voided
  <2>2. QuietStep /\ Updated(db, db', w.c, w.a, "INVALIDATED", ids)
    BY <1>0, <1>1, <1>3, <2>1, DiskStays, QuietUpdate DEF IInv, ShapeOK
  <2>3. DOMAIN db'.atts[w.c] = DOMAIN db.atts[w.c]
    <3>1. db \in Tables /\ w.c \in Chunks BY <1>0
    <3> QED BY <2>2, <3>1, UpdatedDomain
  <2>4. /\ w'.pc = "loop" /\ w'.c = w.c /\ w'.taken = w.taken /\ w' \in WorkerStates
    BY <1>0, <1>3 DEF WorkerStates, WorkerSteps, ChunkSteps, LoopSteps
  <2>5. \A c \in 1 .. w.c - 1 : c \in Chunks BY TakenAccepted
  <2>6. PlaceOK'
    BY <1>0, <2>2, <2>4, <2>5
       DEF IInv, PlaceOK, ChunkSteps, LoopSteps, ActiveSteps, AttemptSteps, PromptSteps, EndSteps,
           Updated
  <2>7. CleanOK'
    <3>1. db'.atts[w.c][w.a].state = "INVALIDATED"
      <4>1. db.atts[w.c][w.a] \in Attempts BY <1>0, DomainOfRows
      <4> QED BY <2>2, <4>1 DEF Updated, Attempts
    <3>2. db.scene = "CANCELLED" \/ \A a \in DOMAIN db.atts[w.c] : ~Complete1(w.c, a)
      BY <1>0 DEF IInv, CleanOK, LoopSteps
    <3>3. db.scene = "CANCELLED" \/ \A a \in DOMAIN db'.atts[w.c] : db'.atts[w.c][a].state # "COMPLETE"
      BY <2>2, <2>3, <3>1, <3>2 DEF Complete1, Updated
    <3> QED BY <2>2, <2>4, <3>3 DEF CleanOK, Complete1, ActiveSteps, PromptSteps, Updated
  <2>8. SceneOK' BY <1>0, <2>2, <2>4 DEF SceneOK, Updated
  <2> QED BY <1>0, <2>2, <2>4, <2>6, <2>7, <2>8, QuietKeeps
<1> QED BY <1>2, <1>3 DEF DiscardMismatched

-----------------------------------------------------------------------------
(* The actions of the worker inside an attempt                                  *)

\* The worker goes on with its attempt, which runs on.
LEMMA ActiveOK ==
  ASSUME IInv, QuietStep, w.pc \in ActiveSteps \ {"own"},
         NEW state \in Active, UNCHANGED db \/ Updated(db, db', w.c, w.a, state, w.ids),
         w' \in WorkerStates, w'.pc \in ActiveSteps \ {"own"},
         w'.pc \in {"check", "post"} => w.pc \in {"check", "post"} /\ w'.stage = w.stage,
         w'.c = w.c, w'.taken = w.taken, w'.a = w.a, w'.ids = w.ids,
         w'.pc \in PromptSteps => w'.stage \in 1 .. 3
  PROVE  IInv'
<1>0. /\ w \in WorkerStates /\ w.c \in Chunks /\ db \in Tables /\ db.chunks[w.c].acc = 0
      /\ Len(w.taken) = w.c - 1 /\ w.a \in DOMAIN db.atts[w.c] /\ w.a \in DOMAIN disk[w.c]
      /\ db.atts[w.c][w.a] \in Attempts /\ w.ids = db.atts[w.c][w.a].ids
      /\ db.scene # "SUCCEEDED" /\ w.pc # "own"
  BY Placed
     DEF IInv, RestSteps, SceneOK, ChunkSteps, LoopSteps, AttemptSteps, ActiveSteps, PromptSteps
<1>1. db' \in Tables BY DEF QuietStep, StoreOK
<1>2. \A c \in 1 .. w.c - 1 : c \in Chunks BY TakenAccepted
<1>3. /\ db'.scene = db.scene /\ \A c \in Chunks : db'.chunks[c].acc = db.chunks[c].acc
      /\ DOMAIN db'.atts[w.c] = DOMAIN db.atts[w.c]
      /\ db'.atts[w.c][w.a].ids = w.ids
      /\ \A a \in DOMAIN db.atts[w.c] :
           \/ db'.atts[w.c][a].state = db.atts[w.c][a].state
           \/ (a = w.a /\ db'.atts[w.c][a].state \in Active)
  <2>1. CASE UNCHANGED db BY <1>0, <2>1
  <2>2. CASE Updated(db, db', w.c, w.a, state, w.ids)
    <3>1. DOMAIN db'.atts[w.c] = DOMAIN db.atts[w.c]
      BY <1>0, <2>2, UpdatedDomain
    <3>2. db'.atts[w.c][w.a].state = state /\ db'.atts[w.c][w.a].ids = w.ids
      BY <1>0, <2>2 DEF Updated, Attempts
    <3> QED BY <2>2, <3>1, <3>2 DEF Updated
  <2> QED BY <2>1, <2>2
<1>4. w'.pc \in ActiveSteps /\ w'.pc \in ChunkSteps /\ w'.pc \in AttemptSteps
      /\ w'.pc \in LoopSteps /\ w'.pc \notin EndSteps /\ w'.pc \notin RestSteps
      /\ w'.pc \notin {"invalidate", "recover", "select", "discard", "failed"}
      /\ w'.pc \notin {"manifest", "done"}
  BY DEF ChunkSteps, LoopSteps, ActiveSteps, AttemptSteps, PromptSteps, EndSteps, RestSteps
<1>5. PlaceOK'
  BY <1>0, <1>2, <1>3, <1>4 DEF IInv, PlaceOK
<1>6. CleanOK'
  <2> SUFFICES ASSUME db.scene # "CANCELLED"
               PROVE  /\ \A a \in DOMAIN db'.atts[w.c] : db'.atts[w.c][a].state # "COMPLETE"
                      /\ db'.atts[w.c][w.a].state \in Active
    BY <1>3, <1>4 DEF CleanOK, Complete1
  <2>1. /\ \A a \in DOMAIN db.atts[w.c] : db.atts[w.c][a].state # "COMPLETE"
        /\ db.atts[w.c][w.a].state \in Active
    BY DEF IInv, CleanOK, Complete1, LoopSteps
  <2>2. "COMPLETE" \notin Active BY DEF Active
  <2> QED BY <1>0, <1>3, <2>1, <2>2
<1>7. SceneOK' BY <1>0, <1>3, <1>4 DEF SceneOK
<1>8. HandsKept BY <1>0 DEF HandsKept, Turn
<1> QED BY <1>0, <1>5, <1>6, <1>7, <1>8, HandsKeep

\* What every action of an attempt finds.
LEMMA InAttempt ==
  ASSUME IInv, w.pc \in AttemptSteps
  PROVE  /\ w \in WorkerStates /\ w.c \in Chunks /\ w.a \in DOMAIN db.atts[w.c]
         /\ w.a \in DOMAIN disk[w.c] /\ w.ids = db.atts[w.c][w.a].ids /\ w.ids \in PromptIds
         /\ db.atts[w.c][w.a] \in Attempts
BY Placed

LEMMA RunGraphOK ==
  ASSUME IInv, w.pc \in ActiveSteps \ PromptSteps, NEW s \in 1 .. 3, RunGraph(s),
         UNCHANGED <<disk, clip, prompts, comfy, contract, env>>
  PROVE  IInv'
<1>0. /\ w \in WorkerStates /\ w.c \in Chunks /\ w.a \in DOMAIN db.atts[w.c]
      /\ w.ids = db.atts[w.c][w.a].ids /\ w.pc # "own" /\ w.pc \in ActiveSteps
  BY InAttempt DEF AttemptSteps, PromptSteps
<1>1. CASE Fail("other") /\ UNCHANGED db BY <1>0, <1>1, FailOK, QuietStutter DEF Errors
<1>2. CASE /\ ~UpdateRefused(db, w.c, w.a, Graph[s].attempt, w.ids)
           /\ db' = UpdateAttempt(db, w.c, w.a, Graph[s].attempt, w.ids)
           /\ w' = [w EXCEPT !.pc = "prompt", !.stage = s]
  <2>1. Graph[s].attempt \in Active
    <3>1. s = 1 \/ s = 2 \/ s = 3 OBVIOUS
    <3> QED BY <3>1 DEF Graph, Stage1Graph, Stage2Graph, DecodeGraph, Active
  <2>2. Graph[s].attempt \in AttemptStates BY <2>1 DEF AttemptStates
  <2>3. QuietStep /\ Updated(db, db', w.c, w.a, Graph[s].attempt, w.ids)
    BY <1>0, <1>2, <2>2, QuietUpdateOnly
  <2>4. "prompt" \in WorkerSteps /\ "prompt" \in ActiveSteps \ {"check", "post", "own"}
    BY DEF WorkerSteps, ChunkSteps, LoopSteps, ActiveSteps, PromptSteps
  <2>5. s \in 0 .. 3 OBVIOUS
  <2>6. /\ w' \in WorkerStates /\ w'.pc = "prompt" /\ w'.c = w.c /\ w'.taken = w.taken
        /\ w'.a = w.a /\ w'.ids = w.ids /\ w'.stage = s
    BY <1>0, <1>2, <2>4, <2>5 DEF WorkerStates
  <2> QED BY <1>0, <2>1, <2>3, <2>4, <2>6, ActiveOK
<1> QED BY <1>1, <1>2 DEF RunGraph

\* A commit of the running attempt, and of its end.
LEMMA CommitOK ==
  ASSUME IInv, w.pc \in ActiveSteps \ PromptSteps, NEW state \in Active,
         NEW next \in ActiveSteps \ PromptSteps, Commit(state, w.ids, next),
         UNCHANGED <<disk, clip, prompts, comfy, contract, env>>
  PROVE  IInv'
<1>0. /\ w \in WorkerStates /\ w.c \in Chunks /\ w.a \in DOMAIN db.atts[w.c]
      /\ w.ids = db.atts[w.c][w.a].ids /\ w.pc # "own" /\ w.pc \in ActiveSteps
      /\ w.ids \in PromptIds
  BY InAttempt DEF AttemptSteps, PromptSteps
<1>1. CASE Fail("other") /\ UNCHANGED db BY <1>0, <1>1, FailOK, QuietStutter DEF Errors
<1>2. CASE /\ ~UpdateRefused(db, w.c, w.a, state, w.ids)
           /\ db' = UpdateAttempt(db, w.c, w.a, state, w.ids)
           /\ w' = [w EXCEPT !.pc = next, !.ids = w.ids]
  <2>1. state \in AttemptStates BY DEF AttemptStates
  <2>2. QuietStep /\ Updated(db, db', w.c, w.a, state, w.ids)
    BY <1>0, <1>2, <2>1, QuietUpdateOnly
  <2>3. next \in WorkerSteps /\ next \in ActiveSteps \ {"check", "post", "own"}
        /\ next \notin PromptSteps
    BY DEF WorkerSteps, ChunkSteps, LoopSteps, PromptSteps
  <2>4. /\ w' \in WorkerStates /\ w'.pc = next /\ w'.c = w.c /\ w'.taken = w.taken
        /\ w'.a = w.a /\ w'.ids = w.ids
    BY <1>0, <1>2, <2>3 DEF WorkerStates
  <2> QED BY <1>0, <2>2, <2>3, <2>4, ActiveOK
<1> QED BY <1>1, <1>2 DEF Commit

\* A step to another place of the same attempt.
LEMMA GoOK ==
  ASSUME IInv, QuietStep, UNCHANGED db, w.pc \in ActiveSteps \ {"own"},
         NEW next \in ActiveSteps \ {"own"}, Go(next),
         next \in {"check", "post"} => w.pc \in {"check", "post"},
         next \in PromptSteps => w.stage \in 1 .. 3
  PROVE  IInv'
<1>1. /\ w \in WorkerStates /\ next \in WorkerSteps
  BY Placed DEF WorkerSteps, ChunkSteps, LoopSteps
<1>2. /\ w' \in WorkerStates /\ w'.pc = next /\ w'.c = w.c /\ w'.taken = w.taken
      /\ w'.a = w.a /\ w'.ids = w.ids /\ w'.stage = w.stage
  BY <1>1 DEF Go, WorkerStates
<1>3. "DECODED" \in Active BY DEF Active
<1> QED BY <1>2, <1>3, ActiveOK

\* Steps of an attempt and its ends, one by one.
LEMMA StageSteps ==
  /\ {"stage1", "stage1done", "stage2", "stage2done", "reclaim", "decodedone", "final",
      "complete"} \subseteq ActiveSteps \ PromptSteps
  /\ PromptSteps \subseteq ActiveSteps
  /\ ActiveSteps \subseteq AttemptSteps /\ "own" \notin ActiveSteps \ PromptSteps
  /\ "select" \in AttemptSteps
  /\ Active \subseteq AttemptStates
  /\ {"DECODED", "STAGE1_COMPLETE", "VALIDATING"} \subseteq Active
  /\ "comfy" \in Errors /\ "other" \in Errors
BY DEF ActiveSteps, PromptSteps, AttemptSteps, Active, AttemptStates, Errors

LEMMA Stage1Keeps == ASSUME IInv, Stage1 PROVE IInv'
<1>0. w.pc = "stage1" /\ UNCHANGED <<disk, clip, prompts, comfy, contract, env>>
  BY DEF Stage1, At, Quiet
<1>1. CASE Go("stage1done") /\ UNCHANGED db
  BY <1>0, <1>1, GoOK, QuietStutter, StageSteps DEF PromptSteps
<1>2. CASE RunGraph(1) BY <1>0, <1>2, RunGraphOK, StageSteps
<1> QED BY <1>1, <1>2 DEF Stage1

LEMMA Stage1DoneKeeps == ASSUME IInv, Stage1Done PROVE IInv'
<1>0. w.pc = "stage1done" /\ UNCHANGED <<disk, clip, prompts, comfy, contract, env>>
  BY DEF Stage1Done, At, Quiet
<1>1. CASE Commit("STAGE1_COMPLETE", w.ids, "stage2") BY <1>0, <1>1, CommitOK, StageSteps
<1>2. CASE Fail("other") /\ UNCHANGED db
  BY <1>0, <1>2, FailOK, QuietStutter, StageSteps
<1> QED BY <1>1, <1>2 DEF Stage1Done

LEMMA Stage2Keeps == ASSUME IInv, Stage2 PROVE IInv'
<1>0. w.pc = "stage2" /\ UNCHANGED <<disk, clip, prompts, comfy, contract, env>>
  BY DEF Stage2, At, Quiet
<1>1. CASE RunGraph(2) BY <1>0, <1>1, RunGraphOK, StageSteps
<1>2. CASE (Go("final") \/ Go("reclaim")) /\ UNCHANGED db
  BY <1>0, <1>2, GoOK, QuietStutter, StageSteps DEF PromptSteps
<1> QED BY <1>1, <1>2 DEF Stage2

\* A window that arrives in the directory of the worker's attempt.
LEMMA WindowSaved ==
  ASSUME IInv, w.pc \in AttemptSteps, UNCHANGED <<db, clip, prompts, comfy, contract, env>>,
         disk' = [disk EXCEPT ![w.c][w.a] = @ \cup {"window"}]
  PROVE  QuietStep
<1>1. w.c \in Chunks /\ w.a \in DOMAIN disk[w.c] BY InAttempt
<1>2. {"window"} \in SUBSET (Kinds \ {"stage1", "stage2"}) BY DEF Kinds, Required
<1> QED BY <1>1, <1>2, FileAdded, QuietFile DEF IInv, ShapeOK

LEMMA LoseDownloadKeeps ==
  ASSUME IInv, w.pc \in ActiveSteps \ {"own"}, LoseDownload,
         UNCHANGED <<db, clip, prompts, comfy, contract>>
  PROVE  IInv'
<1>1. disk' = disk /\ Fail("comfy") BY DEF LoseDownload
<1>2. env' \in EnvStates /\ env'.gui = env.gui /\ env'.lost = env.lost
  <2>1. env \in EnvStates BY DEF IInv, ShapeOK
  <2>2. CASE UNCHANGED env BY <2>1, <2>2
  <2>3. CASE env.faults < MaxFaults /\ env' = [env EXCEPT !.faults = @ + 1]
    BY <2>1, <2>3, ChunkAssumption DEF EnvStates
  <2> QED BY <2>2, <2>3 DEF LoseDownload
<1>3. QuietStep BY <1>1, <1>2, QuietFile, DiskStays DEF IInv, ShapeOK
<1> QED BY <1>1, <1>3, FailOK, StageSteps

LEMMA Stage2DoneKeeps == ASSUME IInv, Stage2Done PROVE IInv'
<1>0. w.pc = "stage2done" /\ UNCHANGED <<db, clip, prompts, comfy, contract>>
  BY DEF Stage2Done, At
<1>1. CASE LoseDownload BY <1>0, <1>1, LoseDownloadKeeps, StageSteps
<1>2. CASE Download("final", Go("final"))
  <2>1. Go("final") /\ UNCHANGED env
        /\ (UNCHANGED disk \/ disk' = [disk EXCEPT ![w.c][w.a] = @ \cup {"window"}])
    BY <1>2 DEF Download
  <2>2. QuietStep BY <1>0, <2>1, QuietStutter, WindowSaved, StageSteps
  <2> QED BY <1>0, <2>1, <2>2, GoOK, StageSteps DEF PromptSteps
<1> QED BY <1>1, <1>2 DEF Stage2Done

LEMMA DecodeDoneKeeps == ASSUME IInv, DecodeDone PROVE IInv'
<1>0. w.pc = "decodedone" /\ UNCHANGED <<db, clip, prompts, comfy, contract>>
  BY DEF DecodeDone, At
<1>1. CASE LoseDownload BY <1>0, <1>1, LoseDownloadKeeps, StageSteps
<1>2. CASE Download("final", Fail("comfy"))
  <2>1. /\ Go("final") \/ Fail("comfy")
        /\ UNCHANGED env
        /\ (UNCHANGED disk \/ disk' = [disk EXCEPT ![w.c][w.a] = @ \cup {"window"}])
    BY <1>2 DEF Download
  <2>2. QuietStep BY <1>0, <2>1, QuietStutter, WindowSaved, StageSteps
  <2>3. CASE Go("final") BY <1>0, <2>2, <2>3, GoOK, StageSteps DEF PromptSteps
  <2>4. CASE Fail("comfy") BY <1>0, <2>2, <2>4, FailOK, StageSteps
  <2> QED BY <2>1, <2>3, <2>4
<1> QED BY <1>1, <1>2 DEF DecodeDone

LEMMA ReclaimKeeps == ASSUME IInv, Reclaim PROVE IInv'
<1>0. w.pc = "reclaim" /\ UNCHANGED <<clip, prompts, comfy, contract, env>>
  BY DEF Reclaim, At, Quiet
<1>1. CASE /\ disk' = [disk EXCEPT ![w.c][w.a] = @ \cup {"window"}]
           /\ Go("final") /\ UNCHANGED db
  <2>1. QuietStep BY <1>0, <1>1, WindowSaved, StageSteps
  <2> QED BY <1>0, <1>1, <2>1, GoOK, StageSteps DEF PromptSteps
<1>2. CASE RunGraph(3) /\ UNCHANGED disk BY <1>0, <1>2, RunGraphOK, StageSteps
<1> QED BY <1>1, <1>2 DEF Reclaim

LEMMA FinalizeKeeps == ASSUME IInv, Finalize PROVE IInv'
<1>0. w.pc = "final" /\ UNCHANGED <<disk, clip, prompts, comfy, contract, env>>
  BY DEF Finalize, At, Quiet
<1>1. CASE Commit("VALIDATING", w.ids, "complete") BY <1>0, <1>1, CommitOK, StageSteps
<1>2. CASE Fail("other") /\ UNCHANGED db
  BY <1>0, <1>2, FailOK, QuietStutter, StageSteps
<1> QED BY <1>1, <1>2 DEF Finalize

\* An attempt in execution of a chunk that is not accepted gives the chunk its state.
LEMMA UpdateMarks ==
  ASSUME NEW d \in Tables, NEW c \in Chunks, NEW a \in DOMAIN d.atts[c],
         d.atts[c][a].state \in Active, d.chunks[c].acc = 0,
         NEW state \in AttemptStates, NEW ids \in PromptIds
  PROVE  UpdateAttempt(d, c, a, state, ids).chunks[c].state = state
<1> DEFINE e == [d EXCEPT !.atts[c][a].state = state, !.atts[c][a].ids = ids,
                          !.chunks[c].state = IF d.chunks[c].acc \in {0, a} THEN state ELSE @]
<1>1. d.atts[c][a].state \notin FinalStates BY DEF Active, FinalStates, Voided
<1>2. UpdateAttempt(d, c, a, state, ids) = e BY <1>1 DEF UpdateAttempt
<1>3. d.chunks[c] \in ChunkRows BY DomainOfRows
<1>4. e.chunks[c].state = state BY <1>3 DEF Tables, ChunkRows
<1> QED BY <1>2, <1>4

LEMMA CompleteKeeps == ASSUME IInv, Complete PROVE IInv'
<1>0. /\ w.pc = "complete" /\ UNCHANGED <<clip, prompts, comfy, contract, env>>
      /\ disk' = [disk EXCEPT ![w.c][w.a] = @ \cup {"complete"}]
  BY DEF Complete, At, Quiet
<1>1. /\ w \in WorkerStates /\ w.c \in Chunks /\ w.a \in DOMAIN db.atts[w.c]
      /\ w.a \in DOMAIN disk[w.c] /\ w.ids = db.atts[w.c][w.a].ids /\ w.ids \in PromptIds
      /\ db.atts[w.c][w.a] \in Attempts /\ db \in Tables /\ Len(w.taken) = w.c - 1
      /\ db.chunks[w.c].acc = 0 /\ db.scene # "SUCCEEDED" /\ StoreOK(db)
  BY <1>0, InAttempt, Placed, StageSteps
     DEF IInv, SceneOK, RestSteps, ChunkSteps, LoopSteps
<1>2. /\ disk' \in [Chunks -> Seq(SUBSET Kinds)] /\ FilesEarned
      /\ \A i \in Chunks : Len(disk'[i]) = Len(disk[i])
  <2>1. {"complete"} \in SUBSET (Kinds \ {"stage1", "stage2"}) BY DEF Kinds, Required
  <2> QED BY <1>0, <1>1, <2>1, FileAdded DEF IInv
<1>3. CASE Fail("other") /\ UNCHANGED db
  <2>1. QuietStep BY <1>0, <1>2, <1>3, QuietFile DEF IInv, ShapeOK
  <2> QED BY <1>0, <1>3, <2>1, FailOK, StageSteps
<1>4. CASE /\ ~UpdateRefused(db, w.c, w.a, "COMPLETE", w.ids)
           /\ db' = UpdateAttempt(db, w.c, w.a, "COMPLETE", w.ids)
           /\ w' = [w EXCEPT !.pc = "select", !.ids = w.ids]
  <2>0. "COMPLETE" \in AttemptStates BY DEF AttemptStates, FinalStates
  <2>1. QuietStep /\ Updated(db, db', w.c, w.a, "COMPLETE", w.ids)
    BY <1>0, <1>1, <1>2, <1>4, <2>0, QuietUpdate, PromptsStay DEF IInv
  <2>2. db.scene # "CANCELLED" BY <1>4 DEF UpdateRefused, WorkIsActive
  <2>3. db.atts[w.c][w.a].state \in Active
    BY <1>0, <2>2, StageSteps DEF IInv, CleanOK
  <2>4. db'.chunks[w.c].state = "COMPLETE"
    <3>1. UpdateAttempt(db, w.c, w.a, "COMPLETE", w.ids).chunks[w.c].state = "COMPLETE"
      BY <1>1, <2>0, <2>3, UpdateMarks
    <3> QED BY <1>4, <3>1
  <2>5. /\ w' \in WorkerStates /\ w'.pc = "select" /\ w'.c = w.c /\ w'.taken = w.taken
        /\ w'.a = w.a /\ w'.ids = w.ids
    BY <1>1, <1>4 DEF WorkerStates, WorkerSteps, ChunkSteps
  <2>6. /\ DOMAIN db'.atts[w.c] = DOMAIN db.atts[w.c]
        /\ db'.atts[w.c][w.a].state = "COMPLETE" /\ db'.atts[w.c][w.a].ids = w.ids
        /\ db'.atts[w.c][w.a].up = db.atts[w.c][w.a].up
    <3>1. db \in Tables /\ w.c \in Chunks BY <1>1
    <3>2. DOMAIN db'.atts[w.c] = DOMAIN db.atts[w.c] BY <2>1, <3>1, UpdatedDomain
    <3> QED BY <1>1, <2>1, <3>2 DEF Updated, Attempts
  <2>7. \A i \in Chunks : db'.chunks[i].acc = db.chunks[i].acc BY <2>1 DEF Updated
  <2>8. db'.atts[w.c][w.a].up = Upstream(db', w.c)
    <3>1. db.atts[w.c][w.a].up = Upstream(db, w.c)
      BY <1>1, <2>3 DEF StoreOK, RowsOK, Alone, ActiveAttempts
    <3>2. w.c # 1 => w.c - 1 \in Chunks BY <1>1, ChunkAssumption DEF Chunks
    <3>3. Upstream(db', w.c) = Upstream(db, w.c) BY <2>7, <3>2 DEF Upstream
    <3> QED BY <2>6, <3>1, <3>3
  <2>9. PlaceOK'
    <3>1. \A i \in 1 .. w.c - 1 : i \in Chunks BY TakenAccepted
    <3> QED BY <1>1, <2>5, <2>6, <2>7, <3>1
            DEF IInv, PlaceOK, ChunkSteps, LoopSteps, ActiveSteps, AttemptSteps, PromptSteps,
                EndSteps
  <2>10. CleanOK'
    BY <2>4, <2>5, <2>6, <2>8 DEF CleanOK, Complete1, LoopSteps, ActiveSteps, PromptSteps
  <2>11. SceneOK' BY <1>1, <2>1, <2>5 DEF SceneOK, Updated
  <2> QED BY <1>0, <1>1, <2>1, <2>5, <2>9, <2>10, <2>11, QuietKeeps
<1> QED BY <1>3, <1>4 DEF Complete, Commit

LEMMA SelectStepKeeps == ASSUME IInv, Select PROVE IInv'
<1>0. /\ w.pc = "select" /\ UNCHANGED <<disk, clip, prompts, comfy, contract, env>>
  BY DEF Select, At, Quiet
<1>1. /\ w.c \in Chunks /\ w.a \in DOMAIN db.atts[w.c] /\ db \in Tables
      /\ db.chunks[w.c].acc = 0 /\ StoreOK(db)
  BY <1>0, InAttempt, Placed, StageSteps DEF IInv, ChunkSteps
<1>2. CASE SelectRefused(db, w.c, w.a) /\ Fail("other") /\ UNCHANGED db
  <2>1. db.scene = "CANCELLED"
    BY <1>0, <1>2 DEF IInv, CleanOK, Complete1, SelectRefused, WorkIsActive
  <2> QED BY <1>0, <1>2, <2>1, FailOK, QuietStutter, StageSteps
<1>3. CASE ~SelectRefused(db, w.c, w.a) /\ db' = SelectAttempt(db, w.c, w.a) /\ Take(w.a)
  <2>1. Selected(db, db', w.c, w.a) BY <1>1, <1>3, SelectDoes
  <2>2. StoreOK(db') BY <1>1, <1>3, <2>1, SelectKeeps
  <2>3. QuietStep
    BY <1>0, <2>1, <2>2, PromptsStay, DiskStays
       DEF IInv, ShapeOK, LengthsOK, QuietStep, IdsKept, Selected
  <2>4. /\ db'.chunks[w.c].acc = w.a /\ db'.scene = db.scene
        /\ \A i \in Chunks : i # w.c => db'.chunks[i].acc = db.chunks[i].acc
    BY <1>1, <2>1 DEF Selected
  <2>5. w.a \in Nat \ {0}
    <3>1. DOMAIN db.atts[w.c] = 1 .. Len(db.atts[w.c]) /\ Len(db.atts[w.c]) \in Nat
      BY <1>1, DomainOfRows
    <3> QED BY <1>1, <3>1
  <2> QED BY <1>0, <1>1, <1>3, <2>3, <2>4, <2>5, TakeOK
<1> QED BY <1>2, <1>3 DEF Select

-----------------------------------------------------------------------------
(* The actions of the worker around a prompt                                    *)

\* In the prompt steps the worker has a graph, and an id is Id's id.
LEMMA InPrompt ==
  ASSUME IInv, w.pc \in PromptSteps
  PROVE  /\ w \in WorkerStates /\ w.c \in Chunks /\ w.a \in DOMAIN db.atts[w.c]
         /\ w.stage \in 1 .. 3 /\ w.ids = db.atts[w.c][w.a].ids /\ w.ids \in PromptIds
         /\ w.ids[w.stage] \in 0 .. Len(prompts)
         /\ \A p \in DOMAIN prompts : Work(p) = Turn => Id(p) = w.ids[w.stage]
         /\ Finished[w.stage] \in ActiveSteps \ PromptSteps
<1>1. /\ w \in WorkerStates /\ w.c \in Chunks /\ w.a \in DOMAIN db.atts[w.c]
      /\ w.ids = db.atts[w.c][w.a].ids /\ w.ids \in PromptIds
  BY InAttempt, StageSteps
<1>2. w.stage \in 1 .. 3 BY DEF IInv, PlaceOK
<1>3. w.ids[w.stage] \in Nat BY <1>1, <1>2 DEF PromptIds
<1>4. w.ids[w.stage] <= Len(prompts) BY <1>1, <1>2 DEF IInv, LengthsOK
<1>5. Len(prompts) \in Nat BY DEF IInv, ShapeOK
<1>6. \A p \in DOMAIN prompts : Work(p) = Turn => Id(p) = w.ids[w.stage]
  BY <1>1 DEF Work, Turn, Id
<1>7. Finished[w.stage] \in ActiveSteps \ PromptSteps
  <2>1. w.stage = 1 \/ w.stage = 2 \/ w.stage = 3 BY <1>2
  <2> QED BY <2>1, StageSteps DEF Finished
<1>8. w.ids[w.stage] \in 0 .. Len(prompts) BY <1>3, <1>4, <1>5
<1> QED BY <1>1, <1>2, <1>6, <1>7, <1>8, Zenon

\* The worker comes to send its prompt only when the queue has none of that graph.
LEMMA CheckOK ==
  ASSUME IInv, w.pc \in {"prompt", "queued"}, Go("check"),
         w.ids[w.stage] = 0 \/ ~Live(w.ids[w.stage]),
         UNCHANGED <<db, disk, clip, prompts, comfy, contract, env>>
  PROVE  IInv'
<1>0. w.pc \in PromptSteps BY DEF PromptSteps
<1>1. /\ w \in WorkerStates /\ w.c \in Chunks /\ w.stage \in 1 .. 3
      /\ \A p \in DOMAIN prompts : Work(p) = Turn => Id(p) = w.ids[w.stage]
  BY <1>0, InPrompt
<1>2. /\ w' = [w EXCEPT !.pc = "check"] /\ w'.pc = "check" /\ w'.c = w.c /\ w'.a = w.a
      /\ w'.taken = w.taken /\ w'.stage = w.stage /\ w'.ids = w.ids /\ w' \in WorkerStates
  <2>1. "check" \in WorkerSteps
    BY DEF WorkerSteps, ChunkSteps, LoopSteps, ActiveSteps, PromptSteps
  <2> QED BY <1>1, <2>1 DEF Go, WorkerStates
<1>3. StoreOK(db)' /\ ShapeOK' BY <1>2 DEF IInv, ShapeOK
<1>4. LengthsOK' BY <1>2 DEF IInv, LengthsOK
<1>5. /\ w.pc \in ChunkSteps /\ w.pc \in AttemptSteps /\ w.pc \in LoopSteps
      /\ w.pc \in ActiveSteps /\ w.pc \notin RestSteps
  BY DEF ChunkSteps, LoopSteps, ActiveSteps, AttemptSteps, PromptSteps, EndSteps, RestSteps
<1>6. PlaceOK'
  BY <1>1, <1>2, <1>5
     DEF IInv, PlaceOK, EndSteps
<1>7. CleanOK' /\ SceneOK'
  BY <1>2, <1>5 DEF IInv, CleanOK, SceneOK, Complete1
<1>8. PromptsOK'
  <2>1. Recorded' BY <1>2 DEF IInv, PromptsOK, Recorded, Mine, Id
  <2>2. Saved' BY DEF IInv, PromptsOK, Saved, Files, Work
  <2>3. Owned' BY <1>2 DEF IInv, PromptsOK, Owned, Mine, Id, Live
  <2>4. Fresh'
    <3> SUFFICES ASSUME ~env.lost, NEW p \in DOMAIN prompts, Live(p)
                 PROVE  Work(p) # Turn
      BY <1>2 DEF Fresh, Live, Work, Turn
    <3>1. Id(p) = p BY DEF IInv, PromptsOK, Owned, Mine
    <3>2. p # 0 BY DEF IInv, ShapeOK
    <3> QED BY <1>1, <3>1, <3>2
  <2>5. Posted' BY <1>2 DEF Posted
  <2>6. Silent' BY DEF IInv, PromptsOK, Silent, Live
  <2>7. Hushed' BY <1>2 DEF IInv, PromptsOK, Hushed, Live, Mine
  <2> QED BY <2>1, <2>2, <2>3, <2>4, <2>5, <2>6, <2>7 DEF PromptsOK
<1> QED BY <1>3, <1>4, <1>6, <1>7, <1>8 DEF IInv

LEMMA ReadHistoryKeeps == ASSUME IInv, ReadHistory PROVE IInv'
<1>0. w.pc = "prompt" /\ UNCHANGED <<db, disk, clip, prompts, comfy, contract, env>>
  BY DEF ReadHistory, At, OnlyWorker, Quiet
<1>1. /\ w.pc \in ActiveSteps \ {"own"} /\ w.pc \in PromptSteps
  BY <1>0, StageSteps DEF PromptSteps
<1>2. QuietStep BY <1>0, QuietStutter
<1>3. CASE Fail("comfy") BY <1>0, <1>1, <1>2, <1>3, FailOK, StageSteps
<1>4. CASE w.ids[w.stage] = 0 /\ Go("check") BY <1>0, <1>4, CheckOK
<1>5. CASE w' = [w EXCEPT !.pc = Finished[w.stage], !.p = w.ids[w.stage]]
  <2>1. /\ Finished[w.stage] \in ActiveSteps \ PromptSteps /\ w.ids[w.stage] \in Nat
        /\ w \in WorkerStates
    BY <1>1, InPrompt
  <2>2. Finished[w.stage] \in WorkerSteps BY <2>1 DEF WorkerSteps, ChunkSteps, LoopSteps
  <2>3. /\ w' \in WorkerStates /\ w'.pc = Finished[w.stage] /\ w'.c = w.c /\ w'.taken = w.taken
        /\ w'.a = w.a /\ w'.ids = w.ids
    BY <1>5, <2>1, <2>2 DEF WorkerStates
  <2>4. "DECODED" \in Active BY StageSteps
  <2>5. w'.pc \notin PromptSteps /\ w'.pc \notin {"check", "post", "own"}
    BY <2>1, <2>3 DEF PromptSteps
  <2> QED BY <1>0, <1>1, <1>2, <2>1, <2>3, <2>4, <2>5, ActiveOK
<1>6. CASE Go("queued")
  <2>1. "queued" \in ActiveSteps \ {"own"} BY DEF ActiveSteps, PromptSteps
  <2>2. w.stage \in 1 .. 3 BY <1>1, InPrompt
  <2> QED BY <1>0, <1>1, <1>2, <1>6, <2>1, <2>2, GoOK
<1> QED BY <1>3, <1>4, <1>5, <1>6 DEF ReadHistory

LEMMA ReadQueueKeeps == ASSUME IInv, ReadQueue PROVE IInv'
<1>0. w.pc = "queued" /\ UNCHANGED <<db, disk, clip, prompts, comfy, contract, env>>
  BY DEF ReadQueue, At, OnlyWorker, Quiet
<1>1. /\ w.pc \in ActiveSteps \ {"own"} /\ w.pc \in PromptSteps
  BY <1>0, StageSteps DEF PromptSteps
<1>2. QuietStep BY <1>0, QuietStutter
<1>3. CASE Fail("comfy") BY <1>0, <1>1, <1>2, <1>3, FailOK, StageSteps
<1>4. CASE w' = [w EXCEPT !.pc = "wait", !.p = w.ids[w.stage]]
  <2>1. /\ w.ids[w.stage] \in Nat /\ w \in WorkerStates /\ w.stage \in 1 .. 3
    BY <1>1, InPrompt
  <2>2. "wait" \in WorkerSteps /\ "wait" \in ActiveSteps \ {"own"}
    BY DEF WorkerSteps, ChunkSteps, LoopSteps, ActiveSteps, PromptSteps
  <2>3. /\ w' \in WorkerStates /\ w'.pc = "wait" /\ w'.c = w.c /\ w'.taken = w.taken
        /\ w'.a = w.a /\ w'.ids = w.ids /\ w'.stage = w.stage
    BY <1>4, <2>1, <2>2 DEF WorkerStates
  <2>4. "DECODED" \in Active BY StageSteps
  <2> QED BY <1>0, <1>1, <1>2, <2>1, <2>2, <2>3, <2>4, ActiveOK
<1>5. CASE ~InQueue(w.ids[w.stage]) /\ Go("check") BY <1>0, <1>5, CheckOK DEF InQueue
<1> QED BY <1>3, <1>4, <1>5 DEF ReadQueue

LEMMA CheckBeforeQueueKeeps == ASSUME IInv, CheckBeforeQueue PROVE IInv'
<1>0. w.pc = "check" /\ UNCHANGED <<db, disk, clip, prompts, comfy, contract, env>>
  BY DEF CheckBeforeQueue, At, OnlyWorker, Quiet
<1>1. /\ w.pc \in ActiveSteps \ {"own"} /\ w.pc \in PromptSteps
  BY <1>0, StageSteps DEF PromptSteps
<1>2. QuietStep BY <1>0, QuietStutter
<1>3. CASE Fail("comfy") BY <1>0, <1>1, <1>2, <1>3, FailOK, StageSteps
<1>4. CASE Go("post")
  <2>1. "post" \in ActiveSteps \ {"own"} BY DEF ActiveSteps, PromptSteps
  <2>2. w.stage \in 1 .. 3 BY <1>1, InPrompt
  <2> QED BY <1>0, <1>1, <1>2, <1>4, <2>1, <2>2, GoOK
<1> QED BY <1>3, <1>4 DEF CheckBeforeQueue

LEMMA WaitPromptKeeps == ASSUME IInv, WaitPrompt PROVE IInv'
<1>0. w.pc = "wait" /\ UNCHANGED <<db, disk, clip, prompts, comfy, contract, env>>
  BY DEF WaitPrompt, At, OnlyWorker, Quiet
<1>1. /\ w.pc \in ActiveSteps \ {"own"} /\ w.pc \in PromptSteps
  BY <1>0, StageSteps DEF PromptSteps
<1>2. QuietStep BY <1>0, QuietStutter
<1>3. CASE Fail("comfy") BY <1>0, <1>1, <1>2, <1>3, FailOK, StageSteps
<1>4. CASE Go(Finished[w.stage])
  <2>1. Finished[w.stage] \in ActiveSteps \ PromptSteps BY <1>1, InPrompt
  <2>2. Finished[w.stage] \in ActiveSteps \ {"own"} /\ Finished[w.stage] \notin {"check", "post"}
        /\ Finished[w.stage] \notin PromptSteps
    BY <2>1 DEF PromptSteps
  <2> QED BY <1>0, <1>1, <1>2, <1>4, <2>2, GoOK
<1> QED BY <1>3, <1>4 DEF WaitPrompt

\* One more prompt in ComfyUI, of the worker's attempt: in its hand, or lost.
LEMMA QueuePromptKeeps == ASSUME IInv, QueuePrompt PROVE IInv'
<1> DEFINE row == [c |-> w.c, a |-> w.a, s |-> w.stage, st |-> "queued"]
<1>n. PICK n \in Nat : n = Len(prompts) + 1 BY DEF IInv, ShapeOK
<1>0. w.pc = "post" /\ UNCHANGED <<db, disk, clip, comfy, contract>>
  BY DEF QueuePrompt, At
<1>1. /\ w \in WorkerStates /\ w.c \in Chunks /\ w.stage \in 1 .. 3
      /\ w.a \in DOMAIN db.atts[w.c] /\ w.a \in Nat /\ db \in Tables /\ Len(w.taken) = w.c - 1
  BY <1>0, InPrompt, Placed, WorkerParts DEF PromptSteps
<1>2. /\ w.pc \in ActiveSteps \ {"own"} /\ w.pc \in ChunkSteps /\ w.pc \in AttemptSteps
      /\ w.pc \in LoopSteps /\ w.pc \notin RestSteps
  BY <1>0 DEF ChunkSteps, LoopSteps, ActiveSteps, AttemptSteps, PromptSteps, RestSteps
<1>3. CASE Fail("comfy") /\ UNCHANGED <<prompts, env>>
  BY <1>0, <1>2, <1>3, FailOK, QuietStutter, StageSteps
<1>4. CASE /\ comfy /\ prompts' = Append(prompts, row)
           /\ \/ w' = [w EXCEPT !.pc = "own", !.p = n] /\ UNCHANGED env
              \/ /\ Fail("comfy") /\ env.faults < MaxFaults
                 /\ env' = [env EXCEPT !.faults = @ + 1, !.lost = TRUE]
  <2>1. row \in PromptRows BY <1>1 DEF PromptRows, PromptStates
  <2>2. prompts \in Seq(PromptRows) /\ Len(prompts) \in Nat /\ DOMAIN prompts = 1 .. Len(prompts)
    BY DEF IInv, ShapeOK
  <2> HIDE DEF row
  <2>3. /\ prompts' \in Seq(PromptRows) /\ Len(prompts') = n /\ DOMAIN prompts' = 1 .. n
        /\ prompts'[n] = row
        /\ \A p \in DOMAIN prompts : prompts'[p] = prompts[p]
    BY <1>4, <1>n, <2>1, <2>2
  <2>4. n \in Nat \ {0} /\ \A p \in DOMAIN prompts' : p = n \/ p \in DOMAIN prompts
    BY <1>n, <2>2, <2>3
  <2>5. "own" \in WorkerSteps /\ "failed" \in WorkerSteps
    BY DEF WorkerSteps, ChunkSteps, LoopSteps, ActiveSteps, PromptSteps
  <2>6. /\ w' \in WorkerStates /\ w'.c = w.c /\ w'.taken = w.taken /\ w'.a = w.a
        /\ w'.stage = w.stage /\ w'.ids = w.ids
        /\ \/ w'.pc = "own" /\ w'.p = n /\ UNCHANGED env
           \/ w'.pc = "failed" /\ env'.lost
    <3>1. CASE w' = [w EXCEPT !.pc = "own", !.p = n] /\ UNCHANGED env
      BY <1>1, <2>4, <2>5, <3>1 DEF WorkerStates
    <3>2. CASE Fail("comfy") /\ env' = [env EXCEPT !.faults = @ + 1, !.lost = TRUE]
      <4>1. env'.lost BY <3>2 DEF IInv, ShapeOK, EnvStates
      <4> QED BY <1>1, <2>5, <3>2, <4>1, StageSteps DEF WorkerStates, Fail
    <3> QED BY <1>4, <3>1, <3>2
  <2>7. env' \in EnvStates /\ env'.gui = env.gui /\ (env.lost => env'.lost)
    <3>1. env \in EnvStates BY DEF IInv, ShapeOK
    <3>2. CASE UNCHANGED env BY <3>1, <3>2
    <3>3. CASE env.faults < MaxFaults /\ env' = [env EXCEPT !.faults = @ + 1, !.lost = TRUE]
      <4>1. env.faults + 1 \in 0 .. MaxFaults BY <3>1, <3>3, ChunkAssumption DEF EnvStates
      <4>2. env' = [env EXCEPT !.faults = env.faults + 1, !.lost = TRUE] BY <3>1, <3>3 DEF EnvStates
      <4> QED BY <3>1, <4>1, <4>2 DEF EnvStates
    <3> QED BY <1>4, <3>2, <3>3
  <2>8. StoreOK(db)' /\ ShapeOK'
    BY <1>0, <2>3, <2>6, <2>7 DEF IInv, ShapeOK
  <2>9. LengthsOK'
    <3>1. \A c \in Chunks : \A a \in DOMAIN db.atts[c] : \A s \in 1 .. 3 :
            db.atts[c][a].ids[s] <= Len(prompts')
      <4> SUFFICES ASSUME NEW c \in Chunks, NEW a \in DOMAIN db.atts[c], NEW s \in 1 .. 3
                   PROVE  db.atts[c][a].ids[s] <= n
        BY <2>3
      <4>1. db.atts[c][a] \in Attempts BY <1>1, DomainOfRows
      <4>2. db.atts[c][a].ids[s] \in Nat BY <4>1 DEF Attempts, PromptIds
      <4>3. db.atts[c][a].ids[s] <= Len(prompts) BY DEF IInv, LengthsOK
      <4> QED BY <1>n, <2>2, <4>2, <4>3
    <3>2. \A p \in DOMAIN prompts' : prompts'[p].a \in DOMAIN db.atts[prompts'[p].c]
      BY <1>1, <2>3, <2>4 DEF IInv, LengthsOK, row
    <3> QED BY <1>0, <1>1, <2>6, <3>1, <3>2 DEF IInv, LengthsOK
  <2>10. PlaceOK'
    BY <1>0, <1>1, <1>2, <2>6
       DEF IInv, PlaceOK, ChunkSteps, LoopSteps, ActiveSteps, AttemptSteps, PromptSteps, EndSteps
  <2>11. CleanOK'
    <3>1. \/ db.scene = "CANCELLED"
          \/ /\ \A a \in DOMAIN db.atts[w.c] : ~Complete1(w.c, a)
             /\ db.atts[w.c][w.a].state \in Active
      BY <1>2 DEF IInv, CleanOK
    <3>2. w'.pc \notin {"recover", "select"} BY <2>6
    <3> QED BY <1>0, <2>6, <3>1, <3>2 DEF CleanOK, Complete1
  <2>12. SceneOK' BY <1>0, <1>2, <2>6 DEF IInv, SceneOK
  <2>13. PromptsOK'
    <3>1. ~Mine(0) /\ \A p : ~Mine(p) BY <1>0 DEF Mine
    <3>2. \A p \in DOMAIN prompts : /\ Id(p)' = Id(p) /\ Work(p)' = Work(p)
                                    /\ (Live(p)' <=> Live(p))
      BY <1>0, <2>3 DEF Id, Work, Live
    <3>3. env'.lost \/ (w'.pc = "own" /\ w'.p = n /\ ~env.lost /\ Mine(n)')
      BY <2>6, <2>7 DEF Mine
    <3>4. Recorded'
      BY <1>0, <2>3, <2>4, <2>7, <3>1, <3>2, <3>3 DEF IInv, PromptsOK, Recorded
    <3>5. Saved'
      <4> SUFFICES ASSUME NEW c \in Chunks, NEW a \in DOMAIN disk[c], NEW s \in 1 .. 2,
                          StageFile[s] \in Files(c, a)
                   PROVE  \E p \in DOMAIN prompts' : Work(p)' = <<c, a, s>>
        BY <1>0 DEF Saved, Files
      <4>1. \E p \in DOMAIN prompts : Work(p) = <<c, a, s>> BY DEF IInv, PromptsOK, Saved
      <4>2. \A p \in DOMAIN prompts : p \in DOMAIN prompts' BY <1>n, <2>2, <2>3
      <4> QED BY <4>1, <4>2, <3>2
    <3>6. Owned' BY <1>0, <2>3, <2>4, <2>7, <3>1, <3>2, <3>3 DEF IInv, PromptsOK, Owned
    <3>7. Fresh'
      <4> SUFFICES ASSUME ~env'.lost, NEW p \in DOMAIN prompts', Live(p)', p # n
                   PROVE  Work(p)' # Turn
        BY <2>6 DEF Fresh, Turn
      <4>1. p \in DOMAIN prompts /\ Live(p) /\ ~env.lost BY <2>4, <2>7, <3>2
      <4>2. Work(p) # Turn BY <1>0, <4>1 DEF IInv, PromptsOK, Fresh
      <4> QED BY <3>2, <4>1, <4>2
    <3>8. Posted'
      <4>1. Work(n)' = Turn' BY <2>3, <2>6 DEF Work, Turn, row
      <4>2. w'.pc = "own" => w'.p = n BY <2>6
      <4> QED BY <2>3, <2>4, <4>1, <4>2 DEF Posted, Work
    <3>9. Silent' BY <1>0, <1>4 DEF Silent
    <3>10. Hushed'
      <4> SUFFICES ASSUME db.scene = "CANCELLED", env.gui = "idle", ~env'.lost,
                          NEW p \in DOMAIN prompts', Live(p)'
                   PROVE  Mine(p)'
        BY <1>0, <2>7 DEF Hushed
      <4>1. CASE p = n BY <3>3, <4>1
      <4>2. CASE p \in DOMAIN prompts
        BY <2>7, <3>1, <3>2, <4>2 DEF IInv, PromptsOK, Hushed
      <4> QED BY <2>4, <4>1, <4>2
    <3> QED BY <3>4, <3>5, <3>6, <3>7, <3>8, <3>9, <3>10 DEF PromptsOK
  <2> QED BY <2>8, <2>9, <2>10, <2>11, <2>12, <2>13 DEF IInv
<1>5. Len(Append(prompts, row)) = n
  BY <1>n DEF IInv, ShapeOK
<1> QED BY <1>3, <1>4, <1>5 DEF QueuePrompt

\* The id of the prompt in hand is written, or the prompt is called back.
LEMMA OwnPromptKeeps == ASSUME IInv, OwnPrompt PROVE IInv'
<1>i. PICK ids : ids = [w.ids EXCEPT ![w.stage] = w.p] OBVIOUS
<1>q. PICK q : q = w.p OBVIOUS
<1>s. PICK state : state = Graph[w.stage].attempt OBVIOUS
<1>0. w.pc = "own" /\ UNCHANGED <<disk, clip, comfy, contract, env>>
  BY DEF OwnPrompt, At, Quiet
<1>1. /\ w \in WorkerStates /\ w.c \in Chunks /\ w.stage \in 1 .. 3
      /\ w.a \in DOMAIN db.atts[w.c] /\ db \in Tables /\ Len(w.taken) = w.c - 1
      /\ w.ids = db.atts[w.c][w.a].ids /\ w.ids \in PromptIds /\ q \in Nat
      /\ db.atts[w.c][w.a] \in Attempts /\ StoreOK(db)
      /\ \A p \in DOMAIN prompts : Work(p) = Turn => Id(p) = w.ids[w.stage]
  BY <1>0, <1>q, InPrompt, InAttempt, Placed, WorkerParts, StageSteps DEF PromptSteps, IInv
<1>2. /\ w.pc \in ActiveSteps /\ w.pc \in ChunkSteps /\ w.pc \in AttemptSteps
      /\ w.pc \in LoopSteps /\ w.pc \notin RestSteps
  BY <1>0 DEF ChunkSteps, LoopSteps, ActiveSteps, AttemptSteps, PromptSteps, RestSteps
<1>3. /\ prompts \in Seq(PromptRows) /\ Len(prompts) \in Nat /\ q = Len(prompts) /\ q # 0
      /\ DOMAIN prompts = 1 .. Len(prompts) /\ q \in DOMAIN prompts
  <2>1. prompts \in Seq(PromptRows) BY DEF IInv, ShapeOK
  <2>2. q = Len(prompts) /\ q # 0 BY <1>0, <1>q DEF IInv, PromptsOK, Posted
  <2> QED BY <1>1, <2>1, <2>2
<1>4. Work(q) = Turn BY <1>0, <1>q DEF IInv, PromptsOK, Posted
<1>5. /\ db.scene # "SUCCEEDED" /\ db.chunks[w.c].acc = 0
  BY <1>2, Placed DEF IInv, SceneOK
<1>6. state \in Active
  <2>1. w.stage = 1 \/ w.stage = 2 \/ w.stage = 3 BY <1>1
  <2> QED BY <1>s, <2>1 DEF Graph, Stage1Graph, Stage2Graph, DecodeGraph, Active
<1>7. CASE /\ UpdateRefused(db, w.c, w.a, state, ids) /\ Disown(w.p)
           /\ Fail("other") /\ UNCHANGED db
  <2>1. db.scene = "CANCELLED"
    <3> SUFFICES ASSUME db.scene # "CANCELLED" PROVE FALSE OBVIOUS
    <3>1. db.atts[w.c][w.a].state \in Active BY <1>2 DEF IInv, CleanOK
    <3> QED BY <1>7, <3>1 DEF UpdateRefused, WorkIsActive, Active, FinalStates, Voided
  <2>2. PromptsShrink /\ (comfy => ~Live(q)')
    <3>1. prompts' = CancelPrompts({q}) BY <1>7, <1>q DEF Disown
    <3> QED BY <1>3, <3>1, CancelPromptsShrinks DEF IInv
  <2>3. ~Live(q)' BY <1>3, <2>2 DEF IInv, PromptsOK, Silent, PromptsShrink
  <2>4. /\ w'.pc = "failed" /\ w'.c = w.c /\ w'.taken = w.taken /\ w' \in WorkerStates
    BY <1>1, <1>7, StageSteps DEF Fail, WorkerStates, WorkerSteps, ChunkSteps, LoopSteps
  <2>5. StoreOK(db)' /\ ShapeOK'
    BY <1>0, <1>7, <2>2, <2>4 DEF IInv, ShapeOK, PromptsShrink
  <2>6. LengthsOK'
    <3>1. IdsKept BY <1>7 DEF IdsKept
    <3> QED BY <1>0, <1>1, <1>7, <2>2, <2>4, <3>1, LengthsKept DEF IInv, LengthsOK
  <2>7. PlaceOK'
    BY <1>1, <1>5, <1>7, <2>4
       DEF IInv, PlaceOK, ChunkSteps, LoopSteps, ActiveSteps, AttemptSteps, PromptSteps, EndSteps
  <2>8. CleanOK' /\ SceneOK' BY <1>5, <1>7, <2>1, <2>4 DEF CleanOK, SceneOK
  <2>9. PromptsOK'
    <3>0. /\ DOMAIN prompts' = DOMAIN prompts
          /\ \A p \in DOMAIN prompts : /\ Work(p)' = Work(p) /\ (Live(p)' => Live(p) /\ p # q)
                                       /\ (Mine(p) => p = q) /\ Id(p)' = Id(p)
      <4>1. DOMAIN prompts' = DOMAIN prompts BY <1>3, <2>2 DEF PromptsShrink
      <4>2. \A p \in DOMAIN prompts : Work(p)' = Work(p) /\ (Live(p)' => Live(p) /\ p # q)
        BY <2>2, <2>3 DEF PromptsShrink
      <4>3. \A p \in DOMAIN prompts : Mine(p) => p = q BY <1>q DEF Mine
      <4>4. \A p \in DOMAIN prompts : Id(p)' = Id(p) BY <1>7, <4>2 DEF Id, Work
      <4> QED BY <4>1, <4>2, <4>3, <4>4
    <3>1. Recorded' BY <1>7, <2>1 DEF Recorded
    <3>2. Saved'
      <4> SUFFICES ASSUME NEW c \in Chunks, NEW a \in DOMAIN disk[c], NEW s \in 1 .. 2,
                          StageFile[s] \in Files(c, a)
                   PROVE  \E p \in DOMAIN prompts' : Work(p)' = <<c, a, s>>
        BY <1>0 DEF Saved, Files
      <4>1. \E p \in DOMAIN prompts : Work(p) = <<c, a, s>> BY DEF IInv, PromptsOK, Saved
      <4> QED BY <4>1, <3>0
    <3>3. Owned' BY <1>0, <3>0 DEF IInv, PromptsOK, Owned
    <3>4. Fresh' /\ Posted' BY <2>4 DEF Fresh, Posted
    <3>5. Silent' BY <1>0, <3>0 DEF IInv, PromptsOK, Silent
    <3>6. Hushed' BY <1>0, <1>7, <3>0 DEF IInv, PromptsOK, Hushed
    <3> QED BY <3>1, <3>2, <3>3, <3>4, <3>5, <3>6 DEF PromptsOK
  <2> QED BY <2>5, <2>6, <2>7, <2>8, <2>9 DEF IInv
<1>8. CASE /\ ~UpdateRefused(db, w.c, w.a, state, ids)
           /\ db' = UpdateAttempt(db, w.c, w.a, state, ids)
           /\ w' = [w EXCEPT !.pc = "wait", !.ids = ids]
           /\ UNCHANGED prompts
  <2>1. /\ ids \in PromptIds /\ ids[w.stage] = q
        /\ \A s \in 1 .. 3 : s # w.stage => ids[s] = w.ids[s]
    BY <1>i, <1>q, <1>1 DEF PromptIds
  <2>2. state \in AttemptStates BY <1>6, StageSteps
  <2>3. Updated(db, db', w.c, w.a, state, ids)
    BY <1>1, <1>8, <2>1, <2>2, UpdateDoes
  <2>4. StoreOK(db') BY <1>1, <1>8, <2>1, <2>2, <2>3, UpdateKeeps
  <2>5. db.scene # "CANCELLED" /\ db'.scene = db.scene
    BY <1>6, <1>8, <2>3 DEF UpdateRefused, WorkIsActive, Active, Updated
  <2>6. /\ \A c \in Chunks : DOMAIN db'.atts[c] = DOMAIN db.atts[c]
        /\ \A c \in Chunks : db'.chunks[c].acc = db.chunks[c].acc
        /\ \A c \in Chunks : Len(db'.atts[c]) = Len(db.atts[c])
        /\ db'.atts[w.c][w.a].state = state /\ db'.atts[w.c][w.a].ids = ids
        /\ \A a \in DOMAIN db.atts[w.c] : a # w.a => db'.atts[w.c][a] = db.atts[w.c][a]
        /\ \A c \in Chunks : c # w.c => db'.atts[c] = db.atts[c]
    <3>1. \A c \in Chunks : DOMAIN db'.atts[c] = DOMAIN db.atts[c]
      <4>1. db \in Tables BY <1>1
      <4> QED BY <2>3, <4>1, UpdatedDomain
    <3> QED BY <1>1, <2>3, <3>1 DEF Updated, Attempts
  <2>7. /\ w' \in WorkerStates /\ w'.pc = "wait" /\ w'.c = w.c /\ w'.taken = w.taken
        /\ w'.a = w.a /\ w'.ids = ids /\ w'.stage = w.stage
    <3>1. "wait" \in WorkerSteps
      BY DEF WorkerSteps, ChunkSteps, LoopSteps, ActiveSteps, PromptSteps
    <3> QED BY <1>1, <1>8, <2>1, <3>1 DEF WorkerStates
  <2>8. StoreOK(db)' /\ ShapeOK' BY <1>0, <1>8, <2>4, <2>7 DEF IInv, ShapeOK
  <2>9. LengthsOK'
    <3>1. \A c \in Chunks : Len(disk'[c]) = Len(db'.atts[c])
      BY <1>0, <2>6 DEF IInv, LengthsOK
    <3>2. ASSUME NEW c \in Chunks, NEW a \in DOMAIN db.atts[c], NEW s \in 1 .. 3
          PROVE  db'.atts[c][a].ids[s] <= Len(prompts)
      <4>1. db.atts[c][a].ids[s] <= Len(prompts) BY DEF IInv, LengthsOK
      <4>2. CASE c = w.c /\ a = w.a /\ s = w.stage
        BY <1>3, <2>1, <2>6, <4>2
      <4>3. CASE c = w.c /\ a = w.a /\ s # w.stage
        BY <1>1, <2>1, <2>6, <4>1, <4>3
      <4>4. CASE ~(c = w.c /\ a = w.a) BY <2>6, <4>1, <4>4
      <4> QED BY <4>2, <4>3, <4>4
    <3>3. ASSUME NEW p \in DOMAIN prompts
          PROVE  prompts[p].a \in DOMAIN db'.atts[prompts[p].c]
      <4>0. prompts[p] \in PromptRows BY <1>3
      <4>1. prompts[p].c \in Chunks /\ prompts[p].a \in DOMAIN db.atts[prompts[p].c]
        BY <4>0 DEF IInv, LengthsOK, PromptRows
      <4> QED BY <2>6, <4>1
    <3> QED BY <1>0, <1>1, <1>8, <2>6, <2>7, <3>1, <3>2, <3>3 DEF LengthsOK
  <2>10. \A c \in 1 .. w.c - 1 : c \in Chunks BY TakenAccepted
  <2>11. PlaceOK'
    BY <1>1, <1>5, <2>6, <2>7, <2>10
       DEF IInv, PlaceOK, ChunkSteps, LoopSteps, ActiveSteps, AttemptSteps, PromptSteps, EndSteps
  <2>12. CleanOK'
    <3>1. \A a \in DOMAIN db.atts[w.c] : db.atts[w.c][a].state # "COMPLETE"
      BY <1>2, <2>5 DEF IInv, CleanOK, Complete1
    <3>2. "COMPLETE" \notin Active BY DEF Active
    <3>3. \A a \in DOMAIN db'.atts[w.c] : db'.atts[w.c][a].state # "COMPLETE"
      BY <1>1, <1>6, <2>6, <3>1, <3>2
    <3> QED BY <1>1, <1>6, <2>6, <2>7, <3>3 DEF CleanOK, Complete1
  <2>13. SceneOK' BY <1>5, <2>5, <2>7 DEF SceneOK
  <2>14. PromptsOK'
    <3>0. ASSUME NEW p \in DOMAIN prompts
          PROVE  /\ Work(p)' = Work(p) /\ (Live(p)' <=> Live(p))
                 /\ (Mine(p) => p = q)
                 /\ Id(p)' = IF Work(p) = Turn THEN q ELSE Id(p)
      <4>1. prompts[p] \in PromptRows BY <1>3
      <4>2. /\ prompts[p].c \in Chunks /\ prompts[p].s \in 1 .. 3
            /\ prompts[p].a \in DOMAIN db.atts[prompts[p].c]
        BY <4>1 DEF PromptRows, IInv, LengthsOK
      <4>3. Id(p)' = db'.atts[prompts[p].c][prompts[p].a].ids[prompts[p].s]
        BY <1>8 DEF Id
      <4>4. CASE Work(p) = Turn
        <5>1. prompts[p].c = w.c /\ prompts[p].a = w.a /\ prompts[p].s = w.stage
          BY <4>4 DEF Work, Turn
        <5>2. Id(p)' = q BY <2>1, <2>6, <4>3, <5>1
        <5> QED BY <1>8, <1>q, <4>4, <5>2 DEF Work, Live, Mine
      <4>5. CASE Work(p) # Turn
        <5>1. ~(prompts[p].c = w.c /\ prompts[p].a = w.a /\ prompts[p].s = w.stage)
          BY <4>5 DEF Work, Turn
        <5>2. Id(p)' = Id(p)
          <6>1. CASE prompts[p].c = w.c /\ prompts[p].a = w.a
            <7>1. Id(p)' = ids[prompts[p].s] BY <2>6, <4>3, <6>1
            <7>2. Id(p) = w.ids[prompts[p].s] BY <1>1, <6>1 DEF Id
            <7> QED BY <2>1, <4>2, <5>1, <6>1, <7>1, <7>2
          <6>2. CASE ~(prompts[p].c = w.c /\ prompts[p].a = w.a)
            BY <2>6, <4>2, <4>3, <6>2 DEF Id
          <6> QED BY <6>1, <6>2
        <5> QED BY <1>8, <1>q, <4>5, <5>2 DEF Work, Live, Mine
      <4> QED BY <4>4, <4>5
    <3>1. Recorded'
      BY <1>0, <1>3, <1>4, <1>8, <2>5, <3>0 DEF IInv, PromptsOK, Recorded
    <3>2. Saved' BY <1>0, <1>8 DEF IInv, PromptsOK, Saved, Files, Work
    <3>3. Owned'
      <4> SUFFICES ASSUME ~env.lost, NEW p \in DOMAIN prompts, Live(p)
                   PROVE  Id(p)' = p
        BY <1>0, <1>8, <3>0 DEF Owned
      <4>1. Id(p) = p \/ p = q BY <3>0 DEF IInv, PromptsOK, Owned
      <4>2. Work(p) = Turn => p = q BY <1>0, <1>q DEF IInv, PromptsOK, Fresh
      <4> QED BY <1>4, <3>0, <4>1, <4>2
    <3>4. Fresh' /\ Posted' BY <2>7 DEF Fresh, Posted
    <3>5. Silent' BY <1>0, <1>8 DEF IInv, PromptsOK, Silent, Live
    <3>6. Hushed' BY <2>5 DEF Hushed
    <3> QED BY <3>1, <3>2, <3>3, <3>4, <3>5, <3>6 DEF PromptsOK
  <2> QED BY <2>8, <2>9, <2>11, <2>12, <2>13, <2>14 DEF IInv
<1> QED BY <1>7, <1>8, <1>i, <1>s DEF OwnPrompt

-----------------------------------------------------------------------------
(* The ends of the worker                                                       *)

LEMMA HandleFailureKeeps == ASSUME IInv, HandleFailure PROVE IInv'
<1>0. w.pc = "failed" /\ UNCHANGED <<disk, clip, prompts, comfy, contract, env>>
  BY DEF HandleFailure, At, Quiet
<1>1. /\ w \in WorkerStates /\ w.c \in Chunks /\ db \in Tables /\ db.chunks[w.c].acc = 0
      /\ Len(w.taken) = w.c - 1 /\ db.atts[w.c] # <<>> /\ db.scene # "SUCCEEDED"
  BY <1>0, Placed DEF IInv, PlaceOK, SceneOK, ChunkSteps, LoopSteps, RestSteps
<1>2. /\ w.pc \in ChunkSteps /\ w.pc \in LoopSteps /\ w.pc \notin RestSteps \cup {"own"}
      /\ w.pc \notin ActiveSteps
  BY <1>0 DEF ChunkSteps, LoopSteps, ActiveSteps, PromptSteps, RestSteps
<1>a. PICK a : a = Len(db.atts[w.c]) OBVIOUS
<1>3. /\ DOMAIN db.atts[w.c] = 1 .. Len(db.atts[w.c]) /\ db.atts[w.c] \in Seq(Attempts)
      /\ a \in DOMAIN db.atts[w.c] /\ db.atts[w.c][a] \in Attempts
  <2>1. /\ DOMAIN db.atts[w.c] = 1 .. Len(db.atts[w.c]) /\ db.atts[w.c] \in Seq(Attempts)
        /\ Len(db.atts[w.c]) \in Nat
    BY <1>1, DomainOfRows
  <2>2. Len(db.atts[w.c]) # 0 BY <1>1, <2>1
  <2> QED BY <1>a, <2>1, <2>2
<1>4. \/ db.scene = "CANCELLED"
      \/ \A b \in DOMAIN db.atts[w.c] : ~Complete1(w.c, b)
  BY <1>2 DEF IInv, CleanOK
<1>5. CASE Raise /\ UNCHANGED db BY <1>0, <1>2, <1>5, RaiseOK, QuietStutter
\* the next turn of the while loop: nothing of the attempts is complete
<1>6. ASSUME QuietStep, db'.scene = db.scene, w' \in WorkerStates, w'.pc = "loop", w'.c = w.c,
             w'.taken = w.taken, \A i \in Chunks : db'.chunks[i].acc = db.chunks[i].acc,
             DOMAIN db'.atts[w.c] = DOMAIN db.atts[w.c],
             \A b \in DOMAIN db.atts[w.c] :
               db'.atts[w.c][b].state = "COMPLETE" => db.atts[w.c][b].state = "COMPLETE"
      PROVE  IInv'
  <2>1. \A i \in 1 .. w.c - 1 : i \in Chunks BY TakenAccepted
  <2>2. PlaceOK'
    BY <1>1, <1>6, <2>1
       DEF IInv, PlaceOK, ChunkSteps, LoopSteps, ActiveSteps, AttemptSteps, PromptSteps, EndSteps
  <2>3. CleanOK'
    BY <1>4, <1>6 DEF CleanOK, Complete1, ActiveSteps, PromptSteps
  <2>4. SceneOK' BY <1>1, <1>6 DEF SceneOK
  <2> QED BY <1>1, <1>2, <1>6, <2>2, <2>3, <2>4, QuietKeeps
<1>7. CASE w' = [w EXCEPT !.pc = "loop", !.err = "",
                          !.tries = IF @ < MaxAttempts THEN @ + 1 ELSE @] /\ UNCHANGED db
  <2>1. /\ w' \in WorkerStates /\ w'.pc = "loop" /\ w'.c = w.c /\ w'.taken = w.taken
    <3>1. (IF w.tries < MaxAttempts THEN w.tries + 1 ELSE w.tries) \in Nat
      BY <1>1, WorkerParts
    <3>2. "loop" \in WorkerSteps /\ "" \in Errors
      BY DEF WorkerSteps, ChunkSteps, LoopSteps, Errors
    <3>3. PICK t \in Nat : w' = [w EXCEPT !.pc = "loop", !.err = "", !.tries = t]
      BY <1>1, <1>7, <3>1 DEF WorkerStates
    <3> QED BY <1>1, <3>2, <3>3 DEF WorkerStates
  <2> QED BY <1>0, <1>6, <1>7, <2>1, QuietStutter
<1>8. CASE LET ids == db.atts[w.c][a].ids
               terminal == Cardinality(Budget(w.c, w.con, ExpectedUp)) >= MaxAttempts
               state == IF terminal THEN "FAILED_TERMINAL" ELSE "FAILED_RETRYABLE"
           IN /\ db' = IF UpdateRefused(db, w.c, a, state, ids) THEN db
                       ELSE UpdateAttempt(db, w.c, a, state, ids)
              /\ w' = [w EXCEPT !.pc = IF terminal THEN "raise" ELSE "loop", !.err = ""]
  <2>1. PICK state \in {"FAILED_TERMINAL", "FAILED_RETRYABLE"}, pc \in {"raise", "loop"} :
          /\ db' = IF UpdateRefused(db, w.c, a, state, db.atts[w.c][a].ids) THEN db
                   ELSE UpdateAttempt(db, w.c, a, state, db.atts[w.c][a].ids)
          /\ w' = [w EXCEPT !.pc = pc, !.err = ""]
    <3>1. CASE Cardinality(Budget(w.c, w.con, ExpectedUp)) >= MaxAttempts BY <1>8, <3>1
    <3>2. CASE ~(Cardinality(Budget(w.c, w.con, ExpectedUp)) >= MaxAttempts) BY <1>8, <3>2
    <3> QED BY <3>1, <3>2
  <2>2. /\ w' \in WorkerStates /\ w'.pc = pc /\ w'.c = w.c /\ w'.taken = w.taken
    <3>1. pc \in WorkerSteps /\ "" \in Errors
      BY DEF WorkerSteps, ChunkSteps, LoopSteps, Errors
    <3> QED BY <1>1, <2>1, <3>1 DEF WorkerStates
  <2>3. state \in AttemptStates /\ state # "COMPLETE" BY DEF AttemptStates, FinalStates
  <2>4. /\ QuietStep /\ db'.scene = db.scene
        /\ \A i \in Chunks : db'.chunks[i].acc = db.chunks[i].acc
        /\ DOMAIN db'.atts[w.c] = DOMAIN db.atts[w.c]
        /\ \A b \in DOMAIN db.atts[w.c] :
             db'.atts[w.c][b].state = "COMPLETE" => db.atts[w.c][b].state = "COMPLETE"
    <3>1. CASE UNCHANGED db BY <1>0, <3>1, QuietStutter
    <3>2. CASE /\ ~UpdateRefused(db, w.c, a, state, db.atts[w.c][a].ids)
               /\ db' = UpdateAttempt(db, w.c, a, state, db.atts[w.c][a].ids)
      <4>1. QuietStep /\ Updated(db, db', w.c, a, state, db.atts[w.c][a].ids)
        BY <1>0, <1>1, <1>3, <2>3, <3>2, QuietUpdateOnly
      <4>2. db' \in Tables BY <4>1 DEF Updated
      <4>3. DOMAIN db'.atts[w.c] = DOMAIN db.atts[w.c]
        <5>1. db \in Tables /\ w.c \in Chunks BY <1>1
        <5> QED BY <4>1, <5>1, UpdatedDomain
      <4>4. db'.atts[w.c][a].state = state BY <1>3, <4>1 DEF Updated, Attempts
      <4> QED BY <1>1, <1>3, <2>3, <4>1, <4>3, <4>4 DEF Updated
    <3> QED BY <2>1, <3>1, <3>2
  <2>5. CASE pc = "loop" BY <1>6, <2>2, <2>4, <2>5
  <2>6. CASE pc = "raise" BY <1>1, <1>2, <2>2, <2>4, <2>6, OutsideOK
  <2> QED BY <2>5, <2>6
<1> QED BY <1>5, <1>7, <1>8, <1>a DEF HandleFailure

LEMMA StopSceneKeeps == ASSUME IInv, StopScene PROVE IInv'
<1>0. /\ w.pc = "raise" /\ w' = Idle("idle")
      /\ UNCHANGED <<disk, clip, prompts, comfy, contract, env>>
      /\ db' = IF comfy /\ db.scene = "PENDING" THEN [db EXCEPT !.scene = "FAILED"] ELSE db
  BY DEF StopScene, At, Quiet
<1>1. CASE UNCHANGED db BY <1>0, <1>1, EscapeOK, QuietStutter DEF RestSteps
<1>2. CASE db.scene = "PENDING" /\ db' = [db EXCEPT !.scene = "FAILED"]
  <2>1. StoreOK(db') /\ db'.scene = "FAILED" /\ db'.chunks = db.chunks /\ db'.atts = db.atts
    BY <1>2, SceneKeeps DEF IInv
  <2>2. QuietStep
    BY <1>0, <1>2, <2>1, PromptsStay, DiskStays
       DEF IInv, ShapeOK, LengthsOK, QuietStep, IdsKept
  <2> QED BY <1>0, <2>2, EscapeOK DEF RestSteps
<1> QED BY <1>0, <1>1, <1>2

\* The assembly: what is written is what the worker has taken.
LEMMA EndOK ==
  ASSUME IInv, w.pc \in EndSteps, NEW next \in EndSteps, Go(next),
         UNCHANGED <<db, disk, prompts, comfy, contract, env>>,
         clip' \in [file : Seq(Nat), doc : Seq(Nat)],
         next \in {"manifest", "done"} => clip'.file \in {<<>>, w.taken}
  PROVE  IInv'
<1>1. /\ w \in WorkerStates /\ w.c = NChunks + 1 /\ db.scene # "SUCCEEDED" /\ w.pc # "own"
      /\ Len(w.taken) = w.c - 1
  BY Placed DEF IInv, PlaceOK, SceneOK, EndSteps, RestSteps
<1>2. w' \in WorkerStates /\ w'.pc = next /\ w'.c = w.c /\ w'.taken = w.taken
  BY <1>1 DEF Go, WorkerStates, WorkerSteps
<1>3. QuietStep
  BY PromptsStay, DiskStays DEF IInv, ShapeOK, LengthsOK, QuietStep, IdsKept
<1>4. next \notin {"check", "post", "own"} BY DEF EndSteps
<1>5. PlaceOK'
  BY <1>1, <1>2
     DEF IInv, PlaceOK, ChunkSteps, LoopSteps, ActiveSteps, AttemptSteps, PromptSteps, EndSteps
<1>6. CleanOK' BY <1>2 DEF CleanOK, LoopSteps, ActiveSteps, PromptSteps, EndSteps
<1>7. SceneOK' BY <1>1, <1>2 DEF SceneOK
<1> QED BY <1>1, <1>2, <1>3, <1>4, <1>5, <1>6, <1>7, QuietKeeps

LEMMA AssembleKeeps == ASSUME IInv, Assemble PROVE IInv'
<1>0. /\ w.pc = "assemble" /\ UNCHANGED <<db, disk, prompts, comfy, contract, env>>
      /\ w.pc \in EndSteps /\ w.pc \notin RestSteps \cup {"own"}
      /\ {"manifest", "done"} \subseteq EndSteps
  BY DEF Assemble, At, Quiet, EndSteps, RestSteps
<1>1. w.taken \in Seq(Nat) /\ clip \in [file : Seq(Nat), doc : Seq(Nat)]
  <2>1. w.taken \in Seq(Nat \ {0}) BY Placed, WorkerParts
  <2> QED BY <2>1 DEF IInv, ShapeOK
<1>2. CASE Raise /\ UNCHANGED clip BY <1>0, <1>2, RaiseOK, QuietStutter
<1>3. CASE ClipValid /\ Go("done") /\ UNCHANGED clip
  BY <1>0, <1>1, <1>3, EndOK DEF ClipValid
<1>4. CASE clip' = [clip EXCEPT !.file = w.taken] /\ Go("manifest")
  <2>1. clip' \in [file : Seq(Nat), doc : Seq(Nat)] /\ clip'.file = w.taken
    BY <1>1, <1>4
  <2> QED BY <1>0, <1>4, <2>1, EndOK
<1> QED BY <1>2, <1>3, <1>4 DEF Assemble

LEMMA WriteManifestKeeps == ASSUME IInv, WriteManifest PROVE IInv'
<1>0. /\ w.pc = "manifest" /\ UNCHANGED <<db, disk, prompts, comfy, contract, env>>
      /\ w.pc \in EndSteps /\ w.pc \notin RestSteps \cup {"own"} /\ "done" \in EndSteps
  BY DEF WriteManifest, At, Quiet, EndSteps, RestSteps
<1>1. w.taken \in Seq(Nat) /\ clip \in [file : Seq(Nat), doc : Seq(Nat)]
  <2>1. w.taken \in Seq(Nat \ {0}) BY Placed, WorkerParts
  <2> QED BY <2>1 DEF IInv, ShapeOK
<1>2. CASE Raise /\ UNCHANGED clip BY <1>0, <1>2, RaiseOK, QuietStutter
<1>3. CASE clip' = [clip EXCEPT !.doc = w.taken] /\ Go("done")
  <2>1. clip' \in [file : Seq(Nat), doc : Seq(Nat)] /\ clip'.file = clip.file
    BY <1>1, <1>3
  <2>2. clip.file \in {<<>>, w.taken} BY <1>0 DEF IInv, SceneOK
  <2> QED BY <1>0, <1>3, <2>1, <2>2, EndOK
<1> QED BY <1>2, <1>3 DEF WriteManifest

LEMMA SceneDoneKeeps == ASSUME IInv, SceneDone PROVE IInv'
<1>0. w.pc = "done" /\ UNCHANGED <<disk, clip, prompts, comfy, contract, env>>
  BY DEF SceneDone, At, Quiet
<1>1. CASE Raise /\ UNCHANGED db BY <1>0, <1>1, RaiseOK, QuietStutter DEF RestSteps
<1>2. CASE /\ WorkIsActive(db) /\ db' = [db EXCEPT !.scene = "SUCCEEDED"]
           /\ w' = Idle("idle")
  <2>1. StoreOK(db') /\ db'.scene = "SUCCEEDED" /\ db'.chunks = db.chunks /\ db'.atts = db.atts
    BY <1>2, SceneKeeps DEF IInv
  <2>2. QuietStep
    BY <1>0, <1>2, <2>1, PromptsStay, DiskStays
       DEF IInv, ShapeOK, LengthsOK, QuietStep, IdsKept, WorkIsActive
  <2> QED BY <1>0, <1>2, <2>2, EscapeOK DEF RestSteps
<1> QED BY <1>1, <1>2 DEF SceneDone
-----------------------------------------------------------------------------
(* ComfyUI, the process, the operator and the disk                              *)

\* A step outside the worker's code, or one that stops the worker.
LEMMA WorldKeeps ==
  ASSUME IInv, StoreOK(db'), IdsKept, PromptsShrink, FilesEarned, HandsKept, CancelKept,
         disk' \in [Chunks -> Seq(SUBSET Kinds)],
         \A c \in Chunks : Len(disk'[c]) = Len(disk[c]) /\ Len(db'.atts[c]) = Len(db.atts[c]),
         clip' \in [file : Seq(Nat), doc : Seq(Nat)], comfy' \in BOOLEAN, contract' \in Nat,
         env' \in EnvStates, w' \in WorkerStates, Len(w'.taken) = w'.c - 1,
         PlaceOK', CleanOK', SceneOK'
  PROVE  IInv'
<1>1. ShapeOK' BY DEF ShapeOK, PromptsShrink
<1>2. ASSUME NEW c \in Chunks
      PROVE  /\ Len(disk'[c]) = Len(db'.atts[c])
             /\ \A a \in DOMAIN db'.atts[c] :
                  a \in DOMAIN db.atts[c] /\ db'.atts[c][a].ids = db.atts[c][a].ids
  <2>1. DOMAIN db'.atts[c] = DOMAIN db.atts[c]
    BY DomainOfRows DEF IInv, StoreOK
  <2> QED BY <2>1 DEF IInv, LengthsOK, IdsKept
<1>3. LengthsOK' BY <1>2, LengthsKept DEF IInv
<1>4. PromptsOK' BY PromptsKept DEF IInv
<1> QED BY <1>1, <1>3, <1>4 DEF IInv

\* Such a step that leaves the tables and the worker alone.
LEMMA OutsideKeeps ==
  ASSUME IInv, UNCHANGED <<db, w>>, PromptsShrink, FilesEarned, CancelKept,
         disk' \in [Chunks -> Seq(SUBSET Kinds)],
         \A c \in Chunks : Len(disk'[c]) = Len(disk[c]),
         clip' \in [file : Seq(Nat), doc : Seq(Nat)], clip'.file \in {<<>>, clip.file},
         comfy' \in BOOLEAN, contract' \in Nat, env' \in EnvStates
  PROVE  IInv'
<1>1. IdsKept /\ StoreOK(db') BY DEF IdsKept, IInv
<1>2. HandsKept BY DEF HandsKept, Turn
<1>3. PlaceOK' BY DEF IInv, PlaceOK
<1>4. CleanOK' BY DEF IInv, CleanOK, Complete1, Upstream
<1>5. SceneOK' BY DEF IInv, SceneOK
<1>6. w' \in WorkerStates /\ Len(w'.taken) = w'.c - 1 BY Placed
<1> QED BY <1>1, <1>2, <1>3, <1>4, <1>5, <1>6, WorldKeeps

LEMMA SpendKeeps ==
  ASSUME ShapeOK, NEW kind, Spend(kind)
  PROVE  env' \in EnvStates /\ env'.gui = env.gui /\ env'.lost = env.lost
<1>1. env \in EnvStates /\ MaxFaults \in Nat BY ChunkAssumption DEF ShapeOK
<1>2. env.faults + 1 \in 0 .. MaxFaults BY <1>1 DEF Spend, EnvStates
<1> QED BY <1>1, <1>2 DEF Spend, EnvStates

\* A prompt that ends, or has its output saved, does not enter the queue again.
LEMMA FinishShrinks ==
  ASSUME ShapeOK, NEW p \in DOMAIN prompts, Live(p), NEW st \in PromptStates, Finish(p, st)
  PROVE  PromptsShrink
<1>1. prompts \in Seq(PromptRows) /\ prompts[p] \in PromptRows BY DEF ShapeOK
<1> DEFINE x == [prompts[p] EXCEPT !.st = st]
<1>2. /\ x \in PromptRows /\ x.c = prompts[p].c /\ x.a = prompts[p].a /\ x.s = prompts[p].s
  BY <1>1 DEF PromptRows
<1>3. prompts' = [prompts EXCEPT ![p] = x] BY DEF Finish
<1> HIDE DEF x
<1>4. prompts' \in Seq(PromptRows) /\ Len(prompts') = Len(prompts)
  BY <1>1, <1>2, <1>3, ExceptSeq
<1>5. \A q \in DOMAIN prompts : prompts'[q] = IF q = p THEN x ELSE prompts[q] BY <1>1, <1>3
<1>6. ASSUME NEW q \in DOMAIN prompts PROVE Work(q)' = Work(q) /\ (Live(q)' => Live(q))
  <2>1. CASE q = p BY <1>2, <1>5, <2>1 DEF Work
  <2>2. CASE q # p BY <1>5, <2>2 DEF Work, Live
  <2> QED BY <2>1, <2>2
<1> QED BY <1>4, <1>6 DEF PromptsShrink

\* What a graph saves is the checkpoint of its stage.
LEMMA CheckpointsSaved ==
  ASSUME IInv, NEW p \in DOMAIN prompts,
         SaveCheckpoints(prompts[p].c, prompts[p].a, Graph[prompts[p].s].saves)
  PROVE  /\ disk' \in [Chunks -> Seq(SUBSET Kinds)] /\ FilesEarned
         /\ \A i \in Chunks : Len(disk'[i]) = Len(disk[i])
<1>1. PICK c \in Chunks, a \in Nat, s \in 1 .. 3 :
        c = prompts[p].c /\ a = prompts[p].a /\ s = prompts[p].s /\ Work(p) = <<c, a, s>>
  <2>1. prompts[p] \in PromptRows BY DEF IInv, ShapeOK
  <2> QED BY <2>1 DEF PromptRows, Work
<1>2. disk[c] \in Seq(SUBSET Kinds) /\ disk \in [Chunks -> Seq(SUBSET Kinds)]
  BY DEF IInv, ShapeOK
<1>3. a \in DOMAIN disk[c]
  <2>1. a \in DOMAIN db.atts[c] BY <1>1 DEF IInv, LengthsOK
  <2>2. DOMAIN db.atts[c] = 1 .. Len(db.atts[c]) BY DomainOfRows DEF IInv, StoreOK
  <2> QED BY <1>2, <2>1, <2>2 DEF IInv, LengthsOK
<1>4. PICK kinds \in SUBSET {"stage1", "stage2"} :
        /\ kinds = Graph[s].saves
        /\ \A t \in 1 .. 2 : StageFile[t] \in kinds => t = s
  <2>1. CASE s = 1 BY <2>1 DEF Graph, Stage1Graph, StageFile
  <2>2. CASE s = 2 BY <2>2 DEF Graph, Stage2Graph, StageFile
  <2>3. CASE s = 3 BY <2>3 DEF Graph, DecodeGraph, StageFile
  <2> QED BY <2>1, <2>2, <2>3
<1> DEFINE x == disk[c][a] \cup kinds
           t == [disk[c] EXCEPT ![a] = x]
<1>5. x \in SUBSET Kinds BY <1>2, <1>3, <1>4 DEF Kinds, Required
<1>6. t \in Seq(SUBSET Kinds) /\ Len(t) = Len(disk[c]) /\ DOMAIN t = DOMAIN disk[c]
  BY <1>2, <1>3, <1>5, ExceptSeq
<1>7. disk' = [disk EXCEPT ![c] = t] BY <1>1, <1>2, <1>4 DEF SaveCheckpoints
<1>8. \A b \in DOMAIN t : t[b] = IF b = a THEN x ELSE disk[c][b] OBVIOUS
<1> HIDE DEF t
<1>9. disk'[c] = t /\ \A i \in Chunks : i # c => disk'[i] = disk[i] BY <1>2, <1>7
<1>10. FilesEarned
  <2> SUFFICES ASSUME NEW i \in Chunks, NEW b \in DOMAIN disk'[i], NEW r \in 1 .. 2,
                      StageFile[r] \in disk'[i][b]
               PROVE  \/ b \in DOMAIN disk[i] /\ StageFile[r] \in disk[i][b]
                      \/ Work(p) = <<i, b, r>>
    BY DEF FilesEarned
  <2>1. CASE i # c BY <2>1, <1>9
  <2>2. CASE i = c
    <3>1. b \in DOMAIN disk[c] BY <2>2, <1>6, <1>9
    <3>2. CASE b = a
      <4>1. StageFile[r] \in x BY <2>2, <3>1, <3>2, <1>6, <1>8, <1>9
      <4>2. StageFile[r] \in disk[c][a] \/ r = s BY <4>1, <1>4
      <4> QED BY <1>1, <2>2, <3>1, <3>2, <4>2
    <3>3. CASE b # a BY <2>2, <3>1, <3>3, <1>6, <1>8, <1>9
    <3> QED BY <3>2, <3>3
  <2> QED BY <2>1, <2>2
<1> QED BY <1>2, <1>6, <1>7, <1>9, <1>10

LEMMA RunPromptKeeps == ASSUME IInv, RunPrompt PROVE IInv'
<1>0. UNCHANGED <<db, clip, comfy, contract, w>> BY DEF RunPrompt
<1>1. /\ disk \in [Chunks -> Seq(SUBSET Kinds)] /\ clip \in [file : Seq(Nat), doc : Seq(Nat)]
      /\ comfy \in BOOLEAN /\ contract \in Nat /\ env \in EnvStates
  BY DEF IInv, ShapeOK
<1>2. PICK p \in DOMAIN prompts :
        /\ Live(p)
        /\ \/ /\ SaveCheckpoints(prompts[p].c, prompts[p].a, Graph[prompts[p].s].saves)
              /\ UNCHANGED env
           \/ UNCHANGED disk
        /\ \/ Finish(p, "done") \/ Finish(p, "saved") \/ Finish(p, "failed") \/ Finish(p, "bad")
        /\ UNCHANGED env \/ Spend("prompt")
  BY DEF RunPrompt
<1>3. PromptsShrink
  <2>1. {"done", "saved", "failed", "bad"} \subseteq PromptStates BY DEF PromptStates
  <2> QED BY <1>2, <2>1, FinishShrinks DEF IInv
<1>4. env' \in EnvStates /\ env'.gui = env.gui /\ env'.lost = env.lost
  BY <1>1, <1>2, SpendKeeps DEF IInv
<1>5. CancelKept BY <1>0, <1>4 DEF CancelKept
<1>6. /\ disk' \in [Chunks -> Seq(SUBSET Kinds)] /\ FilesEarned
      /\ \A c \in Chunks : Len(disk'[c]) = Len(disk[c])
  <2>1. CASE UNCHANGED disk BY <1>1, <2>1, DiskStays
  <2>2. CASE SaveCheckpoints(prompts[p].c, prompts[p].a, Graph[prompts[p].s].saves)
    BY <2>2, CheckpointsSaved
  <2> QED BY <1>2, <2>1, <2>2
<1> QED BY <1>0, <1>1, <1>3, <1>4, <1>5, <1>6, OutsideKeeps
\* All prompts leave the queue when ComfyUI dies.
LEMMA ComfyDiesKeeps == ASSUME IInv, ComfyDies PROVE IInv'
<1>0. /\ UNCHANGED <<db, disk, clip, contract, w>> /\ comfy' = FALSE /\ Spend("comfy")
      /\ prompts' = [p \in DOMAIN prompts |-> [prompts[p] EXCEPT !.st = "gone"]]
  BY DEF ComfyDies
<1>1. /\ disk \in [Chunks -> Seq(SUBSET Kinds)] /\ clip \in [file : Seq(Nat), doc : Seq(Nat)]
      /\ contract \in Nat /\ prompts \in Seq(PromptRows)
  BY DEF IInv, ShapeOK
<1>2. \A p \in DOMAIN prompts : /\ prompts'[p] \in PromptRows
                                /\ prompts'[p].c = prompts[p].c /\ prompts'[p].a = prompts[p].a
                                /\ prompts'[p].s = prompts[p].s /\ prompts'[p].st = "gone"
  <2> TAKE p \in DOMAIN prompts
  <2>1. prompts[p] \in PromptRows /\ prompts'[p] = [prompts[p] EXCEPT !.st = "gone"]
    BY <1>0, <1>1
  <2> QED BY <2>1 DEF PromptRows, PromptStates
<1>3. PromptsShrink /\ \A p \in DOMAIN prompts : ~Live(p)'
  <2>1. prompts' = [p \in DOMAIN prompts |-> prompts'[p]] BY <1>0
  <2>2. prompts' \in Seq(PromptRows) /\ Len(prompts') = Len(prompts)
    BY <1>1, <1>2, <2>1, Rewritten
  <2>3. \A p \in DOMAIN prompts : Work(p)' = Work(p) /\ ~Live(p)' BY <1>2 DEF Work, Live
  <2> QED BY <2>2, <2>3 DEF PromptsShrink
<1>4. env' \in EnvStates /\ env'.gui = env.gui /\ env'.lost = env.lost
  BY <1>0, SpendKeeps DEF IInv
<1>5. CancelKept BY <1>0, <1>3, <1>4 DEF CancelKept
<1> QED BY <1>0, <1>1, <1>3, <1>4, <1>5, DiskStays, OutsideKeeps

LEMMA ComfyRestartsKeeps == ASSUME IInv, ComfyRestarts PROVE IInv'
<1>0. UNCHANGED <<db, disk, clip, prompts, contract, w, env>> /\ comfy' = TRUE
  BY DEF ComfyRestarts
<1>1. PromptsShrink BY <1>0, PromptsStay DEF IInv
<1>2. CancelKept BY <1>0 DEF CancelKept
<1> QED BY <1>0, <1>1, <1>2, DiskStays, OutsideKeeps DEF IInv, ShapeOK

\* A crash between the dispatch of a prompt and the write of its id loses the id.
LEMMA CrashKeeps == ASSUME IInv, Crash PROVE IInv'
<1>0. /\ UNCHANGED <<db, disk, clip, prompts, comfy, contract>> /\ w' = Idle("down")
      /\ env.faults < MaxFaults
      /\ env' = [faults |-> env.faults + 1, lost |-> env.lost \/ w.pc = "own",
                 gui |-> IF env.gui = "cancel" THEN "died" ELSE env.gui]
  BY DEF Crash, At
<1>1. env \in EnvStates /\ MaxFaults \in Nat BY ChunkAssumption DEF IInv, ShapeOK
<1>2. env' \in EnvStates /\ (env'.gui = "idle" => env.gui = "idle")
  <2>1. env.faults + 1 \in 0 .. MaxFaults BY <1>0, <1>1 DEF EnvStates
  <2>2. (env.lost \/ w.pc = "own") \in BOOLEAN BY <1>1 DEF EnvStates
  <2>3. (IF env.gui = "cancel" THEN "died" ELSE env.gui) \in {"idle", "cancel", "died"}
    BY <1>1 DEF EnvStates
  <2> QED BY <1>0, <2>1, <2>2, <2>3 DEF EnvStates
<1>3. w'.pc = "down" /\ (env.lost => env'.lost) /\ (w.pc = "own" => env'.lost)
  BY <1>0 DEF Idle
<1>4. HandsKept /\ CancelKept BY <1>0, <1>2, <1>3 DEF HandsKept, CancelKept
<1>5. w' \in WorkerStates /\ Len(w'.taken) = w'.c - 1 /\ PlaceOK' /\ CleanOK' /\ SceneOK'
  <2>1. "down" \in RestSteps BY DEF RestSteps
  <2> QED BY <1>0, <2>1, IdleOK
<1>6. IdsKept /\ FilesEarned /\ PromptsShrink
  BY <1>0, DiskStays, PromptsStay DEF IInv, IdsKept
<1>7. StoreOK(db') BY <1>0 DEF IInv
<1>8. /\ disk' \in [Chunks -> Seq(SUBSET Kinds)] /\ clip' \in [file : Seq(Nat), doc : Seq(Nat)]
      /\ comfy' \in BOOLEAN /\ contract' \in Nat
      /\ \A c \in Chunks : Len(disk'[c]) = Len(disk[c]) /\ Len(db'.atts[c]) = Len(db.atts[c])
  BY <1>0 DEF IInv, ShapeOK
<1> QED BY <1>2, <1>4, <1>5, <1>6, <1>7, <1>8, WorldKeeps

LEMMA BootKeeps == ASSUME IInv, Boot PROVE IInv'
<1>0. w.pc = "down" /\ w' = Idle("idle")
      /\ UNCHANGED <<db, disk, clip, prompts, comfy, contract, env>>
  BY DEF Boot, At, OnlyWorker, Quiet
<1> QED BY <1>0, QuietStutter, EscapeOK DEF RestSteps

\* A transaction that sweeps the rows, outside the worker.
LEMMA SweptKeeps ==
  ASSUME IInv, Swept(db, db'), UNCHANGED <<disk, clip, prompts, comfy, contract, w>>,
         env' \in EnvStates, CancelKept, CleanOK', SceneOK'
  PROVE  IInv'
<1>1. StoreOK(db') BY SweepKeeps DEF IInv
<1>2. \A c \in Chunks : /\ Len(db'.atts[c]) = Len(db.atts[c])
                        /\ db'.chunks[c].acc = db.chunks[c].acc
  BY DEF Swept
<1>3. \A c \in Chunks : DOMAIN db'.atts[c] = DOMAIN db.atts[c] /\ DOMAIN db.atts[c] = 1 .. Len(db.atts[c])
  BY <1>1, <1>2, DomainOfRows DEF IInv, StoreOK
<1>4. \A c \in Chunks : \A a \in DOMAIN db.atts[c] : db'.atts[c][a].ids = db.atts[c][a].ids
  BY DEF Swept
<1>5. IdsKept BY <1>3, <1>4 DEF IdsKept
<1>6. HandsKept BY DEF HandsKept, Turn
<1>7. FilesEarned /\ PromptsShrink BY DiskStays, PromptsStay DEF IInv
<1>8. PlaceOK'
  <2>1. \A c \in 1 .. w.c - 1 : c \in Chunks BY TakenAccepted
  <2>2. w.pc \in AttemptSteps \cup {"discard"} \cup {"recover", "failed"} => w.pc \in ChunkSteps
    BY DEF AttemptSteps, ChunkSteps, LoopSteps
  <2>3. w.pc = "failed" => db'.atts[w.c] # <<>>
    <3> SUFFICES ASSUME w.pc = "failed" PROVE db'.atts[w.c] # <<>>
      OBVIOUS
    <3>1. w.c \in Chunks /\ db.atts[w.c] # <<>> BY <2>2 DEF IInv, PlaceOK
    <3>2. db.atts[w.c] \in Seq(Attempts) BY <3>1, DomainOfRows DEF IInv, StoreOK
    <3> QED BY <1>2, <3>1, <3>2
  <2>4. w.pc \in AttemptSteps => w.ids = db'.atts[w.c][w.a].ids
    BY <1>4, <2>2 DEF IInv, PlaceOK
  <2> QED BY <1>2, <1>3, <2>1, <2>2, <2>3, <2>4 DEF IInv, PlaceOK
<1>9. /\ disk' \in [Chunks -> Seq(SUBSET Kinds)] /\ clip' \in [file : Seq(Nat), doc : Seq(Nat)]
      /\ comfy' \in BOOLEAN /\ contract' \in Nat
      /\ \A c \in Chunks : Len(disk'[c]) = Len(disk[c]) /\ Len(db'.atts[c]) = Len(db.atts[c])
  BY <1>2 DEF IInv, ShapeOK
<1>10. w' \in WorkerStates /\ Len(w'.taken) = w'.c - 1 BY Placed
<1> QED BY <1>1, <1>5, <1>6, <1>7, <1>8, <1>9, <1>10, WorldKeeps

LEMMA RetryKeeps == ASSUME IInv, Retry PROVE IInv'
<1>0. /\ w.pc = "down" /\ db.scene \in {"PENDING", "FAILED"} /\ Spend("retry")
      /\ db' = RetryJob(db) /\ UNCHANGED <<disk, clip, prompts, comfy, contract, w>>
  BY DEF Retry, At
<1>1. Swept(db, db') /\ db'.scene = "PENDING" BY <1>0, RetryDoes DEF IInv
<1>2. env' \in EnvStates /\ env'.gui = env.gui /\ env'.lost = env.lost
  BY <1>0, SpendKeeps DEF IInv
<1>3. CancelKept BY <1>0, <1>1, <1>2 DEF CancelKept
<1>4. CleanOK' BY <1>0 DEF CleanOK, LoopSteps, ActiveSteps, PromptSteps
<1>5. SceneOK' BY <1>0, <1>1 DEF SceneOK
<1> QED BY <1>0, <1>1, <1>2, <1>3, <1>4, <1>5, SweptKeeps

LEMMA CancelKeeps == ASSUME IInv, Cancel PROVE IInv'
<1>0. /\ db' = AbandonJob(db) /\ env' = [env EXCEPT !.gui = "cancel"]
      /\ UNCHANGED <<disk, clip, prompts, comfy, contract, w>>
  BY DEF Cancel
<1>1. Swept(db, db') /\ db'.scene = "CANCELLED" BY <1>0, AbandonDoes DEF IInv
<1>2. env' \in EnvStates /\ env'.gui = "cancel" /\ env'.lost = env.lost
  BY <1>0 DEF IInv, ShapeOK, EnvStates
<1>3. CancelKept BY <1>0, <1>1, <1>2 DEF CancelKept
<1>4. CleanOK' BY <1>1 DEF CleanOK
<1>5. SceneOK' BY <1>0, <1>1 DEF IInv, SceneOK
<1> QED BY <1>0, <1>1, <1>2, <1>3, <1>4, <1>5, SweptKeeps
\* The cancellation is through once the GUI has called back what runs.
LEMMA CancelProjectPromptsKeeps == ASSUME IInv, CancelProjectPrompts PROVE IInv'
<1>0. /\ UNCHANGED <<db, disk, clip, comfy, contract, w>>
      /\ prompts' = CancelPrompts(DOMAIN prompts) /\ env' = [env EXCEPT !.gui = "idle"]
  BY DEF CancelProjectPrompts
<1>1. PromptsShrink /\ \A p \in DOMAIN prompts : comfy => ~Live(p)'
  BY <1>0, CancelPromptsShrinks DEF IInv
<1>2. env' \in EnvStates /\ env'.lost = env.lost BY <1>0 DEF IInv, ShapeOK, EnvStates
<1>3. ~comfy => \A p \in DOMAIN prompts : ~Live(p)'
  BY <1>1 DEF IInv, PromptsOK, Silent, PromptsShrink
<1>4. CancelKept BY <1>0, <1>1, <1>2, <1>3 DEF CancelKept, IInv, ShapeOK
<1> QED BY <1>0, <1>1, <1>2, <1>4, DiskStays, OutsideKeeps DEF IInv, ShapeOK

LEMMA DamageKeeps == ASSUME IInv, Damage PROVE IInv'
<1>0. UNCHANGED <<db, prompts, comfy, contract, w>> /\ Spend("damage")
  BY DEF Damage
<1>1. /\ disk \in [Chunks -> Seq(SUBSET Kinds)] /\ clip \in [file : Seq(Nat), doc : Seq(Nat)]
      /\ comfy \in BOOLEAN /\ contract \in Nat
  BY DEF IInv, ShapeOK
<1>2. env' \in EnvStates /\ env'.gui = env.gui /\ env'.lost = env.lost
  BY <1>0, SpendKeeps DEF IInv
<1>3. PromptsShrink /\ CancelKept
  BY <1>0, <1>2, PromptsStay DEF IInv, CancelKept
<1>4. CASE clip' = [clip EXCEPT !.file = <<>>] /\ UNCHANGED disk
  <2>0. <<>> \in Seq(Nat) OBVIOUS
  <2>1. clip' \in [file : Seq(Nat), doc : Seq(Nat)] /\ clip'.file = <<>>
    BY <1>1, <1>4, <2>0
  <2> QED BY <1>0, <1>1, <1>2, <1>3, <1>4, <2>1, DiskStays, OutsideKeeps
<1>5. ASSUME NEW c \in Chunks, NEW a \in DOMAIN disk[c], NEW f \in Files(c, a),
             disk' = [disk EXCEPT ![c][a] = @ \ {f}], UNCHANGED clip
      PROVE  IInv'
  <2> DEFINE x == disk[c][a] \ {f}
             t == [disk[c] EXCEPT ![a] = x]
  <2>1. disk[c] \in Seq(SUBSET Kinds) /\ x \in SUBSET Kinds BY <1>1
  <2>2. t \in Seq(SUBSET Kinds) /\ Len(t) = Len(disk[c]) /\ DOMAIN t = DOMAIN disk[c]
    BY <2>1, ExceptSeq
  <2>3. \A b \in DOMAIN t : t[b] \subseteq disk[c][b] OBVIOUS
  <2>4. disk' = [disk EXCEPT ![c] = t] BY <1>1, <1>5
  <2> HIDE DEF t
  <2>5. disk'[c] = t /\ \A i \in Chunks : i # c => disk'[i] = disk[i] BY <1>1, <2>4
  <2>6. /\ disk' \in [Chunks -> Seq(SUBSET Kinds)]
        /\ \A i \in Chunks : Len(disk'[i]) = Len(disk[i])
    BY <1>1, <2>2, <2>4, <2>5
  <2>7. FilesEarned
    <3> SUFFICES ASSUME NEW i \in Chunks, NEW b \in DOMAIN disk'[i], NEW s \in 1 .. 2,
                        StageFile[s] \in disk'[i][b]
                 PROVE  b \in DOMAIN disk[i] /\ StageFile[s] \in disk[i][b]
      BY DEF FilesEarned
    <3>1. CASE i = c BY <2>2, <2>3, <2>5, <3>1
    <3>2. CASE i # c BY <2>5, <3>2
    <3> QED BY <3>1, <3>2
  <2> QED BY <1>0, <1>1, <1>2, <1>3, <1>5, <2>6, <2>7, OutsideKeeps
<1> QED BY <1>4, <1>5 DEF Damage

LEMMA UpgradeKeeps == ASSUME IInv, Upgrade PROVE IInv'
<1>0. /\ UNCHANGED <<db, disk, clip, prompts, comfy, w>> /\ Spend("upgrade")
      /\ contract' = contract + 1
  BY DEF Upgrade
<1>1. env' \in EnvStates /\ env'.gui = env.gui /\ env'.lost = env.lost
  BY <1>0, SpendKeeps DEF IInv
<1>2. PromptsShrink /\ CancelKept
  BY <1>0, <1>1, PromptsStay DEF IInv, CancelKept
<1> QED BY <1>0, <1>1, <1>2, DiskStays, OutsideKeeps DEF IInv, ShapeOK

LEMMA StutterKeeps == ASSUME IInv, UNCHANGED vars PROVE IInv'
<1>1. UNCHANGED <<db, disk, clip, prompts, comfy, contract, w, env>> BY DEF vars
<1>2. PromptsShrink /\ CancelKept BY <1>1, PromptsStay DEF IInv, CancelKept
<1> QED BY <1>1, <1>2, DiskStays, OutsideKeeps DEF IInv, ShapeOK

-----------------------------------------------------------------------------
(* The invariant                                                                *)

LEMMA InitOK == ASSUME Init PROVE IInv
<1>0. /\ db = [scene |-> "PENDING", plan |-> FALSE,
               chunks |-> [c \in Chunks |-> [state |-> "NONE", acc |-> 0]],
               atts |-> [c \in Chunks |-> <<>>]]
      /\ disk = [c \in Chunks |-> <<>>] /\ clip = [file |-> <<>>, doc |-> <<>>]
      /\ prompts = <<>> /\ comfy = TRUE /\ contract = 1 /\ w = Idle("idle")
      /\ env = [faults |-> 0, gui |-> "idle", lost |-> FALSE]
  BY DEF Init
<1>1. db \in Tables
  <2>1. [state |-> "NONE", acc |-> 0] \in ChunkRows BY DEF ChunkRows, ChunkStates
  <2> QED BY <1>0, <2>1 DEF Tables
<1>2. ASSUME NEW c \in Chunks PROVE RowsOK(db, c)
  <2>1. /\ db.atts[c] = <<>> /\ DOMAIN db.atts[c] = {} /\ db.chunks[c].acc = 0
        /\ Len(db.atts[c]) = 0
    BY <1>0
  <2>2. ActiveAttempts(db, c) = {} BY <2>1 DEF ActiveAttempts
  <2>3. Frugal(db, c)
    <3>1. \A con, up : Spent(db, c, con, up) = {} BY <2>1 DEF Spent
    <3> QED BY <3>1, FS_EmptySet, ChunkAssumption DEF Frugal
  <2> QED BY <2>1, <2>2, <2>3 DEF RowsOK, Linked, Alone, Unrivalled, Rooted, Unplanned
<1>3. /\ w.pc = "idle" /\ w.c = 1 /\ w.taken = <<>> /\ w.ids = NoPrompts /\ w.con = 0
      /\ w.a = 0 /\ w.k = 0 /\ w.stage = 0 /\ w.p = 0 /\ w.tries = 0 /\ w.err = ""
  BY <1>0 DEF Idle
<1>4. ShapeOK
  <2>1. w \in WorkerStates
    <3>1. NoPrompts \in PromptIds BY DEF NoPrompts, PromptIds
    <3>2. w.pc \in WorkerSteps BY <1>3 DEF WorkerSteps, RestSteps
    <3>3. w.c \in 1 .. NChunks + 1
      <4>1. 1 \in 1 .. NChunks + 1 BY ChunkAssumption
      <4> QED BY <1>3, <4>1
    <3>4. w.err \in Errors BY <1>3 DEF Errors
    <3>5. w.stage \in 0 .. 3
      <4>1. 0 \in 0 .. 3 OBVIOUS
      <4> QED BY <1>3, <4>1
    <3>6. /\ w.con \in Nat /\ w.a \in Nat /\ w.k \in Nat /\ w.p \in Nat /\ w.tries \in Nat
          /\ w.taken \in Seq(Nat \ {0})
      <4>1. 0 \in Nat /\ <<>> \in Seq(Nat \ {0}) OBVIOUS
      <4> QED BY <1>3, <4>1
    <3>7. w = [pc |-> w.pc, con |-> w.con, c |-> w.c, taken |-> w.taken, a |-> w.a,
               k |-> w.k, ids |-> w.ids, stage |-> w.stage, p |-> w.p, tries |-> w.tries,
               err |-> w.err]
      BY <1>0 DEF Idle
    <3> QED BY <1>3, <3>1, <3>2, <3>3, <3>4, <3>5, <3>6, <3>7, WorkerMade
  <2>2. env \in EnvStates BY <1>0, ChunkAssumption DEF EnvStates
  <2>3. /\ disk \in [Chunks -> Seq(SUBSET Kinds)] /\ clip \in [file : Seq(Nat), doc : Seq(Nat)]
        /\ prompts \in Seq(PromptRows) /\ comfy \in BOOLEAN /\ contract \in Nat
    BY <1>0
  <2> QED BY <2>1, <2>2, <2>3 DEF ShapeOK
<1>5. LengthsOK
  <2>1. \A c \in Chunks : disk[c] = <<>> /\ db.atts[c] = <<>> BY <1>0
  <2>2. DOMAIN prompts = {} BY <1>0
  <2>3. \A c \in Chunks : DOMAIN db.atts[c] = {} BY <2>1
  <2>4. Len(w.taken) = w.c - 1
    <3>1. w.c = 1 /\ w.taken = <<>> BY <1>3
    <3>2. w.c - 1 = 0 BY <3>1
    <3>3. Len(w.taken) = 0 BY <3>1
    <3> QED BY <3>2, <3>3
  <2> QED BY <2>1, <2>2, <2>3, <2>4 DEF LengthsOK
<1>6. PlaceOK
  <2>1. \A c \in 1 .. w.c - 1 : FALSE
    <3>1. w.c = 1 BY <1>3
    <3>2. w.c - 1 = 0 BY <3>1
    <3> QED BY <3>2
  <2> QED BY <1>3, <2>1
          DEF PlaceOK, ChunkSteps, LoopSteps, ActiveSteps, AttemptSteps, PromptSteps, EndSteps
<1>7. CleanOK /\ SceneOK
  BY <1>3 DEF CleanOK, SceneOK, LoopSteps, ActiveSteps, PromptSteps, RestSteps
<1>8. PromptsOK
  <2>1. DOMAIN prompts = {} BY <1>0
  <2>2. Saved BY <1>0 DEF Saved
  <2>3. Posted BY <1>3 DEF Posted
  <2> QED BY <2>1, <2>2, <2>3 DEF PromptsOK, Recorded, Owned, Fresh, Silent, Hushed
<1> QED BY <1>1, <1>2, <1>4, <1>5, <1>6, <1>7, <1>8 DEF IInv, StoreOK

LEMMA WorkerKeeps == ASSUME IInv, Worker PROVE IInv'
BY StartRenderKeeps, PersistPlanKeeps, NextChunkKeeps, InvalidateAcceptedKeeps,
   RecoverCompleteKeeps, BeginOrResumeKeeps, DiscardMismatchedKeeps, Stage1Keeps,
   Stage1DoneKeeps, Stage2Keeps, Stage2DoneKeeps, ReclaimKeeps, DecodeDoneKeeps, FinalizeKeeps,
   CompleteKeeps, SelectStepKeeps, ReadHistoryKeeps, ReadQueueKeeps, CheckBeforeQueueKeeps,
   QueuePromptKeeps, OwnPromptKeeps, WaitPromptKeeps, HandleFailureKeeps, StopSceneKeeps,
   AssembleKeeps, WriteManifestKeeps, SceneDoneKeeps
   DEF Worker

LEMMA StepKeeps == ASSUME IInv, [Next]_vars PROVE IInv'
BY WorkerKeeps, RunPromptKeeps, ComfyDiesKeeps, ComfyRestartsKeeps, CrashKeeps, BootKeeps,
   RetryKeeps, CancelKeeps, CancelProjectPromptsKeeps, DamageKeeps, UpgradeKeeps, StutterKeeps
   DEF Next

\* The inductive invariant: the rows of the scene form a chain of accepted attempts; the worker
\* is where the tables say it is and knows of its attempts what they say, unless the scene was
\* cancelled; and every prompt has its id in the row it was sent for or is the one just sent.
THEOREM Inductive == Spec => []IInv
<1>1. Init => IInv BY InitOK
<1>2. IInv /\ [Next]_vars => IInv' BY StepKeeps
<1> QED BY <1>1, <1>2, PTL DEF Spec
-----------------------------------------------------------------------------
(* The invariants                                                               *)

LEMMA TypesOK == ASSUME IInv PROVE TypeOK
<1>1. ASSUME NEW c \in Chunks
      PROVE  /\ db.chunks[c].acc \in 0 .. Len(db.atts[c])
             /\ db.chunks[c].state \in {"NONE", "READY", "BLOCKED_UPSTREAM"}
                                       \cup Active \cup FinalStates
             /\ Len(disk[c]) = Len(db.atts[c])
             /\ \A a \in DOMAIN db.atts[c] :
                  /\ db.atts[c][a].state \in Active \cup FinalStates
                  /\ \A s \in 1 .. 3 : db.atts[c][a].ids[s] \in 0 .. Len(prompts)
                  /\ Files(c, a) \subseteq Required \cup {"frame"}
  <2>1. /\ DOMAIN db.atts[c] = 1 .. Len(db.atts[c]) /\ Len(db.atts[c]) \in Nat
        /\ \A a \in DOMAIN db.atts[c] : db.atts[c][a] \in Attempts
        /\ db.chunks[c] \in ChunkRows /\ Linked(db, c)
    BY DomainOfRows DEF IInv, StoreOK, RowsOK
  <2>2. Len(disk[c]) = Len(db.atts[c]) /\ disk[c] \in Seq(SUBSET Kinds)
    BY DEF IInv, LengthsOK, ShapeOK
  <2>3. db.chunks[c].acc \in 0 .. Len(db.atts[c]) BY <2>1 DEF Linked, ChunkRows
  <2>4. db.chunks[c].state \in {"NONE", "READY", "BLOCKED_UPSTREAM"} \cup Active \cup FinalStates
    BY <2>1 DEF ChunkRows, ChunkStates, AttemptStates
  <2>5. ASSUME NEW a \in DOMAIN db.atts[c]
        PROVE  /\ db.atts[c][a].state \in Active \cup FinalStates
               /\ \A s \in 1 .. 3 : db.atts[c][a].ids[s] \in 0 .. Len(prompts)
               /\ Files(c, a) \subseteq Required \cup {"frame"}
    <3>1. db.atts[c][a].state \in Active \cup FinalStates /\ db.atts[c][a].ids \in PromptIds
      BY <2>1 DEF Attempts, AttemptStates
    <3>2. \A s \in 1 .. 3 : db.atts[c][a].ids[s] <= Len(prompts) BY DEF IInv, LengthsOK
    <3>3. Len(prompts) \in Nat BY DEF IInv, ShapeOK
    <3>4. \A s \in 1 .. 3 : db.atts[c][a].ids[s] \in 0 .. Len(prompts)
      BY <3>1, <3>2, <3>3 DEF PromptIds
    <3>5. a \in DOMAIN disk[c] BY <2>1, <2>2
    <3>6. disk[c][a] \in SUBSET Kinds BY <2>2, <3>5
    <3> QED BY <3>1, <3>4, <3>6 DEF Files, Kinds
  <2> QED BY <2>2, <2>3, <2>4, <2>5
<1>2. db.scene \in {"PENDING", "FAILED", "SUCCEEDED", "CANCELLED"} BY DEF IInv, StoreOK, Tables
<1>3. w.c \in 1 .. NChunks + 1 /\ Len(w.taken) = w.c - 1 BY Placed, WorkerParts
<1>4. comfy \in BOOLEAN /\ env.faults \in 0 .. MaxFaults BY DEF IInv, ShapeOK, EnvStates
<1> QED BY <1>1, <1>2, <1>3, <1>4 DEF TypeOK

LEMMA RowsChain == ASSUME IInv PROVE ChainConsistent
<1>1. AcceptedChain BY DEF AcceptedChain, IInv, StoreOK, RowsOK, Linked
<1>2. OneActive BY DEF OneActive, IInv, StoreOK, RowsOK, Alone
<1>3. BudgetKept
  <2> SUFFICES ASSUME NEW c \in Chunks, NEW con \in 1 .. contract,
                      NEW up \in 0 .. MaxFaults + MaxAttempts
               PROVE  Cardinality(Spent(db, c, con, up)) <= MaxAttempts
    BY DEF BudgetKept, Spent
  <2>1. con \in Nat /\ up \in Nat BY ChunkAssumption DEF IInv, ShapeOK
  <2> QED BY <2>1 DEF IInv, StoreOK, RowsOK, Frugal
<1> QED BY <1>1, <1>2, <1>3, TypesOK DEF ChainConsistent

\* Whatever crashes, failures, reclaims, retries and cancellations happen in whatever order, the
\* rows of a scene are one chain: an accepted attempt is complete and was begun from the attempt
\* accepted below it (select_chunk_attempt, invalidate_chunks_from), one attempt of the scene is
\* in execution and it belongs to the first chunk not accepted (begin_chunk_attempt), and no
\* inputs get more than TENMIN_MAX_STAGE_ATTEMPTS attempts (_render_chunk).
THEOREM ChainStaysConsistent == Spec => []ChainConsistent
BY RowsChain, Inductive, PTL

LEMMA NoPromptTwice == ASSUME IInv PROVE NoDuplicateWork
<1> SUFFICES ASSUME ~env.lost, NEW p \in DOMAIN prompts, NEW q \in DOMAIN prompts,
                    Live(p), Live(q), p # q, Work(p) = Work(q)
             PROVE  FALSE
  BY DEF NoDuplicateWork, Work
<1>1. (Id(p) = p \/ Mine(p)) /\ (Id(q) = q \/ Mine(q)) BY DEF IInv, PromptsOK, Owned
<1>2. Id(p) = Id(q) BY DEF Id, Work
\* a second prompt of the work of the one in hand is not in the queue
<1>3. ASSUME NEW r \in DOMAIN prompts, Mine(r), NEW o \in DOMAIN prompts, Live(o), o # r
      PROVE  Work(o) # Work(r)
  <2>1. w.pc = "own" /\ w.p = r BY <1>3 DEF Mine
  <2>2. Work(r) = Turn BY <2>1 DEF IInv, PromptsOK, Posted
  <2>3. Work(o) # Turn BY <1>3, <2>1 DEF IInv, PromptsOK, Fresh
  <2> QED BY <2>2, <2>3
<1>4. ~Mine(p) /\ ~Mine(q) BY <1>3
<1> QED BY <1>1, <1>2, <1>4

\* Each prompt in the ComfyUI queue is somebody's.  Unless its id was lost, by a crash before its
\* write or a broken connection in /prompt, the same graph of the same attempt is not queued
\* twice (_run_or_reclaim_prompt looks into history and queue before it posts), and once the
\* renderer and the GUI handler are done with a cancelled scene nothing of it runs on.
THEOREM PromptsStayAccounted == Spec => []PromptsAccounted
<1>1. IInv => PromptsAccounted
  <2>1. IInv => CancelledQuiet BY DEF IInv, PromptsOK, Hushed, CancelledQuiet, Mine
  <2> QED BY <2>1, NoPromptTwice DEF PromptsAccounted
<1> QED BY <1>1, Inductive, PTL
-----------------------------------------------------------------------------
(* What a step may write to the tables                                          *)

AccKept == \A c \in Chunks : db'.chunks[c].acc = db.chunks[c].acc
Withdraws == w.pc = "invalidate" /\ w.c \in Chunks /\ Invalidated(db, db', w.c)
Selects == /\ w.pc \in {"recover", "select"} /\ w.c \in Chunks /\ db.chunks[w.c].acc = 0
           /\ \E a \in DOMAIN db.atts[w.c] : Selected(db, db', w.c, a)
Succeeds == w.pc = "done" /\ db' = [db EXCEPT !.scene = "SUCCEEDED"]
Records == AccKept /\ db'.scene # "SUCCEEDED"
Writes == /\ WorkIsActive(db) /\ db.scene # "SUCCEEDED"
          /\ Withdraws \/ Selects \/ Succeeds \/ Records

LEMMA UpdateWrites ==
  ASSUME IInv, w.pc \notin RestSteps, NEW c \in Chunks, NEW a \in DOMAIN db.atts[c],
         NEW state \in AttemptStates, state # "CANCELLED", NEW ids \in PromptIds,
         ~UpdateRefused(db, c, a, state, ids), db' = UpdateAttempt(db, c, a, state, ids)
  PROVE  Writes
<1>1. Updated(db, db', c, a, state, ids) BY UpdateDoes DEF IInv, StoreOK
<1>2. WorkIsActive(db) BY DEF UpdateRefused
<1>3. db.scene # "SUCCEEDED" BY DEF IInv, SceneOK
<1> QED BY <1>1, <1>2, <1>3 DEF Writes, Records, AccKept, Updated

\* The steps of an attempt that write to it.
LEMMA AttemptWrites ==
  ASSUME IInv, w.pc \in ActiveSteps, NEW state \in AttemptStates, state # "CANCELLED",
         NEW ids \in PromptIds,
         \/ UNCHANGED db
         \/ /\ ~UpdateRefused(db, w.c, w.a, state, ids)
            /\ db' = UpdateAttempt(db, w.c, w.a, state, ids)
  PROVE  UNCHANGED db \/ Writes
<1>1. w.pc \notin RestSteps /\ w.pc \in AttemptSteps
  BY DEF RestSteps, AttemptSteps, ActiveSteps, PromptSteps
<1> QED BY <1>1, InAttempt, UpdateWrites

LEMMA GraphWrites ==
  ASSUME IInv, w.pc \in ActiveSteps, NEW s \in 1 .. 3, RunGraph(s)
  PROVE  UNCHANGED db \/ Writes
<1>1. Graph[s].attempt \in AttemptStates \ {"CANCELLED"}
  <2>1. s = 1 \/ s = 2 \/ s = 3 OBVIOUS
  <2> QED BY <2>1 DEF Graph, Stage1Graph, Stage2Graph, DecodeGraph, AttemptStates, Active
<1>2. w.ids \in PromptIds BY InAttempt, StageSteps
<1> QED BY <1>1, <1>2, AttemptWrites DEF RunGraph

LEMMA RecoverWrites == ASSUME IInv, RecoverComplete PROVE UNCHANGED db \/ Writes
<1> DEFINE done == {a \in 1 .. w.k : Complete1(w.c, a)}
           a == Highest(done)
<1>1. /\ w.pc = "recover" /\ w.c \in Chunks /\ db.chunks[w.c].acc = 0 /\ db \in Tables
      /\ w.k <= Len(db.atts[w.c]) /\ w.k \in Nat /\ w.pc \notin RestSteps
      /\ db.scene # "SUCCEEDED"
  BY Placed, WorkerParts
     DEF RecoverComplete, At, IInv, PlaceOK, SceneOK, ChunkSteps, RestSteps
<1>2. CASE done = {} BY <1>2 DEF RecoverComplete, Complete1
<1>3. CASE done # {}
  <2>1. a \in done
    <3>1. done \in SUBSET (0 .. w.k) BY <1>1
    <3> HIDE DEF done
    <3> QED BY <1>1, <1>3, <3>1, HighestIsGreatest
  <2>2. a \in DOMAIN db.atts[w.c]
    <3>1. DOMAIN db.atts[w.c] = 1 .. Len(db.atts[w.c]) /\ Len(db.atts[w.c]) \in Nat
      BY <1>1, DomainOfRows
    <3> QED BY <1>1, <2>1, <3>1
  <2>3. db.atts[w.c][a] \in Attempts BY <1>1, <2>2, DomainOfRows
  <2>4. \/ UNCHANGED db
        \/ ~SelectRefused(db, w.c, a) /\ db' = SelectAttempt(db, w.c, a)
        \/ /\ ~UpdateRefused(db, w.c, a, "INVALIDATED", db.atts[w.c][a].ids)
           /\ db' = UpdateAttempt(db, w.c, a, "INVALIDATED", db.atts[w.c][a].ids)
    BY <1>3 DEF RecoverComplete, Complete1
  <2> HIDE DEF a, done
  <2>5. CASE ~SelectRefused(db, w.c, a) /\ db' = SelectAttempt(db, w.c, a)
    <3>1. Selected(db, db', w.c, a) BY <1>1, <2>2, <2>5, SelectDoes
    <3>2. WorkIsActive(db) BY <2>5 DEF SelectRefused
    <3> QED BY <1>1, <2>2, <3>1, <3>2 DEF Writes, Selects
  <2>6. CASE /\ ~UpdateRefused(db, w.c, a, "INVALIDATED", db.atts[w.c][a].ids)
             /\ db' = UpdateAttempt(db, w.c, a, "INVALIDATED", db.atts[w.c][a].ids)
    <3>1. "INVALIDATED" \in AttemptStates \ {"CANCELLED"}
      BY DEF AttemptStates, FinalStates, Voided
    <3>2. db.atts[w.c][a].ids \in PromptIds BY <2>3 DEF Attempts
    <3> QED BY <1>1, <2>2, <2>6, <3>1, <3>2, UpdateWrites
  <2> QED BY <2>4, <2>5, <2>6
<1> QED BY <1>2, <1>3

LEMMA BeginWrites == ASSUME IInv, BeginOrResume PROVE UNCHANGED db \/ Writes
<1>1. /\ w.pc = "loop" /\ w.c \in Chunks /\ db \in Tables /\ w.con \in Nat
      /\ db.scene # "SUCCEEDED"
  BY Placed, WorkerParts
     DEF BeginOrResume, At, IInv, RestSteps, SceneOK, ChunkSteps, LoopSteps
<1>2. \/ UNCHANGED db
      \/ /\ ~BeginRefused(db, w.c, w.con, ExpectedUp)
         /\ db' = BeginAttempt(db, w.c, w.con)
  BY DEF BeginOrResume
<1>3. CASE /\ ~BeginRefused(db, w.c, w.con, ExpectedUp)
           /\ db' = BeginAttempt(db, w.c, w.con)
  <2>1. WorkIsActive(db) BY <1>3 DEF BeginRefused
  <2>2. CASE ActiveAttempts(db, w.c) # {} BY <1>3, <2>2 DEF BeginAttempt
  <2>3. CASE ActiveAttempts(db, w.c) = {}
    <3>1. Begun(db, db', w.c, w.con) BY <1>1, <1>3, <2>3, BeginDoes
    <3> QED BY <1>1, <2>1, <3>1 DEF Writes, Records, AccKept, Begun
  <2> QED BY <2>2, <2>3
<1> QED BY <1>2, <1>3

LEMMA FailureWrites == ASSUME IInv, HandleFailure PROVE UNCHANGED db \/ Writes
<1>a. PICK a : a = Len(db.atts[w.c]) OBVIOUS
<1>1. /\ w.pc = "failed" /\ w.c \in Chunks /\ db \in Tables /\ db.atts[w.c] # <<>>
      /\ w.pc \notin RestSteps
  BY Placed DEF HandleFailure, At, IInv, PlaceOK, ChunkSteps, LoopSteps, RestSteps
<1>2. a \in DOMAIN db.atts[w.c] /\ db.atts[w.c][a].ids \in PromptIds
  <2>1. /\ DOMAIN db.atts[w.c] = 1 .. Len(db.atts[w.c]) /\ db.atts[w.c] \in Seq(Attempts)
        /\ Len(db.atts[w.c]) \in Nat
    BY <1>1, DomainOfRows
  <2>2. Len(db.atts[w.c]) # 0 BY <1>1, <2>1
  <2>3. a \in DOMAIN db.atts[w.c] BY <1>a, <2>1, <2>2
  <2>4. db.atts[w.c][a] \in Attempts BY <2>1, <2>3
  <2> QED BY <2>3, <2>4 DEF Attempts
<1>3. \/ UNCHANGED db
      \/ \E state \in {"FAILED_TERMINAL", "FAILED_RETRYABLE"} :
           /\ ~UpdateRefused(db, w.c, a, state, db.atts[w.c][a].ids)
           /\ db' = UpdateAttempt(db, w.c, a, state, db.atts[w.c][a].ids)
  <2>1. CASE Cardinality(Budget(w.c, w.con, ExpectedUp)) >= MaxAttempts
    BY <1>a, <2>1 DEF HandleFailure
  <2>2. CASE ~(Cardinality(Budget(w.c, w.con, ExpectedUp)) >= MaxAttempts)
    BY <1>a, <2>2 DEF HandleFailure
  <2> QED BY <2>1, <2>2
<1>4. {"FAILED_TERMINAL", "FAILED_RETRYABLE"} \subseteq AttemptStates \ {"CANCELLED"}
  BY DEF AttemptStates, FinalStates
<1> QED BY <1>1, <1>2, <1>3, <1>4, UpdateWrites

LEMMA WorkerWrites == ASSUME IInv, Worker PROVE UNCHANGED db \/ Writes
<1>s. /\ "CANCELLED" \notin Active /\ "COMPLETE" \in AttemptStates \ {"CANCELLED"}
      /\ "INVALIDATED" \in AttemptStates \ {"CANCELLED"}
      /\ {"DECODED", "STAGE1_COMPLETE", "VALIDATING"} \subseteq AttemptStates \ {"CANCELLED"}
  BY DEF AttemptStates, Active, FinalStates, Voided
<1>1. CASE StartRender \/ ReadHistory \/ ReadQueue \/ CheckBeforeQueue \/ WaitPrompt
  BY <1>1 DEF StartRender, ReadHistory, ReadQueue, CheckBeforeQueue, WaitPrompt, OnlyWorker
<1>2. CASE NextChunk \/ QueuePrompt \/ Assemble \/ WriteManifest \/ Stage2Done \/ DecodeDone
  BY <1>2 DEF NextChunk, QueuePrompt, Assemble, WriteManifest, Stage2Done, DecodeDone
<1>3. CASE PersistPlan
  <2>1. db.scene # "SUCCEEDED" BY <1>3 DEF PersistPlan, At, IInv, SceneOK, RestSteps
  <2>2. UNCHANGED db \/ (WorkIsActive(db) /\ db' = PlanChunks(EnsurePlan(db)))
    BY <1>3 DEF PersistPlan
  <2> QED BY <2>1, <2>2, PlanKeeps DEF IInv, Writes, Records, AccKept
<1>4. CASE InvalidateAccepted
  <2>1. w.pc = "invalidate" /\ w.c \in Chunks /\ db \in Tables /\ db.scene # "SUCCEEDED"
    BY <1>4 DEF InvalidateAccepted, At, IInv, PlaceOK, SceneOK, RestSteps, StoreOK
  <2>2. UNCHANGED db \/ (WorkIsActive(db) /\ db' = InvalidateFrom(db, w.c))
    BY <1>4 DEF InvalidateAccepted
  <2> QED BY <2>1, <2>2, InvalidateDoes DEF Writes, Withdraws
<1>5. CASE DiscardMismatched
  <2>1. w.pc = "discard" /\ w.pc \notin RestSteps
    BY <1>5 DEF DiscardMismatched, At, RestSteps
  <2>2. \/ UNCHANGED db
        \/ /\ ~UpdateRefused(db, w.c, w.a, "INVALIDATED", db.atts[w.c][w.a].ids)
           /\ db' = UpdateAttempt(db, w.c, w.a, "INVALIDATED", db.atts[w.c][w.a].ids)
    BY <1>5 DEF DiscardMismatched
  <2>3. /\ w.c \in Chunks /\ w.a \in DOMAIN db.atts[w.c]
        /\ db.atts[w.c][w.a].ids \in PromptIds
    BY <2>1, Placed
  <2> QED BY <1>s, <2>1, <2>2, <2>3, UpdateWrites
<1>6. CASE Stage1
  <2>1. w.pc \in ActiveSteps BY <1>6, StageSteps DEF Stage1, At
  <2>2. UNCHANGED db \/ RunGraph(1) BY <1>6 DEF Stage1
  <2> QED BY <2>1, <2>2, GraphWrites
<1>7. CASE Stage2
  <2>1. w.pc \in ActiveSteps BY <1>7, StageSteps DEF Stage2, At
  <2>2. UNCHANGED db \/ RunGraph(2) BY <1>7 DEF Stage2
  <2> QED BY <2>1, <2>2, GraphWrites
<1>8. CASE Reclaim
  <2>1. w.pc \in ActiveSteps BY <1>8, StageSteps DEF Reclaim, At
  <2>2. UNCHANGED db \/ RunGraph(3) BY <1>8 DEF Reclaim
  <2> QED BY <2>1, <2>2, GraphWrites
<1>9. CASE Stage1Done \/ Finalize \/ Complete
  <2>1. w.pc \in ActiveSteps
    BY <1>9, StageSteps DEF Stage1Done, Finalize, Complete, At
  <2>2. w.ids \in PromptIds BY <2>1, StageSteps, InAttempt
  <2>3. \/ UNCHANGED db
        \/ \E state \in {"STAGE1_COMPLETE", "VALIDATING", "COMPLETE"} :
             /\ ~UpdateRefused(db, w.c, w.a, state, w.ids)
             /\ db' = UpdateAttempt(db, w.c, w.a, state, w.ids)
    BY <1>9 DEF Stage1Done, Finalize, Complete, Commit
  <2> QED BY <1>s, <2>1, <2>2, <2>3, AttemptWrites
<1>10. CASE OwnPrompt
  <2>1. w.pc = "own" /\ w.pc \in ActiveSteps /\ w.pc \in PromptSteps
    BY <1>10, StageSteps DEF OwnPrompt, At, PromptSteps
  <2>2. w.stage \in 1 .. 3 /\ w.p \in Nat /\ w.ids \in PromptIds
    BY <2>1, StageSteps, InAttempt, WorkerParts DEF IInv, PlaceOK
  <2>3. PICK ids : ids = [w.ids EXCEPT ![w.stage] = w.p] OBVIOUS
  <2>4. ids \in PromptIds BY <2>2, <2>3 DEF PromptIds
  <2>5. Graph[w.stage].attempt \in AttemptStates \ {"CANCELLED"}
    <3>1. w.stage = 1 \/ w.stage = 2 \/ w.stage = 3 BY <2>2
    <3> QED BY <3>1 DEF Graph, Stage1Graph, Stage2Graph, DecodeGraph, AttemptStates, Active
  <2>6. \/ UNCHANGED db
        \/ /\ ~UpdateRefused(db, w.c, w.a, Graph[w.stage].attempt, ids)
           /\ db' = UpdateAttempt(db, w.c, w.a, Graph[w.stage].attempt, ids)
    BY <1>10, <2>3 DEF OwnPrompt
  <2> QED BY <2>1, <2>4, <2>5, <2>6, AttemptWrites
<1>11. CASE Select
  <2>1. w.pc = "select" /\ w.pc \in AttemptSteps /\ w.pc \in ChunkSteps /\ db.scene # "SUCCEEDED"
    BY <1>11, StageSteps DEF Select, At, ChunkSteps, IInv, SceneOK, RestSteps
  <2>2. /\ w.c \in Chunks /\ w.a \in DOMAIN db.atts[w.c] /\ db \in Tables
        /\ db.chunks[w.c].acc = 0
    BY <2>1, Placed
  <2>3. UNCHANGED db \/ (~SelectRefused(db, w.c, w.a) /\ db' = SelectAttempt(db, w.c, w.a))
    BY <1>11 DEF Select
  <2> QED BY <2>1, <2>2, <2>3, SelectDoes DEF Writes, Selects, SelectRefused
<1>12. CASE StopScene
  <2>1. UNCHANGED db \/ (db.scene = "PENDING" /\ db' = [db EXCEPT !.scene = "FAILED"])
    BY <1>12 DEF StopScene
  <2>2. ASSUME db.scene = "PENDING", db' = [db EXCEPT !.scene = "FAILED"]
        PROVE  db'.scene = "FAILED" /\ db'.chunks = db.chunks
    BY <2>2, SceneKeeps DEF IInv
  <2> QED BY <2>1, <2>2 DEF Writes, Records, AccKept, WorkIsActive
<1>13. CASE SceneDone
  <2>1. w.pc = "done" /\ db.scene # "SUCCEEDED"
    BY <1>13 DEF SceneDone, At, IInv, SceneOK, RestSteps
  <2> QED BY <1>13, <2>1 DEF SceneDone, Writes, Succeeds
<1> QED BY <1>1, <1>2, <1>3, <1>4, <1>5, <1>6, <1>7, <1>8, <1>9, <1>10, <1>11, <1>12, <1>13,
           RecoverWrites, BeginWrites, FailureWrites DEF Worker

\* Every step leaves the tables alone, or the scene is neither cancelled nor finished and the
\* step is one of four: it withdraws, it selects, it finishes, or it accepts nothing.
LEMMA StepWrites == ASSUME IInv, [Next]_vars PROVE UNCHANGED db \/ Writes
<1>1. CASE Worker BY <1>1, WorkerWrites
<1>2. CASE RunPrompt \/ ComfyDies \/ ComfyRestarts \/ Crash \/ Boot \/ CancelProjectPrompts
           \/ Damage \/ Upgrade \/ UNCHANGED vars
  BY <1>2 DEF RunPrompt, ComfyDies, ComfyRestarts, Crash, Boot, OnlyWorker,
              CancelProjectPrompts, Damage, Upgrade, vars
<1>3. CASE Retry
  <2>1. db.scene \in {"PENDING", "FAILED"} /\ Swept(db, db') /\ db'.scene = "PENDING"
    BY <1>3, RetryDoes DEF Retry, IInv
  <2> QED BY <2>1 DEF Writes, Records, AccKept, Swept, WorkIsActive
<1>4. CASE Cancel
  <2>1. db.scene = "PENDING" /\ Swept(db, db') /\ db'.scene = "CANCELLED"
    BY <1>4, AbandonDoes DEF Cancel, IInv
  <2> QED BY <2>1 DEF Writes, Records, AccKept, Swept, WorkIsActive
<1> QED BY <1>1, <1>2, <1>3, <1>4 DEF Next
-----------------------------------------------------------------------------
(* What is recorded stands                                                      *)

\* An accepted attempt whose files are all there has its two prompts on record, so that
\* what makes it invalid is the contract.
LEMMA AcceptedIsValid ==
  ASSUME IInv, ~env.lost, WorkIsActive(db), w.pc # "own", NEW c \in Chunks,
         db.chunks[c].acc # 0, ~Reason(c)
  PROVE  AttemptValid(c, db.chunks[c].acc)
<1> DEFINE a == db.chunks[c].acc
<1>1. /\ a \in DOMAIN db.atts[c] /\ a \in DOMAIN disk[c] /\ db.atts[c][a].state = "COMPLETE"
      /\ db.atts[c][a].up = Upstream(db, c) /\ (c > 1 => Upstream(db, c) # 0)
  <2>1. /\ DOMAIN db.atts[c] = 1 .. Len(db.atts[c]) /\ Len(db.atts[c]) \in Nat
        /\ db.chunks[c] \in ChunkRows
    BY DomainOfRows DEF IInv, StoreOK
  <2>2. Linked(db, c) BY DEF IInv, StoreOK, RowsOK
  <2>3. DOMAIN disk[c] = 1 .. Len(db.atts[c]) BY DEF IInv, ShapeOK, LengthsOK
  <2> QED BY <2>1, <2>2, <2>3 DEF Linked, ChunkRows
<1>2. Required \subseteq Files(c, a) /\ db.atts[c][a].inputs = w.con BY DEF Reason
<1>3. ASSUME NEW s \in 1 .. 2 PROVE db.atts[c][a].ids[s] # 0
  <2>1. StageFile[s] \in Files(c, a) BY <1>2 DEF StageFile, Required
  <2>2. PICK p \in DOMAIN prompts : Work(p) = <<c, a, s>>
    BY <1>1, <2>1 DEF IInv, PromptsOK, Saved
  <2>3. Id(p) # 0 BY DEF IInv, PromptsOK, Recorded, WorkIsActive, Mine
  <2>4. prompts[p].c = c /\ prompts[p].a = a /\ prompts[p].s = s BY <2>2 DEF Work
  <2> QED BY <2>3, <2>4 DEF Id
<1>4. db.atts[c][a].ids[1] # 0 /\ db.atts[c][a].ids[2] # 0
  <2>1. 1 \in 1 .. 2 /\ 2 \in 1 .. 2 OBVIOUS
  <2> QED BY <1>3, <2>1, Zenon
<1> QED BY <1>1, <1>2, <1>4 DEF AttemptValid

\* Only the loop of render_scene turns to an invalidation.
LEMMA LoopOnly ==
  ASSUME [Next]_vars, w.pc = "chunk", w'.pc = "invalidate" PROVE NextChunk
<1>1. CASE Worker
  <2>1. ~(StartRender \/ PersistPlan \/ InvalidateAccepted \/ RecoverComplete
          \/ BeginOrResume \/ DiscardMismatched)
    BY DEF StartRender, PersistPlan, InvalidateAccepted, RecoverComplete, BeginOrResume,
           DiscardMismatched, At
  <2>2. ~(Stage1 \/ Stage1Done \/ Stage2 \/ Stage2Done \/ Reclaim \/ DecodeDone \/ Finalize
          \/ Complete \/ Select)
    BY DEF Stage1, Stage1Done, Stage2, Stage2Done, Reclaim, DecodeDone, Finalize, Complete,
           Select, At
  <2>3. ~(ReadHistory \/ ReadQueue \/ CheckBeforeQueue \/ QueuePrompt \/ OwnPrompt
          \/ WaitPrompt \/ HandleFailure \/ StopScene \/ Assemble \/ WriteManifest \/ SceneDone)
    BY DEF ReadHistory, ReadQueue, CheckBeforeQueue, QueuePrompt, OwnPrompt, WaitPrompt,
           HandleFailure, StopScene, Assemble, WriteManifest, SceneDone, At
  <2> QED BY <1>1, <2>1, <2>2, <2>3 DEF Worker
<1>2. CASE Crash \/ Boot
  <2>1. w' = Idle("down") \/ w' = Idle("idle") BY <1>2 DEF Crash, Boot
  <2>2. ASSUME NEW pc, w' = Idle(pc) PROVE w'.pc = pc BY <2>2 DEF Idle
  <2> QED BY <2>1, <2>2
<1>3. CASE RunPrompt \/ ComfyDies \/ ComfyRestarts \/ Retry \/ Cancel \/ CancelProjectPrompts
           \/ Damage \/ Upgrade \/ UNCHANGED vars
  BY <1>3 DEF RunPrompt, ComfyDies, ComfyRestarts, Retry, Cancel, CancelProjectPrompts, Damage,
              Upgrade, vars
<1> QED BY <1>1, <1>2, <1>3 DEF Next

LEMMA LooksFirst ==
  ASSUME IInv, [Next]_vars, ~env.lost, At("chunk"), w'.pc = "invalidate"
  PROVE  Reason(w.c)
<1>1. NextChunk /\ w.pc = "chunk" BY LoopOnly DEF At
<1>2. w \in WorkerStates /\ w.c \in 1 .. NChunks + 1 BY Placed, WorkerParts
<1>3. \A v : ~(w' = [w EXCEPT !.pc = "recover", !.k = v]) BY <1>2 DEF WorkerStates
<1>4. \A v : ~Take(v) BY <1>2 DEF Take, WorkerStates
<1>5. \A v \in {"raise", "assemble"} : ~Go(v) BY <1>2 DEF Go, WorkerStates
<1>6. /\ WorkIsActive(db) /\ ~(w.c > NChunks)
      /\ db.chunks[w.c].acc # 0 /\ ~AttemptValid(w.c, db.chunks[w.c].acc)
  BY <1>1, <1>3, <1>4, <1>5 DEF NextChunk, Raise
<1>7. w.c \in Chunks BY <1>2, <1>6, ChunkAssumption DEF Chunks
<1> QED BY <1>1, <1>6, <1>7, AcceptedIsValid

LEMMA WithdrawnHere ==
  ASSUME IInv, [Next]_vars, NEW c \in Chunks, Withdrawn(c)
  PROVE  At("invalidate") /\ w.c <= c
<1>1. Writes BY StepWrites DEF Withdrawn
<1>2. ~AccKept /\ ~Succeeds
  <2>1. Succeeds => db'.chunks = db.chunks BY SceneKeeps DEF IInv, Succeeds
  <2> QED BY <2>1 DEF AccKept, Withdrawn
<1>3. ~Selects BY DEF Selects, Selected, Withdrawn
<1>4. Withdraws BY <1>1, <1>2, <1>3 DEF Writes, Records
<1>5. w.c \in Nat /\ c \in Nat BY <1>4 DEF Withdraws, Chunks
<1>6. ~(c < w.c) BY <1>4 DEF Withdraws, Invalidated, Withdrawn
<1> QED BY <1>4, <1>5, <1>6 DEF Withdraws, At

\* A recorded result stands.  An acceptance is withdrawn by render_scene alone, of the chunk it
\* has come to and of those above it, and only after it found a file of that chunk's accepted
\* attempt damaged or the attempt of another generation contract (_accepted_attempt,
\* invalidate_chunks_from), as long as no prompt id was lost; and the tables of a cancelled
\* scene do not change any more, whatever the renderer still has in hand.
THEOREM ResultsStayRecorded == Spec => ResultsStand
<1>1. ASSUME IInv, [Next]_vars
      PROVE  [env.lost \/ /\ At("chunk") /\ w'.pc = "invalidate" => Reason(w.c)
                          /\ \A c \in Chunks : Withdrawn(c) => At("invalidate") /\ w.c <= c]_vars
  BY <1>1, LooksFirst, WithdrawnHere
<1>2. ASSUME IInv, [Next]_vars PROVE [db.scene = "CANCELLED" => UNCHANGED db]_vars
  BY <1>2, StepWrites DEF Writes, WorkIsActive
<1>3. Spec => AcceptedStands BY <1>1, Inductive, PTL DEF Spec, AcceptedStands
<1>4. Spec => NoLateCommit BY <1>2, Inductive, PTL DEF Spec, NoLateCommit
<1> QED BY <1>3, <1>4 DEF ResultsStand
-----------------------------------------------------------------------------
(* The scene implements ChunkChain                                              *)

Length == Highest(Prefix)
Line == [c \in 1 .. Length |-> db.chunks[c].acc]
Shown == IF db.scene = "SUCCEEDED" THEN clip.file ELSE <<>>

\* In a chain of accepted chunks, Highest(Prefix) is the number of them: all up to it are
\* accepted and none above.
AcceptedUpTo(d, n) == \A c \in Chunks : d.chunks[c].acc # 0 <=> c <= n

LEMMA HighestPrefix ==
  ASSUME NEW d, \A c \in Chunks : Linked(d, c)
  PROVE  LET P == {n \in 0 .. NChunks : \A c \in 1 .. n : d.chunks[c].acc # 0}
         IN Highest(P) \in 0 .. NChunks /\ AcceptedUpTo(d, Highest(P))
<1> DEFINE P == {n \in 0 .. NChunks : \A c \in 1 .. n : d.chunks[c].acc # 0}
           h == Highest(P)
<1>1. NChunks \in Nat \ {0} BY ChunkAssumption
<1>2. h \in P /\ \A m \in P : m <= h
  <2>1. P \in SUBSET (0 .. NChunks) OBVIOUS
  <2>2. 0 \in P BY <1>1
  <2> HIDE DEF P
  <2> QED BY <1>1, <2>1, <2>2, HighestIsGreatest
<1>3. h \in 0 .. NChunks /\ \A c \in 1 .. h : d.chunks[c].acc # 0 BY <1>2
<1>4. h < NChunks => d.chunks[h + 1].acc = 0
  <2> SUFFICES ASSUME h < NChunks, d.chunks[h + 1].acc # 0 PROVE FALSE OBVIOUS
  <2> HIDE DEF h
  <2>1. h + 1 \in 0 .. NChunks BY <1>1, <1>3
  <2>2. \A c \in 1 .. h + 1 : c \in 1 .. h \/ c = h + 1 BY <1>3
  <2>3. h + 1 \in P BY <1>3, <2>1, <2>2
  <2> QED BY <1>2, <1>3, <2>3
<1> HIDE DEF h, P
<1>5. \A c \in Chunks : c > h => d.chunks[c].acc = 0
  <2> DEFINE S == {c \in Chunks : c > h /\ d.chunks[c].acc # 0}
  <2> SUFFICES ASSUME S # {} PROVE FALSE OBVIOUS
  <2>1. S \in SUBSET Nat BY DEF Chunks
  <2>2. PICK n \in S : \A k \in S : n <= k
    <3> HIDE DEF S
    <3> QED BY <2>1, LeastElement
  <2>3. n \in Chunks /\ n > h /\ d.chunks[n].acc # 0 BY <2>2
  <2>4. n # h + 1 BY <1>1, <1>3, <1>4, <2>3 DEF Chunks
  <2>5. n - 1 \in Chunks /\ n - 1 > h /\ n > 1 BY <1>1, <1>3, <2>3, <2>4 DEF Chunks
  <2>6. d.chunks[n - 1].acc # 0 BY <2>3, <2>5 DEF Linked, Upstream
  <2>7. n - 1 \in S BY <2>5, <2>6
  <2> QED BY <2>2, <2>3, <2>7 DEF Chunks
<1>6. \A c \in Chunks : c <= h => c \in 1 .. h BY <1>3 DEF Chunks
<1>7. \A c \in Chunks : c > h \/ c <= h BY <1>3 DEF Chunks
<1>8. \A c \in Chunks : c > h => ~(c <= h) BY <1>3 DEF Chunks
<1>9. AcceptedUpTo(d, h) BY <1>3, <1>5, <1>6, <1>7, <1>8 DEF AcceptedUpTo
<1> QED BY <1>3, <1>9 DEF h, P

LEMMA PrefixLength ==
  ASSUME StoreOK(db)
  PROVE  Length \in 0 .. NChunks /\ AcceptedUpTo(db, Length)
BY HighestPrefix DEF StoreOK, RowsOK, Length, Prefix

LEMMA PrefixLengthNext ==
  ASSUME StoreOK(db')
  PROVE  Length' \in 0 .. NChunks /\ AcceptedUpTo(db', Length')
BY HighestPrefix DEF StoreOK, RowsOK, Length, Prefix

\* The number of accepted chunks is what AcceptedUpTo determines.
LEMMA LengthIs ==
  ASSUME NEW d, NEW m \in 0 .. NChunks, NEW n \in 0 .. NChunks,
         AcceptedUpTo(d, m), AcceptedUpTo(d, n)
  PROVE  m = n
<1>1. \A i, j \in 0 .. NChunks : AcceptedUpTo(d, i) /\ AcceptedUpTo(d, j) => ~(i < j)
  <2> SUFFICES ASSUME NEW i \in 0 .. NChunks, NEW j \in 0 .. NChunks, AcceptedUpTo(d, i),
                      AcceptedUpTo(d, j), i < j
               PROVE  FALSE
    OBVIOUS
  <2>1. j \in Chunks BY ChunkAssumption DEF Chunks
  <2> QED BY <2>1 DEF AcceptedUpTo
<1> QED BY <1>1, ChunkAssumption

\* What has been published does not change, and nothing is before the scene succeeds.
LEMMA ShownKept ==
  ASSUME IInv, [Next]_vars, ~Succeeds
  PROVE  Shown' = Shown
<1>1. CASE db.scene # "SUCCEEDED"
  <2>1. db'.scene # "SUCCEEDED" BY <1>1, StepWrites DEF Writes, Withdraws, Selects, Records,
                                                        Invalidated, Selected
  <2> QED BY <1>1, <2>1 DEF Shown
<1>2. CASE db.scene = "SUCCEEDED"
  <2>1. UNCHANGED db BY <1>2, StepWrites DEF Writes
  <2>2. w.pc \in RestSteps BY <1>2 DEF IInv, SceneOK
  <2>3. CASE Worker
    <3>1. ~(Assemble \/ WriteManifest) BY <2>2 DEF RestSteps, Assemble, WriteManifest, At
    <3>2. UNCHANGED clip
      BY <2>3, <3>1
         DEF Worker, StartRender, PersistPlan, NextChunk, InvalidateAccepted, RecoverComplete,
             BeginOrResume, DiscardMismatched, Stage1, Stage1Done, Stage2, Stage2Done, Reclaim,
             DecodeDone, Finalize, Complete, Select, ReadHistory, ReadQueue, CheckBeforeQueue,
             QueuePrompt, OwnPrompt, WaitPrompt, HandleFailure, StopScene, SceneDone, OnlyWorker
    <3> QED BY <2>1, <3>2 DEF Shown
  <2>4. CASE ~Worker
    <3>1. UNCHANGED clip
      BY <1>2, <2>4
         DEF Next, RunPrompt, ComfyDies, ComfyRestarts, Crash, Boot, Retry, Cancel,
             CancelProjectPrompts, Damage, Upgrade, OnlyWorker, vars
    <3> QED BY <2>1, <3>1 DEF Shown
  <2> QED BY <2>3, <2>4
<1> QED BY <1>1, <1>2
\* The sequence of accepted attempts of chunks 1 .. n.
LineOf(d, n) == [c \in 1 .. n |-> d.chunks[c].acc]

LEMMA LineOfIs ==
  ASSUME NEW d \in Tables, NEW n \in 0 .. NChunks
  PROVE  /\ LineOf(d, n) \in Seq(Nat) /\ Len(LineOf(d, n)) = n
         /\ \A c \in 1 .. n : c \in Chunks /\ LineOf(d, n)[c] = d.chunks[c].acc
<1>1. \A c \in 1 .. n : c \in Chunks BY ChunkAssumption DEF Chunks
<1>2. \A c \in 1 .. n : d.chunks[c].acc \in Nat BY <1>1 DEF Tables, ChunkRows
<1> QED BY <1>1, <1>2 DEF LineOf

\* Equal up to n, the shorter line is the longer one cut off.
LEMMA LineCut ==
  ASSUME NEW d \in Tables, NEW e \in Tables, NEW m \in 0 .. NChunks, NEW n \in 0 .. m,
         \A c \in 1 .. n : e.chunks[c].acc = d.chunks[c].acc
  PROVE  SubSeq(LineOf(d, m), 1, n) = LineOf(e, n)
<1>1. n \in 0 .. NChunks /\ n \in Int /\ m \in Nat BY ChunkAssumption
<1>2. /\ LineOf(d, m) \in Seq(Nat) /\ Len(LineOf(d, m)) = m
      /\ \A c \in 1 .. m : LineOf(d, m)[c] = d.chunks[c].acc
      /\ LineOf(e, n) \in Seq(Nat) /\ Len(LineOf(e, n)) = n
      /\ \A c \in 1 .. n : LineOf(e, n)[c] = e.chunks[c].acc
  BY <1>1, LineOfIs
<1> DEFINE s == SubSeq(LineOf(d, m), 1, n)
<1>3. \A i \in 1 .. n : LineOf(d, m)[i] \in Nat BY <1>1, <1>2
<1>4. /\ s \in Seq(Nat) /\ Len(s) = IF 1 <= n THEN n - 1 + 1 ELSE 0
      /\ \A i \in 1 .. n - 1 + 1 : s[i] = LineOf(d, m)[1 + i - 1]
  BY <1>1, <1>3, SubSeqProperties
<1> HIDE DEF s
<1>5. Len(s) = n BY <1>1, <1>4
<1>6. \A i \in 1 .. n : s[i] = LineOf(d, m)[i]
  <2> TAKE i \in 1 .. n
  <2>1. i \in 1 .. n - 1 + 1 /\ 1 + i - 1 = i BY <1>1
  <2> QED BY <1>4, <2>1
<1>7. \A i \in 1 .. n : i \in 1 .. m BY <1>1
<1>8. \A i \in 1 .. n : s[i] = LineOf(e, n)[i] BY <1>2, <1>6, <1>7
<1>9. s = LineOf(e, n) BY <1>2, <1>4, <1>5, <1>8, SeqEqual
<1> QED BY <1>9 DEF s

LEMMA StoreNext == ASSUME IInv, [Next]_vars PROVE StoreOK(db')
BY StepKeeps DEF IInv

LEMMA LineKept ==
  ASSUME IInv, [Next]_vars, AccKept
  PROVE  Line' = Line /\ Length' = Length
<1>1. /\ Length \in 0 .. NChunks /\ AcceptedUpTo(db, Length)
      /\ Length' \in 0 .. NChunks /\ AcceptedUpTo(db', Length')
  BY StoreNext, PrefixLength, PrefixLengthNext DEF IInv
<1>2. AcceptedUpTo(db, Length') BY <1>1 DEF AcceptedUpTo, AccKept
<1>3. Length' = Length BY <1>1, <1>2, LengthIs
<1>4. \A c \in 1 .. Length : c \in Chunks BY <1>1, ChunkAssumption DEF Chunks
<1> QED BY <1>3, <1>4 DEF Line, AccKept

\* A selection accepts the first chunk that is not accepted.
LEMMA SelectExtends ==
  ASSUME IInv, [Next]_vars, Selects
  PROVE  /\ Length < NChunks /\ Len(Line) = Length /\ Len(Line') = Length + 1
         /\ SubSeq(Line', 1, Length) = Line
<1>1. /\ Length \in 0 .. NChunks /\ AcceptedUpTo(db, Length)
      /\ Length' \in 0 .. NChunks /\ AcceptedUpTo(db', Length')
      /\ StoreOK(db') /\ db \in Tables /\ db' \in Tables
  BY StoreNext, PrefixLength, PrefixLengthNext DEF IInv, StoreOK
<1>2. PICK a \in DOMAIN db.atts[w.c] : Selected(db, db', w.c, a) BY DEF Selects
<1>3. /\ w.c \in Chunks /\ db.chunks[w.c].acc = 0 /\ db'.chunks[w.c].acc = a /\ a # 0
      /\ \A c \in Chunks : c # w.c => db'.chunks[c].acc = db.chunks[c].acc
  <2>1. DOMAIN db.atts[w.c] = 1 .. Len(db.atts[w.c])
    BY <1>1, DomainOfRows DEF Selects
  <2> QED BY <1>2, <2>1 DEF Selects, Selected
<1>4. \A c \in 1 .. w.c - 1 : c \in Chunks /\ db.chunks[c].acc # 0
  BY TakenAccepted
<1>5. Length = w.c - 1
  <2>1. w.c - 1 \in 0 .. NChunks BY <1>3, ChunkAssumption DEF Chunks
  <2>2. ~(w.c <= Length) BY <1>1, <1>3 DEF AcceptedUpTo
  <2>3. CASE w.c = 1 BY <1>1, <2>2, <2>3, ChunkAssumption
  <2>4. CASE w.c # 1
    <3>1. w.c - 1 \in 1 .. w.c - 1 BY <1>3, <2>4, ChunkAssumption DEF Chunks
    <3>2. w.c - 1 <= Length BY <1>1, <1>4, <3>1 DEF AcceptedUpTo
    <3> QED BY <1>1, <1>3, <2>2, <3>2, ChunkAssumption DEF Chunks
  <2> QED BY <2>3, <2>4
<1>6. Length < NChunks /\ Length + 1 = w.c BY <1>1, <1>3, <1>5, ChunkAssumption DEF Chunks
<1>7. AcceptedUpTo(db', w.c)
  <2> SUFFICES ASSUME NEW c \in Chunks PROVE db'.chunks[c].acc # 0 <=> c <= w.c
    BY DEF AcceptedUpTo
  <2>1. CASE c = w.c BY <1>3, <2>1, ChunkAssumption DEF Chunks
  <2>2. CASE c # w.c
    <3>1. db'.chunks[c].acc # 0 <=> c <= Length BY <1>1, <1>3, <2>2 DEF AcceptedUpTo
    <3> QED BY <1>1, <1>3, <1>6, <2>2, <3>1, ChunkAssumption DEF Chunks
  <2> QED BY <2>1, <2>2
<1>8. Length' = Length + 1
  <2>1. w.c \in 0 .. NChunks BY <1>3, ChunkAssumption DEF Chunks
  <2> QED BY <1>1, <1>6, <1>7, <2>1, LengthIs
<1>9. Line = LineOf(db, Length) /\ Line' = LineOf(db', Length') BY DEF Line, LineOf
<1>10. Length \in 0 .. Length' BY <1>1, <1>8, ChunkAssumption
<1>11. \A c \in 1 .. Length : db.chunks[c].acc = db'.chunks[c].acc
  BY <1>3, <1>4, <1>5, <1>6
<1> HIDE DEF Length
<1>12. Len(Line) = Length /\ Len(Line') = Length' BY <1>1, <1>9, LineOfIs
<1>13. SubSeq(Line', 1, Length) = Line
  BY <1>1, <1>9, <1>10, <1>11, LineCut
<1> QED BY <1>6, <1>8, <1>12, <1>13

\* A withdrawal cuts the chain off.
LEMMA WithdrawTruncates ==
  ASSUME IInv, [Next]_vars, Withdraws
  PROVE  \E k \in 0 .. Len(Line) : Line' = SubSeq(Line, 1, k)
<1>1. /\ Length \in 0 .. NChunks /\ AcceptedUpTo(db, Length)
      /\ Length' \in 0 .. NChunks /\ AcceptedUpTo(db', Length')
      /\ db \in Tables /\ db' \in Tables
  BY StoreNext, PrefixLength, PrefixLengthNext DEF IInv, StoreOK
<1>2. \A c \in Chunks : db'.chunks[c].acc = IF c < w.c THEN db.chunks[c].acc ELSE 0
  <2>1. \A c \in Chunks : c < w.c \/ c >= w.c BY DEF Withdraws, Chunks
  <2>2. \A c \in Chunks : c < w.c => ~(c >= w.c) BY DEF Withdraws, Chunks
  <2> QED BY <2>1, <2>2 DEF Withdraws, Invalidated
<1>3. Length' \in 0 .. Length
  <2>1. CASE Length' = 0 BY <1>1, <2>1, ChunkAssumption
  <2>2. CASE Length' # 0
    <3>1. Length' \in Chunks BY <1>1, <2>2, ChunkAssumption DEF Chunks
    <3>2. db'.chunks[Length'].acc # 0 BY <1>1, <3>1, ChunkAssumption DEF AcceptedUpTo
    <3>3. db.chunks[Length'].acc # 0 BY <1>2, <3>1, <3>2
    <3>4. Length' <= Length BY <1>1, <3>1, <3>3 DEF AcceptedUpTo
    <3> QED BY <1>1, <3>4, ChunkAssumption
  <2> QED BY <2>1, <2>2
<1>4. \A c \in 1 .. Length' : db'.chunks[c].acc = db.chunks[c].acc
  <2> TAKE c \in 1 .. Length'
  <2>1. c \in Chunks BY <1>1, ChunkAssumption DEF Chunks
  <2>2. c <= Length' BY <1>1
  <2>3. db'.chunks[c].acc # 0 BY <1>1, <2>1, <2>2 DEF AcceptedUpTo
  <2> QED BY <1>2, <2>1, <2>3
<1>5. Line = LineOf(db, Length) /\ Line' = LineOf(db', Length') BY DEF Line, LineOf
<1>6. Len(Line) = Length BY <1>1, <1>5, LineOfIs
<1>7. Line' = SubSeq(Line, 1, Length') BY <1>1, <1>3, <1>4, <1>5, LineCut
<1> QED BY <1>3, <1>6, <1>7

\* The finished scene shows the whole chain, or nothing when its file was damaged meanwhile.
LEMMA SuccessPublishes ==
  ASSUME IInv, [Next]_vars, Succeeds
  PROVE  /\ Line' = Line /\ Shown' \in {<<>>, Line}
         /\ Len(Line) = NChunks /\ clip' = clip
<1>1. db'.scene = "SUCCEEDED" /\ db'.chunks = db.chunks BY SceneKeeps DEF IInv, Succeeds
<1>2. AccKept BY <1>1 DEF AccKept
<1>3. Line' = Line BY <1>2, LineKept
<1>4. w.c = NChunks + 1 /\ clip.file \in {<<>>, w.taken}
  BY DEF Succeeds, IInv, PlaceOK, SceneOK, EndSteps
<1>5. UNCHANGED clip
  <2>1. db'.scene # db.scene /\ db.scene # "CANCELLED" /\ w.pc = "done"
    <3>1. db.scene # "SUCCEEDED" BY DEF Succeeds, IInv, SceneOK, RestSteps
    <3>2. ~(UNCHANGED db) BY <1>1, <3>1
    <3> QED BY <1>1, <3>1, <3>2, StepWrites DEF Succeeds, Writes, WorkIsActive
  <2>2. ~(Assemble \/ WriteManifest) BY <2>1 DEF Assemble, WriteManifest, At
  <2>3. CASE Worker
    BY <2>2, <2>3
       DEF Worker, StartRender, PersistPlan, NextChunk, InvalidateAccepted, RecoverComplete,
           BeginOrResume, DiscardMismatched, Stage1, Stage1Done, Stage2, Stage2Done, Reclaim,
           DecodeDone, Finalize, Complete, Select, ReadHistory, ReadQueue, CheckBeforeQueue,
           QueuePrompt, OwnPrompt, WaitPrompt, HandleFailure, StopScene, SceneDone, OnlyWorker
  <2>4. CASE ~Worker
    BY <2>1, <2>4
       DEF Next, RunPrompt, ComfyDies, ComfyRestarts, Crash, Boot, Retry, Cancel,
           CancelProjectPrompts, Damage, Upgrade, OnlyWorker, vars
  <2> QED BY <2>3, <2>4
<1>6. Length = NChunks
  <2>1. Length \in 0 .. NChunks /\ AcceptedUpTo(db, Length) BY PrefixLength DEF IInv
  <2>2. NChunks \in 1 .. w.c - 1 /\ NChunks \in Chunks BY <1>4, ChunkAssumption DEF Chunks
  <2>3. db.chunks[NChunks].acc # 0 BY <2>2, TakenAccepted
  <2> QED BY <2>1, <2>2, <2>3, ChunkAssumption DEF AcceptedUpTo
<1>7. Line = LineOf(db, NChunks) BY <1>6 DEF Line, LineOf
<1>8. /\ Line \in Seq(Nat) /\ Len(Line) = NChunks
      /\ \A c \in 1 .. NChunks : c \in Chunks /\ Line[c] = db.chunks[c].acc
  <2>1. db \in Tables /\ NChunks \in 0 .. NChunks BY ChunkAssumption DEF IInv, StoreOK
  <2> QED BY <1>7, <2>1, LineOfIs
<1>9. w.taken = Line
  <2>1. Len(w.taken) = NChunks /\ w.taken \in Seq(Nat \ {0})
    <3>1. Len(w.taken) = w.c - 1 /\ w.taken \in Seq(Nat \ {0}) BY Placed, WorkerParts
    <3> QED BY <1>4, <3>1, ChunkAssumption
  <2>2. w.taken \in Seq(Nat) BY <2>1
  <2>3. \A c \in 1 .. NChunks : w.taken[c] = db.chunks[c].acc
    BY <1>4, TakenAccepted, ChunkAssumption
  <2>4. Line \in Seq(Nat) /\ Len(w.taken) = Len(Line) BY <1>8, <2>1
  <2>5. \A c \in 1 .. Len(w.taken) : w.taken[c] = Line[c] BY <1>8, <2>1, <2>3
  <2> QED BY <2>2, <2>4, <2>5, SeqEqual
<1> QED BY <1>1, <1>3, <1>4, <1>5, <1>8, <1>9 DEF Shown
LEMMA ChainStarts == ASSUME Init PROVE Line = <<>> /\ Shown = <<>>
<1>1. StoreOK(db) BY InitOK DEF IInv
<1>2. Length \in 0 .. NChunks /\ AcceptedUpTo(db, Length) BY <1>1, PrefixLength
<1>3. 1 \in Chunks /\ db.chunks[1].acc = 0 /\ db.scene = "PENDING"
  BY ChunkAssumption DEF Init, Chunks
<1>4. Length = 0
  <2>1. ~(1 <= Length) BY <1>2, <1>3 DEF AcceptedUpTo
  <2> QED BY <1>2, <2>1, ChunkAssumption
<1>5. Line = LineOf(db, 0) BY <1>4 DEF Line, LineOf
<1>6. Line \in Seq(Nat) /\ Len(Line) = 0
  <2>1. 0 \in 0 .. NChunks /\ db \in Tables BY <1>1, ChunkAssumption DEF StoreOK
  <2> QED BY <1>5, <2>1, LineOfIs
<1> QED BY <1>3, <1>6, EmptySeq DEF Shown

LEMMA ChainSteps ==
  ASSUME IInv, [Next]_vars
  PROVE  \/ /\ Shown = <<>> /\ Len(Line) < NChunks /\ Len(Line') = Len(Line) + 1
            /\ SubSeq(Line', 1, Len(Line)) = Line /\ Shown' = Shown
         \/ /\ Shown = <<>> /\ \E k \in 0 .. Len(Line) : Line' = SubSeq(Line, 1, k)
            /\ Shown' = Shown
         \/ Shown = <<>> /\ Len(Line) = NChunks /\ Shown' = Line /\ Line' = Line
         \/ Line' = Line /\ Shown' = Shown
<1>1. CASE UNCHANGED db
  <2>1. AccKept BY <1>1 DEF AccKept
  <2>2. ~Succeeds
    <3>1. Succeeds => db'.scene = "SUCCEEDED" /\ db.scene # "SUCCEEDED"
      BY SceneKeeps DEF IInv, Succeeds, SceneOK, RestSteps
    <3> QED BY <1>1, <3>1
  <2> QED BY <2>1, <2>2, LineKept, ShownKept
<1>2. CASE Writes
  <2>1. Shown = <<>> BY <1>2 DEF Writes, Shown
  <2>2. Withdraws \/ Selects => ~Succeeds BY DEF Withdraws, Selects, Succeeds
  <2>3. CASE Withdraws BY <2>1, <2>2, <2>3, WithdrawTruncates, ShownKept
  <2>4. CASE Selects
    <3>1. /\ Len(Line) < NChunks /\ Len(Line') = Len(Line) + 1
          /\ SubSeq(Line', 1, Len(Line)) = Line
      BY <2>4, SelectExtends
    <3>2. Shown' = Shown BY <2>2, <2>4, ShownKept
    <3> QED BY <2>1, <3>1, <3>2
  <2>5. CASE Succeeds BY <2>1, <2>5, SuccessPublishes
  <2>6. CASE Records /\ ~Succeeds BY <2>6, LineKept, ShownKept DEF Records
  <2> QED BY <1>2, <2>3, <2>4, <2>5, <2>6 DEF Writes
<1> QED BY <1>1, <1>2, StepWrites

\* The scene implements ChunkChain, whatever fails: the chain of accepted attempts grows at its
\* end by select_chunk_attempt and only loses a tail, and the scene is marked succeeded once,
\* with a file assembled from exactly the attempts accepted then (_assemble, render_scene).
THEOREM ImplementsChunkChain == Spec => Publishes
<1>1. Init => Chain!ChainInit
  BY ChainStarts DEF Chain!ChainInit, Line, Shown, Length
<1>2. ASSUME IInv, [Next]_vars
      PROVE  [Chain!Extend \/ Chain!Truncate \/ Chain!Publish]_<<
               [c \in 1 .. Highest(Prefix) |-> db.chunks[c].acc],
               IF db.scene = "SUCCEEDED" THEN clip.file ELSE <<>> >>
  BY <1>2, ChainSteps DEF Chain!Extend, Chain!Truncate, Chain!Publish, Line, Shown, Length
<1> QED BY <1>1, <1>2, Inductive, PTL DEF Spec, Publishes, Chain!ChainSpec

=============================================================================
