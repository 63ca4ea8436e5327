------------------------- MODULE RemakeBatchesProofs -------------------------
(***************************************************************************)
(* Proofs about RemakeBatches for any batches and items, any number of     *)
(* finals, jobs and faults of every kind.                                  *)
(*                                                                         *)
(* The invariant is built in layers, each inductive on top of those before *)
(* it:                                                                     *)
(*   Shape      types, where the worker may be and what names what         *)
(*   Agree      the rows of item, revision and batch; how far the worker   *)
(*              is with the batch in its hand                              *)
(*   SnapOK     what a manual final has selected                           *)
(*   HoldOK     what the worker read of a row is still what the row says   *)
(*   PostsOK    clips, markers and posts follow the order of the prompts   *)
(*   RoutesOK   the route of a revision is in its row, plan or hand        *)
(*   OrderOK    prompts end in the order they were queued                  *)
(*   FramesOK   every prepared item has its frame, has failed or is due    *)
(*   ClipsOK    a bound clip and the frame it is bound to                  *)
(*   StagesOK   which items may be in an image prompt                      *)
(*   OnceOK     no prompt is due that the rows do not know                 *)
(*   NumbersOK  the revision numbers of a scene                            *)
(* A first part says for each action what it changes (the Does lemmas),    *)
(* a later one for each variable which actions change it (Changes).        *)
(***************************************************************************)
EXTENDS RemakeBatches, SequenceTheorems, FiniteSetTheorems, TLAPS

Routes == {"legacy", "continuation"}
Stages == Routes \cup {"t2i"}
StageOrNone == Stages \cup {"none"}
RouteOrNone == Routes \cup {"none"}
RowStates == {"none", "pending", "running"} \cup Settled
BatchStates == {"none", "draft", "queued", "running", "succeeded", "partial", "failed"}
ItemRows == [state : RowStates, prompt : Nat, stage : StageOrNone]
Revisions == [state : RowStates, number : Nat, plan : BOOLEAN]
Manifests == [status : {"none", "running", "video_generated", "succeeded", "failed"},
              route : RouteOrNone, frame : Int, clip : Nat]
Markers == [st : {"none", "dispatching", "sent", "ambiguous", "failed"}, clip : Nat]
Files == [frame : Int, clip : Nat, manifest : Manifests, marker : Markers]
BatchRows == [state : BatchStates, policy : {"none", "after", "interrupt"}]
PromptRows == [of : Items, stage : Stages, st : {"queued", "done", "failed", "gone"}]
Choices == [of : Items \cup ({0} \X Scenes), clip : Int]
Finals == [state : {"queued", "running", "succeeded", "failed"},
           out : {<<>>} \cup [Scenes -> Int], sel : [Scenes -> Choices]]

\* where the worker holds a batch, an item of it, and a prompt of that item
PromptSteps == {"history", "queue", "post", "own", "wait", "got"}
VideoSteps == {"video", "bind"}
DeliverySteps == {"deliver", "send", "sent", "unsent", "expose", "settle"}
ItemSteps == {"prepare", "frame", "mark", "markrev"} \cup VideoSteps \cup PromptSteps
             \cup DeliverySteps
RunSteps == {"next", "verdict"} \cup ItemSteps
WorkerSteps == {"down", "idle", "job", "stitch", "fatal", "recover"} \cup RunSteps
Phases == {"prepare", "frames", "videos", "deliver"}
PhaseOrNone == Phases \cup {"none"}
WorkerStates ==
  [pc : WorkerSteps, phase : PhaseOrNone, b : Nat, i : Nat, rows : Seq(ItemRows),
   prep : SUBSET Nat, route : Seq(RouteOrNone), gen : SUBSET Nat,
   stage : StageOrNone, p : Nat, again : BOOLEAN]

Typed ==
  /\ batch \in [Batches -> BatchRows] /\ item \in [Items -> ItemRows]
  /\ rev \in [Items -> Revisions] /\ disk \in [Items -> Files] /\ final \in Seq(Finals)
  /\ pipe \in {"free", "active", "error"} /\ prompts \in Seq(PromptRows) /\ comfy \in BOOLEAN
  /\ posted \in Seq(Items \X Nat) /\ route \in Routes
  /\ gui \in [pc : {"idle", "abandon", "cancel", "queue"}, b : Nat,
              policy : {"none", "after", "interrupt"}]
  /\ env \in [faults : 0 .. MaxFaults, jobs : Nat, lost : BOOLEAN, unseen : BOOLEAN,
              stuck : BOOLEAN]
  /\ w \in WorkerStates

Placed ==
  /\ gui.pc # "idle" => gui.b \in Batches /\ gui.policy \in {"after", "interrupt"}
  /\ w.gen \subseteq w.prep /\ (w.pc \in {"down", "idle"} => w = Idle(w.pc))
  /\ w.pc = "stitch" => w.i \in DOMAIN final
  /\ w.pc \in RunSteps =>
       /\ w.b \in Batches /\ batch[w.b].state = "running" /\ w.phase \in Phases
       /\ Len(w.rows) = Size /\ Len(w.route) = Size
       /\ w.prep \subseteq 1 .. Size
       /\ \A i \in w.prep : w.route[i] \in Routes
       /\ w.i # 0 /\ (w.pc \in ItemSteps => w.i \in 1 .. Size)
  /\ w.pc = "prepare" => w.phase = "prepare"
  /\ w.pc = "frame" => w.phase = "frames" /\ w.i \in w.prep /\ Both(it)
  /\ w.pc \in VideoSteps => w.phase = "videos" /\ w.i \in w.prep
  /\ w.pc = "bind" => w.stage = w.route[w.i]
  /\ w.pc \in DeliverySteps => w.phase = "deliver" /\ w.i \in w.gen
  /\ w.pc = "verdict" => w.phase = "deliver"
  /\ w.pc \in PromptSteps =>
       /\ w.i \in w.prep
       /\ \/ w.phase = "frames" /\ w.stage = "t2i" /\ Both(it)
          \/ w.phase = "videos" /\ w.stage = w.route[w.i]

\* what names a prompt names one of the revision and of the stage
Names(sent, p, y, stage) == p # 0 => /\ p \in 1 .. Len(sent)
                                     /\ sent[p].of = y /\ sent[p].stage = stage
Named ==
  /\ \A y \in Items : /\ Names(prompts, item[y].prompt, y, item[y].stage)
                      /\ disk[y].clip <= Len(prompts)
                      /\ disk[y].frame \in Original .. Len(prompts)
  /\ w.pc \in RunSteps => \A i \in 1 .. Size : Names(prompts, w.rows[i].prompt, <<w.b, i>>, w.rows[i].stage)
  /\ w.pc \in PromptSteps \ {"post"} => Names(prompts, w.p, it, w.stage)
  /\ w.pc \in PromptSteps \ {"history", "post"} => w.p # 0

Shape == Typed /\ Placed /\ Named

\* the rows of an item, of its revision and of its batch agree
RowsOK ==
  \A y \in Items :
    /\ batch[y[1]].state = "none" <=> item[y].state = "none"
    /\ rev[y].state = "none" <=> item[y].state = "none"
    /\ item[y].state = "running" => batch[y[1]].state = "running"
    /\ item[y].state = "succeeded" => rev[y].state = "succeeded"
    /\ rev[y].state = "succeeded" => item[y].state \in {"succeeded", "running"}
    /\ batch[y[1]].state \in {"succeeded", "partial", "failed"} => item[y].state \in Settled
    /\ batch[y[1]].state = "succeeded" => item[y].state = "succeeded"

\* an item of the batch in hand, by its position: not visited in this phase, being visited
Row(i) == item[<<w.b, i>>]
Ahead(i) == i > w.i \/ (w.pc = "next" /\ i = w.i)
Held(i) == w.pc \in ItemSteps /\ i = w.i
Done(i) == Row(i).state \in Settled

Stand(i) ==
  /\ Row(i).state = "running" /\ rev[<<w.b, i>>].state = "succeeded" => Held(i) /\ w.pc = "settle"
  /\ i \in w.prep => Row(i).state \in {"running"} \cup Settled
  /\ w.phase = "prepare" =>
       /\ Ahead(i) => /\ Row(i).state = w.rows[i].state
                      /\ Row(i).state \in {"pending"} \cup Settled
       /\ Ahead(i) \/ Held(i) \/ Done(i) \/ i \in w.prep
       /\ i \in w.prep => Row(i).state = "running" /\ ~Ahead(i) /\ ~Held(i)
       /\ i \notin w.gen
  /\ w.phase = "frames" =>
       /\ Done(i) \/ i \in w.prep
       /\ i \in w.prep => Row(i).state # "succeeded" /\ (Ahead(i) => Row(i).state = "running")
       /\ i \notin w.gen
  /\ w.phase = "videos" =>
       /\ Done(i) \/ i \in w.prep
       /\ i \in w.prep => Row(i).state # "succeeded"
       /\ Ahead(i) \/ Held(i) \/ Done(i) \/ i \in w.gen
       /\ i \in w.gen => Row(i).state = "running" /\ ~Ahead(i) /\ ~Held(i)
  /\ w.phase = "deliver" =>
       /\ Done(i) \/ (i \in w.gen /\ (Ahead(i) \/ Held(i)) /\ w.pc # "verdict")
       /\ i \in w.gen /\ Ahead(i) => Row(i).state = "running"

HandOK ==
  w.pc \in RunSteps =>
    /\ w.pc \in ItemSteps =>
         Row(w.i).state = IF w.pc = "markrev" THEN "failed" ELSE "running"
    /\ w.pc = "settle" => rev[it].state = "succeeded"
    /\ \A i \in 1 .. Size : Stand(i)

SnapOK ==
  \A k \in DOMAIN final : \A i \in Scenes :
    LET s == final[k].sel[i] IN
    /\ final[k].state = "succeeded" => final[k].out[i] = s.clip
    /\ s.of[1] = 0 => s.clip = Original
    /\ s.of[1] # 0 => rev[s.of].state = "succeeded" /\ disk[s.of].clip \in {0, s.clip}

\* what the worker holds of the item in hand is what its row says, until it moves it
Unmoved(i) == Row(i).prompt = w.rows[i].prompt /\ Row(i).stage = w.rows[i].stage
EarlySteps == {"frame", "history", "queue", "post", "own"}
Waiting(i) == \/ w.phase = "prepare"
              \/ w.phase = "frames" /\ (Ahead(i) \/ (Held(i) /\ w.pc \in EarlySteps))
Owning(p) == w.pc = "own" /\ w.p = p
HoldOK ==
  /\ w.pc = "own" => w.p = Len(prompts)
  /\ w.pc \in {"history", "queue", "wait", "got"} /\ w.p # 0
       => item[it].prompt = w.p /\ item[it].stage = w.stage
  /\ w.pc \in RunSteps => \A i \in 1 .. Size : Waiting(i) => Done(i) \/ Unmoved(i)

\* clips, markers and posts of a revision follow the order of its prompts
PostsOK ==
  /\ PostedOnce
  /\ \A j \in DOMAIN posted :
       LET m == disk[posted[j][1]].marker IN
       /\ posted[j][2] <= m.clip
       /\ posted[j][2] = m.clip => m.st \in {"sent", "dispatching", "ambiguous"}
  /\ \A y \in Items :
       LET m == disk[y].marker IN
       /\ m.clip <= Len(prompts)
       /\ disk[y].clip # 0 => m.clip <= disk[y].clip
       /\ item[y].stage \in Routes /\ item[y].prompt # 0
            => disk[y].clip <= item[y].prompt /\ m.clip <= item[y].prompt
  /\ w.pc \in {"send", "sent", "unsent"} =>
       /\ disk[it].clip # 0 /\ disk[it].marker = [st |-> "dispatching", clip |-> disk[it].clip]
       /\ w.pc # "sent" => \A j \in DOMAIN posted : posted[j] # <<it, disk[it].clip>>

\* a route that was taken is in the rows, in the plan or in the hand of the worker
RoutesOK ==
  /\ RouteKept
  /\ \A y \in Items : /\ item[y].stage = "legacy" => ~rev[y].plan
                      /\ item[y].stage = "continuation" => rev[y].plan
  /\ \A p \in DOMAIN prompts :
       LET y == prompts[p].of IN
       /\ item[y].state # "none"
       /\ prompts[p].stage = "continuation" => rev[y].plan
       /\ prompts[p].stage = "legacy" /\ item[y].state \notin Settled =>
            \/ env.lost \/ item[y].stage = "legacy" \/ Owning(p)
            \/ \E r \in p .. Len(prompts) : prompts[r].of = y /\ prompts[r].stage = "t2i"
  /\ w.pc \in RunSteps =>
       \A i \in w.prep : /\ w.route[i] = "legacy" => ~rev[<<w.b, i>>].plan
                         /\ Row(i).stage \in Routes /\ ~Done(i) => Row(i).stage = w.route[i]
  /\ w.pc \in PromptSteps /\ w.stage = "continuation" => rev[it].plan

\* prompts run in the order they were queued
Past(p) == \A q \in 1 .. p : ~Live(q)
OrderOK == \A p \in DOMAIN prompts : prompts[p].st \in {"done", "failed"} => Past(p)

FramesOK ==
  w.pc \in RunSteps =>
    \A i \in w.prep :
      \/ disk[<<w.b, i>>].frame # 0 \/ Row(i).state = "failed"
      \/ w.phase = "prepare" /\ Both(<<w.b, i>>)
      \/ w.phase = "frames" /\ Both(<<w.b, i>>) /\ (Ahead(i) \/ Held(i))

NoFrameDue(y) == \A p \in DOMAIN prompts : ~(Live(p) /\ prompts[p].of = y /\ prompts[p].stage = "t2i")
Checked(y) == disk[y].manifest.status \in {"video_generated", "succeeded"}
ManifestSays(y) ==
  /\ rev[y].state = "succeeded" => disk[y].manifest.status = "succeeded"
  /\ Checked(y) /\ Both(y) =>
       env.lost \/ (NoFrameDue(y) /\ disk[y].frame \in {0, disk[y].manifest.frame})
QueueSays(y) ==
  item[y].stage \in Routes /\ item[y].prompt # 0 /\ item[y].state \notin Settled =>
    \A q \in item[y].prompt .. Len(prompts) :
      Live(q) /\ prompts[q].of = y /\ prompts[q].stage = "t2i" => env.lost \/ Owning(q)
PrepSays(i) ==
  w.phase # "deliver" => LET d == disk[<<w.b, i>>] IN
    /\ d.manifest.status # "succeeded"
    /\ Checked(<<w.b, i>>) => d.frame # 0
Bringing(i) == \/ w.phase = "videos" \/ Ahead(i)
               \/ Held(i) /\ w.pc # "settle" /\ w.pc \in DeliverySteps
GenSays(i) == Bringing(i) => disk[<<w.b, i>>].manifest.status = "video_generated"
HandChecked ==
  /\ w.pc \in PromptSteps \cup {"bind"} => ~Checked(it)
  /\ w.pc = "got" => Past(w.p)
  /\ w.pc = "bind" \/ (w.pc = "got" /\ w.stage # "t2i") => env.lost \/ NoFrameDue(it)
ClipsOK ==
  /\ \A y \in Items : ManifestSays(y) /\ QueueSays(y)
  /\ w.pc \in RunSteps => (\A i \in w.prep : PrepSays(i)) /\ \A i \in w.gen : GenSays(i)
  /\ HandChecked

\* a t2i stage in a row is that of an image remake whose frame is still to be visited
ImageSays(i) == Row(i).stage = "t2i" =>
  Done(i) \/ w.phase = "prepare" \/ (w.phase = "frames" /\ (Ahead(i) \/ Held(i)))
StagesOK == /\ \A y \in Items : item[y].stage = "t2i" => Both(y)
            /\ w.pc \in RunSteps => \A i \in w.prep : ImageSays(i)

\* as long as no prompt was lost or finished unseen, the rows know every prompt that is due
Blind == env.lost \/ env.unseen
KnownSays(q) ==
  LET y == prompts[q].of IN
  Live(q) /\ item[y].state \notin Settled =>
    \/ item[y].prompt = q \/ Owning(q)
    \/ prompts[q].stage # "t2i" /\ item[y].stage = "t2i" /\ q < item[y].prompt
FramePast(y) == item[y].state \notin Settled /\ item[y].stage = "t2i" /\ disk[y].frame # 0
                  => Past(item[y].prompt)
HasEnded == w.p # 0 /\ (prompts[w.p].st = "done" \/ (prompts[w.p].st = "gone" /\ ~comfy))
HandFrame ==
  w.stage = "t2i" /\ disk[it].frame # 0 =>
    /\ w.pc # "post"
    /\ w.pc \in {"history", "queue"} => HasEnded
    /\ w.pc = "own" => Past(w.p)
Twin(q) == Live(q) /\ prompts[q].of = it /\ prompts[q].stage = w.stage /\ ~Owning(q)
NoTwin == w.pc \in {"post", "own"} \/ (w.pc = "history" /\ w.p = 0)
            => \A q \in DOMAIN prompts : ~Twin(q)
OnceOK == Blind \/ /\ \A q \in DOMAIN prompts : KnownSays(q)
                   /\ \A y \in Items : FramePast(y)
                   /\ HandFrame /\ NoTwin
-----------------------------------------------------------------------------
(* Items, and the moves of the worker *)

LEMMA ItemsAre ==
  /\ \A b \in Batches : /\ b \in Nat \ {0} /\ Len(Remakes[b]) \in Nat
                        /\ DOMAIN Remakes[b] = 1 .. Len(Remakes[b])
                        /\ \A i \in 1 .. Len(Remakes[b]) : <<b, i>> \in Items
  /\ \A y \in Items : /\ y[1] \in Batches /\ y[2] \in 1 .. Len(Remakes[y[1]])
                      /\ y = <<y[1], y[2]>> /\ Both(y) \in BOOLEAN
                      /\ Scene(y) \in Nat /\ Scene(y) \in Scenes
<1>1. Remakes \in Seq(Seq([scene : Nat, both : BOOLEAN])) BY RemakeAssumption
<1>2. ASSUME NEW b \in Batches
      PROVE  /\ b \in Nat \ {0} /\ Remakes[b] \in Seq([scene : Nat, both : BOOLEAN])
             /\ Len(Remakes[b]) \in Nat /\ DOMAIN Remakes[b] = 1 .. Len(Remakes[b])
  BY <1>1 DEF Batches
<1>3. ASSUME NEW b \in Batches, NEW i \in 1 .. Len(Remakes[b]) PROVE <<b, i>> \in Items
  BY <1>2 DEF Items
<1>4. ASSUME NEW y \in Items
      PROVE  /\ y[1] \in Batches /\ y[2] \in 1 .. Len(Remakes[y[1]]) /\ y = <<y[1], y[2]>>
  <2>1. PICK b \in Batches : y \in {b} \X DOMAIN Remakes[b] BY DEF Items
  <2> QED BY <1>2, <2>1
<1>5. ASSUME NEW y \in Items
      PROVE  Both(y) \in BOOLEAN /\ Scene(y) \in Nat /\ Scene(y) \in Scenes
  <2>1. Remakes[y[1]] \in Seq([scene : Nat, both : BOOLEAN]) /\ y[2] \in 1 .. Len(Remakes[y[1]])
    BY <1>2, <1>4
  <2>2. Remakes[y[1]][y[2]] \in [scene : Nat, both : BOOLEAN] BY <2>1, ElementOfSeq
  <2> QED BY <2>2 DEF Both, Scene, Scenes
<1> QED BY <1>2, <1>3, <1>4, <1>5

LEMMA OrNone ==
  /\ "none" \in StageOrNone /\ "none" \in RouteOrNone /\ "none" \in PhaseOrNone
  /\ Stages \subseteq StageOrNone /\ Routes \subseteq RouteOrNone
  /\ Phases \subseteq PhaseOrNone /\ Routes \subseteq Stages
BY DEF StageOrNone, RouteOrNone, PhaseOrNone, Stages

SameRun == w'.b = w.b /\ w'.phase = w.phase /\ w'.rows = w.rows
SameSets == w'.prep = w.prep /\ w'.route = w.route /\ w'.gen = w.gen
SameHand == SameRun /\ SameSets /\ w'.i = w.i
SamePrompt == w'.stage = w.stage /\ w'.p = w.p
Generated == w' = [Skip EXCEPT !.gen = @ \cup {w.i}]
Prepared(r) == w' = [Skip EXCEPT !.prep = @ \cup {w.i}, !.route[w.i] = r]
Blank == w'.stage = "none" /\ w'.p = 0

LEMMA WorkerIs ==
  ASSUME NEW pc \in WorkerSteps, NEW phase \in PhaseOrNone, NEW b \in Nat, NEW i \in Nat,
         NEW rows \in Seq(ItemRows), NEW prep \in SUBSET Nat, NEW t \in Seq(RouteOrNone),
         NEW gen \in SUBSET Nat, NEW stage \in StageOrNone, NEW p \in Nat, NEW again \in BOOLEAN
  PROVE  [pc |-> pc, phase |-> phase, b |-> b, i |-> i, rows |-> rows, prep |-> prep,
          route |-> t, gen |-> gen, stage |-> stage, p |-> p, again |-> again] \in WorkerStates
BY DEF WorkerStates

LEMMA GoDoes ==
  ASSUME w \in WorkerStates, NEW pc \in WorkerSteps, Go(pc)
  PROVE  w' \in WorkerStates /\ w'.pc = pc /\ SameHand /\ SamePrompt
BY DEF WorkerStates, Go, SameHand, SameRun, SameSets, SamePrompt

LEMMA SkipDoes ==
  ASSUME w \in WorkerStates, Skipped
  PROVE  /\ w' \in WorkerStates /\ w'.pc = "next" /\ w'.i = w.i + 1 /\ SameRun /\ SameSets /\ Blank
<1>1. "next" \in WorkerSteps BY DEF WorkerSteps, RunSteps
<1>2. w.i + 1 \in Nat BY DEF WorkerStates
<1>3. w' = [w EXCEPT !.pc = "next", !.i = w.i + 1, !.stage = "none", !.p = 0, !.again = FALSE]
  BY DEF Skipped, Skip, WorkerStates
<1> QED BY <1>1, <1>2, <1>3, OrNone DEF WorkerStates, SameRun, SameSets, Blank

LEMMA SkipGenDoes ==
  ASSUME w \in WorkerStates, Generated
  PROVE  /\ w' \in WorkerStates /\ w'.pc = "next" /\ w'.i = w.i + 1 /\ SameRun /\ Blank
         /\ w'.prep = w.prep /\ w'.route = w.route /\ w'.gen = w.gen \cup {w.i}
<1>1. "next" \in WorkerSteps BY DEF WorkerSteps, RunSteps
<1>2. /\ w.phase \in PhaseOrNone /\ w.b \in Nat /\ w.i + 1 \in Nat /\ w.rows \in Seq(ItemRows)
      /\ w.prep \in SUBSET Nat /\ w.gen \in SUBSET Nat /\ w.route \in Seq(RouteOrNone)
  BY DEF WorkerStates
<1> DEFINE g == w.gen \cup {w.i}
<1>3. w' = [pc |-> "next", phase |-> w.phase, b |-> w.b, i |-> w.i + 1, rows |-> w.rows,
            prep |-> w.prep, route |-> w.route, gen |-> g, stage |-> "none", p |-> 0,
            again |-> FALSE]
  BY DEF Generated, Skip, WorkerStates
<1>4. g \in SUBSET Nat BY DEF WorkerStates
<1> HIDE DEF g
<1>5. w' \in WorkerStates BY <1>1, <1>2, <1>3, <1>4, OrNone, WorkerIs, 0 \in Nat, Zenon
<1>6. /\ w'.pc = "next" /\ w'.i = w.i + 1 /\ SameRun /\ Blank
      /\ w'.prep = w.prep /\ w'.route = w.route /\ w'.gen = g
  BY <1>3 DEF SameRun, Blank
<1> QED BY <1>5, <1>6 DEF g

LEMMA SkipPrepDoes ==
  ASSUME w \in WorkerStates, NEW r \in Routes, w.i \in DOMAIN w.route, Prepared(r)
  PROVE  /\ w' \in WorkerStates /\ w'.pc = "next" /\ w'.i = w.i + 1 /\ SameRun /\ Blank
         /\ w'.prep = w.prep \cup {w.i} /\ w'.gen = w.gen /\ Len(w'.route) = Len(w.route)
         /\ w'.route[w.i] = r /\ \A i \in DOMAIN w.route : i # w.i => w'.route[i] = w.route[i]
<1>1. "next" \in WorkerSteps BY DEF WorkerSteps, RunSteps
<1>2. /\ w.phase \in PhaseOrNone /\ w.b \in Nat /\ w.i + 1 \in Nat /\ w.rows \in Seq(ItemRows)
      /\ w.prep \in SUBSET Nat /\ w.gen \in SUBSET Nat /\ w.route \in Seq(RouteOrNone)
  BY DEF WorkerStates
<1>3. DOMAIN w.route = 1 .. Len(w.route) BY <1>2
<1> DEFINE t == [w.route EXCEPT ![w.i] = r]
<1> DEFINE s == w.prep \cup {w.i}
<1>4. /\ t \in Seq(RouteOrNone) /\ Len(t) = Len(w.route)
      /\ \A j \in 1 .. Len(w.route) : t[j] = IF j = w.i THEN r ELSE w.route[j]
  BY <1>2, <1>3, OrNone, ExceptSeq
<1>5. w' = [pc |-> "next", phase |-> w.phase, b |-> w.b, i |-> w.i + 1, rows |-> w.rows,
            prep |-> s, route |-> t, gen |-> w.gen, stage |-> "none", p |-> 0, again |-> FALSE]
  BY DEF Prepared, Skip, WorkerStates
<1>6. s \in SUBSET Nat BY DEF WorkerStates
<1> HIDE DEF t, s
<1>7. w' \in WorkerStates BY <1>1, <1>2, <1>4, <1>5, <1>6, OrNone, WorkerIs, 0 \in Nat, Zenon
<1>8. w'.pc = "next" /\ w'.i = w.i + 1 /\ SameRun /\ Blank BY <1>5 DEF SameRun, Blank
<1>9. w'.route = t /\ w'.prep = s /\ w'.gen = w.gen BY <1>5
<1> QED BY <1>3, <1>4, <1>7, <1>8, <1>9 DEF s

LEMMA VisitDoes ==
  ASSUME w \in WorkerStates, NEW pc \in WorkerSteps, NEW i \in Nat,
         w' = [w EXCEPT !.i = i, !.pc = pc]
  PROVE  w' \in WorkerStates /\ w'.pc = pc /\ w'.i = i /\ SameRun /\ SameSets /\ SamePrompt
BY DEF WorkerStates, SameRun, SameSets, SamePrompt

LEMMA AdvanceDoes ==
  ASSUME w \in WorkerStates, NEW phase \in Phases, w' = [w EXCEPT !.phase = phase, !.i = 1]
  PROVE  /\ w' \in WorkerStates /\ w'.pc = w.pc /\ w'.i = 1 /\ w'.b = w.b /\ w'.rows = w.rows
         /\ w'.phase = phase /\ SameSets /\ SamePrompt
BY OrNone DEF WorkerStates, SameSets, SamePrompt

LEMMA AskDoes ==
  ASSUME w \in WorkerStates, NEW stage \in Stages, NEW p \in Nat,
         w' = [w EXCEPT !.pc = "history", !.stage = stage, !.p = p]
  PROVE  w' \in WorkerStates /\ w'.pc = "history" /\ SameHand /\ w'.stage = stage /\ w'.p = p
<1>1. "history" \in WorkerSteps BY DEF WorkerSteps, RunSteps, ItemSteps, PromptSteps
<1> QED BY <1>1, OrNone DEF WorkerStates, SameHand, SameRun, SameSets

LEMMA TakeDoes ==
  ASSUME w \in WorkerStates, NEW p \in Nat, w' = [w EXCEPT !.pc = "own", !.p = p]
  PROVE  w' \in WorkerStates /\ w'.pc = "own" /\ SameHand /\ w'.stage = w.stage /\ w'.p = p
<1>1. "own" \in WorkerSteps BY DEF WorkerSteps, RunSteps, ItemSteps, PromptSteps
<1> QED BY <1>1 DEF WorkerStates, SameHand, SameRun, SameSets

LEMMA AgainDoes ==
  ASSUME w \in WorkerStates, w' = [w EXCEPT !.pc = "deliver", !.again = TRUE]
  PROVE  w' \in WorkerStates /\ w'.pc = "deliver" /\ SameHand /\ SamePrompt
<1>1. "deliver" \in WorkerSteps BY DEF WorkerSteps, RunSteps, ItemSteps, DeliverySteps
<1> QED BY <1>1 DEF WorkerStates, SameHand, SameRun, SameSets, SamePrompt

LEMMA IdleDoes ==
  ASSUME NEW pc \in WorkerSteps PROVE Idle(pc) \in WorkerStates /\ Idle(pc).pc = pc
<1>1. <<>> \in Seq(ItemRows) /\ <<>> \in Seq(RouteOrNone) OBVIOUS
<1> QED BY <1>1, OrNone DEF Idle, WorkerStates

LEMMA FatalDoes ==
  ASSUME w \in WorkerStates, Transport
  PROVE  /\ w' \in WorkerStates /\ SameHand /\ SamePrompt /\ w'.pc \in {"mark", "fatal"}
         /\ comfy <=> w'.pc = "mark"
<1>1. "mark" \in WorkerSteps /\ "fatal" \in WorkerSteps
  BY DEF WorkerSteps, RunSteps, ItemSteps
<1>2. CASE comfy /\ Go("mark")
  <2>1. w' \in WorkerStates /\ w'.pc = "mark" /\ SameHand /\ SamePrompt BY <1>1, <1>2, GoDoes
  <2> QED BY <1>2, <2>1
<1>3. CASE ~comfy /\ Go("fatal")
  <2>1. w' \in WorkerStates /\ w'.pc = "fatal" /\ SameHand /\ SamePrompt BY <1>1, <1>3, GoDoes
  <2> QED BY <1>3, <2>1
<1> QED BY <1>2, <1>3 DEF Transport

-----------------------------------------------------------------------------
(* What an assignment to a row, a revision or a file changes *)

ItemOnly(y) == item' \in [Items -> ItemRows] /\ \A z \in Items : z # y => item'[z] = item[z]
RevOnly(y) == rev' \in [Items -> Revisions] /\ \A z \in Items : z # y => rev'[z] = rev[z]
DiskOnly(y) == disk' \in [Items -> Files] /\ \A z \in Items : z # y => disk'[z] = disk[z]

LEMMA ItemState ==
  ASSUME Typed, NEW y \in Items, NEW s \in RowStates, item' = [item EXCEPT ![y].state = s]
  PROVE  /\ ItemOnly(y) /\ item'[y].state = s
         /\ item'[y].prompt = item[y].prompt /\ item'[y].stage = item[y].stage
BY DEF Typed, ItemOnly, ItemRows

LEMMA ItemPrompt ==
  ASSUME Typed, NEW y \in Items, NEW p \in Nat, NEW t \in StageOrNone,
         item' = [item EXCEPT ![y].prompt = p, ![y].stage = t]
  PROVE  ItemOnly(y) /\ item'[y] = [state |-> item[y].state, prompt |-> p, stage |-> t]
<1>1. item[y] \in ItemRows /\ item \in [Items -> ItemRows] BY DEF Typed
<1> DEFINE r == [state |-> item[y].state, prompt |-> p, stage |-> t]
<1>2. r \in ItemRows BY <1>1 DEF ItemRows
<1> DEFINE o == [[item[y] EXCEPT !.prompt = p] EXCEPT !.stage = t]
<1>a. o \in ItemRows BY <1>1 DEF ItemRows
<1>b. o.state = item[y].state /\ o.prompt = p /\ o.stage = t BY <1>1 DEF ItemRows
<1>3. r = o
  <2>1. r.state = o.state /\ r.prompt = o.prompt /\ r.stage = o.stage BY <1>b
  <2> HIDE DEF r, o
  <2> QED BY <1>2, <1>a, <2>1 DEF ItemRows
<1>4. item' = [[item EXCEPT ![y] = [@ EXCEPT !.prompt = p]] EXCEPT ![y] = [@ EXCEPT !.stage = t]]
  OBVIOUS
<1>5. item' = [item EXCEPT ![y] = [[item[y] EXCEPT !.prompt = p] EXCEPT !.stage = t]]
  BY <1>1, <1>4
<1>6. item' = [item EXCEPT ![y] = r] BY <1>3, <1>5
<1> HIDE DEF r
<1>7. ItemOnly(y) /\ item'[y] = r BY <1>1, <1>2, <1>6 DEF ItemOnly
<1> QED BY <1>7 DEF r

LEMMA ItemSet ==
  ASSUME Typed, NEW y \in Items, NEW r \in ItemRows, item' = [item EXCEPT ![y] = r]
  PROVE  ItemOnly(y) /\ item'[y] = r
BY DEF Typed, ItemOnly

LEMMA RevState ==
  ASSUME Typed, NEW y \in Items, NEW s \in RowStates, rev' = [rev EXCEPT ![y].state = s]
  PROVE  /\ RevOnly(y) /\ rev'[y].state = s
         /\ rev'[y].number = rev[y].number /\ rev'[y].plan = rev[y].plan
BY DEF Typed, RevOnly, Revisions

LEMMA RevPlan ==
  ASSUME Typed, NEW y \in Items, rev' = [rev EXCEPT ![y].plan = TRUE]
  PROVE  /\ RevOnly(y) /\ rev'[y].state = rev[y].state
         /\ rev'[y].number = rev[y].number /\ rev'[y].plan
BY DEF Typed, RevOnly, Revisions

LEMMA FilesSet ==
  ASSUME Typed, NEW y \in Items, NEW r \in Files, disk' = [disk EXCEPT ![y] = r]
  PROVE  DiskOnly(y) /\ disk'[y] = r
BY DEF Typed, DiskOnly

LEMMA DiskClip ==
  ASSUME Typed, NEW y \in Items, NEW c \in Nat, disk' = [disk EXCEPT ![y].clip = c]
  PROVE  /\ DiskOnly(y) /\ disk'[y].clip = c /\ disk'[y].frame = disk[y].frame
         /\ disk'[y].manifest = disk[y].manifest /\ disk'[y].marker = disk[y].marker
BY DEF Typed, DiskOnly, Files

LEMMA DiskFrame ==
  ASSUME Typed, NEW y \in Items, NEW f \in Int, disk' = [disk EXCEPT ![y].frame = f]
  PROVE  /\ DiskOnly(y) /\ disk'[y].frame = f /\ disk'[y].clip = disk[y].clip
         /\ disk'[y].manifest = disk[y].manifest /\ disk'[y].marker = disk[y].marker
BY DEF Typed, DiskOnly, Files

LEMMA DiskManifest ==
  ASSUME Typed, NEW y \in Items, NEW m \in Manifests, disk' = [disk EXCEPT ![y].manifest = m]
  PROVE  /\ DiskOnly(y) /\ disk'[y].manifest = m /\ disk'[y].clip = disk[y].clip
         /\ disk'[y].frame = disk[y].frame /\ disk'[y].marker = disk[y].marker
<1>1. disk[y] \in Files BY DEF Typed
<1> DEFINE r == [disk[y] EXCEPT !.manifest = m]
<1>2. r \in Files BY <1>1 DEF Files
<1>3. disk' = [disk EXCEPT ![y] = r] BY DEF Typed
<1>4. /\ r.manifest = m /\ r.clip = disk[y].clip
      /\ r.frame = disk[y].frame /\ r.marker = disk[y].marker BY <1>1 DEF Files
<1> HIDE DEF r
<1>5. DiskOnly(y) /\ disk'[y] = r BY <1>2, <1>3, FilesSet
<1> QED BY <1>4, <1>5

LEMMA DiskStatus ==
  ASSUME Typed, NEW y \in Items,
         NEW s \in {"none", "running", "video_generated", "succeeded", "failed"},
         disk' = [disk EXCEPT ![y].manifest.status = s]
  PROVE  /\ DiskOnly(y) /\ disk'[y].clip = disk[y].clip
         /\ disk'[y].frame = disk[y].frame /\ disk'[y].marker = disk[y].marker
         /\ disk'[y].manifest = [disk[y].manifest EXCEPT !.status = s]
<1>1. disk[y] \in Files /\ disk[y].manifest \in Manifests BY DEF Typed, Files
<1> DEFINE m == [disk[y].manifest EXCEPT !.status = s]
<1>2. m \in Manifests BY <1>1 DEF Manifests
<1>3. disk' = [disk EXCEPT ![y].manifest = m] BY DEF Typed
<1> HIDE DEF m
<1>4. /\ DiskOnly(y) /\ disk'[y].manifest = m /\ disk'[y].clip = disk[y].clip
      /\ disk'[y].frame = disk[y].frame /\ disk'[y].marker = disk[y].marker
  BY <1>2, <1>3, DiskManifest
<1> QED BY <1>4 DEF m

LEMMA MarkerDoes ==
  ASSUME Typed, NEW y \in Items, NEW st \in {"none", "dispatching", "sent", "ambiguous", "failed"},
         Marker(y, st)
  PROVE  /\ DiskOnly(y) /\ disk'[y].marker = [st |-> st, clip |-> disk[y].clip]
         /\ disk'[y].clip = disk[y].clip /\ disk'[y].frame = disk[y].frame
         /\ disk'[y].manifest = disk[y].manifest
<1>1. disk[y] \in Files BY DEF Typed
<1> DEFINE m == [st |-> st, clip |-> disk[y].clip]
<1> DEFINE r == [disk[y] EXCEPT !.marker = m]
<1>2. m \in Markers BY <1>1 DEF Files, Markers
<1>3. r \in Files BY <1>1, <1>2 DEF Files
<1>4. disk' = [disk EXCEPT ![y] = r] BY DEF Typed, Marker
<1>5. /\ r.marker = m /\ r.clip = disk[y].clip
      /\ r.frame = disk[y].frame /\ r.manifest = disk[y].manifest BY <1>1 DEF Files
<1> HIDE DEF r
<1>6. DiskOnly(y) /\ disk'[y] = r BY <1>3, <1>4, FilesSet
<1> QED BY <1>5, <1>6

-----------------------------------------------------------------------------
(* What the worker does *)

Moves(pcs) == w' \in WorkerStates /\ SameHand /\ SamePrompt /\ w'.pc \in pcs
Others == UNCHANGED <<final, pipe, route, gui>>

LEMMA LeastElement ==
  ASSUME NEW S \in SUBSET Nat, S # {}
  PROVE  \E n \in S : \A m \in S : n <= m
<1>1. \E x \in S : \A y \in S : ~(<<y, x>> \in OpToRel(<, Nat))
  BY NatLessThanWellFounded, WFMin
<1>2. PICK x \in S : \A y \in S : ~(<<y, x>> \in OpToRel(<, Nat)) BY <1>1
<1>3. ASSUME NEW y \in S PROVE x <= y
  <2>1. ~(y < x) BY <1>2 DEF OpToRel
  <2> QED BY <2>1
<1> QED BY <1>3

LEMMA LeastIs ==
  ASSUME NEW S \in SUBSET Nat, S # {}
  PROVE  Least(S) \in S /\ \A m \in S : Least(S) <= m
BY LeastElement DEF Least

\* The item in hand is one.
LEMMA HandIs ==
  ASSUME Shape, w.pc \in ItemSteps
  PROVE  /\ w.pc \in RunSteps /\ w.b \in Batches /\ w.i \in 1 .. Size /\ it \in Items /\ Size \in Nat
         /\ w \in WorkerStates /\ item[it] \in ItemRows /\ rev[it] \in Revisions
         /\ disk[it] \in Files /\ w.rows[w.i] \in ItemRows /\ Both(it) \in BOOLEAN
<1>1. w.pc \in RunSteps BY DEF RunSteps
<1>2. /\ w.b \in Batches /\ w.i \in 1 .. Size /\ Len(w.rows) = Size /\ w \in WorkerStates
  BY <1>1 DEF Shape, Placed, Typed
<1>3. it \in Items /\ Size \in Nat BY <1>2, ItemsAre DEF it, Size
<1>4. w.rows \in Seq(ItemRows) BY <1>2 DEF WorkerStates
<1>5. w.rows[w.i] \in ItemRows BY <1>2, <1>3, <1>4, ElementOfSeq
<1> QED BY <1>1, <1>2, <1>3, <1>5, ItemsAre DEF Shape, Typed

LEMMA PcIs ==
  /\ PromptSteps \subseteq ItemSteps /\ DeliverySteps \subseteq ItemSteps
  /\ VideoSteps \subseteq ItemSteps /\ ItemSteps \subseteq RunSteps /\ RunSteps \subseteq WorkerSteps
  /\ {"prepare", "frame", "mark", "markrev"} \subseteq ItemSteps
BY DEF ItemSteps, RunSteps, WorkerSteps

LEMMA SelfMoves ==
  ASSUME Shape, NEW pc \in WorkerSteps, Go(pc) PROVE Moves({pc})
BY GoDoes DEF Moves, Shape, Typed

LEMMA TransportMoves ==
  ASSUME Shape, Transport PROVE Moves({"mark", "fatal"}) /\ (comfy <=> w'.pc = "mark")
BY FatalDoes DEF Moves, Shape, Typed

LEMMA StartFinalDoes ==
  ASSUME Shape, StartFinal
  PROVE  /\ w.pc = "idle" /\ w' \in WorkerStates /\ w'.pc = "stitch" /\ w'.i \in DOMAIN final
         /\ final[w'.i].state = "queued" /\ w'.prep = w.prep /\ w'.gen = w.gen
         /\ final' = [final EXCEPT ![w'.i].state = "running"]
         /\ UNCHANGED <<batch, item, rev, disk, pipe, prompts, comfy, posted, route, gui, env>>
<1>1. QueuedFinals \subseteq Nat /\ QueuedFinals # {}
  BY DEF StartFinal, FinalCanRun, QueuedFinals, Shape, Typed
<1>2. Least(QueuedFinals) \in QueuedFinals BY <1>1, LeastIs
<1> DEFINE k == Least(QueuedFinals)
<1>3. k \in DOMAIN final /\ k \in Nat /\ final[k].state = "queued" BY <1>1, <1>2 DEF QueuedFinals
<1>4. w' = [w EXCEPT !.pc = "stitch", !.i = k] /\ final' = [final EXCEPT ![k].state = "running"]
  BY DEF StartFinal
<1> HIDE DEF k
<1>5. "stitch" \in WorkerSteps BY DEF WorkerSteps
<1>6. w' \in WorkerStates /\ w'.pc = "stitch" /\ w'.i = k /\ w'.prep = w.prep /\ w'.gen = w.gen
  BY <1>3, <1>4, <1>5 DEF WorkerStates, Shape, Typed
<1> QED BY <1>3, <1>4, <1>6 DEF StartFinal, At, Rest

LEMMA StartBatchDoes ==
  ASSUME Shape, StartBatch
  PROVE  /\ w.pc = "idle" /\ w' \in WorkerStates /\ w'.pc = "next" /\ w'.phase = "prepare"
         /\ w'.b \in Batches /\ batch[w'.b].state = "queued" /\ w'.i = 1
         /\ batch' = [batch EXCEPT ![w'.b].state = "running"]
         /\ Len(w'.rows) = Size' /\ Len(w'.route) = Size'
         /\ \A i \in 1 .. Size' : w'.rows[i] = item[<<w'.b, i>>]
         /\ w'.prep = {} /\ w'.gen = {} /\ w'.stage = "none" /\ w'.p = 0
         /\ UNCHANGED <<item, rev, disk, final, pipe, prompts, comfy, posted, route, gui, env>>
<1>1. QueuedBatches \subseteq Nat /\ QueuedBatches # {}
  BY ItemsAre DEF StartBatch, QueuedBatches
<1>2. Least(QueuedBatches) \in QueuedBatches BY <1>1, LeastIs
<1> DEFINE b == Least(QueuedBatches)
<1>3. b \in Batches /\ b \in Nat /\ batch[b].state = "queued" BY <1>1, <1>2 DEF QueuedBatches
<1> DEFINE rows == [i \in DOMAIN Remakes[b] |-> item[<<b, i>>]]
<1> DEFINE t == [i \in DOMAIN Remakes[b] |-> "none"]
<1>4. w' = [w EXCEPT !.pc = "next", !.phase = "prepare", !.b = b, !.i = 1, !.rows = rows, !.route = t]
      /\ batch' = [batch EXCEPT ![b].state = "running"]
  BY DEF StartBatch
<1> DEFINE n == Len(Remakes[b])
<1>5. n \in Nat /\ DOMAIN Remakes[b] = 1 .. n /\ \A i \in 1 .. n : <<b, i>> \in Items
  BY <1>3, ItemsAre
<1>6. rows \in Seq(ItemRows) /\ Len(rows) = n /\ \A i \in 1 .. n : rows[i] = item[<<b, i>>]
  <2>1. \A i \in 1 .. n : item[<<b, i>>] \in ItemRows BY <1>5 DEF Shape, Typed
  <2> HIDE DEF b, n
  <2> QED BY <1>5, <2>1
<1>7. t \in Seq(RouteOrNone) /\ Len(t) = n
  <2> HIDE DEF b, n
  <2> QED BY <1>5, OrNone
<1> HIDE DEF b, rows, t, n
<1>8. "next" \in WorkerSteps /\ "prepare" \in PhaseOrNone
  BY DEF WorkerSteps, RunSteps, PhaseOrNone, Phases
<1>9. /\ w' \in WorkerStates /\ w'.pc = "next" /\ w'.phase = "prepare" /\ w'.b = b /\ w'.i = 1
      /\ w'.rows = rows /\ w'.route = t
      /\ w'.prep = w.prep /\ w'.gen = w.gen /\ w'.stage = w.stage /\ w'.p = w.p
  BY <1>3, <1>4, <1>6, <1>7, <1>8 DEF WorkerStates, Shape, Typed
<1>10. Size' = n BY <1>9 DEF Size, n
<1>11. w.prep = {} /\ w.gen = {} /\ w.stage = "none" /\ w.p = 0
  BY DEF StartBatch, At, Shape, Placed, Idle
<1> QED BY <1>3, <1>4, <1>6, <1>7, <1>9, <1>10, <1>11 DEF StartBatch, At, Rest

LEMMA TickDoes ==
  ASSUME Shape, Tick
  PROVE  /\ w.pc = "idle" /\ w' \in WorkerStates /\ w'.pc = "job" /\ SameHand /\ SamePrompt
         /\ pipe' \in {"free", "active", "error"} /\ env.jobs \in Nat
         /\ env' = env \/ env' = [env EXCEPT !.jobs = env.jobs + 1]
         /\ UNCHANGED <<batch, item, rev, disk, final, prompts, comfy, posted, route, gui>>
<1>1. w' \in WorkerStates /\ w'.pc = "job" /\ SameHand /\ SamePrompt
  BY SelfMoves DEF Tick, Moves, WorkerSteps
<1> QED BY <1>1 DEF Tick, At, Rest, Shape, Typed

LEMMA NextDoes ==
  ASSUME Shape, NextItem
  PROVE  /\ w.pc = "next" /\ w' \in WorkerStates /\ w'.b = w.b /\ w'.rows = w.rows /\ w.b \in Batches
         /\ SameSets /\ SamePrompt /\ UNCHANGED <<batch, rev, disk, prompts, comfy, posted, env>>
         /\ Others /\ Size \in Nat /\ w.i \in Nat
         /\ \/ /\ w'.phase = w.phase /\ w'.i \in w.i .. Size /\ Due(w'.i) /\ w'.pc = Work(w.phase)
               /\ \A i \in w.i .. Size : Due(i) => w'.i <= i
               /\ w'.pc \in ItemSteps /\ <<w.b, w'.i>> \in Items
               /\ IF w.phase = "prepare"
                  THEN /\ ItemOnly(<<w.b, w'.i>>) /\ item'[<<w.b, w'.i>>].state = "running"
                       /\ item'[<<w.b, w'.i>>].prompt = item[<<w.b, w'.i>>].prompt
                       /\ item'[<<w.b, w'.i>>].stage = item[<<w.b, w'.i>>].stage
                  ELSE item' = item
            \/ /\ \A i \in w.i .. Size : ~Due(i)
               /\ w.phase = "deliver" /\ w'.pc = "verdict" /\ w'.i = w.i /\ w'.phase = w.phase
               /\ item' = item
            \/ /\ \A i \in w.i .. Size : ~Due(i)
               /\ w.phase # "deliver" /\ w'.pc = "next" /\ w'.i = 1 /\ w'.phase = NextPhase[w.phase]
               /\ item' = item
<1>1. w.pc = "next" /\ w.b \in Batches /\ w \in WorkerStates /\ w.phase \in Phases
  BY DEF NextItem, At, Shape, Placed, Typed, RunSteps
<1>2. Size \in Nat /\ w.i \in Nat BY <1>1, ItemsAre DEF Size, WorkerStates
<1>3. UNCHANGED <<batch, rev, disk, prompts, comfy, posted, env>> /\ Others
  BY DEF NextItem, Rest, Others
<1> DEFINE due == {i \in w.i .. Size : Due(i)}
<1>4. CASE due # {}
  <2> DEFINE i == Least(due)
  <2>1. due \subseteq Nat BY <1>2
  <2>2. i \in due /\ \A j \in due : i <= j
    <3> HIDE DEF due
    <3> QED BY <1>4, <2>1, LeastIs
  <2>3. i \in w.i .. Size /\ Due(i) /\ i \in Nat /\ \A j \in w.i .. Size : Due(j) => i <= j
    BY <2>1, <2>2
  <2>4. w' = [w EXCEPT !.i = i, !.pc = Work(w.phase)]
    BY <1>4 DEF NextItem
  <2>5. item' = IF w.phase = "prepare" THEN [item EXCEPT ![<<w.b, i>>].state = "running"] ELSE item
    BY <1>4 DEF NextItem
  <2>6. Work(w.phase) \in ItemSteps
    BY <1>1 DEF Work, Phases, ItemSteps, VideoSteps, DeliverySteps
  <2> HIDE DEF i, due
  <2>7. /\ w' \in WorkerStates /\ w'.pc = Work(w.phase) /\ w'.i = i /\ SameRun /\ SameSets
        /\ SamePrompt
    BY <1>1, <2>3, <2>4, <2>6, PcIs, VisitDoes
  <2>8. w.i # 0 BY <1>1 DEF Shape, Placed, RunSteps
  <2>9. <<w.b, i>> \in Items BY <1>1, <1>2, <2>3, <2>8, ItemsAre DEF Size
  <2>10. "running" \in RowStates BY DEF RowStates
  <2>11. IF w.phase = "prepare"
         THEN /\ ItemOnly(<<w.b, i>>) /\ item'[<<w.b, i>>].state = "running"
              /\ item'[<<w.b, i>>].prompt = item[<<w.b, i>>].prompt
              /\ item'[<<w.b, i>>].stage = item[<<w.b, i>>].stage
         ELSE item' = item
    BY <2>5, <2>9, <2>10, ItemState DEF Shape
  <2> QED BY <1>1, <1>2, <1>3, <2>3, <2>6, <2>7, <2>9, <2>11 DEF SameRun
<1>5. CASE due = {}
  <2>1. \A i \in w.i .. Size : ~Due(i) BY <1>5
  <2>2. item' = item /\ w' = IF w.phase = "deliver" THEN [w EXCEPT !.pc = "verdict"]
                            ELSE [w EXCEPT !.phase = NextPhase[w.phase], !.i = 1]
    BY <1>5 DEF NextItem
  <2>3. CASE w.phase = "deliver"
    <3>1. "verdict" \in WorkerSteps BY DEF WorkerSteps, RunSteps
    <3>2. w' \in WorkerStates /\ w'.pc = "verdict" /\ SameHand /\ SamePrompt
      BY <1>1, <2>2, <2>3, <3>1, GoDoes DEF Go
    <3> QED BY <1>1, <1>2, <1>3, <2>1, <2>2, <2>3, <3>2 DEF SameHand, SameRun
  <2>4. CASE w.phase # "deliver"
    <3>1. NextPhase[w.phase] \in Phases BY <1>1, <2>4 DEF NextPhase, Phases
    <3> DEFINE phase == NextPhase[w.phase]
    <3>2. w' = [w EXCEPT !.phase = phase, !.i = 1] BY <2>2, <2>4
    <3> HIDE DEF phase
    <3>3. /\ w' \in WorkerStates /\ w'.pc = w.pc /\ w'.i = 1 /\ w'.b = w.b /\ w'.rows = w.rows
          /\ w'.phase = phase /\ SameSets /\ SamePrompt
      BY <1>1, <3>1, <3>2, AdvanceDoes DEF phase
    <3> QED BY <1>1, <1>2, <1>3, <2>1, <2>2, <2>4, <3>3 DEF phase
  <2> QED BY <2>3, <2>4
<1> QED BY <1>4, <1>5

UsedRoute == UsesRoute(it, w.rows[w.i])
LEMMA RouteIs == ASSUME Shape, w.pc \in ItemSteps PROVE UsedRoute \in Routes
<1>1. w.rows[w.i].stage \in StageOrNone BY HandIs DEF ItemRows
<1>2. route \in Routes BY DEF Shape, Typed
<1> QED BY <1>1, <1>2 DEF UsedRoute, UsesRoute, Routes, StageOrNone, Stages

Opened(r) == [status |-> "running", route |-> r, frame |-> 0, clip |-> 0]
LEMMA PrepareDoes ==
  ASSUME Shape, Prepare
  PROVE  /\ w.pc = "prepare"
         /\ UNCHANGED <<batch, item, prompts, comfy, posted>> /\ Others
         /\ \/ /\ Moves({"mark"}) /\ UNCHANGED <<rev, disk>>
               /\ \/ UNCHANGED env
                  \/ env.faults < MaxFaults /\ env' = [env EXCEPT !.faults = env.faults + 1]
            \/ /\ Both(it) \/ disk[it].frame # 0
               /\ Prepared(UsedRoute) /\ UNCHANGED env
               /\ RevOnly(it) /\ rev'[it].state = "running"
               /\ rev'[it].number = rev[it].number /\ rev'[it].plan = rev[it].plan
               /\ \/ CheckpointValid(it, UsedRoute) /\ UNCHANGED disk
                  \/ /\ ~CheckpointValid(it, UsedRoute)
                     /\ DiskOnly(it) /\ disk'[it].clip = disk[it].clip
                     /\ disk'[it].frame = disk[it].frame /\ disk'[it].marker = disk[it].marker
                     /\ disk'[it].manifest = Opened(UsedRoute)
<1>1. w.pc = "prepare" /\ w.pc \in ItemSteps BY PcIs DEF Prepare, At
<1>2. it \in Items BY <1>1, HandIs
<1>3. UNCHANGED <<batch, item, prompts, comfy, posted>> /\ Others BY DEF Prepare, Rest, Others
<1> DEFINE r == UsedRoute
<1>4. r \in Routes BY <1>1, RouteIs
<1>5. CASE Go("mark") /\ UNCHANGED <<rev, disk>> /\ (UNCHANGED env \/ Spend("asset"))
  <2>1. Moves({"mark"}) BY <1>5, PcIs, SelfMoves
  <2>2. UNCHANGED env \/ (env.faults < MaxFaults /\ env' = [env EXCEPT !.faults = env.faults + 1])
    BY <1>5 DEF Spend
  <2> QED BY <1>1, <1>3, <1>5, <2>1, <2>2
<1>6. CASE /\ Both(it) \/ disk[it].frame # 0
           /\ rev' = [rev EXCEPT ![it].state = "running"]
           /\ disk' = IF CheckpointValid(it, r) THEN disk
                      ELSE [disk EXCEPT ![it].manifest = Opened(r)]
           /\ Prepared(r) /\ UNCHANGED env
  <2>1. "running" \in RowStates BY DEF RowStates
  <2>2. /\ RevOnly(it) /\ rev'[it].state = "running"
        /\ rev'[it].number = rev[it].number /\ rev'[it].plan = rev[it].plan
    BY <1>2, <1>6, <2>1, RevState DEF Shape
  <2>3. CASE CheckpointValid(it, r) /\ disk' = disk
    BY <1>1, <1>3, <1>6, <2>2, <2>3
  <2>4. CASE ~CheckpointValid(it, r) /\ disk' = [disk EXCEPT ![it].manifest = Opened(r)]
    <3>1. Opened(r) \in Manifests BY <1>4, OrNone DEF Opened, Manifests
    <3>2. /\ DiskOnly(it) /\ disk'[it].manifest = Opened(r) /\ disk'[it].clip = disk[it].clip
          /\ disk'[it].frame = disk[it].frame /\ disk'[it].marker = disk[it].marker
      BY <1>2, <2>4, <3>1, DiskManifest DEF Shape
    <3> QED BY <1>1, <1>3, <1>6, <2>2, <2>4, <3>2
  <2> QED BY <1>6, <2>3, <2>4
<1> QED BY <1>5, <1>6 DEF Prepare, UsedRoute, Opened, Prepared

LEMMA MarkItemDoes ==
  ASSUME Shape, MarkItem
  PROVE  /\ w.pc = "mark" /\ Moves({"markrev"}) /\ Others
         /\ ItemOnly(it) /\ item'[it].state = "failed"
         /\ item'[it].prompt = item[it].prompt /\ item'[it].stage = item[it].stage
         /\ UNCHANGED <<batch, rev, disk, prompts, comfy, posted, env>>
<1>1. w.pc = "mark" /\ w.pc \in ItemSteps BY PcIs DEF MarkItem, At
<1>2. it \in Items BY <1>1, HandIs
<1>3. "failed" \in RowStates BY DEF RowStates, Settled
<1>4. Moves({"markrev"}) BY PcIs, SelfMoves DEF MarkItem
<1>5. item' = [item EXCEPT ![it].state = "failed"] BY DEF MarkItem
<1>6. /\ ItemOnly(it) /\ item'[it].state = "failed"
      /\ item'[it].prompt = item[it].prompt /\ item'[it].stage = item[it].stage
  BY <1>2, <1>3, <1>5, ItemState DEF Shape
<1> QED BY <1>1, <1>4, <1>6 DEF MarkItem, Rest, Others

LEMMA MarkRevisionDoes ==
  ASSUME Shape, MarkRevision
  PROVE  /\ w.pc = "markrev" /\ Skipped /\ Others
         /\ RevOnly(it) /\ rev'[it].state = "failed"
         /\ rev'[it].number = rev[it].number /\ rev'[it].plan = rev[it].plan
         /\ UNCHANGED <<batch, item, prompts, comfy, posted, env>>
         /\ \/ w.i \notin w.prep /\ UNCHANGED disk
            \/ /\ w.i \in w.prep /\ DiskOnly(it) /\ disk'[it].clip = disk[it].clip
               /\ disk'[it].frame = disk[it].frame /\ disk'[it].marker = disk[it].marker
               /\ disk'[it].manifest = [disk[it].manifest EXCEPT !.status = "failed"]
<1>1. w.pc = "markrev" /\ w.pc \in ItemSteps BY PcIs DEF MarkRevision, At
<1>2. it \in Items BY <1>1, HandIs
<1>3. "failed" \in RowStates BY DEF RowStates, Settled
<1>4. rev' = [rev EXCEPT ![it].state = "failed"]
      /\ disk' = IF w.i \in w.prep THEN [disk EXCEPT ![it].manifest.status = "failed"] ELSE disk
  BY DEF MarkRevision
<1>5. /\ RevOnly(it) /\ rev'[it].state = "failed"
      /\ rev'[it].number = rev[it].number /\ rev'[it].plan = rev[it].plan
  BY <1>2, <1>3, <1>4, RevState DEF Shape
<1>6. CASE w.i \in w.prep
  <2>1. disk' = [disk EXCEPT ![it].manifest.status = "failed"] BY <1>4, <1>6
  <2>2. /\ DiskOnly(it) /\ disk'[it].clip = disk[it].clip
        /\ disk'[it].frame = disk[it].frame /\ disk'[it].marker = disk[it].marker
        /\ disk'[it].manifest = [disk[it].manifest EXCEPT !.status = "failed"]
    BY <1>2, <2>1, DiskStatus DEF Shape
  <2> QED BY <1>1, <1>5, <1>6, <2>2 DEF MarkRevision, Rest, Others
<1>7. CASE w.i \notin w.prep
  <2>1. UNCHANGED disk BY <1>4, <1>7
  <2> QED BY <1>1, <1>5, <1>7, <2>1 DEF MarkRevision, Rest, Others
<1> QED BY <1>6, <1>7

Asks(stage, p) == /\ w' \in WorkerStates /\ w'.pc = "history" /\ SameHand
                  /\ w'.stage = stage /\ w'.p = p
Freed(y) == ItemOnly(y) /\ item'[y] = [state |-> item[y].state, prompt |-> 0, stage |-> "none"]

LEMMA FrameDoes ==
  ASSUME Shape, Frame
  PROVE  /\ w.pc = "frame" /\ Others /\ UNCHANGED <<batch, rev, disk, prompts, comfy, posted, env>>
         /\ \/ /\ disk[it].frame # 0 /\ Skipped
               /\ IF item[it].stage = "t2i" /\ w.rows[w.i].stage = "t2i"
                  THEN Freed(it) ELSE UNCHANGED item
            \/ /\ disk[it].frame = 0 /\ UNCHANGED item
               /\ Asks("t2i", IF w.rows[w.i].stage = "t2i" THEN w.rows[w.i].prompt ELSE 0)
<1>1. w.pc = "frame" /\ w.pc \in ItemSteps BY PcIs DEF Frame, At
<1>2. it \in Items /\ w.rows[w.i].prompt \in Nat BY <1>1, HandIs DEF ItemRows
<1>3. Others /\ UNCHANGED <<batch, rev, disk, prompts, comfy, posted, env>>
  BY DEF Frame, Rest, Others
<1>4. CASE disk[it].frame # 0
  <2>1. Skipped /\ item' = IF item[it].stage = "t2i" /\ w.rows[w.i].stage = "t2i"
                           THEN [item EXCEPT ![it].prompt = 0, ![it].stage = "none"] ELSE item
    BY <1>4 DEF Frame
  <2>2. CASE item[it].stage = "t2i" /\ w.rows[w.i].stage = "t2i"
    <3>1. item' = [item EXCEPT ![it].prompt = 0, ![it].stage = "none"] BY <2>1, <2>2
    <3>2. Freed(it) BY <1>2, <3>1, ItemPrompt, OrNone DEF Shape, Freed
    <3> QED BY <1>1, <1>3, <1>4, <2>1, <2>2, <3>2
  <2>3. CASE ~(item[it].stage = "t2i" /\ w.rows[w.i].stage = "t2i")
    BY <1>1, <1>3, <1>4, <2>1, <2>3
  <2> QED BY <2>2, <2>3
<1>5. CASE disk[it].frame = 0
  <2> DEFINE p == IF w.rows[w.i].stage = "t2i" THEN w.rows[w.i].prompt ELSE 0
  <2>1. w' = [w EXCEPT !.pc = "history", !.stage = "t2i", !.p = p] /\ UNCHANGED item
    BY <1>5 DEF Frame
  <2>2. p \in Nat BY <1>2
  <2> HIDE DEF p
  <2>3. "t2i" \in Stages BY DEF Stages
  <2>4. Asks("t2i", p) BY <2>1, <2>2, <2>3, AskDoes DEF Asks, Shape, Typed
  <2> QED BY <1>1, <1>3, <1>5, <2>1, <2>4 DEF p
<1> QED BY <1>4, <1>5

Claim == IF item[it].stage = w.route[w.i] THEN item[it].prompt ELSE 0
LEMMA VideoDoes ==
  ASSUME Shape, Video
  PROVE  /\ w.pc = "video" /\ Others /\ UNCHANGED <<batch, item, disk, prompts, comfy, posted, env>>
         /\ w.route[w.i] \in Routes
         /\ \/ disk[it].manifest.status = "video_generated" /\ Generated /\ UNCHANGED rev
            \/ /\ disk[it].manifest.status # "video_generated" /\ Asks(w.route[w.i], Claim)
               /\ \/ w.route[w.i] # "continuation" /\ UNCHANGED rev
                  \/ /\ w.route[w.i] = "continuation" /\ RevOnly(it) /\ rev'[it].plan
                     /\ rev'[it].state = rev[it].state /\ rev'[it].number = rev[it].number
<1>1. w.pc = "video" /\ w.pc \in ItemSteps BY PcIs DEF Video, At, VideoSteps
<1>2. it \in Items /\ item[it].prompt \in Nat /\ w \in WorkerStates /\ w.pc \in RunSteps
  BY <1>1, HandIs DEF ItemRows
<1>3. w.route[w.i] \in Routes BY <1>1, <1>2 DEF Shape, Placed, VideoSteps
<1>4. Others /\ UNCHANGED <<batch, item, disk, prompts, comfy, posted, env>>
  BY DEF Video, Rest, Others
<1>5. CASE disk[it].manifest.status = "video_generated"
  BY <1>1, <1>3, <1>4, <1>5 DEF Video, Generated
<1>6. CASE disk[it].manifest.status # "video_generated"
  <2>1. w' = [w EXCEPT !.pc = "history", !.stage = w.route[w.i], !.p = Claim]
    BY <1>6 DEF Video, Claim
  <2>2. Claim \in Nat BY <1>2 DEF Claim
  <2>3. Asks(w.route[w.i], Claim) BY <1>2, <1>3, <2>1, <2>2, OrNone, AskDoes DEF Asks
  <2>4. rev' = IF w.route[w.i] = "continuation" THEN [rev EXCEPT ![it].plan = TRUE] ELSE rev
    BY <1>6 DEF Video
  <2>5. CASE w.route[w.i] = "continuation"
    <3>1. rev' = [rev EXCEPT ![it].plan = TRUE] BY <2>4, <2>5
    <3>2. /\ RevOnly(it) /\ rev'[it].plan
          /\ rev'[it].state = rev[it].state /\ rev'[it].number = rev[it].number
      BY <1>2, <3>1, RevPlan DEF Shape
    <3> QED BY <1>1, <1>3, <1>4, <1>6, <2>3, <2>5, <3>2
  <2>6. CASE w.route[w.i] # "continuation"
    BY <1>1, <1>3, <1>4, <1>6, <2>3, <2>4, <2>6
  <2> QED BY <2>5, <2>6
<1> QED BY <1>5, <1>6

LEMMA HistoryDoes ==
  ASSUME Shape, ReadHistory
  PROVE  /\ w.pc = "history" /\ Moves({"post", "got", "queue", "mark", "fatal"})
         /\ w'.pc = "post" => w.p = 0
         /\ w'.pc \in {"got", "queue"} => w.p # 0
         /\ w'.pc = "got" => prompts[w.p].st = "done"
         /\ w'.pc = "queue" => prompts[w.p].st \notin {"done", "failed"}
         /\ w'.pc \in {"mark", "fatal"} => w.p # 0
         /\ UNCHANGED <<store, disk, prompts, comfy, env, posted>> /\ Others
<1>1. w.pc = "history" /\ Others /\ UNCHANGED <<store, disk, prompts, comfy, env, posted>>
  BY DEF ReadHistory, At, Rest, Others, store
<1>2. {"post", "got", "queue"} \subseteq WorkerSteps BY PcIs DEF PromptSteps
<1>3. CASE w.p = 0 /\ Go("post")
  <2>1. Moves({"post"}) BY <1>2, <1>3, SelfMoves
  <2> QED BY <1>1, <1>3, <2>1 DEF Moves
<1>4. CASE w.p # 0 /\ Transport
  <2>1. Moves({"mark", "fatal"}) BY <1>4, TransportMoves
  <2> QED BY <1>1, <1>4, <2>1 DEF Moves
<1>5. CASE w.p # 0 /\ prompts[w.p].st = "done" /\ Go("got")
  <2>1. Moves({"got"}) BY <1>2, <1>5, SelfMoves
  <2> QED BY <1>1, <1>5, <2>1 DEF Moves
<1>6. CASE w.p # 0 /\ prompts[w.p].st \notin {"done", "failed"} /\ Go("queue")
  <2>1. Moves({"queue"}) BY <1>2, <1>6, SelfMoves
  <2> QED BY <1>1, <1>6, <2>1 DEF Moves
<1>7. \/ w.p = 0 /\ Go("post")
      \/ w.p # 0 /\ Transport
      \/ w.p # 0 /\ prompts[w.p].st = "done" /\ Go("got")
      \/ w.p # 0 /\ prompts[w.p].st \notin {"done", "failed"} /\ Go("queue")
  <2>1. CASE w.p = 0 BY <2>1 DEF ReadHistory
  <2>2. CASE w.p # 0 /\ ~comfy BY <2>2 DEF ReadHistory
  <2>3. CASE w.p # 0 /\ comfy BY <2>3 DEF ReadHistory
  <2> QED BY <2>1, <2>2, <2>3 DEF Shape, Typed
<1> QED BY <1>3, <1>4, <1>5, <1>6, <1>7

LEMMA ReadQueueDoes ==
  ASSUME Shape, ReadQueue
  PROVE  /\ w.pc = "queue" /\ Moves({"post", "wait", "mark", "fatal"})
         /\ w'.pc = "wait" => Live(w.p)
         /\ w'.pc = "post" => ~Live(w.p)
         /\ \/ UNCHANGED env /\ w'.pc # "post"
            \/ w'.pc = "post" /\ env' = [env EXCEPT !.unseen = env.unseen \/ prompts[w.p].st = "done"]
         /\ UNCHANGED <<store, disk, prompts, comfy, posted>> /\ Others
<1>1. w.pc = "queue" /\ Others /\ UNCHANGED <<store, disk, prompts, comfy, posted>>
  BY DEF ReadQueue, At, Rest, Others, store
<1>2. {"post", "wait"} \subseteq WorkerSteps BY PcIs DEF PromptSteps
<1>3. CASE Transport /\ UNCHANGED env
  <2>1. Moves({"mark", "fatal"}) BY <1>3, TransportMoves
  <2> QED BY <1>1, <1>3, <2>1 DEF Moves
<1>4. CASE Live(w.p) /\ Go("wait") /\ UNCHANGED env
  <2>1. Moves({"wait"}) BY <1>2, <1>4, SelfMoves
  <2> QED BY <1>1, <1>4, <2>1 DEF Moves
<1>5. CASE /\ ~Live(w.p) /\ Go("post")
           /\ env' = [env EXCEPT !.unseen = env.unseen \/ prompts[w.p].st = "done"]
  <2>1. Moves({"post"}) BY <1>2, <1>5, SelfMoves
  <2> QED BY <1>1, <1>5, <2>1 DEF Moves
<1>6. CASE ~comfy BY <1>3, <1>6 DEF ReadQueue
<1>7. CASE comfy /\ InQueue(w.p) BY <1>4, <1>7 DEF ReadQueue, InQueue
<1>8. CASE comfy /\ ~InQueue(w.p)
  <2>1. /\ Go("post") /\ env' = [env EXCEPT !.unseen = env.unseen \/ prompts[w.p].st = "done"]
    BY <1>8 DEF ReadQueue
  <2> QED BY <1>5, <1>8, <2>1 DEF InQueue
<1> QED BY <1>6, <1>7, <1>8 DEF Shape, Typed

Queued == [of |-> it, stage |-> w.stage, st |-> "queued"]
LEMMA QueuePromptDoes ==
  ASSUME Shape, QueuePrompt
  PROVE  /\ w.pc = "post" /\ w.stage \in Stages
         /\ UNCHANGED <<store, disk, comfy, posted>> /\ Others
         /\ \/ ~comfy /\ UNCHANGED <<prompts, env>> /\ Moves({"mark", "fatal"})
            \/ /\ comfy /\ prompts' = Append(prompts, Queued) /\ UNCHANGED env
               /\ w' \in WorkerStates /\ w'.pc = "own" /\ SameHand /\ w'.stage = w.stage
               /\ w'.p = Len(prompts) + 1
            \/ /\ comfy /\ prompts' = Append(prompts, Queued) /\ Moves({"mark", "fatal"})
               /\ env.faults < MaxFaults
               /\ env' = [env EXCEPT !.faults = env.faults + 1, !.lost = TRUE]
<1>1. w.pc = "post" /\ Others /\ UNCHANGED <<store, disk, comfy, posted>> /\ w.pc \in ItemSteps
  BY PcIs DEF QueuePrompt, At, Rest, Others, store, PromptSteps
<1>2. w.stage \in Stages /\ w \in WorkerStates /\ it \in Items
  <2>1. w.pc \in RunSteps /\ w \in WorkerStates /\ it \in Items BY <1>1, HandIs
  <2> QED BY <1>1, <2>1 DEF Shape, Placed, PromptSteps, Stages
<1>3. prompts \in Seq(PromptRows) /\ Queued \in PromptRows
  BY <1>2 DEF Shape, Typed, Queued, PromptRows
<1>4. CASE ~comfy /\ Transport /\ UNCHANGED <<prompts, env>>
  BY <1>1, <1>2, <1>4, TransportMoves
<1> DEFINE sent == Append(prompts, Queued)
<1>5. Len(sent) = Len(prompts) + 1 /\ Len(sent) \in Nat BY <1>3
<1> HIDE DEF sent
<1>6. CASE comfy /\ prompts' = sent /\ w' = [w EXCEPT !.pc = "own", !.p = Len(sent)] /\ UNCHANGED env
  <2>1. w' \in WorkerStates /\ w'.pc = "own" /\ SameHand /\ w'.stage = w.stage /\ w'.p = Len(sent)
    BY <1>2, <1>5, <1>6, TakeDoes
  <2> QED BY <1>1, <1>2, <1>5, <1>6, <2>1 DEF sent
<1>7. CASE /\ comfy /\ env.faults < MaxFaults /\ prompts' = sent /\ Transport
           /\ env' = [env EXCEPT !.faults = env.faults + 1, !.lost = TRUE]
  <2>1. Moves({"mark", "fatal"}) BY <1>7, TransportMoves
  <2> QED BY <1>1, <1>2, <1>7, <2>1 DEF sent
<1> QED BY <1>4, <1>6, <1>7 DEF QueuePrompt, sent, Queued

LEMMA OwnDoes ==
  ASSUME Shape, OwnPrompt
  PROVE  /\ w.pc = "own" /\ Moves({"wait"}) /\ Others
         /\ ItemOnly(it) /\ item'[it] = [state |-> item[it].state, prompt |-> w.p, stage |-> w.stage]
         /\ UNCHANGED <<batch, rev, disk, prompts, comfy, posted, env>>
<1>1. w.pc = "own" /\ w.pc \in ItemSteps /\ "wait" \in WorkerSteps
  BY PcIs DEF OwnPrompt, At, PromptSteps
<1>2. it \in Items /\ w \in WorkerStates BY <1>1, HandIs
<1>3. w.p \in Nat /\ w.stage \in StageOrNone BY <1>2 DEF WorkerStates
<1>4. item' = [item EXCEPT ![it].prompt = w.p, ![it].stage = w.stage] BY DEF OwnPrompt
<1>5. ItemOnly(it) /\ item'[it] = [state |-> item[it].state, prompt |-> w.p, stage |-> w.stage]
  BY <1>2, <1>3, <1>4, ItemPrompt DEF Shape
<1>6. Moves({"wait"}) BY <1>1, SelfMoves DEF OwnPrompt
<1> QED BY <1>1, <1>5, <1>6 DEF OwnPrompt, Rest, Others

LEMMA WaitDoes ==
  ASSUME Shape, WaitPrompt
  PROVE  /\ w.pc = "wait" /\ Moves({"got", "mark", "fatal"})
         /\ w'.pc = "got" => prompts[w.p].st = "done"
         /\ UNCHANGED <<store, disk, prompts, comfy, env, posted>> /\ Others
<1>1. w.pc = "wait" /\ Others /\ UNCHANGED <<store, disk, prompts, comfy, env, posted>>
  BY DEF WaitPrompt, At, Rest, Others, store
<1>2. "got" \in WorkerSteps BY PcIs DEF PromptSteps
<1>3. CASE Transport
  <2>1. Moves({"mark", "fatal"}) BY <1>3, TransportMoves
  <2> QED BY <1>1, <2>1 DEF Moves
<1>4. CASE prompts[w.p].st = "done" /\ Go("got")
  <2>1. Moves({"got"}) BY <1>2, <1>4, SelfMoves
  <2> QED BY <1>1, <1>4, <2>1 DEF Moves
<1> QED BY <1>3, <1>4 DEF WaitPrompt

LEMMA GotDoes ==
  ASSUME Shape, Got
  PROVE  /\ w.pc = "got" /\ Others /\ UNCHANGED <<batch, rev, prompts, comfy, posted, env>>
         /\ \/ /\ w.stage = "t2i" /\ Freed(it) /\ UNCHANGED disk
               /\ \/ disk[it].frame # 0 /\ Skipped
                  \/ disk[it].frame = 0 /\ Moves({"mark"})
            \/ /\ w.stage # "t2i" /\ comfy /\ Moves({"bind"}) /\ UNCHANGED item
               /\ DiskOnly(it) /\ disk'[it].clip = w.p /\ disk'[it].frame = disk[it].frame
               /\ disk'[it].manifest = disk[it].manifest /\ disk'[it].marker = disk[it].marker
            \/ w.stage # "t2i" /\ ~comfy /\ Moves({"mark", "fatal"}) /\ UNCHANGED <<item, disk>>
<1>1. /\ w.pc = "got" /\ w.pc \in ItemSteps /\ {"bind", "mark"} \subseteq WorkerSteps
      /\ Others /\ UNCHANGED <<batch, rev, prompts, comfy, posted, env>>
  BY PcIs DEF Got, At, PromptSteps, VideoSteps, Rest, Others
<1>2. it \in Items /\ w.p \in Nat BY <1>1, HandIs DEF WorkerStates
<1>3. CASE w.stage = "t2i"
  <2>1. /\ item' = [item EXCEPT ![it].prompt = 0, ![it].stage = "none"] /\ UNCHANGED disk
        /\ IF disk[it].frame # 0 THEN Skipped ELSE Go("mark")
    BY <1>3 DEF Got
  <2>2. Freed(it) BY <1>2, <2>1, ItemPrompt, OrNone, ZenonT(40) DEF Shape, Freed
  <2>3. CASE disk[it].frame # 0 BY <1>1, <1>3, <2>1, <2>2, <2>3
  <2>4. CASE disk[it].frame = 0
    <3>1. Moves({"mark"}) BY <1>1, <2>1, <2>4, SelfMoves
    <3> QED BY <1>1, <1>3, <2>1, <2>2, <2>4, <3>1
  <2> QED BY <2>3, <2>4
<1>4. CASE w.stage # "t2i" /\ comfy
  <2>1. Go("bind") /\ disk' = [disk EXCEPT ![it].clip = w.p] /\ UNCHANGED item BY <1>4 DEF Got
  <2>2. /\ DiskOnly(it) /\ disk'[it].clip = w.p /\ disk'[it].frame = disk[it].frame
        /\ disk'[it].manifest = disk[it].manifest /\ disk'[it].marker = disk[it].marker
    BY <1>2, <2>1, DiskClip DEF Shape
  <2>3. Moves({"bind"}) BY <1>1, <2>1, SelfMoves
  <2> QED BY <1>1, <1>4, <2>1, <2>2, <2>3
<1>5. CASE w.stage # "t2i" /\ ~comfy
  <2>1. Transport /\ UNCHANGED <<item, disk>> BY <1>5 DEF Got
  <2> QED BY <1>1, <1>5, <2>1, TransportMoves
<1> QED BY <1>3, <1>4, <1>5 DEF Shape, Typed

Bound == [status |-> "video_generated", route |-> w.stage, frame |-> disk[it].frame,
          clip |-> disk[it].clip]
LEMMA BindDoes ==
  ASSUME Shape, Bind
  PROVE  /\ w.pc = "bind" /\ Generated /\ Others
         /\ UNCHANGED <<batch, item, rev, prompts, comfy, posted, env>>
         /\ DiskOnly(it) /\ disk'[it].manifest = Bound /\ disk'[it].clip = disk[it].clip
         /\ disk'[it].frame = disk[it].frame /\ disk'[it].marker = disk[it].marker
<1>1. w.pc = "bind" /\ w.pc \in ItemSteps BY PcIs DEF Bind, At, VideoSteps
<1>2. it \in Items /\ disk[it] \in Files /\ w \in WorkerStates BY <1>1, HandIs
<1>3. Generated /\ Others /\ UNCHANGED <<batch, item, rev, prompts, comfy, posted, env>>
  BY DEF Bind, Generated, Rest, Others, store
<1>4. disk' = [disk EXCEPT ![it].manifest = Bound] BY DEF Bind, Bound
<1>5. w.stage \in RouteOrNone BY <1>1, OrNone, PcIs DEF Shape, Placed, VideoSteps
<1>6. Bound \in Manifests BY <1>2, <1>5 DEF Bound, Manifests, Files
<1>7. /\ DiskOnly(it) /\ disk'[it].manifest = Bound /\ disk'[it].clip = disk[it].clip
      /\ disk'[it].frame = disk[it].frame /\ disk'[it].marker = disk[it].marker
  BY <1>2, <1>4, <1>6, DiskManifest DEF Shape
<1> QED BY <1>1, <1>3, <1>7

Intent(y) == [st |-> "dispatching", clip |-> disk[y].clip]
LEMMA DeliverDoes ==
  ASSUME Shape, Deliver
  PROVE  /\ w.pc = "deliver" /\ Others
         /\ UNCHANGED <<batch, item, rev, prompts, comfy, posted, env>>
         /\ \/ disk[it].clip = 0 /\ Moves({"mark"}) /\ UNCHANGED disk
            \/ /\ disk[it].clip # 0 /\ DiskOnly(it) /\ disk'[it].clip = disk[it].clip
               /\ disk'[it].frame = disk[it].frame /\ disk'[it].manifest = disk[it].manifest
               /\ \/ /\ Settles(disk[it].marker, disk[it].clip) /\ Moves({"expose"})
                     /\ disk'[it].marker.clip = disk[it].clip
                     /\ disk'[it].marker.st \in {"sent", "ambiguous"}
                  \/ /\ ~Settles(disk[it].marker, disk[it].clip) /\ Moves({"send"})
                     /\ disk'[it].marker = Intent(it)
<1>1. /\ w.pc = "deliver" /\ w.pc \in ItemSteps /\ {"mark", "expose", "send"} \subseteq WorkerSteps
      /\ Others /\ UNCHANGED <<batch, item, rev, prompts, comfy, posted, env>>
  BY PcIs DEF Deliver, At, DeliverySteps, Rest, Others, store
<1>2. it \in Items /\ disk[it] \in Files BY <1>1, HandIs
<1>3. CASE disk[it].clip = 0
  <2>1. Go("mark") /\ UNCHANGED disk BY <1>3 DEF Deliver
  <2> QED BY <1>1, <1>3, <2>1, SelfMoves
<1>4. CASE disk[it].clip # 0 /\ Settles(disk[it].marker, disk[it].clip)
  <2> DEFINE st == IF disk[it].marker.st = "dispatching" THEN "ambiguous" ELSE disk[it].marker.st
  <2>1. Marker(it, st) /\ Go("expose") BY <1>4 DEF Deliver
  <2>2. st \in {"sent", "ambiguous"} BY <1>4 DEF Settles
  <2> HIDE DEF st
  <2>3. /\ DiskOnly(it) /\ disk'[it].marker = [st |-> st, clip |-> disk[it].clip]
        /\ disk'[it].clip = disk[it].clip /\ disk'[it].frame = disk[it].frame
        /\ disk'[it].manifest = disk[it].manifest
    BY <1>2, <2>1, <2>2, MarkerDoes DEF Shape
  <2>4. Moves({"expose"}) BY <1>1, <2>1, SelfMoves
  <2> QED BY <1>1, <1>4, <2>2, <2>3, <2>4
<1>5. CASE disk[it].clip # 0 /\ ~Settles(disk[it].marker, disk[it].clip)
  <2>1. Marker(it, "dispatching") /\ Go("send") BY <1>5 DEF Deliver
  <2>2. /\ DiskOnly(it) /\ disk'[it].marker = Intent(it)
        /\ disk'[it].clip = disk[it].clip /\ disk'[it].frame = disk[it].frame
        /\ disk'[it].manifest = disk[it].manifest
    BY <1>2, <2>1, MarkerDoes DEF Shape, Intent
  <2>3. Moves({"send"}) BY <1>1, <2>1, SelfMoves
  <2> QED BY <1>1, <1>5, <2>2, <2>3
<1> QED BY <1>3, <1>4, <1>5 DEF Settles

LEMMA SendDoes ==
  ASSUME Shape, Send
  PROVE  /\ w.pc = "send" /\ UNCHANGED <<store, disk, prompts, comfy, route, gui, env>>
         /\ \/ posted' = Append(posted, <<it, disk[it].clip>>) /\ Moves({"sent"})
            \/ UNCHANGED posted /\ Moves({"unsent"})
<1>1. {"sent", "unsent"} \subseteq WorkerSteps BY PcIs DEF DeliverySteps
<1> QED BY <1>1, SelfMoves DEF Send, At

LEMMA AnswerDoes ==
  ASSUME Shape, Answer
  PROVE  /\ w.pc \in {"sent", "unsent"} /\ Others
         /\ UNCHANGED <<batch, item, rev, prompts, comfy, posted, env>>
         /\ DiskOnly(it) /\ disk'[it].clip = disk[it].clip /\ disk'[it].frame = disk[it].frame
         /\ disk'[it].manifest = disk[it].manifest /\ disk'[it].marker.clip = disk[it].clip
         /\ disk'[it].marker.st \in IF w.pc = "sent" THEN {"sent", "ambiguous"}
                                    ELSE {"ambiguous", "failed"}
         /\ w' \in WorkerStates /\ SameHand /\ SamePrompt /\ w'.pc \in {"deliver", "expose"}
<1>1. /\ w.pc \in {"sent", "unsent"} /\ w.pc \in ItemSteps /\ "expose" \in WorkerSteps
      /\ Others /\ UNCHANGED <<batch, item, rev, prompts, comfy, posted, env>>
  BY PcIs DEF Answer, DeliverySteps, Rest, Others, store
<1>2. it \in Items /\ w \in WorkerStates BY <1>1, HandIs
<1>3. PICK st \in IF w.pc = "sent" THEN {"sent", "ambiguous"} ELSE {"ambiguous", "failed"} :
        /\ Marker(it, st)
        /\ \/ w' = [w EXCEPT !.pc = "deliver", !.again = TRUE]
           \/ Go("expose")
  BY DEF Answer, At
<1>4. /\ DiskOnly(it) /\ disk'[it].marker = [st |-> st, clip |-> disk[it].clip]
      /\ disk'[it].clip = disk[it].clip /\ disk'[it].frame = disk[it].frame
      /\ disk'[it].manifest = disk[it].manifest
  BY <1>2, <1>3, MarkerDoes DEF Shape
<1>5. w' \in WorkerStates /\ SameHand /\ SamePrompt /\ w'.pc \in {"deliver", "expose"}
  <2>1. CASE w' = [w EXCEPT !.pc = "deliver", !.again = TRUE] BY <1>2, <2>1, AgainDoes
  <2>2. CASE Go("expose") BY <1>1, <2>2, SelfMoves DEF Moves
  <2> QED BY <1>3, <2>1, <2>2
<1> QED BY <1>1, <1>3, <1>4, <1>5

LEMMA ExposeDoes ==
  ASSUME Shape, ExposeRevision
  PROVE  /\ w.pc = "expose" /\ Moves({"settle"}) /\ Others
         /\ RevOnly(it) /\ rev'[it].state = "succeeded"
         /\ rev'[it].number = rev[it].number /\ rev'[it].plan = rev[it].plan
         /\ DiskOnly(it) /\ disk'[it].clip = disk[it].clip
         /\ disk'[it].frame = disk[it].frame /\ disk'[it].marker = disk[it].marker
         /\ disk'[it].manifest = [disk[it].manifest EXCEPT !.status = "succeeded"]
         /\ UNCHANGED <<batch, item, prompts, comfy, posted, env>>
<1>1. /\ w.pc = "expose" /\ w.pc \in ItemSteps /\ "settle" \in WorkerSteps /\ Others
      /\ UNCHANGED <<batch, item, prompts, comfy, posted, env>>
  BY PcIs DEF ExposeRevision, At, DeliverySteps, Rest, Others
<1>2. it \in Items BY <1>1, HandIs
<1>3. "succeeded" \in RowStates BY DEF RowStates, Settled
<1>4. rev' = [rev EXCEPT ![it].state = "succeeded"] BY DEF ExposeRevision
<1>5. /\ RevOnly(it) /\ rev'[it].state = "succeeded"
      /\ rev'[it].number = rev[it].number /\ rev'[it].plan = rev[it].plan
  BY <1>2, <1>3, <1>4, RevState DEF Shape
<1>6. disk' = [disk EXCEPT ![it].manifest.status = "succeeded"] BY DEF ExposeRevision
<1>7. /\ DiskOnly(it) /\ disk'[it].clip = disk[it].clip
      /\ disk'[it].frame = disk[it].frame /\ disk'[it].marker = disk[it].marker
      /\ disk'[it].manifest = [disk[it].manifest EXCEPT !.status = "succeeded"]
  BY <1>2, <1>6, DiskStatus DEF Shape
<1>8. Moves({"settle"}) BY <1>1, SelfMoves DEF ExposeRevision
<1> QED BY <1>1, <1>5, <1>7, <1>8

Finished == [state |-> "succeeded", prompt |-> 0, stage |-> "none"]
LEMMA FinishedIs == Finished \in ItemRows
BY OrNone DEF Finished, ItemRows, RowStates, Settled

LEMMA SettleDoes ==
  ASSUME Shape, SettleItem
  PROVE  /\ w.pc = "settle" /\ Skipped /\ Others /\ ItemOnly(it) /\ item'[it] = Finished
         /\ UNCHANGED <<batch, rev, disk, prompts, comfy, posted, env>>
<1>1. w.pc = "settle" /\ w.pc \in ItemSteps BY PcIs DEF SettleItem, At, DeliverySteps
<1>2. it \in Items BY <1>1, HandIs
<1>3. item' = [item EXCEPT ![it] = Finished] BY DEF SettleItem, Finished
<1>4. ItemOnly(it) /\ item'[it] = Finished BY <1>2, <1>3, FinishedIs, ItemSet DEF Shape
<1> QED BY <1>1, <1>4 DEF SettleItem, Rest, Others

LEMMA FatalErrorDoes ==
  ASSUME Shape, HandleFatal
  PROVE  /\ w.pc = "fatal" /\ w' \in WorkerStates /\ w'.pc \in {"recover", "idle"}
         /\ w'.pc = "idle" => w' = Idle("idle")
         /\ w'.pc = "recover" => w'.prep = w.prep /\ w'.gen = w.gen
         /\ pipe' \in {"free", "active", "error"} /\ comfy' \in BOOLEAN
         /\ \/ UNCHANGED env
            \/ env.faults < MaxFaults /\ env' = [env EXCEPT !.faults = env.faults + 1, !.stuck = TRUE]
         /\ comfy => comfy'
         /\ UNCHANGED <<batch, item, rev, disk, final, prompts, posted, route, gui>>
<1>1. w.pc = "fatal" /\ UNCHANGED <<batch, item, rev, disk, final, prompts, posted, route, gui>>
  BY DEF HandleFatal, At, Rest
<1>2. {"recover", "idle"} \subseteq WorkerSteps BY DEF WorkerSteps
<1>3. CASE comfy' = TRUE /\ Go("recover") /\ UNCHANGED <<pipe, env>>
  <2>1. Moves({"recover"}) BY <1>2, <1>3, SelfMoves
  <2> QED BY <1>1, <1>3, <2>1 DEF Moves, SameHand, SameSets, Shape, Typed
<1>4. CASE /\ env.faults < MaxFaults /\ env' = [env EXCEPT !.faults = env.faults + 1, !.stuck = TRUE]
           /\ pipe' = "error" /\ w' = Idle("idle") /\ UNCHANGED comfy
  <2>1. w' \in WorkerStates /\ w'.pc = "idle" BY <1>2, <1>4, IdleDoes
  <2> QED BY <1>1, <1>4, <2>1 DEF Shape, Typed
<1> QED BY <1>3, <1>4 DEF HandleFatal

\* What the recovery leaves of an item and its revision.
Again(y) ==
  /\ IF Mine(y) /\ rev[y].state = "succeeded" THEN item'[y] = Finished
     ELSE /\ item'[y].state = (IF Mine(y) THEN "pending" ELSE item[y].state)
          /\ item'[y].prompt = item[y].prompt /\ item'[y].stage = item[y].stage
  /\ rev'[y].number = rev[y].number /\ rev'[y].plan = rev[y].plan
  /\ \/ rev'[y].state = rev[y].state
     \/ /\ rev[y].state = "running" /\ batch[y[1]].state = "running"
        /\ item[y].state \in {"running", "pending"} /\ rev'[y].state = "pending"

LEMMA RecoveredDoes ==
  ASSUME Shape, Recovered
  PROVE  /\ item' \in [Items -> ItemRows] /\ rev' \in [Items -> Revisions]
         /\ batch' \in [Batches -> BatchRows] /\ \A y \in Items : Again(y)
         /\ \A b \in Batches :
              batch'[b].state = IF batch[b].state = "running" THEN "queued" ELSE batch[b].state
<1>1. ASSUME NEW y \in Items PROVE item'[y] \in ItemRows /\ rev'[y] \in Revisions /\ Again(y)
  <2>1. item[y] \in ItemRows /\ rev[y] \in Revisions BY DEF Shape, Typed
  <2>2. item'[y] = IF Mine(y) /\ rev[y].state = "succeeded" THEN Finished
                   ELSE IF Mine(y) THEN [item[y] EXCEPT !.state = "pending"] ELSE item[y]
    BY DEF Recovered, Finished
  <2>3. rev'[y] = IF /\ rev[y].state = "running" /\ batch[y[1]].state = "running"
                     /\ item[y].state \in {"running", "pending"}
                  THEN [rev[y] EXCEPT !.state = "pending"] ELSE rev[y]
    BY DEF Recovered
  <2>4. "pending" \in RowStates BY DEF RowStates
  <2>5. rev'[y] \in Revisions BY <2>1, <2>3, <2>4 DEF Revisions
  <2>6. item'[y] \in ItemRows BY <2>1, <2>2, <2>4, FinishedIs DEF ItemRows
  <2>7. IF Mine(y) /\ rev[y].state = "succeeded" THEN item'[y] = Finished
        ELSE /\ item'[y].state = (IF Mine(y) THEN "pending" ELSE item[y].state)
             /\ item'[y].prompt = item[y].prompt /\ item'[y].stage = item[y].stage
    BY <2>1, <2>2 DEF ItemRows
  <2>8. /\ rev'[y].number = rev[y].number /\ rev'[y].plan = rev[y].plan
        /\ \/ rev'[y].state = rev[y].state
           \/ /\ rev[y].state = "running" /\ batch[y[1]].state = "running"
              /\ item[y].state \in {"running", "pending"} /\ rev'[y].state = "pending"
    BY <2>1, <2>3 DEF Revisions
  <2> QED BY <2>5, <2>6, <2>7, <2>8 DEF Again
<1>2. /\ item' = [y \in Items |-> item'[y]] /\ rev' = [y \in Items |-> rev'[y]] BY DEF Recovered
<1>3. item' \in [Items -> ItemRows] /\ rev' \in [Items -> Revisions] BY <1>1, <1>2
<1>4. batch' = [b \in Batches |-> IF batch[b].state = "running"
                                  THEN [batch[b] EXCEPT !.state = "queued"] ELSE batch[b]]
  BY DEF Recovered
<1>5. batch' \in [Batches -> BatchRows]
  BY <1>4 DEF Shape, Typed, BatchRows, BatchStates
<1>6. \A b \in Batches :
        batch'[b].state = IF batch[b].state = "running" THEN "queued" ELSE batch[b].state
  BY <1>4 DEF Shape, Typed, BatchRows
<1> QED BY <1>1, <1>3, <1>5, <1>6

-----------------------------------------------------------------------------
(* The types, the worker's place and what its prompts name *)

EnvRows == [faults : 0 .. MaxFaults, jobs : Nat, lost : BOOLEAN, unseen : BOOLEAN, stuck : BOOLEAN]
Grows == /\ prompts' \in Seq(PromptRows) /\ Len(prompts) <= Len(prompts')
         /\ \A p \in 1 .. Len(prompts) : /\ prompts'[p].of = prompts[p].of
                                         /\ prompts'[p].stage = prompts[p].stage

LEMMA EnvIs ==
  ASSUME NEW f \in 0 .. MaxFaults, NEW j \in Nat, NEW l \in BOOLEAN, NEW u \in BOOLEAN, NEW s \in BOOLEAN
  PROVE  [faults |-> f, jobs |-> j, lost |-> l, unseen |-> u, stuck |-> s] \in EnvRows
BY DEF EnvRows

LEMMA EnvFault ==
  ASSUME Shape, env.faults < MaxFaults,
         \/ env' = [env EXCEPT !.faults = env.faults + 1]
         \/ env' = [env EXCEPT !.faults = env.faults + 1, !.lost = TRUE]
         \/ env' = [env EXCEPT !.faults = env.faults + 1, !.stuck = TRUE]
  PROVE  env' \in EnvRows
<1>1. env \in EnvRows BY DEF Shape, Typed, EnvRows
<1>2. env.faults + 1 \in 0 .. MaxFaults BY <1>1, RemakeAssumption DEF EnvRows
<1> QED BY <1>1, <1>2 DEF EnvRows

LEMMA StillGrows == ASSUME Shape, UNCHANGED prompts PROVE Grows
BY DEF Grows, Shape, Typed

LEMMA NamesKept ==
  ASSUME Shape, Grows, NEW p, NEW y, NEW stage, Names(prompts, p, y, stage)
  PROVE  Names(prompts', p, y, stage)
<1>1. Len(prompts) \in Nat /\ Len(prompts') \in Nat BY DEF Shape, Typed, Grows
<1> QED BY <1>1 DEF Grows, Names

\* What the worker holds once it goes on with its item.
Family == \/ w'.pc \in {"mark", "markrev", "fatal"}
          \/ w.pc \in PromptSteps /\ w'.pc \in PromptSteps /\ w'.stage = w.stage
          \/ w.pc \in DeliverySteps /\ w'.pc \in DeliverySteps
          \/ w.pc = "got" /\ w.stage # "t2i" /\ w'.pc = "bind" /\ w'.stage = w.stage
          \/ w.pc = "frame" /\ w'.pc \in PromptSteps /\ w'.stage = "t2i"
          \/ w.pc = "video" /\ w'.pc \in PromptSteps /\ w'.stage = w.route[w.i]

LEMMA SameIt == ASSUME SameHand PROVE it' = it /\ Size' = Size
BY DEF SameHand, SameRun, it, Size

LEMMA HandPlaced ==
  ASSUME Shape, w.pc \in ItemSteps, SameHand, Family, UNCHANGED <<batch, final, gui>>
  PROVE  Placed'
<1>1. w.pc \in RunSteps /\ w'.pc \notin {"down", "idle", "stitch"}
  BY PcIs DEF Family, PromptSteps, DeliverySteps
<1>2. it' = it /\ Size' = Size BY SameIt
<1>3. /\ w'.b = w.b /\ w'.phase = w.phase /\ w'.rows = w.rows /\ w'.i = w.i
      /\ w'.prep = w.prep /\ w'.route = w.route /\ w'.gen = w.gen
  BY DEF SameHand, SameRun, SameSets
<1>4. w'.gen \subseteq w'.prep /\ (gui'.pc # "idle" => gui'.b \in Batches /\ gui'.policy \in {"after", "interrupt"})
  BY <1>3 DEF Shape, Placed
<1>5. /\ w'.b \in Batches /\ batch'[w'.b].state = "running" /\ w'.phase \in Phases
      /\ Len(w'.rows) = Size' /\ Len(w'.route) = Size'
      /\ w'.prep \subseteq 1 .. Size'
      /\ \A i \in w'.prep : w'.route[i] \in Routes
      /\ w'.i # 0 /\ (w'.pc \in ItemSteps => w'.i \in 1 .. Size')
  BY <1>1, <1>2, <1>3 DEF Shape, Placed
<1>6. CASE w'.pc \in {"mark", "markrev", "fatal"}
  BY <1>1, <1>4, <1>5, <1>6 DEF Placed, VideoSteps, PromptSteps, DeliverySteps
<1>7. CASE w.pc \in PromptSteps /\ w'.pc \in PromptSteps /\ w'.stage = w.stage
  <2>1. /\ w'.i \in w'.prep
        /\ \/ w'.phase = "frames" /\ w'.stage = "t2i" /\ Both(it')
           \/ w'.phase = "videos" /\ w'.stage = w'.route[w'.i]
    BY <1>2, <1>3, <1>7 DEF Shape, Placed
  <2> QED BY <1>1, <1>4, <1>5, <1>7, <2>1 DEF Placed, VideoSteps, PromptSteps, DeliverySteps
<1>8. CASE w.pc \in DeliverySteps /\ w'.pc \in DeliverySteps
  <2>1. w'.phase = "deliver" /\ w'.i \in w'.gen BY <1>3, <1>8 DEF Shape, Placed
  <2> QED BY <1>1, <1>4, <1>5, <1>8, <2>1 DEF Placed, VideoSteps, PromptSteps, DeliverySteps
<1>9. CASE w.pc = "got" /\ w.stage # "t2i" /\ w'.pc = "bind" /\ w'.stage = w.stage
  <2>1. w'.phase = "videos" /\ w'.i \in w'.prep /\ w'.stage = w'.route[w'.i]
    BY <1>3, <1>9 DEF Shape, Placed, PromptSteps
  <2> QED BY <1>1, <1>4, <1>5, <1>9, <2>1 DEF Placed, VideoSteps, PromptSteps, DeliverySteps
<1>10. CASE w.pc = "frame" /\ w'.pc \in PromptSteps /\ w'.stage = "t2i"
  <2>1. w'.phase = "frames" /\ w'.i \in w'.prep /\ Both(it') BY <1>2, <1>3, <1>10 DEF Shape, Placed
  <2> QED BY <1>1, <1>4, <1>5, <1>10, <2>1 DEF Placed, VideoSteps, PromptSteps, DeliverySteps
<1>11. CASE w.pc = "video" /\ w'.pc \in PromptSteps /\ w'.stage = w.route[w.i]
  <2>1. w'.phase = "videos" /\ w'.i \in w'.prep /\ w'.stage = w'.route[w'.i]
    BY <1>3, <1>11 DEF Shape, Placed, VideoSteps
  <2> QED BY <1>1, <1>4, <1>5, <1>11, <2>1 DEF Placed, VideoSteps, PromptSteps, DeliverySteps
<1> QED BY <1>6, <1>7, <1>8, <1>9, <1>10, <1>11 DEF Family

\* It goes on to the next item.
LEMMA SkipPlaced ==
  ASSUME Shape, w.pc \in ItemSteps, w'.pc = "next", w'.i = w.i + 1, SameRun,
         w'.prep \subseteq w.prep \cup {w.i}, w'.gen \subseteq w'.prep,
         Len(w'.route) = Len(w.route), \A i \in w'.prep : w'.route[i] \in Routes,
         UNCHANGED <<batch, final, gui>>
  PROVE  Placed'
<1>1. w.pc \in RunSteps /\ w.i \in 1 .. Size /\ Size \in Nat BY HandIs
<1>2. w'.b = w.b /\ w'.phase = w.phase /\ w'.rows = w.rows /\ Size' = Size BY DEF SameRun, Size
<1>3. gui'.pc # "idle" => gui'.b \in Batches /\ gui'.policy \in {"after", "interrupt"}
  BY DEF Shape, Placed
<1>4. /\ w'.b \in Batches /\ batch'[w'.b].state = "running" /\ w'.phase \in Phases
      /\ Len(w'.rows) = Size' /\ Len(w'.route) = Size' /\ w.prep \subseteq 1 .. Size
  BY <1>1, <1>2 DEF Shape, Placed
<1>5. w'.prep \subseteq 1 .. Size' /\ w'.i # 0 BY <1>1, <1>2, <1>4
<1>6. w'.pc \notin ItemSteps
  BY DEF ItemSteps, VideoSteps, PromptSteps, DeliverySteps
<1> QED BY <1>1, <1>3, <1>4, <1>5, <1>6, PcIs DEF Placed, RunSteps

LEMMA StaysNamed ==
  ASSUME Shape, Grows, w'.pc \in RunSteps => w.pc \in RunSteps /\ w'.b = w.b /\ w'.rows = w.rows,
         \A y \in Items :
           /\ \/ item'[y].prompt = item[y].prompt /\ item'[y].stage = item[y].stage
              \/ Names(prompts', item'[y].prompt, y, item'[y].stage)
           /\ disk'[y].clip = disk[y].clip \/ disk'[y].clip \in 0 .. Len(prompts')
           /\ disk'[y].frame = disk[y].frame \/ disk'[y].frame \in Original .. Len(prompts'),
         w'.pc \in PromptSteps \ {"post"} => Names(prompts', w'.p, it', w'.stage),
         w'.pc \in PromptSteps \ {"history", "post"} => w'.p # 0
  PROVE  Named'
<1>1. Len(prompts) \in Nat /\ Len(prompts') \in Nat /\ Len(prompts) <= Len(prompts')
  BY DEF Shape, Typed, Grows
<1>2. ASSUME NEW y \in Items
      PROVE  /\ Names(prompts', item'[y].prompt, y, item'[y].stage)
             /\ disk'[y].clip <= Len(prompts') /\ disk'[y].frame \in Original .. Len(prompts')
  <2>1. Names(prompts, item[y].prompt, y, item[y].stage) BY DEF Shape, Named
  <2>2. Names(prompts', item[y].prompt, y, item[y].stage) BY <2>1, NamesKept
  <2>3. Names(prompts', item'[y].prompt, y, item'[y].stage) BY <2>2
  <2>4. disk[y].clip <= Len(prompts) /\ disk[y].frame \in Original .. Len(prompts)
    BY DEF Shape, Named
  <2>5. disk[y].clip \in Nat /\ disk[y].frame \in Int BY DEF Shape, Typed, Files
  <2>6. disk'[y].clip <= Len(prompts') BY <1>1, <2>4, <2>5
  <2>7. disk'[y].frame \in Original .. Len(prompts') BY <1>1, <2>4, <2>5 DEF Original
  <2> QED BY <2>3, <2>6, <2>7
<1>3. ASSUME w'.pc \in RunSteps, NEW i \in 1 .. Size'
      PROVE  Names(prompts', w'.rows[i].prompt, <<w'.b, i>>, w'.rows[i].stage)
  <2>1. Size' = Size /\ w.pc \in RunSteps /\ w'.b = w.b /\ w'.rows = w.rows BY <1>3 DEF Size
  <2>2. Names(prompts, w.rows[i].prompt, <<w.b, i>>, w.rows[i].stage)
    BY <1>3, <2>1 DEF Shape, Named
  <2> QED BY <2>1, <2>2, NamesKept
<1> QED BY <1>2, <1>3 DEF Named

\* Rows, prompts and files as an item that goes on leaves them.
LEMMA HandNamed ==
  ASSUME Shape, Grows, w.pc \in ItemSteps, w'.b = w.b, w'.rows = w.rows,
         \/ item' = item
         \/ /\ ItemOnly(it)
            /\ \/ item'[it].prompt = item[it].prompt /\ item'[it].stage = item[it].stage
               \/ Names(prompts', item'[it].prompt, it, item'[it].stage),
         \/ disk' = disk
         \/ /\ DiskOnly(it) /\ disk'[it].frame = disk[it].frame
            /\ disk'[it].clip = disk[it].clip \/ disk'[it].clip \in 0 .. Len(prompts'),
         w'.pc \in PromptSteps \ {"post"} => Names(prompts', w'.p, it', w'.stage),
         w'.pc \in PromptSteps \ {"history", "post"} => w'.p # 0
  PROVE  Named'
<1>1. w'.pc \in RunSteps => w.pc \in RunSteps BY HandIs
<1>2. \A y \in Items : \/ item'[y].prompt = item[y].prompt /\ item'[y].stage = item[y].stage
                       \/ Names(prompts', item'[y].prompt, y, item'[y].stage)
  BY DEF ItemOnly
<1>3. \A y \in Items : /\ disk'[y].clip = disk[y].clip \/ disk'[y].clip \in 0 .. Len(prompts')
                       /\ disk'[y].frame = disk[y].frame
  BY DEF DiskOnly
<1> QED BY <1>1, <1>2, <1>3, StaysNamed

LEMMA MovesNamed ==
  ASSUME Shape, Grows, w.pc \in PromptSteps, SameHand, SamePrompt, UNCHANGED <<item, disk>>,
         w.pc # "post" \/ w'.pc \notin PromptSteps,
         w'.pc \notin {"history", "post"} => w.p # 0 \/ w'.pc \notin PromptSteps
  PROVE  Named'
<1>1. it' = it /\ w'.b = w.b /\ w'.rows = w.rows /\ w'.p = w.p /\ w'.stage = w.stage /\ w.pc \in ItemSteps
  BY SameIt, PcIs DEF SameHand, SameRun, SamePrompt
<1>2. ASSUME w'.pc \in PromptSteps \ {"post"} PROVE Names(prompts', w'.p, it', w'.stage)
  <2>1. Names(prompts, w.p, it, w.stage) BY <1>2 DEF Shape, Named
  <2> QED BY <1>1, <2>1, NamesKept
<1>3. w'.pc \in PromptSteps \ {"history", "post"} => w'.p # 0 BY <1>1
<1> QED BY <1>1, <1>2, <1>3, HandNamed

LEMMA HistoryShape == ASSUME Shape, ReadHistory PROVE Shape'
<1>1. /\ w.pc = "history" /\ Moves({"post", "got", "queue", "mark", "fatal"})
      /\ w'.pc \in {"got", "queue"} => w.p # 0
      /\ UNCHANGED <<store, disk, prompts, comfy, env, posted>> /\ Others
  BY HistoryDoes
<1>2. Typed' BY <1>1 DEF Shape, Typed, Moves, Others, store
<1>3. w.pc \in ItemSteps /\ Family /\ UNCHANGED <<batch, final, gui, item>>
  BY <1>1, PcIs DEF Family, Moves, PromptSteps, SamePrompt, store, Others
<1>4. Placed' BY <1>1, <1>3, HandPlaced DEF Moves
<1>5. Named' BY <1>1, <1>3, StillGrows, MovesNamed DEF Moves, PromptSteps
<1> QED BY <1>2, <1>4, <1>5 DEF Shape

LEMMA ReadQueueShape == ASSUME Shape, ReadQueue PROVE Shape'
<1>1. /\ w.pc = "queue" /\ Moves({"post", "wait", "mark", "fatal"})
      /\ \/ UNCHANGED env
         \/ env' = [env EXCEPT !.unseen = env.unseen \/ prompts[w.p].st = "done"]
      /\ UNCHANGED <<store, disk, prompts, comfy, posted>> /\ Others
  BY ReadQueueDoes
<1>2. env' \in EnvRows
  <2>1. env \in EnvRows BY DEF Shape, Typed, EnvRows
  <2> DEFINE u == env.unseen \/ prompts[w.p].st = "done"
  <2>2. u \in BOOLEAN BY <2>1 DEF EnvRows
  <2>3. env' = env \/ env' = [env EXCEPT !.unseen = u] BY <1>1
  <2> HIDE DEF u
  <2> QED BY <2>1, <2>2, <2>3 DEF EnvRows
<1>3. Typed' BY <1>1, <1>2 DEF Shape, Typed, Moves, Others, store, EnvRows
<1>4. w.pc \in ItemSteps /\ Family /\ UNCHANGED <<batch, final, gui, item>> /\ w.p # 0
  BY <1>1, PcIs DEF Family, Moves, PromptSteps, SamePrompt, store, Others, Shape, Named
<1>5. Placed' BY <1>1, <1>4, HandPlaced DEF Moves
<1>6. Named' BY <1>1, <1>4, StillGrows, MovesNamed DEF Moves, PromptSteps
<1> QED BY <1>3, <1>5, <1>6 DEF Shape

LEMMA WaitShape == ASSUME Shape, WaitPrompt PROVE Shape'
<1>1. /\ w.pc = "wait" /\ Moves({"got", "mark", "fatal"})
      /\ UNCHANGED <<store, disk, prompts, comfy, env, posted>> /\ Others
  BY WaitDoes
<1>2. Typed' BY <1>1 DEF Shape, Typed, Moves, Others, store
<1>3. w.pc \in ItemSteps /\ Family /\ UNCHANGED <<batch, final, gui, item>> /\ w.p # 0
  BY <1>1, PcIs DEF Family, Moves, PromptSteps, SamePrompt, store, Others, Shape, Named
<1>4. Placed' BY <1>1, <1>3, HandPlaced DEF Moves
<1>5. Named' BY <1>1, <1>3, StillGrows, MovesNamed DEF Moves, PromptSteps
<1> QED BY <1>2, <1>4, <1>5 DEF Shape

\* A new prompt is of the item in hand.
LEMMA SentGrows ==
  ASSUME Shape, w.pc \in ItemSteps, w.stage \in Stages, prompts' = Append(prompts, Queued)
  PROVE  /\ Grows /\ Len(prompts') = Len(prompts) + 1 /\ prompts'[Len(prompts) + 1] = Queued
         /\ \A p \in 1 .. Len(prompts) : prompts'[p] = prompts[p]
<1>1. it \in Items BY HandIs
<1>2. prompts \in Seq(PromptRows) /\ Queued \in PromptRows
  BY <1>1 DEF Shape, Typed, Queued, PromptRows
<1> QED BY <1>2 DEF Grows

LEMMA QueuePromptShape == ASSUME Shape, QueuePrompt PROVE Shape'
<1>1. /\ w.pc = "post" /\ w.stage \in Stages /\ w.pc \in ItemSteps /\ w.pc \in PromptSteps
      /\ UNCHANGED <<store, disk, comfy, posted>> /\ Others /\ UNCHANGED <<batch, final, gui, item, rev, pipe>>
  BY QueuePromptDoes, PcIs DEF store, Others, PromptSteps
<1>2. CASE UNCHANGED <<prompts, env>> /\ Moves({"mark", "fatal"})
  <2>1. Typed' BY <1>1, <1>2 DEF Shape, Typed, Moves, Others
  <2>2. Family BY <1>2 DEF Family, Moves
  <2>3. Placed' BY <1>1, <1>2, <2>2, HandPlaced DEF Moves
  <2>4. Named' BY <1>1, <1>2, StillGrows, MovesNamed DEF Moves, PromptSteps
  <2> QED BY <2>1, <2>3, <2>4 DEF Shape
<1>3. CASE /\ prompts' = Append(prompts, Queued) /\ UNCHANGED env
           /\ w' \in WorkerStates /\ w'.pc = "own" /\ SameHand /\ w'.stage = w.stage
           /\ w'.p = Len(prompts) + 1
  <2>1. Grows /\ Len(prompts') = Len(prompts) + 1 /\ prompts'[Len(prompts) + 1] = Queued
    BY <1>1, <1>3, SentGrows
  <2>2. Typed' BY <1>1, <1>3, <2>1 DEF Shape, Typed, Others, Grows
  <2>3. Family BY <1>1, <1>3 DEF Family, PromptSteps
  <2>4. Placed' BY <1>1, <1>3, <2>3, HandPlaced
  <2>5. it' = it /\ w'.b = w.b /\ w'.rows = w.rows BY <1>3, SameIt DEF SameHand, SameRun
  <2>6. Len(prompts) \in Nat BY DEF Shape, Typed
  <2>7. Names(prompts', w'.p, it', w'.stage) /\ w'.p # 0
    BY <1>3, <2>1, <2>5, <2>6 DEF Names, Queued
  <2>8. Named' BY <1>1, <2>1, <2>5, <2>7, HandNamed
  <2> QED BY <2>2, <2>4, <2>8 DEF Shape
<1>4. CASE /\ prompts' = Append(prompts, Queued) /\ Moves({"mark", "fatal"})
           /\ env.faults < MaxFaults
           /\ env' = [env EXCEPT !.faults = env.faults + 1, !.lost = TRUE]
  <2>1. Grows BY <1>1, <1>4, SentGrows
  <2>2. env' \in EnvRows BY <1>4, EnvFault
  <2>3. Typed' BY <1>1, <1>4, <2>1, <2>2 DEF Shape, Typed, Moves, Others, EnvRows, Grows
  <2>4. Family BY <1>4 DEF Family, Moves
  <2>5. Placed' BY <1>1, <1>4, <2>4, HandPlaced DEF Moves
  <2>6. Named' BY <1>1, <1>4, <2>1, MovesNamed DEF Moves, PromptSteps
  <2> QED BY <2>3, <2>5, <2>6 DEF Shape
<1> QED BY <1>2, <1>3, <1>4, QueuePromptDoes

LEMMA OwnShape == ASSUME Shape, OwnPrompt PROVE Shape'
<1>1. /\ w.pc = "own" /\ Moves({"wait"}) /\ Others
      /\ ItemOnly(it) /\ item'[it] = [state |-> item[it].state, prompt |-> w.p, stage |-> w.stage]
      /\ UNCHANGED <<batch, rev, disk, prompts, comfy, posted, env>>
  BY OwnDoes
<1>2. Typed' BY <1>1 DEF Shape, Typed, Moves, Others, ItemOnly
<1>3. w.pc \in ItemSteps /\ Family /\ UNCHANGED <<batch, final, gui>> /\ w.p # 0 /\ it \in Items
  BY <1>1, PcIs, HandIs DEF Family, Moves, PromptSteps, SamePrompt, Others, Shape, Named
<1>4. Placed' BY <1>1, <1>3, HandPlaced DEF Moves
<1>5. it' = it /\ w'.b = w.b /\ w'.rows = w.rows /\ w'.p = w.p /\ w'.stage = w.stage
  BY <1>1, SameIt DEF Moves, SameHand, SameRun, SamePrompt
<1>6. Names(prompts, w.p, it, w.stage) BY <1>1 DEF Shape, Named, PromptSteps
<1>7. Named' BY <1>1, <1>3, <1>5, <1>6, StillGrows, HandNamed
<1> QED BY <1>2, <1>4, <1>7 DEF Shape

LEMMA FreeNames == Names(prompts', 0, it, "none")
BY DEF Names

LEMMA SkipNamed ==
  ASSUME Shape, Grows, w.pc \in ItemSteps, w'.pc = "next", SameRun,
         \/ item' = item
         \/ Freed(it)
         \/ ItemOnly(it) /\ item'[it] = Finished
         \/ ItemOnly(it) /\ item'[it].prompt = item[it].prompt /\ item'[it].stage = item[it].stage,
         \/ disk' = disk
         \/ /\ DiskOnly(it) /\ disk'[it].frame = disk[it].frame
            /\ disk'[it].clip = disk[it].clip \/ disk'[it].clip \in 0 .. Len(prompts')
  PROVE  Named'
<1>1. \/ item' = item
      \/ /\ ItemOnly(it)
         /\ \/ item'[it].prompt = item[it].prompt /\ item'[it].stage = item[it].stage
            \/ Names(prompts', item'[it].prompt, it, item'[it].stage)
  BY FreeNames DEF Freed, Finished
<1>2. w'.b = w.b /\ w'.rows = w.rows /\ w'.pc \notin PromptSteps BY DEF SameRun, PromptSteps
<1> QED BY <1>1, <1>2, HandNamed

LEMMA SkippedPlaced ==
  ASSUME Shape, w.pc \in ItemSteps, Skipped, UNCHANGED <<batch, final, gui>>
  PROVE  Placed' /\ w' \in WorkerStates /\ w'.pc = "next" /\ SameRun
<1>1. w \in WorkerStates /\ w.pc \in RunSteps BY HandIs
<1>2. w' \in WorkerStates /\ w'.pc = "next" /\ w'.i = w.i + 1 /\ SameRun /\ SameSets
  BY <1>1, SkipDoes
<1>3. \A i \in w'.prep : w'.route[i] \in Routes BY <1>1, <1>2 DEF Shape, Placed, SameSets
<1>4. w'.prep = w.prep /\ w'.gen \subseteq w'.prep /\ Len(w'.route) = Len(w.route)
  BY <1>2 DEF Shape, Placed, SameSets
<1> QED BY <1>2, <1>3, <1>4, SkipPlaced

LEMMA GeneratedPlaced ==
  ASSUME Shape, w.pc \in VideoSteps, Generated, UNCHANGED <<batch, final, gui>>
  PROVE  Placed' /\ w' \in WorkerStates /\ w'.pc = "next" /\ SameRun
<1>1. w \in WorkerStates /\ w.pc \in RunSteps /\ w.pc \in ItemSteps BY HandIs, PcIs
<1>2. /\ w' \in WorkerStates /\ w'.pc = "next" /\ w'.i = w.i + 1 /\ SameRun
      /\ w'.prep = w.prep /\ w'.route = w.route /\ w'.gen = w.gen \cup {w.i}
  BY <1>1, SkipGenDoes
<1>3. \A i \in w'.prep : w'.route[i] \in Routes BY <1>1, <1>2 DEF Shape, Placed
<1>4. w'.gen \subseteq w'.prep BY <1>2 DEF Shape, Placed
<1> QED BY <1>1, <1>2, <1>3, <1>4, SkipPlaced

LEMMA PrepareShape == ASSUME Shape, Prepare PROVE Shape'
<1>1. /\ w.pc = "prepare" /\ w.pc \in ItemSteps
      /\ UNCHANGED <<batch, item, prompts, comfy, posted, final, pipe, route, gui>>
  BY PrepareDoes, PcIs DEF Others
<1>2. w \in WorkerStates /\ w.pc \in RunSteps /\ it \in Items BY <1>1, HandIs
<1>3. CASE /\ Moves({"mark"}) /\ UNCHANGED <<rev, disk>>
           /\ \/ UNCHANGED env
              \/ env.faults < MaxFaults /\ env' = [env EXCEPT !.faults = env.faults + 1]
  <2>1. env' \in EnvRows BY <1>3, EnvFault DEF Shape, Typed, EnvRows
  <2>2. Typed' BY <1>1, <1>3, <2>1 DEF Shape, Typed, Moves, EnvRows
  <2>3. Placed' BY <1>1, <1>3, HandPlaced DEF Moves, Family
  <2>4. w'.b = w.b /\ w'.rows = w.rows /\ w'.pc \notin PromptSteps
    BY <1>3 DEF Moves, SameHand, SameRun, PromptSteps
  <2>5. Named' BY <1>1, <1>3, <2>4, StillGrows, HandNamed
  <2> QED BY <2>2, <2>3, <2>5 DEF Shape
<1>4. CASE /\ Prepared(UsedRoute) /\ UNCHANGED env /\ RevOnly(it)
           /\ \/ UNCHANGED disk
              \/ /\ DiskOnly(it) /\ disk'[it].clip = disk[it].clip
                 /\ disk'[it].frame = disk[it].frame
  <2>1. UsedRoute \in Routes BY <1>1, RouteIs
  <2> DEFINE r == UsedRoute
  <2>2. w.i \in 1 .. Size /\ Len(w.route) = Size /\ Size \in Nat /\ w.route \in Seq(RouteOrNone)
    BY <1>1, <1>2, HandIs DEF Shape, Placed, WorkerStates
  <2>3. w.i \in DOMAIN w.route BY <2>2
  <2> HIDE DEF r
  <2>4. /\ w' \in WorkerStates /\ w'.pc = "next" /\ w'.i = w.i + 1 /\ SameRun
        /\ w'.prep = w.prep \cup {w.i} /\ w'.gen = w.gen /\ Len(w'.route) = Len(w.route)
        /\ w'.route[w.i] = r /\ \A i \in DOMAIN w.route : i # w.i => w'.route[i] = w.route[i]
    BY <1>2, <1>4, <2>1, <2>3, SkipPrepDoes DEF r
  <2>5. \A i \in w'.prep : w'.route[i] \in Routes
    <3>1. w.prep \subseteq DOMAIN w.route /\ \A i \in w.prep : w.route[i] \in Routes
      BY <1>2, <2>2 DEF Shape, Placed
    <3> QED BY <2>1, <2>4, <3>1 DEF r
  <2>6. w'.prep \subseteq w.prep \cup {w.i} /\ w'.gen \subseteq w'.prep
    BY <2>4 DEF Shape, Placed
  <2>7. Placed' BY <1>1, <2>4, <2>5, <2>6, SkipPlaced
  <2>8. Named' BY <1>1, <1>4, <2>4, StillGrows, SkipNamed
  <2>9. Typed' BY <1>1, <1>4, <2>4 DEF Shape, Typed, RevOnly, DiskOnly
  <2> QED BY <2>7, <2>8, <2>9 DEF Shape
<1>5. \/ /\ Moves({"mark"}) /\ UNCHANGED <<rev, disk>>
         /\ \/ UNCHANGED env
            \/ env.faults < MaxFaults /\ env' = [env EXCEPT !.faults = env.faults + 1]
      \/ /\ Prepared(UsedRoute) /\ UNCHANGED env /\ RevOnly(it)
         /\ \/ UNCHANGED disk
            \/ /\ DiskOnly(it) /\ disk'[it].clip = disk[it].clip
               /\ disk'[it].frame = disk[it].frame
  BY PrepareDoes
<1> QED BY <1>3, <1>4, <1>5

LEMMA MarkItemShape == ASSUME Shape, MarkItem PROVE Shape'
<1>1. /\ w.pc = "mark" /\ Moves({"markrev"}) /\ w.pc \in ItemSteps /\ ItemOnly(it)
      /\ item'[it].prompt = item[it].prompt /\ item'[it].stage = item[it].stage
      /\ UNCHANGED <<batch, rev, disk, prompts, comfy, posted, env, final, pipe, route, gui>>
  BY MarkItemDoes, PcIs DEF Others
<1>2. Typed' BY <1>1 DEF Shape, Typed, Moves, ItemOnly
<1>3. Placed' BY <1>1, HandPlaced DEF Moves, Family
<1>4. w'.b = w.b /\ w'.rows = w.rows /\ w'.pc \notin PromptSteps
  BY <1>1 DEF Moves, SameHand, SameRun, PromptSteps
<1>5. Named' BY <1>1, <1>4, StillGrows, HandNamed
<1> QED BY <1>2, <1>3, <1>5 DEF Shape

LEMMA MarkRevisionShape == ASSUME Shape, MarkRevision PROVE Shape'
<1>1. /\ w.pc = "markrev" /\ Skipped /\ w.pc \in ItemSteps /\ RevOnly(it)
      /\ UNCHANGED <<batch, item, prompts, comfy, posted, env, final, pipe, route, gui>>
      /\ \/ UNCHANGED disk
         \/ DiskOnly(it) /\ disk'[it].clip = disk[it].clip /\ disk'[it].frame = disk[it].frame
  BY MarkRevisionDoes, PcIs DEF Others
<1>2. Placed' /\ w' \in WorkerStates /\ w'.pc = "next" /\ SameRun BY <1>1, SkippedPlaced
<1>3. Typed' BY <1>1, <1>2 DEF Shape, Typed, RevOnly, DiskOnly
<1>4. Named' BY <1>1, <1>2, StillGrows, SkipNamed
<1> QED BY <1>2, <1>3, <1>4 DEF Shape

LEMMA FrameShape == ASSUME Shape, Frame PROVE Shape'
<1>1. /\ w.pc = "frame" /\ w.pc \in ItemSteps /\ UNCHANGED <<final, pipe, route, gui>>
      /\ UNCHANGED <<batch, rev, disk, prompts, comfy, posted, env>>
  BY FrameDoes, PcIs DEF Others
<1>2. CASE Skipped /\ (Freed(it) \/ UNCHANGED item)
  <2>1. Placed' /\ w' \in WorkerStates /\ w'.pc = "next" /\ SameRun BY <1>1, <1>2, SkippedPlaced
  <2>2. Typed' BY <1>1, <1>2, <2>1 DEF Shape, Typed, Freed, ItemOnly
  <2>3. Named' BY <1>1, <1>2, <2>1, StillGrows, SkipNamed
  <2> QED BY <2>1, <2>2, <2>3 DEF Shape
<1>3. CASE /\ UNCHANGED item
           /\ Asks("t2i", IF w.rows[w.i].stage = "t2i" THEN w.rows[w.i].prompt ELSE 0)
  <2>1. Typed' BY <1>1, <1>3 DEF Shape, Typed, Asks
  <2>2. Placed' BY <1>1, <1>3, HandPlaced DEF Asks, Family, PromptSteps
  <2>3. /\ w.pc \in RunSteps /\ w.i \in 1 .. Size /\ w'.b = w.b /\ w'.rows = w.rows /\ it' = it
        /\ w'.pc = "history" /\ w'.stage = "t2i"
        /\ w'.p = IF w.rows[w.i].stage = "t2i" THEN w.rows[w.i].prompt ELSE 0
    BY <1>1, <1>3, HandIs, SameIt DEF Asks, SameHand, SameRun
  <2>4. Names(prompts, w.rows[w.i].prompt, it, w.rows[w.i].stage)
    BY <2>3 DEF Shape, Named, it
  <2>5. Names(prompts', w'.p, it', w'.stage) BY <1>1, <2>3, <2>4 DEF Names
  <2>6. Named' BY <1>1, <1>3, <2>3, <2>5, StillGrows, HandNamed
  <2> QED BY <2>1, <2>2, <2>6 DEF Shape
<1> QED BY <1>2, <1>3, FrameDoes

LEMMA VideoShape == ASSUME Shape, Video PROVE Shape'
<1>1. /\ w.pc = "video" /\ w.pc \in ItemSteps /\ w.pc \in VideoSteps /\ UNCHANGED <<final, pipe, route, gui>>
      /\ UNCHANGED <<batch, item, disk, prompts, comfy, posted, env>>
  BY VideoDoes, PcIs DEF Others, VideoSteps
<1>2. CASE Generated /\ UNCHANGED rev
  <2>1. Placed' /\ w' \in WorkerStates /\ w'.pc = "next" /\ SameRun BY <1>1, <1>2, GeneratedPlaced
  <2>2. Typed' BY <1>1, <1>2, <2>1 DEF Shape, Typed
  <2>3. Named' BY <1>1, <2>1, StillGrows, SkipNamed
  <2> QED BY <2>1, <2>2, <2>3 DEF Shape
<1>3. CASE Asks(w.route[w.i], Claim) /\ (UNCHANGED rev \/ RevOnly(it))
  <2>1. Typed' BY <1>1, <1>3 DEF Shape, Typed, Asks, RevOnly
  <2>2. Placed' BY <1>1, <1>3, HandPlaced DEF Asks, Family, PromptSteps
  <2>3. /\ w'.b = w.b /\ w'.rows = w.rows /\ it' = it /\ it \in Items
        /\ w'.pc = "history" /\ w'.stage = w.route[w.i] /\ w'.p = Claim
    BY <1>1, <1>3, HandIs, SameIt DEF Asks, SameHand, SameRun
  <2>4. Names(prompts, item[it].prompt, it, item[it].stage) BY <2>3 DEF Shape, Named
  <2>5. Names(prompts', w'.p, it', w'.stage) BY <1>1, <2>3, <2>4 DEF Names, Claim
  <2>6. Named' BY <1>1, <2>3, <2>5, StillGrows, HandNamed
  <2> QED BY <2>1, <2>2, <2>6 DEF Shape
<1> QED BY <1>2, <1>3, VideoDoes

\* A step that leaves the prompts alone and goes on with its item.
LEMMA StepShape ==
  ASSUME Shape, w.pc \in ItemSteps, w' \in WorkerStates, SameHand, Family, w'.pc \notin PromptSteps,
         UNCHANGED <<batch, final, pipe, prompts, comfy, route, gui, env>>,
         posted' \in Seq(Items \X Nat),
         \/ item' = item
         \/ Freed(it)
         \/ ItemOnly(it) /\ item'[it].prompt = item[it].prompt /\ item'[it].stage = item[it].stage,
         rev' = rev \/ RevOnly(it),
         \/ disk' = disk
         \/ /\ DiskOnly(it) /\ disk'[it].frame = disk[it].frame
            /\ disk'[it].clip = disk[it].clip \/ disk'[it].clip \in 0 .. Len(prompts')
  PROVE  Shape'
<1>1. Placed' BY HandPlaced
<1>2. Typed' BY DEF Shape, Typed, ItemOnly, RevOnly, DiskOnly, Freed
<1>3. \/ item' = item
      \/ /\ ItemOnly(it)
         /\ \/ item'[it].prompt = item[it].prompt /\ item'[it].stage = item[it].stage
            \/ Names(prompts', item'[it].prompt, it, item'[it].stage)
  BY FreeNames DEF Freed
<1>4. w'.b = w.b /\ w'.rows = w.rows BY DEF SameHand, SameRun
<1>5. Named' BY <1>3, <1>4, StillGrows, HandNamed
<1> QED BY <1>1, <1>2, <1>5 DEF Shape

\* One that goes on to the next item.
LEMMA SkippedShape ==
  ASSUME Shape, w.pc \in ItemSteps, Skipped \/ (Generated /\ w.pc \in VideoSteps),
         UNCHANGED <<batch, final, pipe, prompts, comfy, route, gui, env, posted>>,
         \/ item' = item
         \/ Freed(it)
         \/ ItemOnly(it) /\ item'[it] = Finished,
         rev' = rev \/ RevOnly(it),
         \/ disk' = disk
         \/ DiskOnly(it) /\ disk'[it].frame = disk[it].frame /\ disk'[it].clip = disk[it].clip
  PROVE  Shape'
<1>1. Placed' /\ w' \in WorkerStates /\ w'.pc = "next" /\ SameRun
  BY SkippedPlaced, GeneratedPlaced
<1>2. Typed' BY <1>1 DEF Shape, Typed, ItemOnly, RevOnly, DiskOnly, Freed
<1>3. Named' BY <1>1, StillGrows, SkipNamed
<1> QED BY <1>1, <1>2, <1>3 DEF Shape

LEMMA GotShape == ASSUME Shape, Got PROVE Shape'
<1>1. /\ w.pc = "got" /\ w.pc \in ItemSteps /\ UNCHANGED <<final, pipe, route, gui>>
      /\ UNCHANGED <<batch, rev, prompts, comfy, posted, env>>
  BY GotDoes, PcIs DEF Others, PromptSteps
<1>2. posted' \in Seq(Items \X Nat) BY <1>1 DEF Shape, Typed
<1>3. CASE w.stage = "t2i" /\ Freed(it) /\ UNCHANGED disk
  <2>1. CASE Skipped BY <1>1, <1>3, <2>1, SkippedShape
  <2>2. CASE Moves({"mark"})
    BY <1>1, <1>2, <1>3, <2>2, StepShape DEF Moves, Family, PromptSteps
  <2> QED BY <1>3, <2>1, <2>2, GotDoes
<1>4. CASE /\ w.stage # "t2i" /\ Moves({"bind"}) /\ UNCHANGED item
           /\ DiskOnly(it) /\ disk'[it].clip = w.p /\ disk'[it].frame = disk[it].frame
  <2>1. Names(prompts, w.p, it, w.stage) BY <1>1 DEF Shape, Named, PromptSteps
  <2>2. w.p \in 0 .. Len(prompts')
    <3>1. w.p \in Nat /\ Len(prompts) \in Nat BY <1>1, HandIs DEF WorkerStates, Shape, Typed
    <3> QED BY <1>1, <2>1, <3>1 DEF Names
  <2>3. Family /\ w'.pc \notin PromptSteps /\ SameHand /\ w' \in WorkerStates
    BY <1>1, <1>4 DEF Family, Moves, PromptSteps, SamePrompt
  <2> QED BY <1>1, <1>2, <1>4, <2>2, <2>3, StepShape
<1>5. CASE w.stage # "t2i" /\ Moves({"mark", "fatal"}) /\ UNCHANGED <<item, disk>>
  BY <1>1, <1>2, <1>5, StepShape DEF Moves, Family, PromptSteps
<1> QED BY <1>3, <1>4, <1>5, GotDoes

LEMMA BindShape == ASSUME Shape, Bind PROVE Shape'
BY BindDoes, PcIs, SkippedShape DEF Others, VideoSteps

LEMMA DeliverShape == ASSUME Shape, Deliver PROVE Shape'
<1>1. /\ w.pc = "deliver" /\ w.pc \in ItemSteps /\ UNCHANGED <<final, pipe, route, gui>>
      /\ UNCHANGED <<batch, item, rev, prompts, comfy, posted, env>>
      /\ posted' \in Seq(Items \X Nat)
  BY DeliverDoes, PcIs DEF Others, DeliverySteps, Shape, Typed
<1>2. Moves({"mark", "expose", "send"}) BY DeliverDoes DEF Moves
<1>3. w' \in WorkerStates /\ SameHand /\ Family /\ w'.pc \notin PromptSteps
  BY <1>1, <1>2 DEF Moves, Family, PromptSteps, DeliverySteps
<1>4. \/ disk' = disk
      \/ DiskOnly(it) /\ disk'[it].frame = disk[it].frame /\ disk'[it].clip = disk[it].clip
  BY DeliverDoes
<1> QED BY <1>1, <1>3, <1>4, StepShape

LEMMA SendShape == ASSUME Shape, Send PROVE Shape'
<1>1. /\ w.pc = "send" /\ w.pc \in ItemSteps /\ Moves({"sent", "unsent"})
      /\ UNCHANGED <<batch, item, rev, final, pipe, disk, prompts, comfy, route, gui, env>>
  BY SendDoes, PcIs DEF Moves, DeliverySteps, store
<1>2. <<it, disk[it].clip>> \in Items \X Nat BY <1>1, HandIs DEF Files
<1>3. posted \in Seq(Items \X Nat) BY DEF Shape, Typed
<1>4. posted' \in Seq(Items \X Nat)
  <2> DEFINE x == <<it, disk[it].clip>>
  <2>1. posted' = Append(posted, x) \/ posted' = posted BY SendDoes
  <2>2. x \in Items \X Nat BY <1>2
  <2> HIDE DEF x
  <2> QED BY <1>3, <2>1, <2>2, SMTT(30)
<1>5. w' \in WorkerStates /\ SameHand /\ Family /\ w'.pc \notin PromptSteps
  BY <1>1 DEF Moves, Family, PromptSteps, DeliverySteps
<1> QED BY <1>1, <1>4, <1>5, StepShape

LEMMA AnswerShape == ASSUME Shape, Answer PROVE Shape'
<1>1. /\ w.pc \in DeliverySteps /\ w.pc \in ItemSteps /\ UNCHANGED <<final, pipe, route, gui>>
      /\ UNCHANGED <<batch, item, rev, prompts, comfy, posted, env>>
      /\ posted' \in Seq(Items \X Nat)
  BY AnswerDoes, PcIs DEF Others, DeliverySteps, Shape, Typed
<1>2. w' \in WorkerStates /\ SameHand /\ w'.pc \in {"deliver", "expose"} BY AnswerDoes
<1>3. Family /\ w'.pc \notin PromptSteps BY <1>1, <1>2 DEF Family, PromptSteps, DeliverySteps
<1>4. DiskOnly(it) /\ disk'[it].frame = disk[it].frame /\ disk'[it].clip = disk[it].clip
  BY AnswerDoes
<1> QED BY <1>1, <1>2, <1>3, <1>4, StepShape

LEMMA ExposeShape == ASSUME Shape, ExposeRevision PROVE Shape'
<1>1. /\ w.pc = "expose" /\ w.pc \in ItemSteps /\ UNCHANGED <<final, pipe, route, gui>>
      /\ UNCHANGED <<batch, item, prompts, comfy, posted, env>> /\ RevOnly(it)
      /\ posted' \in Seq(Items \X Nat) /\ Moves({"settle"})
      /\ DiskOnly(it) /\ disk'[it].frame = disk[it].frame /\ disk'[it].clip = disk[it].clip
  BY ExposeDoes, PcIs DEF Others, DeliverySteps, Shape, Typed
<1>2. w' \in WorkerStates /\ SameHand /\ Family /\ w'.pc \notin PromptSteps
  BY <1>1 DEF Moves, Family, PromptSteps, DeliverySteps
<1> QED BY <1>1, <1>2, StepShape

LEMMA SettleShape == ASSUME Shape, SettleItem PROVE Shape'
BY SettleDoes, PcIs, SkippedShape DEF Others, DeliverySteps

\* The worker is between items, or off the batches.
LEMMA AwayShape ==
  ASSUME Shape, Typed', w'.pc \notin RunSteps, w'.gen \subseteq w'.prep,
         w'.pc \in {"down", "idle"} => w' = Idle(w'.pc), w'.pc = "stitch" => w'.i \in DOMAIN final',
         gui'.pc # "idle" => gui'.b \in Batches /\ gui'.policy \in {"after", "interrupt"},
         Grows, \A y \in Items : disk'[y].clip = disk[y].clip /\ disk'[y].frame = disk[y].frame,
         \A y \in Items : \/ item'[y].prompt = item[y].prompt /\ item'[y].stage = item[y].stage
                          \/ item'[y].prompt = 0
  PROVE  Shape'
<1>1. w'.pc \notin {"frame", "prepare", "verdict", "bind"} /\ w'.pc \notin PromptSteps
      /\ w'.pc \notin VideoSteps /\ w'.pc \notin DeliverySteps
  BY PcIs DEF RunSteps, VideoSteps
<1>2. Placed' BY <1>1 DEF Placed
<1>3. \A y \in Items : \/ item'[y].prompt = item[y].prompt /\ item'[y].stage = item[y].stage
                       \/ Names(prompts', item'[y].prompt, y, item'[y].stage)
  BY DEF Names
<1>4. Named' BY <1>1, <1>3, StaysNamed
<1> QED BY <1>2, <1>4 DEF Shape

LEMMA IdleIs ==
  /\ \A pc : Idle(pc).pc = pc /\ Idle(pc).gen = {} /\ Idle(pc).prep = {}
  /\ {"idle", "down", "stitch", "job", "fatal", "recover"} \subseteq WorkerSteps
  /\ {"idle", "down", "stitch", "job", "fatal", "recover"} \cap RunSteps = {}
BY DEF Idle, WorkerSteps, RunSteps, ItemSteps, PromptSteps, VideoSteps, DeliverySteps

LEMMA FinalsOne ==
  ASSUME Shape, NEW k \in DOMAIN final, NEW r \in Finals, final' = [final EXCEPT ![k] = r]
  PROVE  /\ final' \in Seq(Finals) /\ DOMAIN final' = DOMAIN final
         /\ \A j \in DOMAIN final : j # k => final'[j] = final[j]
         /\ final'[k] = r
BY DEF Shape, Typed

LEMMA FinalsKept ==
  ASSUME Shape, NEW k \in DOMAIN final, NEW s \in {"running", "failed"},
         final' = [final EXCEPT ![k].state = s]
  PROVE  /\ final' \in Seq(Finals) /\ DOMAIN final' = DOMAIN final
         /\ \A j \in DOMAIN final : j # k => final'[j] = final[j]
         /\ final'[k].state = s /\ final'[k].sel = final[k].sel
<1>1. final[k] \in Finals BY DEF Shape, Typed
<1> DEFINE r == [final[k] EXCEPT !.state = s]
<1>2. r \in Finals /\ r.state = s /\ r.sel = final[k].sel BY <1>1 DEF Finals
<1>3. final' = [final EXCEPT ![k] = r] OBVIOUS
<1> HIDE DEF r
<1> QED BY <1>2, <1>3, FinalsOne

LEMMA FinalsMade ==
  ASSUME Shape, NEW k \in DOMAIN final, NEW o \in [Scenes -> Int],
         final' = [final EXCEPT ![k].state = "succeeded", ![k].out = o]
  PROVE  /\ final' \in Seq(Finals) /\ DOMAIN final' = DOMAIN final
         /\ \A j \in DOMAIN final : j # k => final'[j] = final[j]
         /\ final'[k].state = "succeeded" /\ final'[k].sel = final[k].sel /\ final'[k].out = o
<1>1. final[k] \in Finals /\ final \in Seq(Finals) BY DEF Shape, Typed
<1> DEFINE r == [[final[k] EXCEPT !.state = "succeeded"] EXCEPT !.out = o]
<1>2. r \in Finals /\ r.state = "succeeded" /\ r.sel = final[k].sel /\ r.out = o
  BY <1>1 DEF Finals
<1>3. final' = [[final EXCEPT ![k] = [@ EXCEPT !.state = "succeeded"]]
                         EXCEPT ![k] = [@ EXCEPT !.out = o]]
  OBVIOUS
<1>4. final' = [final EXCEPT ![k] = r] BY <1>1, <1>3
<1> HIDE DEF r
<1> QED BY <1>2, <1>4, FinalsOne

LEMMA StartFinalShape == ASSUME Shape, StartFinal PROVE Shape'
<1>1. /\ w.pc = "idle" /\ w' \in WorkerStates /\ w'.pc = "stitch" /\ w'.i \in DOMAIN final
      /\ final' = [final EXCEPT ![w'.i].state = "running"] /\ w'.prep = w.prep /\ w'.gen = w.gen
      /\ UNCHANGED <<batch, item, rev, disk, pipe, prompts, comfy, posted, route, gui, env>>
  BY StartFinalDoes
<1>2. /\ gui'.pc # "idle" => gui'.b \in Batches /\ gui'.policy \in {"after", "interrupt"}
      /\ w'.gen \subseteq w'.prep
  BY <1>1 DEF Shape, Placed
<1>3. final' \in Seq(Finals) /\ DOMAIN final' = DOMAIN final
  <2> DEFINE n == w'.i
  <2>1. n \in DOMAIN final /\ final' = [final EXCEPT ![n].state = "running"] BY <1>1
  <2> HIDE DEF n
  <2> QED BY <2>1, FinalsKept
<1>4. Typed' BY <1>1, <1>3 DEF Shape, Typed
<1> QED BY <1>1, <1>2, <1>3, <1>4, IdleIs, StillGrows, AwayShape

LEMMA StitchDoes ==
  ASSUME Shape, Stitch
  PROVE  /\ w.pc = "stitch" /\ w.i \in DOMAIN final /\ w' = Idle("idle")
         /\ UNCHANGED <<batch, item, rev, pipe, disk, prompts, comfy, env, posted, route, gui>>
         /\ final' \in Seq(Finals) /\ DOMAIN final' = DOMAIN final
         /\ \A j \in DOMAIN final : j # w.i => final'[j] = final[j]
         /\ final'[w.i].sel = final[w.i].sel
         /\ \/ final'[w.i].state = "failed"
            \/ /\ final'[w.i].state = "succeeded"
               /\ \A i \in Scenes : /\ final'[w.i].out[i] = ClipOf(final[w.i].sel[i])
                                    /\ ClipOf(final[w.i].sel[i]) # 0
<1>1. w.pc = "stitch" /\ w.i \in DOMAIN final /\ w' = Idle("idle")
      /\ UNCHANGED <<batch, item, rev, pipe, disk, prompts, comfy, env, posted, route, gui>>
  BY DEF Stitch, At, Rest, Shape, Placed
<1> DEFINE n == w.i
<1> DEFINE out == [i \in Scenes |-> ClipOf(final[n].sel[i])]
<1>2. CASE \E i \in Scenes : out[i] = 0
  <2>1. final' = [final EXCEPT ![n].state = "failed"] BY <1>2 DEF Stitch
  <2> HIDE DEF n
  <2> QED BY <1>1, <2>1, FinalsKept DEF n
<1>3. CASE ~\E i \in Scenes : out[i] = 0
  <2>1. final' = [final EXCEPT ![n].state = "succeeded", ![n].out = out] BY <1>3 DEF Stitch
  <2>2. out \in [Scenes -> Int]
    <3>1. ASSUME NEW i \in Scenes PROVE ClipOf(final[n].sel[i]) \in Int
      <4>0. final[n] \in Finals BY <1>1 DEF Shape, Typed
      <4>1. final[n].sel[i] \in Choices BY <4>0 DEF Finals
      <4>2. final[n].sel[i].of \in Items => disk[final[n].sel[i].of].clip \in Int
        BY DEF Shape, Typed, Files
      <4>3. final[n].sel[i].of[1] # 0 => final[n].sel[i].of \in Items
        <5>1. final[n].sel[i].of \in Items \cup ({0} \X Scenes) BY <4>1 DEF Choices
        <5> QED BY <5>1
      <4> QED BY <4>1, <4>2, <4>3 DEF ClipOf, Original
    <3> QED BY <3>1
  <2>3. n \in DOMAIN final BY <1>1
  <2>4. \A i \in Scenes : out[i] = ClipOf(final[n].sel[i]) /\ out[i] # 0 BY <1>3
  <2> HIDE DEF n, out
  <2>5. /\ final' \in Seq(Finals) /\ DOMAIN final' = DOMAIN final
        /\ \A j \in DOMAIN final : j # n => final'[j] = final[j]
        /\ final'[n].state = "succeeded" /\ final'[n].sel = final[n].sel /\ final'[n].out = out
    BY <2>1, <2>2, <2>3, FinalsMade
  <2> QED BY <1>1, <2>4, <2>5 DEF n, out
<1> QED BY <1>2, <1>3

LEMMA StitchShape == ASSUME Shape, Stitch PROVE Shape'
<1>1. /\ w' = Idle("idle") /\ final' \in Seq(Finals)
      /\ UNCHANGED <<batch, item, rev, pipe, disk, prompts, comfy, env, posted, route, gui>>
  BY StitchDoes
<1>2. w' \in WorkerStates BY <1>1, IdleIs, IdleDoes
<1>3. Typed' BY <1>1, <1>2 DEF Shape, Typed
<1>4. gui'.pc # "idle" => gui'.b \in Batches /\ gui'.policy \in {"after", "interrupt"}
  BY <1>1 DEF Shape, Placed
<1> QED BY <1>1, <1>3, <1>4, IdleIs, StillGrows, AwayShape

LEMMA TickShape == ASSUME Shape, Tick PROVE Shape'
<1>1. /\ w.pc = "idle" /\ w' \in WorkerStates /\ w'.pc = "job" /\ SameHand
      /\ pipe' \in {"free", "active", "error"} /\ env.jobs \in Nat
      /\ env' = env \/ env' = [env EXCEPT !.jobs = env.jobs + 1]
      /\ UNCHANGED <<batch, item, rev, disk, final, prompts, comfy, posted, route, gui>>
  BY TickDoes
<1>2. env' \in EnvRows
  <2>1. env \in EnvRows BY DEF Shape, Typed, EnvRows
  <2>2. env.jobs + 1 \in Nat BY <1>1
  <2> QED BY <1>1, <2>1, <2>2 DEF EnvRows
<1>3. Typed' BY <1>1, <1>2 DEF Shape, Typed, EnvRows
<1>4. gui'.pc # "idle" => gui'.b \in Batches /\ gui'.policy \in {"after", "interrupt"}
  BY <1>1 DEF Shape, Placed
<1>5. w'.gen \subseteq w'.prep BY <1>1 DEF Shape, Placed, SameHand, SameSets
<1> QED BY <1>1, <1>3, <1>4, <1>5, IdleIs, StillGrows, AwayShape

LEMMA JobEndsShape == ASSUME Shape, JobEnds PROVE Shape'
<1>1. /\ w' = Idle("idle") /\ pipe' \in {"free", "active", "error"}
      /\ UNCHANGED <<batch, item, rev, final, disk, prompts, comfy, env, posted, route, gui>>
  BY DEF JobEnds, Rest, Shape, Typed
<1>2. w' \in WorkerStates BY <1>1, IdleIs, IdleDoes
<1>3. Typed' BY <1>1, <1>2 DEF Shape, Typed
<1>4. gui'.pc # "idle" => gui'.b \in Batches /\ gui'.policy \in {"after", "interrupt"}
  BY <1>1 DEF Shape, Placed
<1> QED BY <1>1, <1>3, <1>4, IdleIs, StillGrows, AwayShape

LEMMA VerdictIs ==
  ASSUME NEW b \in Batches PROVE Verdict(b) \in {"succeeded", "partial", "failed"}
BY DEF Verdict

LEMMA EndBatchDoes ==
  ASSUME Shape, EndBatch
  PROVE  /\ w.pc = "verdict" /\ w.b \in Batches /\ w' = Idle("idle")
         /\ batch' \in [Batches -> BatchRows] /\ batch'[w.b].state = Verdict(w.b)
         /\ \A b \in Batches : b # w.b => batch'[b] = batch[b]
         /\ UNCHANGED <<item, rev, disk, prompts, comfy, env, posted>> /\ Others
<1>1. w.pc = "verdict" /\ w.b \in Batches BY DEF EndBatch, At, Shape, Placed, RunSteps
<1>2. Verdict(w.b) \in BatchStates BY <1>1, VerdictIs DEF BatchStates
<1>3. batch' = [batch EXCEPT ![w.b].state = Verdict(w.b)] BY DEF EndBatch
<1>4. /\ batch' \in [Batches -> BatchRows] /\ batch'[w.b].state = Verdict(w.b)
      /\ \A b \in Batches : b # w.b => batch'[b] = batch[b]
  BY <1>1, <1>2, <1>3 DEF Shape, Typed, BatchRows
<1> QED BY <1>1, <1>4 DEF EndBatch, Rest, Others

LEMMA EndBatchShape == ASSUME Shape, EndBatch PROVE Shape'
<1>1. /\ w' = Idle("idle") /\ batch' \in [Batches -> BatchRows]
      /\ UNCHANGED <<item, rev, final, pipe, disk, prompts, comfy, env, posted, route, gui>>
  BY EndBatchDoes DEF Others
<1>2. w' \in WorkerStates BY <1>1, IdleIs, IdleDoes
<1>3. Typed' BY <1>1, <1>2 DEF Shape, Typed
<1>4. gui'.pc # "idle" => gui'.b \in Batches /\ gui'.policy \in {"after", "interrupt"}
  BY <1>1 DEF Shape, Placed
<1> QED BY <1>1, <1>3, <1>4, IdleIs, StillGrows, AwayShape

LEMMA FatalShape == ASSUME Shape, HandleFatal PROVE Shape'
<1>1. /\ w' \in WorkerStates /\ w'.pc \in {"recover", "idle"}
      /\ w'.pc = "idle" => w' = Idle("idle")
      /\ w'.pc = "recover" => w'.prep = w.prep /\ w'.gen = w.gen
      /\ pipe' \in {"free", "active", "error"} /\ comfy' \in BOOLEAN
      /\ \/ UNCHANGED env
         \/ env.faults < MaxFaults /\ env' = [env EXCEPT !.faults = env.faults + 1, !.stuck = TRUE]
      /\ UNCHANGED <<batch, item, rev, disk, final, prompts, posted, route, gui>>
  BY FatalErrorDoes
<1>2. env' \in EnvRows BY <1>1, EnvFault DEF Shape, Typed, EnvRows
<1>3. Typed' BY <1>1, <1>2 DEF Shape, Typed, EnvRows
<1>4. gui'.pc # "idle" => gui'.b \in Batches /\ gui'.policy \in {"after", "interrupt"}
  BY <1>1 DEF Shape, Placed
<1>5. w'.gen \subseteq w'.prep BY <1>1, IdleIs DEF Shape, Placed
<1> QED BY <1>1, <1>3, <1>4, <1>5, IdleIs, StillGrows, AwayShape

LEMMA RecoveredNames ==
  ASSUME Shape, Recovered
  PROVE  \A y \in Items : \/ item'[y].prompt = item[y].prompt /\ item'[y].stage = item[y].stage
                          \/ item'[y].prompt = 0
BY RecoveredDoes DEF Again, Finished

LEMMA RecoverShape == ASSUME Shape, RecoverBatches PROVE Shape'
<1>1. /\ w' = Idle("idle")
      /\ UNCHANGED <<final, pipe, disk, prompts, comfy, posted, route, gui>>
  BY DEF RecoverBatches, Rest
<1>2. w' \in WorkerStates BY <1>1, IdleIs, IdleDoes
<1>3. gui'.pc # "idle" => gui'.b \in Batches /\ gui'.policy \in {"after", "interrupt"}
  BY <1>1 DEF Shape, Placed
<1>4. CASE Recovered /\ UNCHANGED env
  <2>1. Typed' BY <1>1, <1>2, <1>4, RecoveredDoes DEF Shape, Typed
  <2> QED BY <1>1, <1>3, <1>4, <2>1, IdleIs, StillGrows, RecoveredNames, AwayShape
<1>5. CASE UNCHANGED <<batch, item, rev>> /\ env' = [env EXCEPT !.stuck = TRUE]
  <2>1. env' \in EnvRows BY <1>5 DEF EnvRows, Shape, Typed
  <2>2. Typed' BY <1>1, <1>2, <1>5, <2>1 DEF Shape, Typed, EnvRows
  <2> QED BY <1>1, <1>3, <1>5, <2>2, IdleIs, StillGrows, AwayShape
<1> QED BY <1>4, <1>5 DEF RecoverBatches

\* A batch begins, or an item of it is visited.
LEMMA StartBatchShape == ASSUME Shape, StartBatch PROVE Shape'
<1>1. /\ w' \in WorkerStates /\ w'.pc = "next" /\ w'.phase = "prepare"
      /\ w'.b \in Batches /\ w'.i = 1
      /\ batch' = [batch EXCEPT ![w'.b].state = "running"]
      /\ Len(w'.rows) = Size' /\ Len(w'.route) = Size'
      /\ \A i \in 1 .. Size' : w'.rows[i] = item[<<w'.b, i>>]
      /\ w'.prep = {} /\ w'.gen = {}
      /\ UNCHANGED <<item, rev, disk, final, pipe, prompts, comfy, posted, route, gui, env>>
  BY StartBatchDoes
<1> DEFINE b == w'.b
<1>2. b \in Batches /\ batch' = [batch EXCEPT ![b].state = "running"] BY <1>1
<1>3. "running" \in BatchStates BY DEF BatchStates
<1>4. batch' \in [Batches -> BatchRows] /\ batch'[b].state = "running"
  <2> HIDE DEF b
  <2> QED BY <1>2, <1>3 DEF Shape, Typed, BatchRows
<1>5. Typed' BY <1>1, <1>4 DEF Shape, Typed
<1>6. w'.pc \notin ItemSteps /\ w'.phase \in Phases
  BY <1>1 DEF ItemSteps, PromptSteps, VideoSteps, DeliverySteps, Phases
<1>7. gui'.pc # "idle" => gui'.b \in Batches /\ gui'.policy \in {"after", "interrupt"}
  BY <1>1 DEF Shape, Placed
<1>8. Placed' BY <1>1, <1>4, <1>6, <1>7, PcIs DEF Placed
<1>9. ASSUME NEW i \in 1 .. Size' PROVE Names(prompts', w'.rows[i].prompt, <<w'.b, i>>, w'.rows[i].stage)
  <2>1. <<w'.b, i>> \in Items BY <1>1, ItemsAre DEF Size
  <2> QED BY <1>1, <2>1 DEF Shape, Named
<1>10. \A y \in Items : /\ Names(prompts', item'[y].prompt, y, item'[y].stage)
                        /\ disk'[y].clip <= Len(prompts') /\ disk'[y].frame \in Original .. Len(prompts')
  BY <1>1 DEF Shape, Named
<1>11. Named' BY <1>6, <1>9, <1>10, PcIs DEF Named
<1> QED BY <1>5, <1>8, <1>11 DEF Shape

LEMMA NextShape == ASSUME Shape, NextItem PROVE Shape'
<1>1. /\ w.pc = "next" /\ w' \in WorkerStates /\ w'.b = w.b /\ w'.rows = w.rows /\ w.b \in Batches
      /\ w'.prep = w.prep /\ w'.route = w.route /\ w'.gen = w.gen /\ Size \in Nat /\ w.i \in Nat
      /\ UNCHANGED <<batch, rev, disk, prompts, comfy, posted, env, final, pipe, route, gui>>
  BY NextDoes DEF Others, SameSets
<1>2. /\ w.pc \in RunSteps /\ batch'[w'.b].state = "running" /\ w.phase \in Phases /\ Size' = Size
      /\ Len(w'.rows) = Size' /\ Len(w'.route) = Size' /\ w'.prep \subseteq 1 .. Size' /\ w.i # 0
      /\ (\A i \in w'.prep : w'.route[i] \in Routes) /\ w'.gen \subseteq w'.prep
      /\ gui'.pc # "idle" => gui'.b \in Batches /\ gui'.policy \in {"after", "interrupt"}
  BY <1>1 DEF Shape, Placed, RunSteps, Size
<1>3. CASE /\ w'.phase = w.phase /\ w'.i \in w.i .. Size /\ Due(w'.i) /\ w'.pc = Work(w.phase)
           /\ w'.pc \in ItemSteps /\ <<w.b, w'.i>> \in Items
           /\ \/ item' = item
              \/ /\ ItemOnly(<<w.b, w'.i>>)
                 /\ item'[<<w.b, w'.i>>].prompt = item[<<w.b, w'.i>>].prompt
                 /\ item'[<<w.b, w'.i>>].stage = item[<<w.b, w'.i>>].stage
  <2>1. Typed' BY <1>1, <1>3 DEF Shape, Typed, ItemOnly
  <2>2. w'.i \in 1 .. Size' BY <1>1, <1>2, <1>3
  <2>3. w'.pc = IF w.phase = "prepare" THEN "prepare" ELSE IF w.phase = "frames" THEN "frame"
                ELSE IF w.phase = "videos" THEN "video" ELSE "deliver"
    BY <1>2, <1>3 DEF Work, Phases
  <2>4. w'.pc = "frame" => w'.phase = "frames" /\ w'.i \in w'.prep /\ Both(it')
    BY <1>1, <1>2, <1>3, <2>3 DEF Phases, Due, it
  <2>5. w'.pc = "video" => w'.phase = "videos" /\ w'.i \in w'.prep
    BY <1>1, <1>2, <1>3, <2>3 DEF Phases, Due
  <2>6. w'.pc = "deliver" => w'.phase = "deliver" /\ w'.i \in w'.gen
    BY <1>1, <1>2, <1>3, <2>3 DEF Phases, Due
  <2>7. w'.pc = "prepare" => w'.phase = "prepare"
    BY <1>2, <1>3, <2>3 DEF Phases
  <2>8. /\ w'.pc \in {"prepare", "frame", "video", "deliver"} /\ w'.pc \in RunSteps
        /\ w'.pc \notin PromptSteps
    BY <1>2, <1>3, <2>3, PcIs DEF PromptSteps
  <2>9. Placed'
    BY <1>1, <1>2, <1>3, <2>2, <2>4, <2>5, <2>6, <2>7, <2>8 DEF Placed, VideoSteps, DeliverySteps
  <2>10. \A y \in Items : item'[y].prompt = item[y].prompt /\ item'[y].stage = item[y].stage
    BY <1>3 DEF ItemOnly
  <2>11. Named' BY <1>1, <1>2, <2>8, <2>10, StillGrows, StaysNamed
  <2> QED BY <2>1, <2>9, <2>11 DEF Shape
<1>4. CASE /\ w'.pc \in {"verdict", "next"} /\ w'.i \in {w.i, 1} /\ w'.phase \in Phases
           /\ w'.pc = "verdict" => w'.phase = "deliver"
           /\ item' = item
  <2>1. Typed' BY <1>1, <1>4 DEF Shape, Typed
  <2>2. w'.pc \notin ItemSteps /\ w'.pc \in RunSteps
    BY <1>4 DEF RunSteps, ItemSteps, PromptSteps, VideoSteps, DeliverySteps
  <2>3. Placed' BY <1>1, <1>2, <1>4, <2>2, PcIs DEF Placed
  <2>4. w'.pc \notin PromptSteps BY <2>2, PcIs
  <2>5. Named' BY <1>1, <1>2, <1>4, <2>4, StillGrows, StaysNamed
  <2> QED BY <2>1, <2>3, <2>5 DEF Shape
<1>5. w.phase # "deliver" => NextPhase[w.phase] \in Phases BY <1>2 DEF NextPhase, Phases
<1> QED BY <1>2, <1>3, <1>4, <1>5, NextDoes

-----------------------------------------------------------------------------
(* What goes on beside the worker *)

\* Prompts end or vanish; none is added.
Ends == /\ prompts' \in Seq(PromptRows) /\ Len(prompts') = Len(prompts)
        /\ \A p \in 1 .. Len(prompts) :
             /\ prompts'[p].of = prompts[p].of /\ prompts'[p].stage = prompts[p].stage
             /\ prompts'[p].st # prompts[p].st => Live(p) \/ prompts'[p].st = "gone"
             /\ prompts'[p].st # "queued" \/ prompts[p].st = "queued"

LEMMA EndsGrow == ASSUME Shape, Ends PROVE Grows
BY DEF Shape, Typed, Ends, Grows

LEMMA StillEnds == ASSUME Shape, UNCHANGED prompts PROVE Ends
BY DEF Shape, Typed, Ends

LEMMA FiniteItems == IsFiniteSet(Items)
<1>1. \A b \in Batches : IsFiniteSet({b} \X DOMAIN Remakes[b])
  <2>1. \A b \in Batches : IsFiniteSet(DOMAIN Remakes[b]) BY ItemsAre, FS_Interval
  <2> QED BY <2>1, FS_Singleton, FS_Product
<1>2. IsFiniteSet(Batches)
  <2>1. Remakes \in Seq(Seq([scene : Nat, both : BOOLEAN])) BY RemakeAssumption
  <2>2. Batches = 1 .. Len(Remakes) /\ Len(Remakes) \in Nat BY <2>1 DEF Batches
  <2> QED BY <2>2, FS_Interval
<1> DEFINE parts == {{b} \X DOMAIN Remakes[b] : b \in Batches}
<1>3. IsFiniteSet(parts)
  <2> DEFINE f == [b \in Batches |-> {b} \X DOMAIN Remakes[b]]
  <2>1. f \in [Batches -> parts] /\ \A s \in parts : \E b \in Batches : f[b] = s OBVIOUS
  <2>2. f \in Surjection(Batches, parts) BY <2>1 DEF Surjection
  <2> QED BY <1>2, <2>2, FS_Surjection
<1>4. \A s \in parts : IsFiniteSet(s) BY <1>1
<1> QED BY <1>3, <1>4, FS_UNION DEF Items

Fresh == [state |-> "pending", prompt |-> 0, stage |-> "none"]
LEMMA CreateDoes ==
  ASSUME Shape, NEW b \in Batches, CreateRemakeBatch(b)
  PROVE  /\ batch[b].state = "none" /\ batch'[b].state = "draft"
         /\ batch' \in [Batches -> BatchRows] /\ \A c \in Batches : c # b => batch'[c] = batch[c]
         /\ item' \in [Items -> ItemRows] /\ rev' \in [Items -> Revisions]
         /\ disk' \in [Items -> Files]
         /\ \A y \in Items :
              IF y[1] # b THEN item'[y] = item[y] /\ rev'[y] = rev[y] /\ disk'[y] = disk[y]
              ELSE /\ item'[y] = Fresh
                   /\ rev'[y].state = "pending" /\ ~rev'[y].plan /\ rev'[y].number = Number(y)
                   /\ disk'[y].clip = disk[y].clip /\ disk'[y].manifest = disk[y].manifest
                   /\ disk'[y].marker = disk[y].marker
                   /\ IF Both(y) THEN disk'[y].frame = disk[y].frame ELSE disk'[y].frame = Original
         /\ UNCHANGED <<final, pipe, prompts, comfy, posted, route, gui, w, env>>
<1>1. batch[b].state = "none" /\ UNCHANGED <<final, pipe, prompts, comfy, posted, route, gui, w, env>>
  BY DEF CreateRemakeBatch
<1>2. /\ batch'[b].state = "draft"
      /\ batch' \in [Batches -> BatchRows] /\ \A c \in Batches : c # b => batch'[c] = batch[c]
  <2>1. batch' = [batch EXCEPT ![b] = [state |-> "draft", policy |-> "none"]]
    BY DEF CreateRemakeBatch
  <2>2. [state |-> "draft", policy |-> "none"] \in BatchRows BY DEF BatchRows, BatchStates
  <2> QED BY <2>1, <2>2 DEF Shape, Typed
<1>3. ASSUME NEW y \in Items PROVE Number(y) \in Nat
  <2> DEFINE S == {z \in Items : /\ Scene(z) = Scene(y)
                                 /\ \/ rev[z].state # "none"
                                    \/ z[1] = y[1] /\ z[2] < y[2]}
  <2>1. IsFiniteSet(S) BY FiniteItems, FS_Subset
  <2>2. Cardinality(S) \in Nat BY <2>1, FS_CardinalityType
  <2> QED BY <2>2 DEF Number
<1>4. /\ item' = [y \in Items |-> IF y[1] # b THEN item[y] ELSE Fresh]
      /\ rev' = [y \in Items |-> IF y[1] # b THEN rev[y]
                                ELSE [state |-> "pending", number |-> Number(y), plan |-> FALSE]]
      /\ disk' = [y \in Items |-> IF y[1] # b \/ Both(y) THEN disk[y]
                                 ELSE [disk[y] EXCEPT !.frame = Original]]
  BY DEF CreateRemakeBatch, Fresh
<1>5. Fresh \in ItemRows BY OrNone DEF Fresh, ItemRows, RowStates
<1>6. ASSUME NEW y \in Items
      PROVE  /\ item'[y] \in ItemRows /\ rev'[y] \in Revisions /\ disk'[y] \in Files
             /\ IF y[1] # b THEN item'[y] = item[y] /\ rev'[y] = rev[y] /\ disk'[y] = disk[y]
              ELSE /\ item'[y] = Fresh
                   /\ rev'[y].state = "pending" /\ ~rev'[y].plan /\ rev'[y].number = Number(y)
                   /\ disk'[y].clip = disk[y].clip /\ disk'[y].manifest = disk[y].manifest
                   /\ disk'[y].marker = disk[y].marker
                   /\ IF Both(y) THEN disk'[y].frame = disk[y].frame ELSE disk'[y].frame = Original
  <2>1. disk[y] \in Files /\ item[y] \in ItemRows /\ rev[y] \in Revisions BY DEF Shape, Typed
  <2>2. Number(y) \in Nat BY <1>3
  <2>3. CASE y[1] # b BY <1>4, <2>1, <2>3
  <2>4. CASE y[1] = b
    <3>1. item'[y] = Fresh /\ item'[y] \in ItemRows BY <1>4, <1>5, <2>4
    <3>2. rev'[y] = [state |-> "pending", number |-> Number(y), plan |-> FALSE] BY <1>4, <2>4
    <3>3. rev'[y] \in Revisions BY <2>2, <3>2 DEF Revisions, RowStates
    <3>4. disk'[y] = IF Both(y) THEN disk[y] ELSE [disk[y] EXCEPT !.frame = Original]
      BY <1>4, <2>4
    <3>5. /\ disk'[y] \in Files
          /\ disk'[y].clip = disk[y].clip /\ disk'[y].manifest = disk[y].manifest
          /\ disk'[y].marker = disk[y].marker
          /\ IF Both(y) THEN disk'[y].frame = disk[y].frame ELSE disk'[y].frame = Original
      BY <2>1, <3>4 DEF Files, Original
    <3> QED BY <2>4, <3>1, <3>2, <3>3, <3>5
  <2> QED BY <2>3, <2>4
<1>7. item' \in [Items -> ItemRows] /\ rev' \in [Items -> Revisions] /\ disk' \in [Items -> Files]
  <2>1. DOMAIN item' = Items /\ DOMAIN rev' = Items /\ DOMAIN disk' = Items BY <1>4
  <2>2. /\ item' = [y \in Items |-> item'[y]] /\ rev' = [y \in Items |-> rev'[y]]
        /\ disk' = [y \in Items |-> disk'[y]]
    BY <1>4
  <2> QED BY <1>6, <2>2
<1> QED BY <1>1, <1>2, <1>6, <1>7

LEMMA BesideShape ==
  ASSUME Shape, Typed', UNCHANGED w, Grows, DOMAIN final \subseteq DOMAIN final',
         \A b \in Batches : batch[b].state = "running" => batch'[b].state = "running",
         gui'.pc # "idle" => gui'.b \in Batches /\ gui'.policy \in {"after", "interrupt"},
         \A y \in Items :
           /\ \/ item'[y].prompt = item[y].prompt /\ item'[y].stage = item[y].stage
              \/ item'[y].prompt = 0
           /\ disk'[y].clip = disk[y].clip \/ disk'[y].clip \in 0 .. Len(prompts')
           /\ disk'[y].frame = disk[y].frame \/ disk'[y].frame \in Original .. Len(prompts')
  PROVE  Shape'
<1>1. it' = it /\ Size' = Size BY DEF it, Size
<1>2. Placed' BY <1>1 DEF Shape, Placed
<1>3. \A y \in Items : \/ item'[y].prompt = item[y].prompt /\ item'[y].stage = item[y].stage
                       \/ Names(prompts', item'[y].prompt, y, item'[y].stage)
  BY DEF Names
<1>4. w'.pc \in PromptSteps \ {"post"} => Names(prompts', w'.p, it', w'.stage)
  <2>1. w.pc \in PromptSteps \ {"post"} => Names(prompts, w.p, it, w.stage) BY DEF Shape, Named
  <2> QED BY <1>1, <2>1, NamesKept
<1>5. w'.pc \in PromptSteps \ {"history", "post"} => w'.p # 0 BY DEF Shape, Named
<1>6. Named' BY <1>3, <1>4, <1>5, StaysNamed
<1> QED BY <1>2, <1>6 DEF Shape

LEMMA GuiIs == ASSUME Shape
  PROVE gui.pc # "idle" => gui.b \in Batches /\ gui.policy \in {"after", "interrupt"}
BY DEF Shape, Placed

LEMMA CreateShape == ASSUME Shape, NEW b \in Batches, CreateRemakeBatch(b) PROVE Shape'
<1>1. /\ batch[b].state = "none"
      /\ batch' \in [Batches -> BatchRows] /\ \A c \in Batches : c # b => batch'[c] = batch[c]
      /\ item' \in [Items -> ItemRows] /\ rev' \in [Items -> Revisions]
      /\ disk' \in [Items -> Files]
      /\ \A y \in Items :
              IF y[1] # b THEN item'[y] = item[y] /\ rev'[y] = rev[y] /\ disk'[y] = disk[y]
              ELSE /\ item'[y] = Fresh
                   /\ disk'[y].clip = disk[y].clip
                   /\ IF Both(y) THEN disk'[y].frame = disk[y].frame ELSE disk'[y].frame = Original
      /\ UNCHANGED <<final, pipe, prompts, comfy, posted, route, gui, w, env>>
  BY CreateDoes
<1>2. Typed' BY <1>1 DEF Shape, Typed
<1>3. Original \in Original .. Len(prompts') BY <1>1 DEF Original, Shape, Typed
<1>4. \A y \in Items :
           /\ \/ item'[y].prompt = item[y].prompt /\ item'[y].stage = item[y].stage
              \/ item'[y].prompt = 0
           /\ disk'[y].clip = disk[y].clip
           /\ disk'[y].frame = disk[y].frame \/ disk'[y].frame \in Original .. Len(prompts')
  BY <1>1, <1>3 DEF Fresh
<1> QED BY <1>1, <1>2, <1>4, GuiIs, StillGrows, BesideShape

\* The HTTP handlers but for the creation change no row of an item and no file.
LEMMA HandlerShape ==
  ASSUME Shape, Typed', UNCHANGED <<item, disk, w>>, Grows, DOMAIN final \subseteq DOMAIN final',
         \A b \in Batches : batch[b].state = "running" => batch'[b].state = "running",
         gui'.pc # "idle" => gui'.b \in Batches /\ gui'.policy \in {"after", "interrupt"}
  PROVE  Shape'
BY BesideShape

LEMMA SubmitShape ==
  ASSUME Shape, NEW b \in Batches, NEW policy \in {"after", "interrupt"}, SubmitBatch(b, policy)
  PROVE  Shape'
<1>1. b \in Nat BY ItemsAre
<1>2. Typed' BY <1>1 DEF SubmitBatch, Shape, Typed, store
<1>3. gui'.pc # "idle" => gui'.b \in Batches /\ gui'.policy \in {"after", "interrupt"}
  BY DEF SubmitBatch
<1> QED BY <1>2, <1>3, StillGrows, HandlerShape DEF SubmitBatch, store

LEMMA AbandonShape == ASSUME Shape, AbandonCurrent PROVE Shape'
<1>1. gui \in [pc : {"idle", "abandon", "cancel", "queue"}, b : Nat,
               policy : {"none", "after", "interrupt"}] /\ gui.pc = "abandon"
  BY DEF AbandonCurrent, Shape, Typed
<1>2. gui' = [gui EXCEPT !.pc = "cancel"] \/ gui' = [gui EXCEPT !.pc = "queue"]
  BY DEF AbandonCurrent
<1>3. gui'.b = gui.b /\ gui'.policy = gui.policy
      /\ gui' \in [pc : {"idle", "abandon", "cancel", "queue"}, b : Nat,
                   policy : {"none", "after", "interrupt"}]
  BY <1>1, <1>2
<1>4. Typed' BY <1>3 DEF AbandonCurrent, Shape, Typed
<1> QED BY <1>1, <1>3, <1>4, GuiIs, StillGrows, HandlerShape DEF AbandonCurrent

LEMMA CancelledEnds ==
  ASSUME Shape, prompts' = Cancelled
  PROVE  Ends /\ \A p \in 1 .. Len(prompts) : prompts'[p].st # "queued"
<1>1. prompts \in Seq(PromptRows) /\ DOMAIN prompts = 1 .. Len(prompts) /\ Len(prompts) \in Nat
  BY DEF Shape, Typed
<1>2. ASSUME NEW p \in 1 .. Len(prompts)
      PROVE  /\ prompts'[p] \in PromptRows
             /\ prompts'[p].of = prompts[p].of /\ prompts'[p].stage = prompts[p].stage
             /\ prompts'[p].st # prompts[p].st => Live(p)
             /\ prompts'[p].st # "queued"
  <2>1. prompts[p] \in PromptRows BY <1>1
  <2>2. prompts'[p] = CASE First(p) -> [prompts[p] EXCEPT !.st = "failed"]
                        [] Live(p) /\ ~First(p) -> [prompts[p] EXCEPT !.st = "gone"]
                        [] OTHER -> prompts[p]
    BY <1>1 DEF Cancelled
  <2>3. CASE First(p)
    <3>1. prompts'[p] = [prompts[p] EXCEPT !.st = "failed"] BY <2>2, <2>3
    <3>2. Live(p) BY <2>3 DEF First
    <3> QED BY <2>1, <3>1, <3>2 DEF PromptRows
  <2>4. CASE Live(p) /\ ~First(p)
    <3>1. prompts'[p] = [prompts[p] EXCEPT !.st = "gone"] BY <2>2, <2>4
    <3> QED BY <2>1, <2>4, <3>1 DEF PromptRows
  <2>5. CASE ~Live(p)
    <3>1. prompts'[p] = prompts[p] BY <2>2, <2>5 DEF First
    <3> QED BY <2>1, <2>5, <3>1 DEF Live
  <2> QED BY <2>3, <2>4, <2>5
<1>3. prompts' = [p \in 1 .. Len(prompts) |-> prompts'[p]] BY <1>1 DEF Cancelled
<1>4. prompts' \in Seq(PromptRows) /\ Len(prompts') = Len(prompts) BY <1>1, <1>2, <1>3
<1> QED BY <1>2, <1>4 DEF Ends

LEMMA CancelShape == ASSUME Shape, CancelProjectPrompts PROVE Shape'
<1>1. gui \in [pc : {"idle", "abandon", "cancel", "queue"}, b : Nat,
               policy : {"none", "after", "interrupt"}] /\ gui.pc = "cancel"
  BY DEF CancelProjectPrompts, Shape, Typed
<1>2. gui' = [gui EXCEPT !.pc = "idle"] \/ gui' = [gui EXCEPT !.pc = "queue"]
  BY DEF CancelProjectPrompts
<1>3. gui'.b = gui.b /\ gui'.policy = gui.policy
      /\ gui' \in [pc : {"idle", "abandon", "cancel", "queue"}, b : Nat,
                   policy : {"none", "after", "interrupt"}]
  BY <1>1, <1>2
<1>4. Grows BY CancelledEnds, EndsGrow, StillGrows DEF CancelProjectPrompts
<1>5. Typed' BY <1>3, <1>4 DEF CancelProjectPrompts, Shape, Typed, store, Grows
<1> QED BY <1>1, <1>3, <1>4, <1>5, GuiIs, HandlerShape DEF CancelProjectPrompts, store

LEMMA QueueBatchDoes ==
  ASSUME Shape, QueueRemakeBatch
  PROVE  /\ batch' \in [Batches -> BatchRows] /\ gui'.pc = "idle"
         /\ \A b \in Batches : \/ batch'[b] = batch[b]
                               \/ batch[b].state = "draft" /\ batch'[b].state = "queued"
         /\ UNCHANGED <<item, rev, disk, final, pipe, prompts, comfy, posted, route, w, env>>
<1>1. gui.b \in Batches /\ gui.policy \in {"after", "interrupt"}
  BY GuiIs DEF QueueRemakeBatch
<1> DEFINE r == [state |-> "queued", policy |-> gui.policy]
<1>2. r \in BatchRows /\ r.state = "queued" BY <1>1 DEF BatchRows, BatchStates
<1>3. (batch' = [batch EXCEPT ![gui.b] = r] /\ batch[gui.b].state = "draft") \/ batch' = batch
  BY DEF QueueRemakeBatch
<1> HIDE DEF r
<1>4. batch' \in [Batches -> BatchRows]
      /\ \A b \in Batches : \/ batch'[b] = batch[b]
                            \/ batch[b].state = "draft" /\ batch'[b].state = "queued"
  BY <1>1, <1>2, <1>3 DEF Shape, Typed
<1>5. gui' = [gui EXCEPT !.pc = "idle"] BY DEF QueueRemakeBatch
<1>6. gui'.pc = "idle" BY <1>5 DEF Shape, Typed
<1> QED BY <1>4, <1>6 DEF QueueRemakeBatch

LEMMA QueueBatchShape == ASSUME Shape, QueueRemakeBatch PROVE Shape'
<1>1. gui' = [gui EXCEPT !.pc = "idle"] BY DEF QueueRemakeBatch
<1>2. gui' \in [pc : {"idle", "abandon", "cancel", "queue"}, b : Nat,
                policy : {"none", "after", "interrupt"}]
  BY <1>1 DEF Shape, Typed
<1>3. Typed' BY <1>2, QueueBatchDoes DEF Shape, Typed
<1>4. \A b \in Batches : batch[b].state = "running" => batch'[b].state = "running"
  BY QueueBatchDoes
<1> QED BY <1>3, <1>4, StillGrows, QueueBatchDoes, HandlerShape

\* A finite set of revisions has a newest one.
LEMMA NewestIs ==
  ASSUME Shape, NEW S \in SUBSET Items, S # {}
  PROVE  Newest(S) \in S /\ \A z \in S : rev[z].number <= rev[Newest(S)].number
<1>1. \A z \in Items : rev[z].number \in Nat BY DEF Shape, Typed, Revisions
<1>2. IsFiniteSet(S) BY FiniteItems, FS_Subset
<1> DEFINE U(y) == {z \in S : rev[z].number > rev[y].number}
<1>3. \A y \in S : IsFiniteSet(U(y)) /\ Cardinality(U(y)) \in Nat
  BY <1>2, FS_Subset, FS_CardinalityType
<1> DEFINE sizes == {Cardinality(U(y)) : y \in S}
<1>4. sizes \in SUBSET Nat /\ sizes # {} BY <1>3
<1>5. PICK n \in sizes : \A m \in sizes : n <= m
  <2> HIDE DEF sizes
  <2> QED BY <1>4, LeastElement
<1>6. PICK y \in S : n = Cardinality(U(y)) BY <1>5
<1>7. ASSUME NEW z \in S, ~(rev[z].number <= rev[y].number) PROVE FALSE
  <2>1. rev[z].number \in Nat /\ rev[y].number \in Nat BY <1>1
  <2>2. U(z) \subseteq U(y) /\ z \in U(y) /\ z \notin U(z) BY <1>1, <1>7, <2>1
  <2>3. Cardinality(U(z)) \in Nat /\ Cardinality(U(y)) \in Nat /\ IsFiniteSet(U(y)) BY <1>3
  <2>4. Cardinality(U(z)) \in sizes OBVIOUS
  <2>5. n <= Cardinality(U(z)) BY <1>5, <2>4
  <2> HIDE DEF U, sizes
  <2>6. Cardinality(U(z)) <= Cardinality(U(y)) /\ Cardinality(U(z)) # Cardinality(U(y))
    BY <2>2, <2>3, FS_Subset
  <2> QED BY <1>6, <2>3, <2>5, <2>6
<1>8. \A z \in S : rev[z].number <= rev[y].number BY <1>7
<1> QED BY <1>8 DEF Newest

LEMMA SelectedIs ==
  ASSUME Shape, NEW i \in Scenes
  PROVE  \/ Selected(i) = [of |-> <<0, i>>, clip |-> Original]
         \/ \E y \in Items : /\ rev[y].state = "succeeded"
                             /\ Selected(i) = [of |-> y, clip |-> disk[y].clip]
<1>1. CASE Succeeded(i) = {} BY <1>1 DEF Selected
<1>2. CASE Succeeded(i) # {}
  <2>1. Succeeded(i) \in SUBSET Items BY DEF Succeeded
  <2> DEFINE y == Newest(Succeeded(i))
  <2>2. y \in Succeeded(i) BY <1>2, <2>1, NewestIs
  <2>3. Selected(i) = [of |-> y, clip |-> disk[y].clip] BY <1>2 DEF Selected
  <2> HIDE DEF y
  <2> QED BY <2>2, <2>3 DEF Succeeded
<1> QED BY <1>1, <1>2

\* The selection of a request is drawn from succeeded revisions and the originals.
Chosen(s, i) == \/ s = [of |-> <<0, i>>, clip |-> Original]
                \/ \E y \in Items : /\ rev[y].state = "succeeded" /\ disk[y].clip # 0
                                    /\ s = [of |-> y, clip |-> disk[y].clip]
LEMMA QueueFinalDoes ==
  ASSUME Shape, QueueManualFinal
  PROVE  /\ final' \in Seq(Finals) /\ Len(final') = Len(final) + 1
         /\ \A k \in 1 .. Len(final) : final'[k] = final[k]
         /\ final'[Len(final) + 1].state = "queued"
         /\ \A i \in Scenes : Chosen(final'[Len(final) + 1].sel[i], i)
         /\ UNCHANGED <<batch, item, rev, pipe, disk, prompts, comfy, posted, route, gui, w, env>>
<1> DEFINE sel == [i \in Scenes |-> Selected(i)]
<1> DEFINE f == [state |-> "queued", out |-> <<>>, sel |-> sel]
<1>1. ASSUME NEW i \in Scenes PROVE sel[i] \in Choices /\ Chosen(sel[i], i)
  <2>1. Selected(i).clip # 0 BY DEF QueueManualFinal
  <2>2. CASE Selected(i) = [of |-> <<0, i>>, clip |-> Original]
    BY <2>2 DEF Choices, Original, Chosen
  <2>3. CASE \E y \in Items : /\ rev[y].state = "succeeded"
                              /\ Selected(i) = [of |-> y, clip |-> disk[y].clip]
    <3>1. PICK y \in Items : /\ rev[y].state = "succeeded"
                             /\ Selected(i) = [of |-> y, clip |-> disk[y].clip]
      BY <2>3
    <3>2. disk[y].clip \in Nat BY DEF Shape, Typed, Files
    <3>3. disk[y].clip # 0 BY <2>1, <3>1
    <3> QED BY <3>1, <3>2, <3>3 DEF Choices, Chosen
  <2> QED BY <2>2, <2>3, SelectedIs
<1>2. sel \in [Scenes -> Choices] BY <1>1
<1>3. final' = Append(final, f) BY DEF QueueManualFinal
<1>4. f.sel = sel /\ f.state = "queued" OBVIOUS
<1> HIDE DEF sel
<1>5. f \in Finals BY <1>2 DEF Finals
<1> HIDE DEF f
<1>6. /\ final' \in Seq(Finals) /\ Len(final') = Len(final) + 1 /\ final'[Len(final) + 1] = f
      /\ \A k \in 1 .. Len(final) : final'[k] = final[k]
  BY <1>3, <1>5 DEF Shape, Typed
<1> QED BY <1>1, <1>4, <1>6 DEF QueueManualFinal

LEMMA QueueFinalShape == ASSUME Shape, QueueManualFinal PROVE Shape'
<1>1. /\ final' \in Seq(Finals) /\ Len(final') = Len(final) + 1
      /\ UNCHANGED <<batch, item, rev, pipe, disk, prompts, comfy, posted, route, gui, w, env>>
  BY QueueFinalDoes
<1>2. Typed' BY <1>1 DEF Shape, Typed
<1>3. DOMAIN final \subseteq DOMAIN final'
  <2>1. Len(final) \in Nat /\ DOMAIN final = 1 .. Len(final) /\ DOMAIN final' = 1 .. Len(final')
    BY <1>1 DEF Shape, Typed
  <2> QED BY <1>1, <2>1
<1> QED BY <1>1, <1>2, <1>3, GuiIs, StillGrows, HandlerShape

\* The prompt that runs ends, with a frame or a clip or without.
LEMMA RunPromptDoes ==
  ASSUME Shape, RunPrompt
  PROVE  /\ comfy /\ UNCHANGED <<store, comfy, posted, route, gui, w>>
         /\ Ends
         /\ \E p \in 1 .. Len(prompts) :
              /\ First(p) /\ prompts[p].of \in Items
              /\ \A q \in 1 .. Len(prompts) : q # p => prompts'[q] = prompts[q]
              /\ \/ /\ prompts'[p].st = "done" /\ UNCHANGED env
                    /\ \/ prompts[p].stage # "t2i" /\ UNCHANGED disk
                       \/ /\ prompts[p].stage = "t2i" /\ DiskOnly(prompts[p].of)
                          /\ disk'[prompts[p].of].frame = p
                          /\ disk'[prompts[p].of].clip = disk[prompts[p].of].clip
                          /\ disk'[prompts[p].of].manifest = disk[prompts[p].of].manifest
                          /\ disk'[prompts[p].of].marker = disk[prompts[p].of].marker
                 \/ /\ prompts'[p].st = "failed" /\ UNCHANGED disk /\ env.faults < MaxFaults
                    /\ env' = [env EXCEPT !.faults = env.faults + 1]
<1>1. comfy /\ UNCHANGED <<store, comfy, posted, route, gui, w>> BY DEF RunPrompt
<1>2. PICK p \in DOMAIN prompts :
        /\ First(p)
        /\ \/ /\ Finish(p, "done")
              /\ disk' = IF prompts[p].stage = "t2i"
                         THEN [disk EXCEPT ![prompts[p].of].frame = p] ELSE disk
              /\ UNCHANGED env
           \/ Finish(p, "failed") /\ Spend("prompt") /\ UNCHANGED disk
  BY DEF RunPrompt
<1>3. prompts \in Seq(PromptRows) /\ DOMAIN prompts = 1 .. Len(prompts) /\ Len(prompts) \in Nat
  BY DEF Shape, Typed
<1>4. prompts[p] \in PromptRows /\ p \in Nat /\ p \in Int BY <1>2, <1>3
<1> DEFINE y == prompts[p].of
<1>5. y \in Items /\ Live(p) BY <1>2, <1>4 DEF PromptRows, First
<1>6. ASSUME NEW st \in {"done", "failed"}, Finish(p, st)
      PROVE  /\ Ends /\ prompts'[p].st = st
             /\ \A q \in 1 .. Len(prompts) : q # p => prompts'[q] = prompts[q]
  <2> DEFINE r == [prompts[p] EXCEPT !.st = st]
  <2>1. r \in PromptRows /\ r.st = st /\ r.of = prompts[p].of /\ r.stage = prompts[p].stage
    BY <1>4 DEF PromptRows
  <2>2. prompts' = [prompts EXCEPT ![p] = r] BY <1>6 DEF Finish
  <2> HIDE DEF r
  <2>3. /\ prompts' \in Seq(PromptRows) /\ Len(prompts') = Len(prompts) /\ prompts'[p] = r
        /\ \A q \in 1 .. Len(prompts) : q # p => prompts'[q] = prompts[q]
    BY <1>2, <1>3, <2>1, <2>2
  <2>4. Ends BY <1>5, <2>1, <2>3 DEF Ends, Live
  <2> QED BY <2>1, <2>3, <2>4
<1>7. CASE Finish(p, "failed") /\ Spend("prompt") /\ UNCHANGED disk
  BY <1>1, <1>2, <1>3, <1>5, <1>6, <1>7 DEF Spend
<1>8. CASE Finish(p, "done") /\ prompts[p].stage # "t2i" /\ UNCHANGED <<disk, env>>
  BY <1>1, <1>2, <1>3, <1>5, <1>6, <1>8
<1>9. CASE /\ Finish(p, "done") /\ prompts[p].stage = "t2i" /\ UNCHANGED env
           /\ disk' = [disk EXCEPT ![y].frame = p]
  <2>1. /\ DiskOnly(y) /\ disk'[y].frame = p /\ disk'[y].clip = disk[y].clip
        /\ disk'[y].manifest = disk[y].manifest /\ disk'[y].marker = disk[y].marker
    <3>1. y \in Items /\ disk' = [disk EXCEPT ![y].frame = p] BY <1>5, <1>9
    <3> HIDE DEF y
    <3> QED BY <1>4, <3>1, DiskFrame DEF Shape
  <2> QED BY <1>1, <1>2, <1>3, <1>5, <1>6, <1>9, <2>1
<1> QED BY <1>2, <1>7, <1>8, <1>9

LEMMA RunPromptShape == ASSUME Shape, RunPrompt PROVE Shape'
<1>1. Ends /\ Grows /\ UNCHANGED <<batch, item, rev, final, pipe, comfy, posted, route, gui, w>>
  BY RunPromptDoes, EndsGrow DEF store
<1>2. PICK p \in 1 .. Len(prompts) :
        /\ prompts[p].of \in Items
        /\ \/ /\ UNCHANGED env
              /\ \/ UNCHANGED disk
                 \/ /\ DiskOnly(prompts[p].of) /\ disk'[prompts[p].of].frame = p
                    /\ disk'[prompts[p].of].clip = disk[prompts[p].of].clip
           \/ /\ UNCHANGED disk /\ env.faults < MaxFaults
              /\ env' = [env EXCEPT !.faults = env.faults + 1]
  BY RunPromptDoes
<1>3. env' \in EnvRows BY <1>2, EnvFault DEF Shape, Typed, EnvRows
<1>4. Typed' BY <1>1, <1>2, <1>3 DEF Shape, Typed, EnvRows, Grows, DiskOnly
<1>5. p \in Original .. Len(prompts')
  <2>1. p \in Nat /\ Len(prompts) \in Nat /\ p <= Len(prompts) BY DEF Shape, Typed
  <2> QED BY <1>1, <2>1 DEF Ends, Original
<1>6. \A y \in Items :
        /\ disk'[y].clip = disk[y].clip
        /\ disk'[y].frame = disk[y].frame \/ disk'[y].frame \in Original .. Len(prompts')
  BY <1>2, <1>5 DEF DiskOnly
<1> QED BY <1>1, <1>4, <1>6, GuiIs, BesideShape

LEMMA ComfyDiesDoes ==
  ASSUME Shape, ComfyDies
  PROVE  /\ comfy /\ ~comfy' /\ UNCHANGED <<store, disk, posted, route, gui, w>> /\ Ends
         /\ \A p \in 1 .. Len(prompts) : prompts'[p].st = "gone"
         /\ env.faults < MaxFaults /\ env' = [env EXCEPT !.faults = env.faults + 1]
<1>1. /\ comfy /\ ~comfy' /\ UNCHANGED <<store, disk, posted, route, gui, w>>
      /\ env.faults < MaxFaults /\ env' = [env EXCEPT !.faults = env.faults + 1]
  BY DEF ComfyDies, Spend
<1>2. prompts \in Seq(PromptRows) /\ DOMAIN prompts = 1 .. Len(prompts) /\ Len(prompts) \in Nat
  BY DEF Shape, Typed
<1>3. prompts' = [p \in 1 .. Len(prompts) |-> [prompts[p] EXCEPT !.st = "gone"]]
  BY <1>2 DEF ComfyDies
<1>4. ASSUME NEW p \in 1 .. Len(prompts)
      PROVE  /\ prompts'[p] \in PromptRows /\ prompts'[p].st = "gone"
             /\ prompts'[p].of = prompts[p].of /\ prompts'[p].stage = prompts[p].stage
  <2>1. prompts[p] \in PromptRows BY <1>2
  <2>2. prompts'[p] = [prompts[p] EXCEPT !.st = "gone"] BY <1>3
  <2> QED BY <2>1, <2>2 DEF PromptRows
<1>5. prompts' \in Seq(PromptRows) /\ Len(prompts') = Len(prompts) BY <1>2, <1>3, <1>4
<1>6. Ends BY <1>4, <1>5 DEF Ends
<1> QED BY <1>1, <1>4, <1>6

LEMMA ComfyDiesShape == ASSUME Shape, ComfyDies PROVE Shape'
<1>1. /\ Ends /\ Grows /\ comfy' \in BOOLEAN
      /\ UNCHANGED <<batch, item, rev, final, pipe, disk, posted, route, gui, w>>
  BY ComfyDiesDoes, EndsGrow DEF store, ComfyDies
<1>2. env' \in EnvRows BY ComfyDiesDoes, EnvFault
<1>3. Typed' BY <1>1, <1>2 DEF Shape, Typed, EnvRows, Grows
<1> QED BY <1>1, <1>3, GuiIs, HandlerShape

LEMMA CrashDoes ==
  ASSUME Shape, Crash
  PROVE  /\ w.pc # "down" /\ w' = Idle("down") /\ gui'.pc = "idle"
         /\ gui' \in [pc : {"idle", "abandon", "cancel", "queue"}, b : Nat,
                      policy : {"none", "after", "interrupt"}]
         /\ env' \in EnvRows /\ env'.lost = (env.lost \/ w.pc = "own") /\ env'.unseen = env.unseen
         /\ UNCHANGED <<batch, item, rev, final, pipe, disk, prompts, comfy, posted, route>>
<1>1. env.faults < MaxFaults /\ env' = [env EXCEPT !.faults = env.faults + 1, !.lost = env.lost \/ w.pc = "own"]
  BY DEF Crash, At
<1>2. env \in EnvRows BY DEF Shape, Typed, EnvRows
<1>3. env.faults + 1 \in 0 .. MaxFaults BY <1>1, <1>2, RemakeAssumption DEF EnvRows
<1>4. env.lost \in BOOLEAN /\ (env.lost \/ w.pc = "own") \in BOOLEAN BY <1>2 DEF EnvRows
<1> DEFINE l == env.lost \/ w.pc = "own"
<1>5. env' = [env EXCEPT !.faults = env.faults + 1, !.lost = l] /\ l \in BOOLEAN BY <1>1, <1>4
<1> HIDE DEF l
<1>6. env' \in EnvRows /\ env'.lost = l /\ env'.unseen = env.unseen BY <1>2, <1>3, <1>5 DEF EnvRows
<1>7. gui' = [gui EXCEPT !.pc = "idle"] BY DEF Crash
<1>8. gui'.pc = "idle"
      /\ gui' \in [pc : {"idle", "abandon", "cancel", "queue"}, b : Nat,
                   policy : {"none", "after", "interrupt"}]
  BY <1>7 DEF Shape, Typed
<1> QED BY <1>6, <1>8 DEF Crash, At, store, l

LEMMA CrashShape == ASSUME Shape, Crash PROVE Shape'
<1>1. w' \in WorkerStates BY CrashDoes, IdleIs, IdleDoes
<1>2. Typed' BY <1>1, CrashDoes DEF Shape, Typed, EnvRows
<1> QED BY <1>2, CrashDoes, IdleIs, StillGrows, AwayShape

LEMMA BootDoes ==
  ASSUME Shape, Boot
  PROVE  /\ w.pc = "down" /\ w' = Idle("idle") /\ Recovered /\ comfy' = TRUE /\ route' \in Routes
         /\ UNCHANGED <<final, pipe, disk, prompts, posted, gui, env>>
<1>1. route' \in Routes
  <2>1. CASE "setting" \in Faults BY <2>1 DEF Boot, Routes
  <2>2. CASE "setting" \notin Faults BY <2>2 DEF Boot, Shape, Typed
  <2> QED BY <2>1, <2>2
<1> QED BY <1>1 DEF Boot, At

LEMMA BootShape == ASSUME Shape, Boot PROVE Shape'
<1>1. w' \in WorkerStates BY BootDoes, IdleIs, IdleDoes
<1>2. Typed' BY <1>1, BootDoes, RecoveredDoes DEF Shape, Typed
<1> QED BY <1>2, BootDoes, GuiIs, IdleIs, StillGrows, RecoveredNames, AwayShape

LEMMA DamageDoes ==
  ASSUME Shape, Damage
  PROVE  /\ w.pc \in {"down", "idle"}
         /\ UNCHANGED <<store, prompts, comfy, posted, route, gui, w>>
         /\ env.faults < MaxFaults /\ env' = [env EXCEPT !.faults = env.faults + 1]
         /\ \E y \in Items :
              /\ DiskOnly(y) /\ disk'[y].manifest = disk[y].manifest
              /\ disk'[y].marker = disk[y].marker
              /\ \/ disk[y].frame # 0 /\ disk'[y].frame = 0 /\ disk'[y].clip = disk[y].clip
                 \/ disk[y].clip # 0 /\ disk'[y].clip = 0 /\ disk'[y].frame = disk[y].frame
<1>1. PICK y \in Items : \/ disk[y].frame # 0 /\ disk' = [disk EXCEPT ![y].frame = 0]
                         \/ disk[y].clip # 0 /\ disk' = [disk EXCEPT ![y].clip = 0]
  BY DEF Damage
<1>2. CASE disk[y].frame # 0 /\ disk' = [disk EXCEPT ![y].frame = 0]
  <2>1. /\ DiskOnly(y) /\ disk'[y].frame = 0 /\ disk'[y].clip = disk[y].clip
        /\ disk'[y].manifest = disk[y].manifest /\ disk'[y].marker = disk[y].marker
    <3>1. 0 \in Int OBVIOUS
    <3> QED BY <1>2, <3>1, DiskFrame, Zenon DEF Shape
  <2> QED BY <1>2, <2>1 DEF Damage, Spend
<1>3. CASE disk[y].clip # 0 /\ disk' = [disk EXCEPT ![y].clip = 0]
  <2>1. /\ DiskOnly(y) /\ disk'[y].clip = 0 /\ disk'[y].frame = disk[y].frame
        /\ disk'[y].manifest = disk[y].manifest /\ disk'[y].marker = disk[y].marker
    BY <1>3, DiskClip DEF Shape
  <2> QED BY <1>3, <2>1 DEF Damage, Spend
<1> QED BY <1>1, <1>2, <1>3

LEMMA DamageShape == ASSUME Shape, Damage PROVE Shape'
<1>1. UNCHANGED <<batch, item, rev, final, pipe, prompts, comfy, posted, route, gui, w>>
  BY DamageDoes DEF store
<1>2. env' \in EnvRows BY DamageDoes, EnvFault
<1>3. PICK y \in Items :
        /\ DiskOnly(y)
        /\ disk'[y].frame \in {disk[y].frame, 0} /\ disk'[y].clip \in {disk[y].clip, 0}
  BY DamageDoes
<1>4. Typed' BY <1>1, <1>2, <1>3 DEF Shape, Typed, EnvRows, DiskOnly
<1>5. 0 \in Original .. Len(prompts') /\ 0 \in 0 .. Len(prompts')
  BY <1>1 DEF Shape, Typed, Original
<1>6. \A z \in Items :
           /\ disk'[z].clip = disk[z].clip \/ disk'[z].clip \in 0 .. Len(prompts')
           /\ disk'[z].frame = disk[z].frame \/ disk'[z].frame \in Original .. Len(prompts')
  BY <1>3, <1>5 DEF DiskOnly
<1> QED BY <1>1, <1>4, <1>6, GuiIs, StillGrows, BesideShape

LEMMA InitShape == ASSUME Init PROVE Shape
<1>1. /\ \A b \in Batches : batch[b].state = "none" /\ batch[b].policy = "none"
      /\ batch \in [Batches -> BatchRows]
  BY DEF Init, BatchRows, BatchStates
<1>2. item \in [Items -> ItemRows] /\ \A y \in Items : item[y].prompt = 0
  BY OrNone DEF Init, ItemRows, RowStates
<1>3. rev \in [Items -> Revisions] BY DEF Init, Revisions, RowStates
<1>4. disk \in [Items -> Files] /\ \A y \in Items : disk[y].frame = 0 /\ disk[y].clip = 0
  <2> DEFINE d == [frame |-> 0, clip |-> 0, manifest |-> NoManifest,
                   marker |-> [st |-> "none", clip |-> 0]]
  <2>1. NoManifest \in Manifests BY OrNone DEF NoManifest, Manifests
  <2>2. d \in Files BY <2>1 DEF Files, Markers
  <2>3. disk = [y \in Items |-> d] BY DEF Init
  <2>4. d.frame = 0 /\ d.clip = 0 OBVIOUS
  <2> HIDE DEF d
  <2> QED BY <2>2, <2>3, <2>4
<1>5. w = Idle("idle") /\ w \in WorkerStates /\ w.pc = "idle" /\ w.gen = {} /\ w.prep = {}
  BY IdleIs, IdleDoes DEF Init
<1>6. final = <<>> /\ prompts = <<>> /\ posted = <<>> /\ Len(prompts) = 0 BY DEF Init
<1>7. env \in EnvRows BY RemakeAssumption DEF Init, EnvRows
<1>8. final \in Seq(Finals) /\ prompts \in Seq(PromptRows) /\ posted \in Seq(Items \X Nat)
  BY <1>6
<1>9. gui \in [pc : {"idle", "abandon", "cancel", "queue"}, b : Nat,
               policy : {"none", "after", "interrupt"}] /\ gui.pc = "idle"
  BY DEF Init
<1>10. pipe = "free" /\ comfy \in BOOLEAN /\ route \in Routes BY DEF Init, Routes
<1>11. Typed BY <1>1, <1>2, <1>3, <1>4, <1>5, <1>7, <1>8, <1>9, <1>10 DEF Typed, EnvRows
<1>12. w.pc \notin RunSteps /\ w.pc \notin PromptSteps /\ w.pc \notin DeliverySteps
       /\ w.pc \notin VideoSteps /\ w.pc \notin {"frame", "prepare", "verdict", "bind", "stitch"}
  BY <1>5 DEF RunSteps, ItemSteps, PromptSteps, DeliverySteps, VideoSteps
<1>13. Placed BY <1>5, <1>9, <1>12 DEF Placed
<1>14. Named BY <1>2, <1>4, <1>6, <1>12 DEF Named, Names, Original
<1> QED BY <1>11, <1>13, <1>14 DEF Shape

LEMMA SameShape == ASSUME Shape, UNCHANGED vars PROVE Shape'
BY SMTT(30) DEF Shape, Typed, Placed, Named, Names, vars, it, Size

LEMMA NextKeepsShape == ASSUME Shape, Next PROVE Shape'
<1>1. CASE Http BY <1>1, CreateShape, SubmitShape, AbandonShape, CancelShape, QueueBatchShape,
                   QueueFinalShape DEF Http
<1>2. CASE Worker
  BY <1>2, StartFinalShape, StitchShape, StartBatchShape, TickShape, JobEndsShape, NextShape,
     PrepareShape, MarkItemShape, MarkRevisionShape, FrameShape, VideoShape, HistoryShape,
     ReadQueueShape, QueuePromptShape, OwnShape, WaitShape, GotShape, BindShape, DeliverShape,
     SendShape, AnswerShape, ExposeShape, SettleShape, EndBatchShape, FatalShape, RecoverShape
     DEF Worker
<1> QED BY <1>1, <1>2, RunPromptShape, ComfyDiesShape, CrashShape, BootShape, DamageShape DEF Next

\* Every variable keeps its type, the worker of gui_service.py is only where its local state
\* allows, and a prompt id in a row or in its hand names a prompt of that item and stage.
THEOREM InShape == Spec => []Shape
<1>1. Shape /\ UNCHANGED vars => Shape' BY SameShape
<1>2. Shape /\ [Next]_vars => Shape' BY <1>1, NextKeepsShape
<1> QED BY <1>2, InitShape, PTL DEF Spec

-----------------------------------------------------------------------------
(* The rows agree *)

Agree == RowsOK /\ HandOK
SameStates == /\ \A b \in Batches : batch'[b].state = batch[b].state
              /\ \A y \in Items : item'[y].state = item[y].state /\ rev'[y].state = rev[y].state

LEMMA RowsStay == ASSUME RowsOK, SameStates PROVE RowsOK'
<1>1. \A y \in Items : y[1] \in Batches BY ItemsAre
<1> QED BY <1>1 DEF RowsOK, SameStates

\* An item beside the one in hand.
Apart(i) == /\ item'[<<w.b, i>>].state = item[<<w.b, i>>].state
            /\ rev'[<<w.b, i>>].state = rev[<<w.b, i>>].state
            /\ i \in w'.prep <=> i \in w.prep
            /\ i \in w'.gen <=> i \in w.gen

LEMMA NotNext == "next" \notin ItemSteps /\ "verdict" \notin ItemSteps
BY DEF ItemSteps, PromptSteps, VideoSteps, DeliverySteps

LEMMA StandApart ==
  ASSUME Shape, w.pc \in ItemSteps, SameRun, NEW i \in 1 .. Size, i # w.i, Stand(i), Apart(i),
         \/ w'.pc \in ItemSteps /\ w'.i = w.i
         \/ w'.pc = "next" /\ w'.i = w.i + 1
  PROVE  Stand(i)'
<1>1. i \in Nat /\ w.i \in Nat /\ w.pc # "next" /\ w.pc # "verdict" /\ w'.pc # "verdict"
  <2>1. w.i \in 1 .. Size /\ Size \in Nat BY HandIs
  <2> QED BY <2>1, NotNext
<1>2. Ahead(i)' <=> Ahead(i)
  <2>1. CASE w'.pc \in ItemSteps /\ w'.i = w.i BY <1>1, <2>1, NotNext DEF Ahead
  <2>2. CASE w'.pc = "next" /\ w'.i = w.i + 1 BY <1>1, <2>2 DEF Ahead
  <2> QED BY <2>1, <2>2
<1>3. ~Held(i) /\ ~Held(i)' BY <1>1, NotNext DEF Held
<1>4. w'.b = w.b /\ w'.phase = w.phase /\ w'.rows = w.rows BY DEF SameRun
<1> HIDE DEF Ahead, Held
<1> QED BY <1>1, <1>2, <1>3, <1>4 DEF Stand, Apart, Row, Done

LEMMA HandHolds ==
  ASSUME Shape, HandOK, w.pc \in ItemSteps, w'.pc \in ItemSteps, SameHand,
         \A i \in 1 .. Size : IF i = w.i THEN Stand(i)' ELSE Apart(i),
         item'[it].state = IF w'.pc = "markrev" THEN "failed" ELSE "running",
         w'.pc = "settle" => rev'[it].state = "succeeded"
  PROVE  HandOK'
<1>1. w.pc \in RunSteps /\ it' = it /\ Size' = Size /\ SameRun /\ w'.i = w.i BY HandIs, SameIt DEF SameHand
<1>2. \A i \in 1 .. Size : Stand(i) BY <1>1 DEF HandOK
<1>3. ASSUME NEW i \in 1 .. Size PROVE Stand(i)'
  <2>1. CASE i = w.i BY <2>1
  <2>2. CASE i # w.i BY <1>1, <1>2, <2>2, StandApart
  <2> QED BY <2>1, <2>2
<1>4. Row(w.i)' = item'[it] BY <1>1 DEF Row, it
<1> QED BY <1>1, <1>3, <1>4 DEF HandOK

LEMMA HandLeaves ==
  ASSUME Shape, HandOK, w.pc \in ItemSteps, w'.pc = "next", w'.i = w.i + 1, SameRun,
         \A i \in 1 .. Size : IF i = w.i THEN Stand(i)' ELSE Apart(i)
  PROVE  HandOK'
<1>1. w.pc \in RunSteps BY HandIs
<1>2. Size' = Size BY DEF SameRun, Size
<1>3. \A i \in 1 .. Size : Stand(i) BY <1>1 DEF HandOK
<1>4. ASSUME NEW i \in 1 .. Size PROVE Stand(i)'
  <2>1. CASE i = w.i BY <2>1
  <2>2. CASE i # w.i BY <1>1, <1>3, <2>2, StandApart
  <2> QED BY <2>1, <2>2
<1> QED BY <1>2, <1>4, NotNext DEF HandOK

\* The item in hand, before and after a step that keeps it.
LEMMA HeldStand ==
  ASSUME Shape, HandOK, w.pc \in ItemSteps
  PROVE  /\ Stand(w.i) /\ ~Ahead(w.i) /\ Held(w.i) /\ Row(w.i) = item[it]
         /\ item[it].state = IF w.pc = "markrev" THEN "failed" ELSE "running"
         /\ rev[it].state = "succeeded" /\ item[it].state = "running" => w.pc = "settle"
         /\ w.i \in 1 .. Size /\ w.i \in Nat
<1>1. w.pc \in RunSteps /\ w.i \in 1 .. Size /\ Size \in Nat BY HandIs
<1>2. Row(w.i) = item[it] BY DEF Row, it
<1>3. ~Ahead(w.i) /\ Held(w.i) BY <1>1, NotNext DEF Ahead, Held
<1>4. Stand(w.i) BY <1>1 DEF HandOK
<1> QED BY <1>1, <1>2, <1>3, <1>4 DEF HandOK, Stand, it

LEMMA HandSame ==
  ASSUME Shape, HandOK, w.pc \in ItemSteps, SameHand, SameStates,
         w.pc \notin {"markrev", "settle"}, w'.pc \notin {"markrev", "settle"},
         w'.pc \notin RunSteps \/ w'.pc \in ItemSteps
  PROVE  HandOK'
<1>1. CASE w'.pc \notin RunSteps BY <1>1 DEF HandOK
<1>2. CASE w'.pc \in ItemSteps
  <2>1. Size' = Size /\ it' = it /\ SameRun /\ SameSets /\ w'.i = w.i BY SameIt DEF SameHand
  <2>2. w.b \in Batches /\ it \in Items /\ \A i \in 1 .. Size : <<w.b, i>> \in Items
    BY HandIs, ItemsAre DEF Size
  <2>3. \A i \in 1 .. Size : Apart(i) BY <2>1, <2>2 DEF SameStates, SameSets, Apart
  <2>4. Stand(w.i) /\ ~Ahead(w.i) /\ Held(w.i) /\ item[it].state = "running" /\ w.i \in Nat
    BY HeldStand
  <2>5. ~Ahead(w.i)' /\ Held(w.i)' BY <1>2, <2>1, <2>4, NotNext DEF Ahead, Held
  <2>6. ASSUME NEW i \in 1 .. Size, i = w.i PROVE Stand(i)'
    <3>1. w'.b = w.b /\ w'.phase = w.phase /\ w'.rows = w.rows BY <2>1 DEF SameRun
    <3>2. Stand(i) /\ ~Ahead(i) /\ Held(i) /\ ~Ahead(i)' /\ Held(i)' /\ Apart(i)
      BY <2>1, <2>3, <2>4, <2>5, <2>6
    <3>3. w.pc # "verdict" /\ w'.pc # "verdict" BY <1>2, NotNext
    <3> HIDE DEF Ahead, Held
    <3> QED BY <3>1, <3>2, <3>3 DEF Stand, Apart, Row, Done
  <2>7. item'[it].state = "running" BY <2>2, <2>4 DEF SameStates
  <2> QED BY <1>2, <2>3, <2>6, <2>7, HandHolds
<1> QED BY <1>1, <1>2

LEMMA AgreeSame ==
  ASSUME Shape, Agree, w.pc \in ItemSteps, SameHand, SameStates,
         w.pc \notin {"markrev", "settle"}, w'.pc \notin {"markrev", "settle"},
         w'.pc \notin RunSteps \/ w'.pc \in ItemSteps
  PROVE  Agree'
BY RowsStay, HandSame DEF Agree

LEMMA AgreeAway ==
  ASSUME Agree, SameStates, w'.pc \notin RunSteps PROVE Agree'
BY RowsStay DEF Agree, HandOK

\* A frame is there, and the worker goes on.
LEMMA AgreePasses ==
  ASSUME Shape, Agree, w.pc \in ItemSteps, Skipped, SameStates, w.phase = "frames", w.i \in w.prep,
         w.pc # "settle", w.pc # "markrev"
  PROVE  Agree'
<1>1. w'.pc = "next" /\ w'.i = w.i + 1 /\ SameRun /\ SameSets BY HandIs, SkipDoes
<1>2. w.b \in Batches /\ it \in Items /\ \A i \in 1 .. Size : <<w.b, i>> \in Items
  BY HandIs, ItemsAre DEF Size
<1>3. \A i \in 1 .. Size : Apart(i) BY <1>1, <1>2 DEF SameStates, SameSets, Apart
<1>4. /\ Stand(w.i) /\ item[it].state = "running" /\ w.i \in Nat
      /\ rev[it].state # "succeeded" /\ Row(w.i) = item[it]
  BY HeldStand DEF Agree
<1>5. ASSUME NEW i \in 1 .. Size, i = w.i PROVE Stand(i)'
  <2>1. w'.b = w.b /\ w'.phase = w.phase /\ w'.rows = w.rows BY <1>1 DEF SameRun
  <2>2. /\ Stand(i) /\ Row(i).state = "running" /\ rev[<<w.b, i>>].state # "succeeded" /\ Apart(i)
        /\ i \in w.prep
    BY <1>3, <1>4, <1>5 DEF it
  <2>3. ~Ahead(i)' BY <1>1, <1>4, <1>5 DEF Ahead
  <2> HIDE DEF Ahead, Held
  <2> QED BY <2>1, <2>2, <2>3 DEF Stand, Apart, Row, Done
<1>6. HandOK' BY <1>1, <1>3, <1>5, HandLeaves DEF Agree
<1> QED BY <1>6, RowsStay DEF Agree

\* A clip is there, and the worker goes on.
LEMMA AgreeGenerated ==
  ASSUME Shape, Agree, w.pc \in VideoSteps, Generated, SameStates PROVE Agree'
<1>1. /\ w'.pc = "next" /\ w'.i = w.i + 1 /\ SameRun /\ w.pc \in ItemSteps
      /\ w'.prep = w.prep /\ w'.gen = w.gen \cup {w.i} /\ w.pc # "settle" /\ w.pc # "markrev"
  BY HandIs, SkipGenDoes, PcIs DEF VideoSteps
<1>2. /\ w.b \in Batches /\ it \in Items /\ \A i \in 1 .. Size : <<w.b, i>> \in Items
      /\ w.phase = "videos" /\ w.i \in w.prep
  <2>1. w.pc \in RunSteps BY <1>1, HandIs
  <2> QED BY <1>1, <2>1, HandIs, ItemsAre DEF Size, Shape, Placed
<1>3. \A i \in 1 .. Size : i # w.i => Apart(i) BY <1>1, <1>2 DEF SameStates, Apart
<1>4. /\ Stand(w.i) /\ item[it].state = "running" /\ w.i \in Nat
      /\ rev[it].state # "succeeded" /\ Row(w.i) = item[it]
  BY <1>1, HeldStand DEF Agree
<1>5. ASSUME NEW i \in 1 .. Size, i = w.i PROVE Stand(i)'
  <2>1. w'.b = w.b /\ w'.phase = w.phase /\ w'.rows = w.rows BY <1>1 DEF SameRun
  <2>2. /\ Stand(i) /\ Row(i).state = "running" /\ rev[<<w.b, i>>].state # "succeeded"
        /\ item'[<<w.b, i>>].state = item[<<w.b, i>>].state
        /\ rev'[<<w.b, i>>].state = rev[<<w.b, i>>].state
        /\ i \in w.prep /\ i \in w'.gen
    BY <1>1, <1>2, <1>4, <1>5 DEF it, SameStates
  <2>3. ~Ahead(i)' /\ ~Held(i)' BY <1>1, <1>4, <1>5, NotNext DEF Ahead, Held
  <2> HIDE DEF Ahead, Held
  <2> QED BY <1>1, <1>2, <2>1, <2>2, <2>3 DEF Stand, Row, Done
<1>6. HandOK' BY <1>1, <1>3, <1>5, HandLeaves DEF Agree
<1> QED BY <1>6, RowsStay DEF Agree

\* The rows of one item change, of those in hand.
LEMMA RowsOne ==
  ASSUME Shape, RowsOK, NEW y \in Items, UNCHANGED batch,
         \A z \in Items : z # y => item'[z] = item[z] /\ rev'[z] = rev[z],
         item'[y].state # "none", rev'[y].state # "none",
         batch[y[1]].state = "running",
         item'[y].state = "succeeded" => rev'[y].state = "succeeded",
         rev'[y].state = "succeeded" => item'[y].state \in {"succeeded", "running"}
  PROVE  RowsOK'
<1>1. ASSUME NEW z \in Items, z # y
      PROVE  item'[z].state = item[z].state /\ rev'[z].state = rev[z].state BY <1>1
<1> QED BY <1>1 DEF RowsOK

LEMMA PrepareAgree == ASSUME Shape, Agree, Prepare PROVE Agree'
<1>1. /\ w.pc = "prepare" /\ w.pc \in ItemSteps /\ UNCHANGED <<batch, item>>
      /\ w.pc \in RunSteps
  BY PrepareDoes, PcIs
<1>2. CASE Moves({"mark"}) /\ UNCHANGED <<rev, disk>>
  <2>1. SameStates /\ SameHand /\ w'.pc = "mark" BY <1>1, <1>2 DEF SameStates, Moves
  <2> QED BY <1>1, <2>1, PcIs, AgreeSame
<1>3. CASE /\ Prepared(UsedRoute) /\ RevOnly(it) /\ rev'[it].state = "running"
  <2>1. UsedRoute \in Routes /\ w.i \in DOMAIN w.route /\ w.phase = "prepare"
    <3>1. Len(w.route) = Size /\ w.i \in 1 .. Size /\ w.phase = "prepare" /\ w.route \in Seq(RouteOrNone)
      BY <1>1, HandIs DEF Shape, Placed, WorkerStates
    <3> QED BY <1>1, <3>1, RouteIs
  <2>2. /\ w'.pc = "next" /\ w'.i = w.i + 1 /\ SameRun
        /\ w'.prep = w.prep \cup {w.i} /\ w'.gen = w.gen
    BY <1>1, <1>3, <2>1, HandIs, SkipPrepDoes
  <2>3. /\ w.b \in Batches /\ it \in Items /\ \A i \in 1 .. Size : <<w.b, i>> \in Items
        /\ \A i \in 1 .. Size : i # w.i => <<w.b, i>> # it
    BY <1>1, HandIs, ItemsAre DEF Size, it
  <2>4. \A i \in 1 .. Size : i # w.i => Apart(i) BY <1>1, <1>3, <2>2, <2>3 DEF RevOnly, Apart
  <2>5. /\ Stand(w.i) /\ item[it].state = "running" /\ w.i \in Nat /\ Row(w.i) = item[it]
    BY <1>1, HeldStand DEF Agree
  <2>6. ASSUME NEW i \in 1 .. Size, i = w.i PROVE Stand(i)'
    <3>1. w'.b = w.b /\ w'.phase = w.phase /\ w'.rows = w.rows BY <2>2 DEF SameRun
    <3>2. /\ Stand(i) /\ item'[<<w.b, i>>].state = "running"
          /\ rev'[<<w.b, i>>].state = "running"
          /\ i \in w'.prep /\ i \notin w'.gen
      BY <1>1, <1>3, <2>1, <2>2, <2>5, <2>6 DEF it, Stand
    <3>3. ~Ahead(i)' /\ ~Held(i)' BY <2>2, <2>5, <2>6, NotNext DEF Ahead, Held
    <3> HIDE DEF Ahead, Held
    <3> QED BY <2>1, <3>1, <3>2, <3>3 DEF Stand, Row, Done
  <2>7. HandOK' BY <1>1, <2>2, <2>4, <2>6, HandLeaves DEF Agree
  <2>8. /\ batch[it[1]].state = "running" /\ item'[it].state = "running"
        /\ \A z \in Items : z # it => item'[z] = item[z] /\ rev'[z] = rev[z]
    BY <1>1, <1>3, <2>5 DEF Shape, Placed, it, RevOnly
  <2>9. RowsOK' BY <1>1, <1>3, <2>3, <2>8, RowsOne DEF Agree
  <2> QED BY <2>7, <2>9 DEF Agree
<1> QED BY <1>2, <1>3, PrepareDoes

LEMMA MarkItemAgree == ASSUME Shape, Agree, MarkItem PROVE Agree'
<1>1. /\ w.pc = "mark" /\ w.pc \in ItemSteps /\ w'.pc = "markrev" /\ SameHand /\ w'.pc \in ItemSteps
      /\ UNCHANGED <<batch, rev>> /\ ItemOnly(it) /\ item'[it].state = "failed" /\ w.pc \in RunSteps
  BY MarkItemDoes, PcIs DEF Moves
<1>2. /\ w.b \in Batches /\ it \in Items /\ \A i \in 1 .. Size : <<w.b, i>> \in Items
      /\ \A i \in 1 .. Size : i # w.i => <<w.b, i>> # it
  BY <1>1, HandIs, ItemsAre DEF Size, it
<1>3. SameRun /\ SameSets /\ w'.i = w.i BY <1>1 DEF SameHand
<1>4. \A i \in 1 .. Size : i # w.i => Apart(i) BY <1>1, <1>2, <1>3 DEF ItemOnly, SameSets, Apart
<1>5. /\ Stand(w.i) /\ item[it].state = "running" /\ w.i \in Nat /\ Row(w.i) = item[it]
      /\ ~Ahead(w.i) /\ Held(w.i) /\ rev[it].state # "succeeded"
  BY <1>1, HeldStand DEF Agree
<1>6. ASSUME NEW i \in 1 .. Size, i = w.i PROVE Stand(i)'
  <2>1. w'.b = w.b /\ w'.phase = w.phase /\ w'.rows = w.rows BY <1>3 DEF SameRun
  <2>2. /\ Stand(i) /\ item'[<<w.b, i>>].state = "failed" /\ ~Ahead(i) /\ Held(i)
        /\ i \in w'.prep <=> i \in w.prep
        /\ i \in w'.gen <=> i \in w.gen
    BY <1>1, <1>3, <1>5, <1>6 DEF it, SameSets
  <2>3. ~Ahead(i)' /\ Held(i)' BY <1>1, <1>3, <1>5, <1>6, NotNext DEF Ahead, Held
  <2> HIDE DEF Ahead, Held
  <2> QED BY <2>1, <2>2, <2>3 DEF Stand, Row, Done, Settled
<1>7. HandOK' BY <1>1, <1>4, <1>6, HandHolds DEF Agree
<1>8. batch[it[1]].state = "running" /\ rev[it].state # "none"
  BY <1>1, <1>2, <1>5 DEF Shape, Placed, it, Agree, RowsOK
<1>9. \A z \in Items : z # it => item'[z] = item[z] /\ rev'[z] = rev[z] BY <1>1 DEF ItemOnly
<1>10. RowsOK' BY <1>1, <1>2, <1>5, <1>8, <1>9, RowsOne DEF Agree
<1> QED BY <1>7, <1>10 DEF Agree

LEMMA MarkRevisionAgree == ASSUME Shape, Agree, MarkRevision PROVE Agree'
<1>1. /\ w.pc = "markrev" /\ w.pc \in ItemSteps /\ Skipped /\ w.pc \in RunSteps
      /\ UNCHANGED <<batch, item>> /\ RevOnly(it) /\ rev'[it].state = "failed"
  BY MarkRevisionDoes, PcIs
<1>2. /\ w.b \in Batches /\ it \in Items /\ \A i \in 1 .. Size : <<w.b, i>> \in Items
      /\ \A i \in 1 .. Size : i # w.i => <<w.b, i>> # it
  BY <1>1, HandIs, ItemsAre DEF Size, it
<1>3. w'.pc = "next" /\ w'.i = w.i + 1 /\ SameRun /\ SameSets BY <1>1, HandIs, SkipDoes
<1>4. \A i \in 1 .. Size : i # w.i => Apart(i) BY <1>1, <1>2, <1>3 DEF RevOnly, SameSets, Apart
<1>5. /\ Stand(w.i) /\ item[it].state = "failed" /\ w.i \in Nat /\ Row(w.i) = item[it]
      /\ ~Ahead(w.i) /\ Held(w.i)
  BY <1>1, HeldStand DEF Agree
<1>6. ASSUME NEW i \in 1 .. Size, i = w.i PROVE Stand(i)'
  <2>1. w'.b = w.b /\ w'.phase = w.phase /\ w'.rows = w.rows BY <1>3 DEF SameRun
  <2>2. /\ Stand(i) /\ item'[<<w.b, i>>].state = "failed" /\ ~Ahead(i) /\ Held(i)
        /\ i \in w'.prep <=> i \in w.prep
        /\ i \in w'.gen <=> i \in w.gen
    BY <1>1, <1>3, <1>5, <1>6 DEF it, SameSets
  <2>3. ~Ahead(i)' /\ ~Held(i)' BY <1>1, <1>3, <1>5, <1>6, NotNext DEF Ahead, Held
  <2> HIDE DEF Ahead, Held
  <2> QED BY <2>1, <2>2, <2>3 DEF Stand, Row, Done, Settled
<1>7. HandOK' BY <1>1, <1>3, <1>4, <1>6, HandLeaves DEF Agree
<1>8. /\ batch[it[1]].state = "running" /\ item'[it].state = "failed"
      /\ \A z \in Items : z # it => item'[z] = item[z] /\ rev'[z] = rev[z]
  BY <1>1, <1>5 DEF Shape, Placed, it, RevOnly
<1>9. RowsOK' BY <1>1, <1>2, <1>8, RowsOne DEF Agree
<1> QED BY <1>7, <1>9 DEF Agree

LEMMA FrameAgree == ASSUME Shape, Agree, Frame PROVE Agree'
<1>1. /\ w.pc = "frame" /\ w.pc \in ItemSteps /\ UNCHANGED <<batch, rev>> /\ it \in Items
  BY FrameDoes, HandIs, PcIs
<1>2. CASE Skipped /\ (UNCHANGED item \/ Freed(it))
  <2>1. SameStates BY <1>1, <1>2 DEF SameStates, Freed, ItemOnly
  <2>2. w.phase = "frames" /\ w.i \in w.prep BY <1>1 DEF Shape, Placed
  <2> QED BY <1>1, <1>2, <2>1, <2>2, AgreePasses
<1>3. CASE UNCHANGED item /\ w'.pc = "history" /\ SameHand
  <2>1. SameStates /\ w'.pc \in ItemSteps BY <1>1, <1>3, PcIs DEF SameStates, PromptSteps
  <2> QED BY <1>1, <1>3, <2>1, AgreeSame
<1> QED BY <1>2, <1>3, FrameDoes DEF Asks

LEMMA VideoAgree == ASSUME Shape, Agree, Video PROVE Agree'
<1>1. /\ w.pc = "video" /\ w.pc \in ItemSteps /\ w.pc \in VideoSteps /\ UNCHANGED <<batch, item>>
      /\ it \in Items
  BY VideoDoes, HandIs, PcIs DEF VideoSteps
<1>2. CASE Generated /\ UNCHANGED rev
  <2>1. SameStates BY <1>1, <1>2 DEF SameStates
  <2> QED BY <1>1, <1>2, <2>1, AgreeGenerated
<1>3. CASE /\ w'.pc = "history" /\ SameHand
           /\ UNCHANGED rev \/ (RevOnly(it) /\ rev'[it].state = rev[it].state)
  <2>1. SameStates /\ w'.pc \in ItemSteps
    BY <1>1, <1>3, PcIs DEF SameStates, PromptSteps, RevOnly
  <2> QED BY <1>1, <1>3, <2>1, AgreeSame
<1> QED BY <1>2, <1>3, VideoDoes DEF Asks

LEMMA PromptAgree ==
  ASSUME Shape, Agree, ReadHistory \/ ReadQueue \/ QueuePrompt \/ OwnPrompt \/ WaitPrompt
  PROVE  Agree'
<1>1. /\ w.pc \in PromptSteps /\ SameHand /\ w'.pc \in PromptSteps \cup {"mark", "fatal"}
      /\ UNCHANGED <<batch, rev>> /\ it \in Items
      /\ \/ UNCHANGED item
         \/ ItemOnly(it) /\ item'[it] = [state |-> item[it].state, prompt |-> w.p, stage |-> w.stage]
  <2>1. CASE ReadHistory BY <2>1, HistoryDoes, HandIs, PcIs DEF Moves, PromptSteps, store
  <2>2. CASE ReadQueue BY <2>2, ReadQueueDoes, HandIs, PcIs DEF Moves, PromptSteps, store
  <2>3. CASE QueuePrompt BY <2>3, QueuePromptDoes, HandIs, PcIs DEF Moves, PromptSteps, store
  <2>4. CASE OwnPrompt BY <2>4, OwnDoes, HandIs, PcIs DEF Moves, PromptSteps
  <2>5. CASE WaitPrompt BY <2>5, WaitDoes, HandIs, PcIs DEF Moves, PromptSteps, store
  <2> QED BY <2>1, <2>2, <2>3, <2>4, <2>5
<1>2. SameStates BY <1>1 DEF SameStates, ItemOnly
<1>3. /\ w.pc \in ItemSteps /\ w.pc \notin {"markrev", "settle"}
      /\ w'.pc \notin {"markrev", "settle"}
      /\ (w'.pc \notin RunSteps \/ w'.pc \in ItemSteps)
  BY <1>1, PcIs, IdleIs DEF PromptSteps
<1> QED BY <1>1, <1>2, <1>3, AgreeSame

LEMMA GotAgree == ASSUME Shape, Agree, Got PROVE Agree'
<1>1. /\ w.pc = "got" /\ w.pc \in ItemSteps /\ w.pc \in PromptSteps /\ UNCHANGED <<batch, rev>>
      /\ it \in Items
  BY GotDoes, HandIs, PcIs DEF PromptSteps
<1>2. SameStates BY <1>1, GotDoes DEF SameStates, Freed, ItemOnly
<1>3. CASE w.stage = "t2i" /\ Skipped
  <2>1. w.phase = "frames" /\ w.i \in w.prep
    <3>1. w.i \in w.prep /\ w.route[w.i] # "t2i"
      <4>1. w.i \in w.prep /\ w.pc \in RunSteps BY <1>1, HandIs DEF Shape, Placed
      <4> QED BY <4>1 DEF Shape, Placed, Routes
    <3> QED BY <1>1, <1>3, <3>1 DEF Shape, Placed
  <2> QED BY <1>1, <1>2, <1>3, <2>1, AgreePasses
<1>4. CASE Moves({"mark", "bind", "fatal"})
  <2>1. SameHand /\ w'.pc \in {"mark", "bind", "fatal"} BY <1>4 DEF Moves
  <2>2. w'.pc \notin RunSteps \/ w'.pc \in ItemSteps BY <2>1, PcIs, IdleIs DEF VideoSteps
  <2> QED BY <1>1, <1>2, <2>1, <2>2, AgreeSame
<1> QED BY <1>3, <1>4, GotDoes DEF Moves

LEMMA BindAgree == ASSUME Shape, Agree, Bind PROVE Agree'
<1>1. w.pc \in VideoSteps /\ Generated /\ UNCHANGED <<batch, item, rev>> BY BindDoes DEF VideoSteps
<1> QED BY <1>1, AgreeGenerated DEF SameStates

LEMMA DeliveryAgree == ASSUME Shape, Agree, Deliver \/ Send \/ Answer PROVE Agree'
<1>1. /\ w.pc \in {"deliver", "send", "sent", "unsent"} /\ SameHand
      /\ w'.pc \in {"mark", "expose", "send", "sent", "unsent", "deliver"}
      /\ UNCHANGED <<batch, item, rev>>
  <2>1. CASE Deliver BY <2>1, DeliverDoes DEF Moves
  <2>2. CASE Send BY <2>2, SendDoes DEF Moves, store
  <2>3. CASE Answer BY <2>3, AnswerDoes
  <2> QED BY <2>1, <2>2, <2>3
<1>2. /\ w.pc \in ItemSteps /\ w.pc \notin {"markrev", "settle"}
      /\ w'.pc \notin {"markrev", "settle"} /\ w'.pc \in ItemSteps
  BY <1>1, PcIs DEF DeliverySteps
<1> QED BY <1>1, <1>2, AgreeSame DEF SameStates

LEMMA ExposeAgree == ASSUME Shape, Agree, ExposeRevision PROVE Agree'
<1>1. /\ w.pc = "expose" /\ w.pc \in ItemSteps /\ w'.pc = "settle" /\ SameHand /\ w'.pc \in ItemSteps
      /\ UNCHANGED <<batch, item>> /\ RevOnly(it) /\ rev'[it].state = "succeeded"
      /\ w.pc \in RunSteps
  BY ExposeDoes, PcIs DEF Moves, DeliverySteps
<1>2. /\ w.b \in Batches /\ it \in Items /\ \A i \in 1 .. Size : <<w.b, i>> \in Items
      /\ \A i \in 1 .. Size : i # w.i => <<w.b, i>> # it
  BY <1>1, HandIs, ItemsAre DEF Size, it
<1>3. SameRun /\ SameSets /\ w'.i = w.i BY <1>1 DEF SameHand
<1>4. \A i \in 1 .. Size : i # w.i => Apart(i) BY <1>1, <1>2, <1>3 DEF RevOnly, SameSets, Apart
<1>5. /\ Stand(w.i) /\ item[it].state = "running" /\ w.i \in Nat /\ Row(w.i) = item[it]
      /\ ~Ahead(w.i) /\ Held(w.i)
  BY <1>1, HeldStand DEF Agree
<1>6. ASSUME NEW i \in 1 .. Size, i = w.i PROVE Stand(i)'
  <2>1. w'.b = w.b /\ w'.phase = w.phase /\ w'.rows = w.rows BY <1>3 DEF SameRun
  <2>2. /\ Stand(i) /\ item'[<<w.b, i>>].state = "running" /\ item[<<w.b, i>>].state = "running"
        /\ ~Ahead(i) /\ Held(i)
        /\ i \in w'.prep <=> i \in w.prep
        /\ i \in w'.gen <=> i \in w.gen
    BY <1>1, <1>3, <1>5, <1>6 DEF it, SameSets
  <2>3. ~Ahead(i)' /\ Held(i)' /\ w'.pc = "settle"
    BY <1>1, <1>3, <1>5, <1>6, NotNext DEF Ahead, Held
  <2> HIDE DEF Ahead, Held
  <2> QED BY <1>1, <2>1, <2>2, <2>3 DEF Stand, Row, Done, Settled
<1>7. HandOK' BY <1>1, <1>4, <1>5, <1>6, HandHolds DEF Agree
<1>8. batch[it[1]].state = "running" BY <1>1 DEF Shape, Placed, it
<1>9. \A z \in Items : z # it => item'[z] = item[z] /\ rev'[z] = rev[z] BY <1>1 DEF RevOnly
<1>10. RowsOK' BY <1>1, <1>2, <1>5, <1>8, <1>9, RowsOne DEF Agree
<1> QED BY <1>7, <1>10 DEF Agree

LEMMA SettleAgree == ASSUME Shape, Agree, SettleItem PROVE Agree'
<1>1. /\ w.pc = "settle" /\ w.pc \in ItemSteps /\ Skipped /\ w.pc \in RunSteps
      /\ UNCHANGED <<batch, rev>> /\ ItemOnly(it) /\ item'[it].state = "succeeded"
  BY SettleDoes, PcIs DEF DeliverySteps, Finished
<1>2. /\ w.b \in Batches /\ it \in Items /\ \A i \in 1 .. Size : <<w.b, i>> \in Items
      /\ \A i \in 1 .. Size : i # w.i => <<w.b, i>> # it
      /\ w.phase = "deliver"
  BY <1>1, HandIs, ItemsAre DEF Size, it, Shape, Placed, DeliverySteps
<1>3. w'.pc = "next" /\ w'.i = w.i + 1 /\ SameRun /\ SameSets BY <1>1, HandIs, SkipDoes
<1>4. \A i \in 1 .. Size : i # w.i => Apart(i) BY <1>1, <1>2, <1>3 DEF ItemOnly, SameSets, Apart
<1>5. /\ Stand(w.i) /\ w.i \in Nat /\ Row(w.i) = item[it]
      /\ ~Ahead(w.i) /\ Held(w.i) /\ rev[it].state = "succeeded"
  BY <1>1, HeldStand DEF Agree, HandOK
<1>6. ASSUME NEW i \in 1 .. Size, i = w.i PROVE Stand(i)'
  <2>1. w'.b = w.b /\ w'.phase = w.phase /\ w'.rows = w.rows BY <1>3 DEF SameRun
  <2>2. item'[<<w.b, i>>].state = "succeeded" BY <1>1, <1>6 DEF it
  <2>3. ~Ahead(i)' BY <1>1, <1>3, <1>5, <1>6, NotNext DEF Ahead
  <2> HIDE DEF Ahead, Held
  <2> QED BY <1>2, <2>1, <2>2, <2>3 DEF Stand, Row, Done, Settled
<1>7. HandOK' BY <1>1, <1>3, <1>4, <1>6, HandLeaves DEF Agree
<1>8. /\ batch[it[1]].state = "running"
      /\ \A z \in Items : z # it => item'[z] = item[z] /\ rev'[z] = rev[z]
  BY <1>1 DEF Shape, Placed, it, ItemOnly
<1>9. RowsOK' BY <1>1, <1>2, <1>5, <1>8, RowsOne DEF Agree
<1> QED BY <1>7, <1>9 DEF Agree

\* The worker takes up the item i, or none is left.
LEMMA NextAgree == ASSUME Shape, Agree, NextItem PROVE Agree'
<1>1. /\ w.pc = "next" /\ w' \in WorkerStates /\ w'.b = w.b /\ w'.rows = w.rows /\ w.b \in Batches
      /\ w'.prep = w.prep /\ w'.gen = w.gen /\ Size \in Nat /\ w.i \in Nat
      /\ UNCHANGED <<batch, rev>> /\ w.pc \in RunSteps /\ w.pc \notin ItemSteps
  BY NextDoes, NotNext DEF SameSets, RunSteps
<1>2. /\ Size' = Size /\ w.phase \in Phases /\ w.i # 0 /\ batch[w.b].state = "running"
      /\ w.prep \subseteq 1 .. Size /\ w.gen \subseteq w.prep
      /\ \A i \in 1 .. Size : <<w.b, i>> \in Items
  BY <1>1, ItemsAre DEF Shape, Placed, Size
<1>3. \A i \in 1 .. Size : Stand(i) /\ ~Held(i) /\ (Ahead(i) <=> i >= w.i)
  BY <1>1, <1>2 DEF Agree, HandOK, Ahead, Held
<1>4. CASE /\ w'.phase = w.phase /\ w'.i \in w.i .. Size /\ Due(w'.i) /\ w'.pc = Work(w.phase)
           /\ \A i \in w.i .. Size : Due(i) => w'.i <= i
           /\ w'.pc \in ItemSteps
           /\ IF w.phase = "prepare"
              THEN ItemOnly(<<w.b, w'.i>>) /\ item'[<<w.b, w'.i>>].state = "running"
              ELSE item' = item
  <2> DEFINE h == w'.i
  <2>1. h \in 1 .. Size /\ h \in Nat /\ h >= w.i BY <1>1, <1>2, <1>4
  <2>2. Stand(h) /\ Ahead(h) BY <1>3, <2>1
  <2>3. w'.pc \in {"prepare", "frame", "video", "deliver"} BY <1>2, <1>4 DEF Work, Phases
  <2>4. /\ Row(h).state \in {"running", "pending"}
        /\ w.phase # "prepare" => Row(h).state = "running"
        /\ w.phase = "prepare" => Row(h).state = "pending"
        /\ rev[<<w.b, h>>].state # "succeeded"
    <3>1. CASE w.phase = "prepare"
      <4>1. Row(h).state = "pending" BY <1>4, <2>2, <3>1 DEF Stand, Due
      <4>2. <<w.b, h>> \in Items BY <1>2, <2>1
      <4> QED BY <3>1, <4>1, <4>2 DEF Agree, RowsOK, Row
    <3>2. CASE w.phase = "frames"
      <4>1. h \in w.prep BY <1>4, <3>2 DEF Due
      <4> QED BY <1>1, <2>2, <3>2, <4>1 DEF Stand
    <3>3. CASE w.phase = "videos"
      <4>1. h \in w.prep /\ Row(h).state # "failed" BY <1>4, <3>3 DEF Due, Row
      <4> QED BY <1>1, <2>2, <3>3, <4>1 DEF Stand, Settled
    <3>4. CASE w.phase = "deliver"
      <4>1. h \in w.gen BY <1>4, <3>4 DEF Due
      <4> QED BY <1>1, <2>2, <3>4, <4>1 DEF Stand
    <3> QED BY <1>2, <3>1, <3>2, <3>3, <3>4 DEF Phases
  <2>5. item'[<<w.b, h>>].state = "running" BY <1>4, <2>4 DEF Row
  <2>6. \A i \in 1 .. Size : i # h => item'[<<w.b, i>>] = item[<<w.b, i>>]
    <3>1. \A i \in 1 .. Size : i # h => <<w.b, i>> # <<w.b, h>> OBVIOUS
    <3> QED BY <1>2, <1>4, <3>1 DEF ItemOnly
  <2>7. ASSUME NEW i \in 1 .. Size PROVE Stand(i)'
    <3>1. /\ i \in Nat /\ Stand(i) /\ ~Held(i) /\ (Ahead(i) <=> i >= w.i)
          /\ i \in w.i .. Size => (Due(i) => h <= i)
      BY <1>3, <1>4
    <3>2. Ahead(i)' <=> i > h BY <1>1, <1>4, <2>1, NotNext DEF Ahead
    <3>3. Held(i)' <=> i = h BY <1>4 DEF Held
    <3>4. CASE i = h
      <4>1. /\ Stand(i) /\ item'[<<w.b, i>>].state = "running"
            /\ rev[<<w.b, i>>].state # "succeeded" /\ ~Ahead(i)' /\ Held(i)' /\ Ahead(i)
        BY <1>3, <2>1, <2>2, <2>4, <2>5, <3>2, <3>3, <3>4
      <4>2. w.phase = "deliver" => i \in w.gen BY <1>4, <3>4 DEF Due
      <4>3. w.phase = "prepare" => i \notin w.prep BY <2>2, <3>4 DEF Stand
      <4>4. w.phase = "videos" => i \notin w.gen BY <2>2, <3>4 DEF Stand
      <4>5. w.phase = "frames" => i \in w.prep BY <1>4, <3>4 DEF Due
      <4>6. w.phase = "videos" => i \in w.prep BY <1>4, <3>4 DEF Due
      <4>7. w'.pc # "verdict" BY <1>4, NotNext
      <4>8. w.phase \in {"prepare", "frames"} => i \notin w.gen BY <4>1 DEF Stand
      <4> HIDE DEF Ahead, Held
      <4> QED BY <1>1, <1>4, <4>1, <4>2, <4>3, <4>4, <4>5, <4>6, <4>7, <4>8 DEF Stand, Row, Done
    <3>5. CASE i # h /\ i > h
      <4>1. Ahead(i) /\ Ahead(i)' /\ ~Held(i)' /\ item'[<<w.b, i>>] = item[<<w.b, i>>]
        BY <2>1, <2>6, <3>1, <3>2, <3>3, <3>5, <1>1
      <4>2. w'.pc # "verdict" BY <1>4, NotNext
      <4> HIDE DEF Ahead, Held
      <4> QED BY <1>1, <1>4, <3>1, <4>1, <4>2 DEF Stand, Row, Done
    <3>6. CASE i < h
      <4>1. ~Ahead(i)' /\ ~Held(i)' /\ item'[<<w.b, i>>] = item[<<w.b, i>>]
        BY <2>1, <2>6, <3>2, <3>3, <3>6
      <4>2. Ahead(i) => ~Due(i) BY <1>1, <2>1, <3>1, <3>6
      <4>3. w'.pc # "verdict" BY <1>4, NotNext
      <4>4. /\ w.phase = "prepare" /\ Ahead(i) => Done(i) /\ i \notin w.prep
            /\ w.phase = "videos" /\ Ahead(i) => Done(i) /\ i \notin w.gen
            /\ w.phase = "deliver" /\ Ahead(i) => Done(i) /\ i \notin w.gen
        BY <3>1, <4>2 DEF Due, Stand, Done, Row, Settled
      <4> HIDE DEF Ahead, Held
      <4> QED BY <1>1, <1>4, <3>1, <4>1, <4>3, <4>4 DEF Stand, Row, Done
    <3> QED BY <2>1, <3>1, <3>4, <3>5, <3>6
  <2>8. item'[<<w'.b, w'.i>>].state = "running" BY <1>1, <2>5
  <2>9. HandOK' BY <1>2, <2>3, <2>7, <2>8 DEF HandOK, Row
  <2>10. RowsOK'
    <3>1. CASE w.phase # "prepare" BY <1>1, <1>4, <3>1 DEF Agree, RowsOK
    <3>2. CASE w.phase = "prepare"
      <4> DEFINE y == <<w.b, h>>
      <4>1. y \in Items /\ y[1] = w.b BY <1>2, <2>1
      <4>2. item[y].state = "pending" /\ rev[y].state # "succeeded" BY <2>4, <3>2 DEF Row
      <4>3. rev[y].state # "none" BY <4>1, <4>2 DEF Agree, RowsOK
      <4>4. item'[y].state = "running" /\ \A z \in Items : z # y => item'[z] = item[z]
        BY <1>4, <3>2 DEF ItemOnly
      <4> HIDE DEF y
      <4> QED BY <1>1, <1>2, <4>1, <4>2, <4>3, <4>4, RowsOne DEF Agree
    <3> QED BY <3>1, <3>2
  <2> QED BY <2>9, <2>10 DEF Agree
<1>5. CASE /\ \A i \in w.i .. Size : ~Due(i)
           /\ w.phase = "deliver" /\ w'.pc = "verdict" /\ w'.i = w.i /\ w'.phase = w.phase
           /\ item' = item
  <2>1. RowsOK' BY <1>1, <1>5 DEF Agree, RowsOK
  <2>2. ASSUME NEW i \in 1 .. Size PROVE Stand(i)'
    <3>1. /\ Stand(i) /\ ~Held(i) /\ (Ahead(i) => i \notin w.gen) /\ i \in Nat
      BY <1>1, <1>3, <1>5 DEF Due
    <3>2. Done(i) BY <1>5, <3>1 DEF Stand
    <3>3. ~Held(i)' BY <1>5, NotNext DEF Held
    <3>4. Ahead(i)' => Ahead(i) BY <1>1, <1>5 DEF Ahead
    <3> HIDE DEF Ahead, Held
    <3> QED BY <1>1, <1>5, <3>1, <3>2, <3>3, <3>4 DEF Stand, Row, Done
  <2>3. HandOK' BY <1>2, <1>5, <2>2, NotNext DEF HandOK
  <2> QED BY <2>1, <2>3 DEF Agree
<1>6. CASE /\ \A i \in w.i .. Size : ~Due(i)
           /\ w.phase # "deliver" /\ w'.pc = "next" /\ w'.i = 1 /\ w'.phase = NextPhase[w.phase]
           /\ item' = item
  <2>1. RowsOK' BY <1>1, <1>6 DEF Agree, RowsOK
  <2>2. ASSUME NEW i \in 1 .. Size PROVE Stand(i)'
    <3>1. /\ Stand(i) /\ ~Held(i) /\ i \in Nat /\ (Ahead(i) => ~Due(i))
      BY <1>1, <1>3, <1>6
    <3>2. ~Held(i)' /\ Ahead(i)' BY <1>6, NotNext DEF Held, Ahead
    <3>3. /\ Row(i)' = Row(i) /\ w'.pc # "settle" /\ w.pc # "settle"
          /\ i \in w'.prep <=> i \in w.prep
          /\ i \in w'.gen <=> i \in w.gen
          /\ rev'[<<w'.b, i>>] = rev[<<w.b, i>>]
      BY <1>1, <1>6 DEF Row
    <3>4. CASE w.phase = "prepare"
      <4>1. w'.phase = "frames" BY <1>6, <3>4 DEF NextPhase
      <4>2. Ahead(i) => Done(i) BY <3>1, <3>4 DEF Due, Stand, Done
      <4> HIDE DEF Ahead, Held
      <4> QED BY <1>1, <3>1, <3>2, <3>3, <3>4, <4>1, <4>2 DEF Stand, Done, Settled
    <3>5. CASE w.phase = "frames"
      <4>1. w'.phase = "videos" BY <1>6, <3>5 DEF NextPhase
      <4> HIDE DEF Ahead, Held
      <4> QED BY <1>1, <3>1, <3>2, <3>3, <3>5, <4>1 DEF Stand, Done, Settled
    <3>6. CASE w.phase = "videos"
      <4>1. w'.phase = "deliver" /\ w'.pc # "verdict" BY <1>6, <3>6 DEF NextPhase
      <4>2. Ahead(i) => Done(i)
        <5>1. CASE i \in w.prep BY <3>1, <3>6, <5>1 DEF Due, Done, Row, Settled
        <5>2. CASE i \notin w.prep BY <3>1, <3>6, <5>2 DEF Stand
        <5> QED BY <5>1, <5>2
      <4> HIDE DEF Ahead, Held
      <4> QED BY <1>1, <3>1, <3>2, <3>3, <3>6, <4>1, <4>2 DEF Stand, Done, Settled
    <3> QED BY <1>2, <1>6, <3>4, <3>5, <3>6 DEF Phases
  <2>3. HandOK' BY <1>2, <1>6, <2>2, NotNext DEF HandOK
  <2> QED BY <2>1, <2>3 DEF Agree
<1> QED BY <1>4, <1>5, <1>6, NextDoes

LEMMA StartBatchAgree == ASSUME Shape, Agree, StartBatch PROVE Agree'
<1>1. /\ w' \in WorkerStates /\ w'.pc = "next" /\ w'.phase = "prepare"
      /\ w'.b \in Batches /\ batch[w'.b].state = "queued" /\ w'.i = 1
      /\ batch' = [batch EXCEPT ![w'.b].state = "running"]
      /\ \A i \in 1 .. Size' : w'.rows[i] = item[<<w'.b, i>>]
      /\ w'.prep = {} /\ w'.gen = {} /\ UNCHANGED <<item, rev>>
  BY StartBatchDoes
<1> DEFINE b == w'.b
<1>2. b \in Batches /\ batch[b].state = "queued" /\ batch' = [batch EXCEPT ![b].state = "running"]
  BY <1>1
<1>3. batch'[b].state = "running" /\ \A c \in Batches : c # b => batch'[c] = batch[c]
  <2> HIDE DEF b
  <2> QED BY <1>2 DEF Shape, Typed, BatchRows
<1> HIDE DEF b
<1>4. ASSUME NEW y \in Items, y[1] = b
      PROVE  item[y].state \in {"pending", "succeeded", "failed"}
  <2>1. item[y].state # "none" /\ item[y].state # "running" BY <1>2, <1>4 DEF Agree, RowsOK
  <2>2. item[y].state \in RowStates BY DEF Shape, Typed, ItemRows
  <2> QED BY <2>1, <2>2 DEF RowStates, Settled
<1>5. RowsOK'
  <2>1. \A y \in Items : y[1] \in Batches BY ItemsAre
  <2>2. ASSUME NEW y \in Items, y[1] = b
        PROVE  batch'[y[1]].state = "running" /\ batch[y[1]].state = "queued" BY <1>2, <1>3, <2>2
  <2>3. ASSUME NEW y \in Items, y[1] # b PROVE batch'[y[1]] = batch[y[1]] BY <1>3, <2>1, <2>3
  <2> QED BY <1>1, <2>2, <2>3 DEF Agree, RowsOK
<1>6. ASSUME NEW i \in 1 .. Size' PROVE Stand(i)'
  <2>1. i \in Nat /\ <<b, i>> \in Items BY <1>1, <1>2, ItemsAre DEF Size, b
  <2>2. Ahead(i)' BY <1>1, <2>1 DEF Ahead
  <2>3. w'.rows[i] = item[<<w'.b, i>>] /\ item'[<<w'.b, i>>].state \in {"pending", "succeeded", "failed"}
    BY <1>1, <1>4, <2>1 DEF b
  <2> HIDE DEF Ahead, Held
  <2> QED BY <1>1, <2>2, <2>3 DEF Stand, Row, Done, Settled
<1>7. HandOK' BY <1>1, <1>6, NotNext DEF HandOK
<1> QED BY <1>5, <1>7 DEF Agree

LEMMA EndBatchAgree == ASSUME Shape, Agree, EndBatch PROVE Agree'
<1>1. /\ w.pc = "verdict" /\ w.b \in Batches /\ w'.pc = "idle" /\ UNCHANGED <<item, rev>>
      /\ batch'[w.b].state = Verdict(w.b)
      /\ \A b \in Batches : b # w.b => batch'[b] = batch[b]
  BY EndBatchDoes, IdleIs
<1>2. HandOK' BY <1>1, IdleIs DEF HandOK
<1>3. w.phase = "deliver" /\ w.pc \in RunSteps /\ batch[w.b].state = "running"
  BY <1>1 DEF Shape, Placed, RunSteps
<1>4. ASSUME NEW y \in Items, y[1] = w.b
      PROVE  /\ item[y].state \in Settled
             /\ Verdict(w.b) = "succeeded" => item[y].state = "succeeded"
  <2>1. y = <<w.b, y[2]>> /\ y[2] \in 1 .. Size /\ DOMAIN Remakes[w.b] = 1 .. Size
    BY <1>1, <1>4, ItemsAre DEF Size
  <2>2. Stand(y[2]) BY <1>3, <2>1 DEF Agree, HandOK
  <2>3. Row(y[2]).state \in Settled BY <1>1, <1>3, <2>2 DEF Stand, Done
  <2>4. item[y] = Row(y[2]) BY <2>1 DEF Row
  <2>5. ASSUME Verdict(w.b) = "succeeded" PROVE item[y].state = "succeeded"
    <3>1. {i \in DOMAIN Remakes[w.b] : item[<<w.b, i>>].state = "succeeded"} = DOMAIN Remakes[w.b]
      BY <2>5 DEF Verdict
    <3> QED BY <2>1, <3>1
  <2> QED BY <2>3, <2>4, <2>5
<1>5. RowsOK'
  <2>1. Verdict(w.b) \in {"succeeded", "partial", "failed"} BY <1>1, VerdictIs
  <2>2. \A y \in Items : y[1] \in Batches BY ItemsAre
  <2>3. ASSUME NEW y \in Items, y[1] = w.b
        PROVE  /\ batch'[y[1]].state = Verdict(w.b) /\ batch[y[1]].state = "running"
               /\ item[y].state \in Settled
               /\ Verdict(w.b) = "succeeded" => item[y].state = "succeeded"
    BY <1>1, <1>3, <1>4, <2>3
  <2>4. ASSUME NEW y \in Items, y[1] # w.b PROVE batch'[y[1]] = batch[y[1]] BY <1>1, <2>2, <2>4
  <2> QED BY <1>1, <2>1, <2>3, <2>4 DEF Agree, RowsOK, Settled
<1> QED BY <1>2, <1>5 DEF Agree

LEMMA RecoveredAgree ==
  ASSUME Shape, Agree, Recovered, w'.pc \notin RunSteps PROVE Agree'
<1>1. HandOK' BY DEF HandOK
<1>2. ASSUME NEW y \in Items
      PROVE  /\ batch'[y[1]].state = "none" <=> item'[y].state = "none"
             /\ rev'[y].state = "none" <=> item'[y].state = "none"
             /\ item'[y].state = "running" => batch'[y[1]].state = "running"
             /\ item'[y].state = "succeeded" => rev'[y].state = "succeeded"
             /\ rev'[y].state = "succeeded" => item'[y].state \in {"succeeded", "running"}
             /\ batch'[y[1]].state \in {"succeeded", "partial", "failed"} => item'[y].state \in Settled
             /\ batch'[y[1]].state = "succeeded" => item'[y].state = "succeeded"
  <2>1. y[1] \in Batches BY ItemsAre
  <2>2. batch'[y[1]].state = IF batch[y[1]].state = "running" THEN "queued" ELSE batch[y[1]].state
    BY <2>1, RecoveredDoes
  <2>3. Again(y) BY RecoveredDoes
  <2>4. /\ batch[y[1]].state = "none" <=> item[y].state = "none"
        /\ rev[y].state = "none" <=> item[y].state = "none"
        /\ item[y].state = "running" => batch[y[1]].state = "running"
        /\ item[y].state = "succeeded" => rev[y].state = "succeeded"
        /\ rev[y].state = "succeeded" => item[y].state \in {"succeeded", "running"}
        /\ batch[y[1]].state \in {"succeeded", "partial", "failed"} => item[y].state \in Settled
        /\ batch[y[1]].state = "succeeded" => item[y].state = "succeeded"
    BY DEF Agree, RowsOK
  <2>5. CASE Mine(y) /\ rev[y].state = "succeeded"
    BY <2>2, <2>3, <2>4, <2>5 DEF Again, Mine, Finished
  <2>6. CASE Mine(y) /\ rev[y].state # "succeeded"
    BY <2>2, <2>3, <2>4, <2>6 DEF Again, Mine
  <2>7. CASE ~Mine(y)
    BY <2>2, <2>3, <2>4, <2>7 DEF Again, Mine
  <2> QED BY <2>5, <2>6, <2>7
<1>3. RowsOK' BY <1>2 DEF RowsOK
<1> QED BY <1>1, <1>3 DEF Agree

\* What the handlers change is not in hand.
LEMMA BesideHand ==
  ASSUME Shape, HandOK, UNCHANGED w,
         w.pc \in RunSteps => \A i \in 1 .. Size : /\ item'[<<w.b, i>>] = item[<<w.b, i>>]
                                                   /\ rev'[<<w.b, i>>] = rev[<<w.b, i>>]
  PROVE  HandOK'
<1>1. CASE w.pc \notin RunSteps BY <1>1 DEF HandOK
<1>2. CASE w.pc \in RunSteps
  <2>1. Size' = Size /\ it' = it BY DEF Size, it
  <2>2. ASSUME NEW i \in 1 .. Size PROVE Stand(i)'
    <3>1. Stand(i) BY <1>2 DEF HandOK
    <3>2. Row(i)' = Row(i) /\ Ahead(i)' = Ahead(i) /\ Held(i)' = Held(i)
          /\ rev'[<<w.b, i>>] = rev[<<w.b, i>>]
      BY <1>2 DEF Row, Ahead, Held
    <3> HIDE DEF Row, Ahead, Held
    <3> QED BY <3>1, <3>2 DEF Stand, Done
  <2>3. w.pc \in ItemSteps => w.i \in 1 .. Size BY HandIs
  <2> QED BY <1>2, <2>1, <2>2, <2>3, PcIs DEF HandOK, Row, it, DeliverySteps
<1> QED BY <1>1, <1>2

LEMMA CreateAgree == ASSUME Shape, Agree, NEW b \in Batches, CreateRemakeBatch(b) PROVE Agree'
<1>1. /\ batch[b].state = "none" /\ batch'[b].state = "draft"
      /\ \A c \in Batches : c # b => batch'[c] = batch[c]
      /\ \A y \in Items :
           IF y[1] # b THEN item'[y] = item[y] /\ rev'[y] = rev[y]
           ELSE item'[y].state = "pending" /\ rev'[y].state = "pending"
      /\ UNCHANGED w
  BY CreateDoes DEF Fresh
<1>2. RowsOK'
  <2>1. \A y \in Items : y[1] \in Batches BY ItemsAre
  <2>2. ASSUME NEW y \in Items, y[1] = b
        PROVE  batch'[y[1]].state = "draft" /\ item'[y].state = "pending" /\ rev'[y].state = "pending"
    BY <1>1, <2>2
  <2>3. ASSUME NEW y \in Items, y[1] # b
        PROVE  batch'[y[1]] = batch[y[1]] /\ item'[y] = item[y] /\ rev'[y] = rev[y]
    BY <1>1, <2>1, <2>3
  <2> QED BY <2>2, <2>3 DEF Agree, RowsOK
<1>3. w.pc \in RunSteps => \A i \in 1 .. Size : /\ item'[<<w.b, i>>] = item[<<w.b, i>>]
                                                /\ rev'[<<w.b, i>>] = rev[<<w.b, i>>]
  <2>1. SUFFICES ASSUME w.pc \in RunSteps, NEW i \in 1 .. Size
                 PROVE  item'[<<w.b, i>>] = item[<<w.b, i>>] /\ rev'[<<w.b, i>>] = rev[<<w.b, i>>]
    OBVIOUS
  <2>2. w.b \in Batches /\ w.b # b BY <1>1, <2>1 DEF Shape, Placed
  <2>3. <<w.b, i>> \in Items BY <2>2, ItemsAre DEF Size
  <2> QED BY <1>1, <2>2, <2>3
<1>4. HandOK' BY <1>1, <1>3, BesideHand DEF Agree
<1> QED BY <1>2, <1>4 DEF Agree

LEMMA QueueBatchAgree == ASSUME Shape, Agree, QueueRemakeBatch PROVE Agree'
<1>1. /\ \A b \in Batches : \/ batch'[b] = batch[b]
                            \/ batch[b].state = "draft" /\ batch'[b].state = "queued"
      /\ UNCHANGED <<item, rev, w>>
  BY QueueBatchDoes
<1>2. \A y \in Items : y[1] \in Batches BY ItemsAre
<1>3. RowsOK' BY <1>1, <1>2 DEF Agree, RowsOK
<1>4. HandOK' BY <1>1, BesideHand DEF Agree
<1> QED BY <1>3, <1>4 DEF Agree

\* The steps that change no row.
LEMMA BesideAgree == ASSUME Shape, Agree, UNCHANGED <<batch, item, rev, w>> PROVE Agree'
<1>1. RowsOK' BY RowsStay DEF Agree, SameStates
<1>2. HandOK' BY BesideHand DEF Agree
<1> QED BY <1>1, <1>2 DEF Agree

LEMMA InitAgree == ASSUME Init PROVE Agree
<1>1. w.pc = "idle" BY DEF Init, Idle
<1>2. HandOK BY <1>1, IdleIs DEF HandOK
<1>3. \A y \in Items : y[1] \in Batches BY ItemsAre
<1>4. RowsOK BY <1>3 DEF Init, RowsOK
<1> QED BY <1>2, <1>4 DEF Agree

LEMMA HttpAgree == ASSUME Shape, Agree, Http PROVE Agree'
<1>1. CASE \E b \in Batches : CreateRemakeBatch(b) BY <1>1, CreateAgree
<1>2. CASE QueueRemakeBatch BY <1>2, QueueBatchAgree
<1>3. CASE \/ \E b \in Batches, policy \in {"after", "interrupt"} : SubmitBatch(b, policy)
           \/ AbandonCurrent \/ CancelProjectPrompts \/ QueueManualFinal
  BY <1>3, BesideAgree DEF SubmitBatch, AbandonCurrent, CancelProjectPrompts, QueueManualFinal, store
<1> QED BY <1>1, <1>2, <1>3 DEF Http

LEMMA WorkerAgree == ASSUME Shape, Agree, Worker PROVE Agree'
<1>1. CASE StartFinal \/ Stitch \/ Tick \/ JobEnds \/ HandleFatal
  <2>1. UNCHANGED <<batch, item, rev>> /\ w'.pc \in {"stitch", "idle", "job", "recover"}
    <3>1. CASE StartFinal BY <3>1, StartFinalDoes
    <3>2. CASE Stitch BY <3>2, IdleIs DEF Stitch
    <3>3. CASE Tick BY <3>3, TickDoes
    <3>4. CASE JobEnds BY <3>4, IdleIs DEF JobEnds
    <3>5. CASE HandleFatal BY <3>5, FatalErrorDoes
    <3> QED BY <1>1, <3>1, <3>2, <3>3, <3>4, <3>5
  <2>2. w'.pc \notin RunSteps BY <2>1, IdleIs
  <2> QED BY <2>1, <2>2, AgreeAway DEF SameStates
<1>2. CASE RecoverBatches
  <2>1. w'.pc \notin RunSteps BY <1>2, IdleIs DEF RecoverBatches
  <2>2. CASE Recovered BY <2>1, <2>2, RecoveredAgree
  <2>3. CASE UNCHANGED <<batch, item, rev>> BY <2>1, <2>3, AgreeAway DEF SameStates
  <2> QED BY <1>2, <2>2, <2>3 DEF RecoverBatches
<1> QED BY <1>1, <1>2, StartBatchAgree, NextAgree, PrepareAgree, MarkItemAgree, MarkRevisionAgree,
           FrameAgree, VideoAgree, PromptAgree, GotAgree, BindAgree, DeliveryAgree, ExposeAgree,
           SettleAgree, EndBatchAgree DEF Worker

LEMMA NextKeepsAgree == ASSUME Shape, Agree, [Next]_vars PROVE Agree'
<1>1. CASE Http BY <1>1, HttpAgree
<1>2. CASE Worker BY <1>2, WorkerAgree
<1>3. CASE RunPrompt BY <1>3, RunPromptDoes, BesideAgree DEF store
<1>4. CASE ComfyDies BY <1>4, ComfyDiesDoes, BesideAgree DEF store
<1>5. CASE Crash
  <2>1. UNCHANGED <<batch, item, rev>> /\ w'.pc \notin RunSteps BY <1>5, CrashDoes, IdleIs
  <2> QED BY <2>1, AgreeAway DEF SameStates
<1>6. CASE Boot
  <2>1. Recovered /\ w'.pc \notin RunSteps BY <1>6, BootDoes, IdleIs
  <2> QED BY <2>1, RecoveredAgree
<1>7. CASE Damage BY <1>7, DamageDoes, BesideAgree DEF store
<1>8. CASE UNCHANGED vars BY <1>8, BesideAgree DEF vars
<1> QED BY <1>1, <1>2, <1>3, <1>4, <1>5, <1>6, <1>7, <1>8 DEF Next

LEMMA RevisionStands ==
  ASSUME Shape, Agree, Next, NEW y \in Items, rev[y].state = "succeeded"
  PROVE  rev'[y].state = "succeeded"
<1>1. item[y].state \in {"succeeded", "running"} BY DEF Agree, RowsOK
<1>2. CASE Prepare
  <2>1. w.pc = "prepare" /\ w.pc \in ItemSteps /\ (UNCHANGED rev \/ RevOnly(it)) BY <1>2, PrepareDoes, PcIs
  <2>2. it # y BY <1>1, <2>1, HeldStand DEF Agree
  <2> QED BY <2>1, <2>2 DEF RevOnly
<1>3. CASE MarkRevision
  <2>1. w.pc = "markrev" /\ w.pc \in ItemSteps /\ RevOnly(it) BY <1>3, MarkRevisionDoes, PcIs
  <2>2. it # y BY <1>1, <2>1, HeldStand DEF Agree
  <2> QED BY <2>1, <2>2 DEF RevOnly
<1>4. CASE Video BY <1>4, VideoDoes DEF RevOnly
<1>5. CASE ExposeRevision BY <1>5, ExposeDoes DEF RevOnly
<1>6. CASE Recovered
  <2>1. Again(y) BY <1>6, RecoveredDoes
  <2> QED BY <2>1 DEF Again
<1>7. CASE \E b \in Batches : CreateRemakeBatch(b)
  <2>1. PICK b \in Batches : CreateRemakeBatch(b) BY <1>7
  <2>2. batch[y[1]].state # "none" BY <1>1 DEF Agree, RowsOK
  <2> QED BY <2>1, <2>2, CreateDoes
<1>8. UNCHANGED rev \/ Prepare \/ MarkRevision \/ Video \/ ExposeRevision \/ Recovered
      \/ \E b \in Batches : CreateRemakeBatch(b)
  <2>1. CASE Http
    BY <2>1 DEF Http, SubmitBatch, AbandonCurrent, CancelProjectPrompts, QueueRemakeBatch,
       QueueManualFinal, store
  <2>2. CASE Worker
    BY <2>2 DEF Worker, StartFinal, Stitch, StartBatch, Tick, JobEnds, NextItem, MarkItem, Frame,
       ReadHistory, ReadQueue, QueuePrompt, OwnPrompt, WaitPrompt, Got, Bind, Deliver, Send,
       Answer, SettleItem, EndBatch, HandleFatal, RecoverBatches, store
  <2>3. CASE RunPrompt \/ ComfyDies \/ Crash \/ Damage
    BY <2>3 DEF RunPrompt, ComfyDies, Crash, Damage, store
  <2>4. CASE Boot BY <2>4 DEF Boot
  <2> QED BY <2>1, <2>2, <2>3, <2>4 DEF Next
<1> QED BY <1>2, <1>3, <1>4, <1>5, <1>6, <1>7, <1>8

\* The rows of a batch, of its items and of their revisions agree between any two transactions
\* of _run_remake_batch and of the recovery, and every item of the batch in hand is done, is in
\* hand, or is still ahead in the phase that is due to visit it.
THEOREM InAgreement == Spec => []Agree
<1>1. Shape /\ Agree /\ [Next]_vars => Agree' BY NextKeepsAgree
<1> QED BY <1>1, InShape, InitAgree, PTL DEF Spec

\* The verdict set_remake_batch_state records is that of the items and of the revisions.
THEOREM VerdictIsTrue == Spec => []VerdictTrue
<1>1. Agree => VerdictTrue BY DEF Agree, RowsOK, VerdictTrue
<1> QED BY <1>1, InAgreement, PTL

\* update_scene_revision, the failure path and the recovery never take a succeeded revision
\* up again.
THEOREM SucceededIsFinal == Spec => SucceededStands
<1>1. Shape /\ Agree /\ [Next]_vars
      => [\A y \in Items : rev[y].state = "succeeded" => rev'[y].state = "succeeded"]_vars
  BY RevisionStands
<1> QED BY <1>1, InShape, InAgreement, PTL DEF Spec, SucceededStands

-----------------------------------------------------------------------------
(* Which steps change what *)

LEMMA ItemChanges ==
  ASSUME [Next]_vars
  PROVE  \/ UNCHANGED item
         \/ \E b \in Batches : CreateRemakeBatch(b)
         \/ NextItem \/ MarkItem \/ Frame \/ OwnPrompt \/ Got \/ SettleItem
         \/ Recovered /\ w' = Idle("idle") /\ w.pc \in {"down", "recover"}
<1>1. CASE Http
  BY <1>1 DEF Http, SubmitBatch, AbandonCurrent, CancelProjectPrompts, QueueRemakeBatch,
     QueueManualFinal, store
<1>2. CASE Worker
  BY <1>2 DEF Worker, StartFinal, Stitch, StartBatch, Tick, JobEnds, Prepare, MarkRevision, Video,
     ReadHistory, ReadQueue, QueuePrompt, WaitPrompt, Bind, Deliver, Send, Answer, ExposeRevision,
     EndBatch, HandleFatal, RecoverBatches, At, store
<1>3. CASE RunPrompt \/ ComfyDies \/ Crash \/ Damage \/ UNCHANGED vars
  BY <1>3 DEF RunPrompt, ComfyDies, Crash, Damage, store, vars
<1>4. CASE Boot BY <1>4 DEF Boot, At
<1> QED BY <1>1, <1>2, <1>3, <1>4 DEF Next

LEMMA RevChanges ==
  ASSUME [Next]_vars
  PROVE  \/ UNCHANGED rev
         \/ \E b \in Batches : CreateRemakeBatch(b)
         \/ Prepare \/ MarkRevision \/ Video \/ ExposeRevision
         \/ Recovered /\ w' = Idle("idle") /\ w.pc \in {"down", "recover"}
<1>1. CASE Http
  BY <1>1 DEF Http, SubmitBatch, AbandonCurrent, CancelProjectPrompts, QueueRemakeBatch,
     QueueManualFinal, store
<1>2. CASE Worker
  BY <1>2 DEF Worker, StartFinal, Stitch, StartBatch, Tick, JobEnds, NextItem, MarkItem, Frame,
     ReadHistory, ReadQueue, QueuePrompt, OwnPrompt, WaitPrompt, Got, Bind, Deliver, Send, Answer,
     SettleItem, EndBatch, HandleFatal, RecoverBatches, At, store
<1>3. CASE RunPrompt \/ ComfyDies \/ Crash \/ Damage \/ UNCHANGED vars
  BY <1>3 DEF RunPrompt, ComfyDies, Crash, Damage, store, vars
<1>4. CASE Boot BY <1>4 DEF Boot, At
<1> QED BY <1>1, <1>2, <1>3, <1>4 DEF Next

LEMMA DiskChanges ==
  ASSUME [Next]_vars
  PROVE  \/ UNCHANGED disk
         \/ \E b \in Batches : CreateRemakeBatch(b)
         \/ Prepare \/ MarkRevision \/ Got \/ Bind \/ Deliver \/ Answer \/ ExposeRevision
         \/ RunPrompt \/ Damage
<1>1. CASE Http
  BY <1>1 DEF Http, SubmitBatch, AbandonCurrent, CancelProjectPrompts, QueueRemakeBatch,
     QueueManualFinal, store
<1>2. CASE Worker
  BY <1>2 DEF Worker, StartFinal, Stitch, StartBatch, Tick, JobEnds, NextItem, MarkItem, Frame,
     Video, ReadHistory, ReadQueue, QueuePrompt, OwnPrompt, WaitPrompt, Send, SettleItem,
     EndBatch, HandleFatal, RecoverBatches, store
<1>3. CASE ComfyDies \/ Crash \/ Boot \/ UNCHANGED vars
  BY <1>3 DEF ComfyDies, Crash, Boot, store, vars
<1> QED BY <1>1, <1>2, <1>3 DEF Next

LEMMA PromptChanges ==
  ASSUME [Next]_vars
  PROVE  UNCHANGED prompts \/ CancelProjectPrompts \/ QueuePrompt \/ RunPrompt \/ ComfyDies
<1>1. CASE Http
  BY <1>1 DEF Http, CreateRemakeBatch, SubmitBatch, AbandonCurrent, QueueRemakeBatch,
     QueueManualFinal, store
<1>2. CASE Worker
  BY <1>2 DEF Worker, StartFinal, Stitch, StartBatch, Tick, JobEnds, NextItem, Prepare, MarkItem,
     MarkRevision, Frame, Video, ReadHistory, ReadQueue, OwnPrompt, WaitPrompt, Got, Bind, Deliver,
     Send, Answer, ExposeRevision, SettleItem, EndBatch, HandleFatal, RecoverBatches, store
<1>3. CASE Crash \/ Boot \/ Damage \/ UNCHANGED vars
  BY <1>3 DEF Crash, Boot, Damage, store, vars
<1> QED BY <1>1, <1>2, <1>3 DEF Next

LEMMA FinalChanges ==
  ASSUME [Next]_vars
  PROVE  UNCHANGED final \/ QueueManualFinal \/ StartFinal \/ Stitch
<1>1. CASE Http
  BY <1>1 DEF Http, CreateRemakeBatch, SubmitBatch, AbandonCurrent, CancelProjectPrompts,
     QueueRemakeBatch, store
<1>2. CASE Worker
  BY <1>2 DEF Worker, StartBatch, Tick, JobEnds, NextItem, Prepare, MarkItem,
     MarkRevision, Frame, Video, ReadHistory, ReadQueue, QueuePrompt, OwnPrompt, WaitPrompt, Got,
     Bind, Deliver, Send, Answer, ExposeRevision, SettleItem, EndBatch, HandleFatal,
     RecoverBatches, store
<1>3. CASE RunPrompt \/ ComfyDies \/ Crash \/ Boot \/ Damage \/ UNCHANGED vars
  BY <1>3 DEF RunPrompt, ComfyDies, Crash, Boot, Damage, store, vars
<1> QED BY <1>1, <1>2, <1>3 DEF Next

LEMMA PostChanges == ASSUME [Next]_vars PROVE UNCHANGED posted \/ Send
<1>1. CASE Http
  BY <1>1 DEF Http, CreateRemakeBatch, SubmitBatch, AbandonCurrent, CancelProjectPrompts,
     QueueRemakeBatch, QueueManualFinal, store
<1>2. CASE Worker
  BY <1>2 DEF Worker, StartFinal, Stitch, StartBatch, Tick, JobEnds, NextItem, Prepare, MarkItem,
     MarkRevision, Frame, Video, ReadHistory, ReadQueue, QueuePrompt, OwnPrompt, WaitPrompt, Got,
     Bind, Deliver, Answer, ExposeRevision, SettleItem, EndBatch, HandleFatal,
     RecoverBatches, store, Rest
<1>3. CASE RunPrompt \/ ComfyDies \/ Crash \/ Boot \/ Damage \/ UNCHANGED vars
  BY <1>3 DEF RunPrompt, ComfyDies, Crash, Boot, Damage, store, vars
<1> QED BY <1>1, <1>2, <1>3 DEF Next

LEMMA NextShapes == ASSUME Shape, [Next]_vars PROVE Shape'
BY NextKeepsShape, SameShape

LEMMA AlwaysGrows == ASSUME Shape, [Next]_vars PROVE Grows
<1>1. CASE UNCHANGED prompts BY <1>1, StillGrows
<1>2. CASE CancelProjectPrompts BY <1>2, CancelledEnds, EndsGrow, StillGrows DEF CancelProjectPrompts
<1>3. CASE QueuePrompt
  <2>1. UNCHANGED prompts \/ (prompts' = Append(prompts, Queued) /\ w.pc \in ItemSteps /\ w.stage \in Stages)
    BY <1>3, QueuePromptDoes, PcIs DEF PromptSteps
  <2> QED BY <2>1, SentGrows, StillGrows
<1>4. CASE RunPrompt BY <1>4, RunPromptDoes, EndsGrow
<1>5. CASE ComfyDies BY <1>5, ComfyDiesDoes, EndsGrow
<1> QED BY <1>1, <1>2, <1>3, <1>4, <1>5, PromptChanges

\* The prompt of a row is kept, given up, or the one just queued.
LEMMA ItemMoves ==
  ASSUME Shape, [Next]_vars, NEW y \in Items
  PROVE  \/ item'[y].prompt = item[y].prompt /\ item'[y].stage = item[y].stage
         \/ item'[y].prompt = 0 /\ item'[y].stage = "none"
         \/ OwnPrompt /\ y = it /\ item'[y].prompt = w.p /\ item'[y].stage = w.stage
<1>1. CASE UNCHANGED item BY <1>1
<1>2. CASE \E b \in Batches : CreateRemakeBatch(b)
  <2>1. PICK b \in Batches : CreateRemakeBatch(b) BY <1>2
  <2> QED BY <2>1, CreateDoes DEF Fresh
<1>3. CASE NextItem BY <1>3, NextDoes DEF ItemOnly
<1>4. CASE MarkItem BY <1>4, MarkItemDoes DEF ItemOnly
<1>5. CASE Frame BY <1>5, FrameDoes DEF Freed, ItemOnly
<1>6. CASE OwnPrompt BY <1>6, OwnDoes DEF ItemOnly
<1>7. CASE Got BY <1>7, GotDoes DEF Freed, ItemOnly
<1>8. CASE SettleItem BY <1>8, SettleDoes DEF Finished, ItemOnly
<1>9. CASE Recovered /\ w' = Idle("idle")
  <2>1. Again(y) BY <1>9, RecoveredDoes
  <2> QED BY <2>1 DEF Again, Finished
<1> QED BY <1>1, <1>2, <1>3, <1>4, <1>5, <1>6, <1>7, <1>8, <1>9, ItemChanges

LEMMA SettledStands ==
  ASSUME Shape, Agree, [Next]_vars, NEW y \in Items, item[y].state \in Settled
  PROVE  item'[y].state = item[y].state
<1>1. CASE UNCHANGED item BY <1>1
<1>2. CASE \E b \in Batches : CreateRemakeBatch(b)
  <2>1. PICK b \in Batches : CreateRemakeBatch(b) BY <1>2
  <2>2. batch[y[1]].state # "none" BY DEF Agree, RowsOK, Settled
  <2> QED BY <2>1, <2>2, CreateDoes
<1>3. CASE NextItem
  <2>1. \/ UNCHANGED item
        \/ /\ w.phase = "prepare" /\ ItemOnly(<<w.b, w'.i>>) /\ Due(w'.i) /\ w'.i \in w.i .. Size
           /\ w.pc = "next" /\ w.pc \in RunSteps /\ w.i \in Nat /\ Size \in Nat
    BY <1>3, NextDoes DEF RunSteps
  <2>2. CASE UNCHANGED item BY <2>2
  <2>3. CASE /\ w.phase = "prepare" /\ ItemOnly(<<w.b, w'.i>>) /\ Due(w'.i) /\ w'.i \in w.i .. Size
             /\ w.pc = "next" /\ w.pc \in RunSteps /\ w.i \in Nat /\ Size \in Nat
    <3> DEFINE h == w'.i
    <3>1. w.i # 0 BY <2>3 DEF Shape, Placed
    <3>2. h \in 1 .. Size /\ h \in Nat /\ h >= w.i BY <2>3, <3>1
    <3>3. Stand(h) /\ Ahead(h) BY <2>3, <3>2 DEF Agree, HandOK, Ahead
    <3>4. item[<<w.b, h>>].state \notin Settled BY <2>3, <3>3 DEF Stand, Row, Due
    <3>5. y # <<w.b, h>> BY <3>4
    <3> QED BY <2>3, <3>5 DEF ItemOnly
  <2> QED BY <2>1, <2>2, <2>3
<1>4. CASE MarkItem
  <2>1. item[it].state = "running" BY <1>4, MarkItemDoes, PcIs, HeldStand DEF Agree
  <2> QED BY <1>4, <2>1, MarkItemDoes DEF ItemOnly, Settled
<1>5. CASE Frame BY <1>5, FrameDoes DEF Freed, ItemOnly
<1>6. CASE OwnPrompt BY <1>6, OwnDoes DEF ItemOnly
<1>7. CASE Got BY <1>7, GotDoes DEF Freed, ItemOnly
<1>8. CASE SettleItem
  <2>1. item[it].state = "running" BY <1>8, SettleDoes, PcIs, HeldStand DEF Agree, DeliverySteps
  <2> QED BY <1>8, <2>1, SettleDoes DEF ItemOnly, Settled
<1>9. CASE Recovered /\ w' = Idle("idle")
  <2>1. Again(y) BY <1>9, RecoveredDoes
  <2> QED BY <2>1 DEF Again, Mine, Settled
<1> QED BY <1>1, <1>2, <1>3, <1>4, <1>5, <1>6, <1>7, <1>8, <1>9, ItemChanges

\* A clip is kept, lost, or just downloaded.
LEMMA ClipMoves ==
  ASSUME Shape, [Next]_vars, NEW y \in Items
  PROVE  \/ disk'[y].clip = disk[y].clip
         \/ disk'[y].clip = 0 /\ Damage
         \/ Got /\ w.pc = "got" /\ w.stage # "t2i" /\ y = it /\ disk'[y].clip = w.p
<1>2. CASE \E b \in Batches : CreateRemakeBatch(b)
  <2>1. PICK b \in Batches : CreateRemakeBatch(b) BY <1>2
  <2> QED BY <2>1, CreateDoes
<1>3. CASE Prepare BY <1>3, PrepareDoes DEF DiskOnly
<1>4. CASE MarkRevision BY <1>4, MarkRevisionDoes DEF DiskOnly
<1>5. CASE Got BY <1>5, GotDoes DEF DiskOnly
<1>6. CASE Bind BY <1>6, BindDoes DEF DiskOnly
<1>7. CASE Deliver BY <1>7, DeliverDoes DEF DiskOnly
<1>8. CASE Answer BY <1>8, AnswerDoes DEF DiskOnly
<1>9. CASE ExposeRevision BY <1>9, ExposeDoes DEF DiskOnly
<1>10. CASE RunPrompt BY <1>10, RunPromptDoes DEF DiskOnly
<1>11. CASE Damage BY <1>11, DamageDoes DEF DiskOnly
<1> QED BY <1>2, <1>3, <1>4, <1>5, <1>6, <1>7, <1>8, <1>9, <1>10, <1>11, DiskChanges

LEMMA MarkerMoves ==
  ASSUME Shape, [Next]_vars, NEW y \in Items
  PROVE  disk'[y].marker = disk[y].marker \/ ((Deliver \/ Answer) /\ y = it)
<1>2. CASE \E b \in Batches : CreateRemakeBatch(b)
  <2>1. PICK b \in Batches : CreateRemakeBatch(b) BY <1>2
  <2> QED BY <2>1, CreateDoes
<1>3. CASE Prepare BY <1>3, PrepareDoes DEF DiskOnly
<1>4. CASE MarkRevision BY <1>4, MarkRevisionDoes DEF DiskOnly
<1>5. CASE Got BY <1>5, GotDoes DEF DiskOnly
<1>6. CASE Bind BY <1>6, BindDoes DEF DiskOnly
<1>7. CASE Deliver BY <1>7, DeliverDoes DEF DiskOnly
<1>8. CASE Answer BY <1>8, AnswerDoes DEF DiskOnly
<1>9. CASE ExposeRevision BY <1>9, ExposeDoes DEF DiskOnly
<1>10. CASE RunPrompt BY <1>10, RunPromptDoes DEF DiskOnly
<1>11. CASE Damage BY <1>11, DamageDoes DEF DiskOnly
<1> QED BY <1>2, <1>3, <1>4, <1>5, <1>6, <1>7, <1>8, <1>9, <1>10, <1>11, DiskChanges

-----------------------------------------------------------------------------
(* A manual final is made of what was selected *)

\* What a selection names stays as it was, or its file is lost.
Snapped(s) == /\ s.of[1] = 0 => s.clip = Original
              /\ s.of[1] # 0 => /\ rev[s.of].state = "succeeded"
                                /\ disk[s.of].clip \in {0, s.clip}

LEMMA SnappedStands ==
  ASSUME Shape, Agree, [Next]_vars, NEW s \in Choices, Snapped(s)
  PROVE  Snapped(s)'
<1>1. CASE s.of[1] = 0 BY <1>1 DEF Snapped
<1>2. CASE s.of[1] # 0
  <2>1. s.of \in Items \cup ({0} \X Scenes) BY DEF Choices
  <2>2. s.of \in Items BY <1>2, <2>1
  <2> DEFINE y == s.of
  <2>3. rev[y].state = "succeeded" /\ disk[y].clip \in {0, s.clip} BY <1>2 DEF Snapped
  <2>4. rev'[y].state = "succeeded"
    <3>1. CASE Next BY <2>2, <2>3, <3>1, RevisionStands
    <3>2. CASE UNCHANGED vars BY <2>3, <3>2 DEF vars
    <3> QED BY <3>1, <3>2
  <2>5. disk'[y].clip \in {0, s.clip}
    <3>1. CASE Got /\ w.pc = "got" /\ y = it
      <4>1. w.pc \in ItemSteps BY <3>1, PcIs DEF PromptSteps
      <4>2. item[it].state = "running" /\ rev[it].state # "succeeded" BY <3>1, <4>1, HeldStand DEF Agree
      <4> QED BY <2>3, <3>1, <4>2
    <3> QED BY <2>2, <2>3, <3>1, ClipMoves
  <2> QED BY <1>2, <2>4, <2>5 DEF Snapped
<1> QED BY <1>1, <1>2

LEMMA SnapMade ==
  ASSUME Shape', \A k \in DOMAIN final' : \A i \in Scenes : \A s \in Choices :
                   s = final'[k].sel[i] => /\ final'[k].state = "succeeded" => final'[k].out[i] = s.clip
                                           /\ Snapped(s)'
  PROVE  SnapOK'
<1>1. ASSUME NEW k \in DOMAIN final', NEW i \in Scenes
      PROVE  /\ final'[k].state = "succeeded" => final'[k].out[i] = final'[k].sel[i].clip
             /\ final'[k].sel[i].of[1] = 0 => final'[k].sel[i].clip = Original
             /\ final'[k].sel[i].of[1] # 0 =>
                  /\ rev'[final'[k].sel[i].of].state = "succeeded"
                  /\ disk'[final'[k].sel[i].of].clip \in {0, final'[k].sel[i].clip}
  <2>1. final'[k] \in Finals BY DEF Shape, Typed
  <2>2. final'[k].sel[i] \in Choices BY <2>1 DEF Finals
  <2>3. PICK s \in Choices : s = final'[k].sel[i] BY <2>2
  <2>4. (final'[k].state = "succeeded" => final'[k].out[i] = s.clip) /\ Snapped(s)' BY <2>3
  <2> QED BY <2>3, <2>4 DEF Snapped
<1> QED BY <1>1 DEF SnapOK

LEMMA SnapKept == ASSUME Shape, Agree, SnapOK, [Next]_vars PROVE SnapOK'
<1>1. Shape' BY NextShapes
<1>2. \A s \in Choices : Snapped(s) => Snapped(s)' BY SnappedStands
<1>3. ASSUME NEW k \in DOMAIN final, NEW i \in Scenes
      PROVE  /\ final[k].sel[i] \in Choices /\ Snapped(final[k].sel[i])
             /\ final[k].state = "succeeded" => final[k].out[i] = final[k].sel[i].clip
  <2>1. final[k] \in Finals BY DEF Shape, Typed
  <2> QED BY <2>1 DEF Finals, SnapOK, Snapped
\* A final whose selection stays keeps it.
<1>4. ASSUME NEW k \in DOMAIN final, NEW i \in Scenes, NEW s \in Choices, s = final[k].sel[i]
      PROVE  Snapped(s)'
  BY <1>2, <1>3, <1>4
<1>5. CASE UNCHANGED final
  <2>1. ASSUME NEW k \in DOMAIN final', NEW i \in Scenes, NEW s \in Choices, s = final'[k].sel[i]
        PROVE  (final'[k].state = "succeeded" => final'[k].out[i] = s.clip) /\ Snapped(s)'
    <3>1. k \in DOMAIN final /\ s = final[k].sel[i] BY <1>5, <2>1
    <3> QED BY <1>3, <1>4, <1>5, <3>1
  <2> QED BY <1>1, <2>1, SnapMade
<1>6. CASE QueueManualFinal
  <2> DEFINE n == Len(final) + 1
  <2>1. /\ final' \in Seq(Finals) /\ Len(final') = n /\ \A k \in 1 .. Len(final) : final'[k] = final[k]
        /\ final'[n].state = "queued" /\ UNCHANGED <<rev, disk>>
        /\ \A i \in Scenes : Chosen(final'[n].sel[i], i)
    BY <1>6, QueueFinalDoes
  <2>2. Len(final) \in Nat /\ DOMAIN final = 1 .. Len(final) /\ DOMAIN final' = 1 .. n
    BY <2>1 DEF Shape, Typed
  <2>3. ASSUME NEW k \in DOMAIN final', NEW i \in Scenes, NEW s \in Choices, s = final'[k].sel[i]
        PROVE  (final'[k].state = "succeeded" => final'[k].out[i] = s.clip) /\ Snapped(s)'
    <3>1. CASE k \in DOMAIN final
      <4>1. s = final[k].sel[i] /\ final'[k] = final[k] BY <2>1, <2>2, <2>3, <3>1
      <4> QED BY <1>3, <1>4, <3>1, <4>1
    <3>2. CASE k = n
      <4>1. Chosen(s, i) /\ final'[k].state # "succeeded" BY <2>1, <2>3, <3>2
      <4>2. Snapped(s)
        <5>1. CASE s = [of |-> <<0, i>>, clip |-> Original] BY <5>1 DEF Snapped
        <5>2. CASE \E y \in Items : /\ rev[y].state = "succeeded" /\ disk[y].clip # 0
                                    /\ s = [of |-> y, clip |-> disk[y].clip]
          <6>1. \A y \in Items : y[1] # 0 BY ItemsAre
          <6> QED BY <5>2, <6>1 DEF Snapped
        <5> QED BY <4>1, <5>1, <5>2 DEF Chosen
      <4> QED BY <1>2, <4>1, <4>2
    <3> QED BY <2>2, <3>1, <3>2
  <2> QED BY <1>1, <2>3, SnapMade
<1>7. CASE StartFinal
  <2> DEFINE n == w'.i
  <2>1. n \in DOMAIN final /\ final' = [final EXCEPT ![n].state = "running"] BY <1>7, StartFinalDoes
  <2> HIDE DEF n
  <2>2. /\ DOMAIN final' = DOMAIN final /\ \A j \in DOMAIN final : j # n => final'[j] = final[j]
        /\ final'[n].state = "running" /\ final'[n].sel = final[n].sel
    BY <2>1, FinalsKept
  <2>3. ASSUME NEW k \in DOMAIN final', NEW i \in Scenes, NEW s \in Choices, s = final'[k].sel[i]
        PROVE  (final'[k].state = "succeeded" => final'[k].out[i] = s.clip) /\ Snapped(s)'
    <3>1. k \in DOMAIN final /\ s = final[k].sel[i] BY <2>2, <2>3
    <3> QED BY <1>3, <1>4, <2>2, <3>1
  <2> QED BY <1>1, <2>3, SnapMade
<1>8. CASE Stitch
  <2> DEFINE n == w.i
  <2>1. /\ n \in DOMAIN final /\ DOMAIN final' = DOMAIN final
        /\ \A j \in DOMAIN final : j # n => final'[j] = final[j]
        /\ final'[n].sel = final[n].sel
        /\ \/ final'[n].state = "failed"
           \/ /\ final'[n].state = "succeeded"
              /\ \A i \in Scenes : /\ final'[n].out[i] = ClipOf(final[n].sel[i])
                                   /\ ClipOf(final[n].sel[i]) # 0
    BY <1>8, StitchDoes
  <2> HIDE DEF n
  <2>2. ASSUME NEW k \in DOMAIN final', NEW i \in Scenes, NEW s \in Choices, s = final'[k].sel[i]
        PROVE  (final'[k].state = "succeeded" => final'[k].out[i] = s.clip) /\ Snapped(s)'
    <3>1. k \in DOMAIN final /\ s = final[k].sel[i] BY <2>1, <2>2
    <3>2. Snapped(s) BY <1>3, <3>1
    <3>3. CASE k # n BY <1>3, <1>4, <2>1, <3>1, <3>3
    <3>4. CASE k = n
      <4>1. final'[k].state = "succeeded" => final'[k].out[i] = ClipOf(s) /\ ClipOf(s) # 0
        BY <2>1, <3>1, <3>4
      <4>2. ClipOf(s) # 0 => ClipOf(s) = s.clip BY <3>2 DEF ClipOf, Snapped
      <4> QED BY <1>4, <3>1, <4>1, <4>2
    <3> QED BY <3>3, <3>4
  <2> QED BY <1>1, <2>2, SnapMade
<1> QED BY <1>5, <1>6, <1>7, <1>8, FinalChanges

\* A selection of queue_manual_final names succeeded revisions by the clip they have, unless
\* that clip was damaged, which _run_manual_final finds.
THEOREM InSnapshots == Spec => []SnapOK
<1>1. Init => SnapOK BY DEF Init, SnapOK
<1>2. Shape /\ Agree /\ SnapOK /\ [Next]_vars => SnapOK' BY SnapKept
<1> QED BY <1>1, <1>2, InShape, InAgreement, PTL DEF Spec

\* A manual final that succeeds is made of the clips selected at its request, all of succeeded
\* revisions, whatever the worker did between the request and the stitch.
THEOREM FinalsAreSnapshots == Spec => []FinalIsSnapshot
<1>1. SnapOK => FinalIsSnapshot BY DEF SnapOK, FinalIsSnapshot
<1> QED BY <1>1, InSnapshots, PTL

-----------------------------------------------------------------------------
(* What the worker holds, and where it got it *)

Advances == /\ w.pc \in ItemSteps /\ w'.pc \in ItemSteps /\ SameHand
            /\ w'.pc \in EarlySteps => w.pc \in EarlySteps \cup {"video"}
            /\ w'.pc \in DeliverySteps => w.pc \in DeliverySteps \ {"settle"}
Leaves == /\ w.pc \in ItemSteps /\ w'.pc = "next" /\ w'.i = w.i + 1 /\ SameRun
          /\ \/ SameSets
             \/ w.pc \in VideoSteps /\ w'.prep = w.prep /\ w'.route = w.route /\ w'.gen = w.gen \cup {w.i}
             \/ Prepare /\ Prepared(UsedRoute)

LEMMA SkipLeaves ==
  ASSUME w \in WorkerStates, w.pc \in ItemSteps, Skipped \/ (Generated /\ w.pc \in VideoSteps)
  PROVE  Leaves
<1>1. CASE Skipped BY <1>1, SkipDoes DEF Leaves
<1>2. CASE Generated /\ w.pc \in VideoSteps BY <1>2, SkipGenDoes DEF Leaves
<1> QED BY <1>1, <1>2

LEMMA MovesAdvance ==
  ASSUME w.pc \in ItemSteps, NEW pcs, Moves(pcs), w'.pc \in RunSteps,
         pcs \cap RunSteps \subseteq ItemSteps,
         w.pc \in EarlySteps \cup {"video"} \/ pcs \cap EarlySteps = {},
         w.pc \in DeliverySteps \ {"settle"} \/ pcs \cap DeliverySteps = {}
  PROVE  Advances
BY DEF Advances, Moves

\* How the worker came to its step of a batch.
LEMMA WorkerMoves ==
  ASSUME Shape, [Next]_vars, w'.pc \in RunSteps
  PROVE  UNCHANGED w \/ StartBatch \/ NextItem \/ Advances \/ Leaves
<1>0. w \in WorkerStates BY DEF Shape, Typed
<1>a. \A pc \in ItemSteps : pc \in RunSteps BY PcIs
<1>b. /\ {"mark", "markrev", "post", "got", "queue", "wait", "bind", "expose", "send", "sent", "unsent",
          "settle", "deliver", "own", "history", "prepare", "frame", "video"} \subseteq ItemSteps
      /\ {"fatal", "recover", "idle", "job", "stitch", "down"} \cap RunSteps = {}
  BY DEF ItemSteps, RunSteps, PromptSteps, VideoSteps, DeliverySteps
<1>c. /\ EarlySteps = {"frame", "history", "queue", "post", "own"}
      /\ DeliverySteps = {"deliver", "send", "sent", "unsent", "expose", "settle"}
  BY DEF EarlySteps, DeliverySteps
<1>1. CASE Http \/ RunPrompt \/ ComfyDies \/ Damage \/ UNCHANGED vars
  BY <1>1 DEF Http, CreateRemakeBatch, SubmitBatch, AbandonCurrent, CancelProjectPrompts,
     QueueRemakeBatch, QueueManualFinal, RunPrompt, ComfyDies, Damage, vars
<1>2. CASE Crash BY <1>2, CrashDoes, IdleIs, <1>b
<1>3. CASE Boot BY <1>3, BootDoes, IdleIs, <1>b
<1>4. CASE StartFinal BY <1>4, StartFinalDoes, <1>b
<1>5. CASE Stitch \/ JobEnds \/ EndBatch \/ RecoverBatches
  BY <1>5, IdleIs, <1>b DEF Stitch, JobEnds, EndBatch, RecoverBatches
<1>6. CASE Tick BY <1>6, TickDoes, <1>b
<1>7. CASE HandleFatal BY <1>7, FatalErrorDoes, <1>b
<1>8. CASE StartBatch \/ NextItem BY <1>8
<1>9. CASE Prepare
  <2>1. w.pc \in ItemSteps BY <1>9, <1>b, PrepareDoes
  <2>2. CASE Moves({"mark"}) BY <2>1, <2>2, <1>b, <1>c, MovesAdvance
  <2>3. CASE Prepared(UsedRoute)
    <3>1. UsedRoute \in Routes /\ w.i \in DOMAIN w.route
      <4>1. w.pc \in RunSteps BY <1>a, <2>1
      <4>2. w.i \in 1 .. Size /\ Len(w.route) = Size /\ w.route \in Seq(RouteOrNone)
        BY <1>0, <2>1, <4>1 DEF Shape, Placed, WorkerStates
      <4> QED BY <2>1, <4>2, RouteIs
    <3> QED BY <1>0, <1>9, <2>1, <2>3, <3>1, SkipPrepDoes DEF Leaves
  <2> QED BY <1>9, <2>2, <2>3, PrepareDoes
<1>10. CASE MarkItem BY <1>10, MarkItemDoes, <1>b, <1>c, MovesAdvance
<1>11. CASE MarkRevision BY <1>0, <1>11, MarkRevisionDoes, <1>b, SkipLeaves
<1>12. CASE Frame
  <2>1. w.pc \in ItemSteps /\ w.pc = "frame" BY <1>12, <1>b, FrameDoes
  <2>2. CASE Skipped BY <1>0, <2>1, <2>2, SkipLeaves
  <2>3. CASE SameHand /\ w'.pc = "history" BY <2>1, <2>3, <1>b, <1>c DEF Advances
  <2> QED BY <1>12, <2>2, <2>3, FrameDoes DEF Asks
<1>13. CASE Video
  <2>1. w.pc \in ItemSteps /\ w.pc = "video" /\ w.pc \in VideoSteps BY <1>13, <1>b, VideoDoes DEF VideoSteps
  <2>2. CASE Generated BY <1>0, <2>1, <2>2, SkipLeaves
  <2>3. CASE SameHand /\ w'.pc = "history" BY <2>1, <2>3, <1>b, <1>c DEF Advances
  <2> QED BY <1>13, <2>2, <2>3, VideoDoes DEF Asks
<1>14. CASE ReadHistory BY <1>14, HistoryDoes, <1>b, <1>c, MovesAdvance
<1>15. CASE ReadQueue BY <1>15, ReadQueueDoes, <1>b, <1>c, MovesAdvance
<1>16. CASE QueuePrompt
  <2>1. w.pc \in ItemSteps /\ w.pc = "post" BY <1>16, <1>b, QueuePromptDoes
  <2>2. CASE Moves({"mark", "fatal"}) BY <2>1, <2>2, <1>b, <1>c, MovesAdvance
  <2>3. CASE SameHand /\ w'.pc = "own" BY <2>1, <2>3, <1>b, <1>c DEF Advances
  <2> QED BY <1>16, <2>2, <2>3, QueuePromptDoes
<1>17. CASE OwnPrompt BY <1>17, OwnDoes, <1>b, <1>c, MovesAdvance
<1>18. CASE WaitPrompt BY <1>18, WaitDoes, <1>b, <1>c, MovesAdvance
<1>19. CASE Got
  <2>1. w.pc \in ItemSteps BY <1>19, <1>b, GotDoes
  <2>2. CASE Skipped BY <1>0, <2>1, <2>2, SkipLeaves
  <2>3. CASE \E pcs \in {{"mark"}, {"bind"}, {"mark", "fatal"}} : Moves(pcs)
    BY <2>1, <2>3, <1>b, <1>c, MovesAdvance
  <2> QED BY <1>19, <2>2, <2>3, GotDoes
<1>20. CASE Bind BY <1>0, <1>20, BindDoes, <1>b, SkipLeaves DEF VideoSteps
<1>21. CASE Deliver
  <2>1. w.pc \in ItemSteps /\ w.pc = "deliver" BY <1>21, <1>b, DeliverDoes
  <2>2. \E pcs \in {{"mark"}, {"expose"}, {"send"}} : Moves(pcs) BY <1>21, DeliverDoes
  <2> QED BY <2>1, <2>2, <1>b, <1>c, MovesAdvance
<1>22. CASE Send
  <2>1. w.pc \in ItemSteps /\ w.pc = "send" BY <1>22, <1>b, SendDoes
  <2>2. \E pcs \in {{"sent"}, {"unsent"}} : Moves(pcs) BY <1>22, SendDoes
  <2> QED BY <2>1, <2>2, <1>b, <1>c, MovesAdvance
<1>23. CASE Answer BY <1>23, AnswerDoes, <1>b, <1>c DEF Advances
<1>24. CASE ExposeRevision BY <1>24, ExposeDoes, <1>b, <1>c, MovesAdvance
<1>25. CASE SettleItem BY <1>0, <1>25, SettleDoes, <1>b, SkipLeaves
<1>26. CASE Worker
  BY <1>26, <1>4, <1>5, <1>6, <1>7, <1>8, <1>9, <1>10, <1>11, <1>12, <1>13, <1>14, <1>15, <1>16, <1>17,
     <1>18, <1>19, <1>20, <1>21, <1>22, <1>23, <1>24, <1>25 DEF Worker
<1> QED BY <1>1, <1>2, <1>3, <1>26 DEF Next

LEMMA WaitsOn ==
  ASSUME Shape, [Next]_vars, w'.pc \in RunSteps
  PROVE  \/ StartBatch
         \/ /\ w.pc \in RunSteps /\ w'.b = w.b /\ w'.rows = w.rows
            /\ \A i \in 1 .. Size : Waiting(i)' => Waiting(i)
<1>0. \A pc \in ItemSteps : pc \in RunSteps /\ pc # "next" BY PcIs, NotNext
<1>1. CASE UNCHANGED w BY <1>1 DEF Waiting, Ahead, Held
<1>2. CASE StartBatch BY <1>2
<1>3. CASE NextItem
  <2>1. w.pc = "next" /\ w.pc \in RunSteps /\ w'.b = w.b /\ w'.rows = w.rows /\ w.i \in Nat /\ Size \in Nat
    BY <1>3, NextDoes DEF RunSteps
  <2>2. CASE w'.phase = w.phase /\ w'.i \in w.i .. Size /\ w'.pc \in ItemSteps
    <3>1. w'.i \in Nat /\ w'.i >= w.i /\ w'.pc # "next" BY <1>0, <2>1, <2>2
    <3>2. ASSUME NEW i \in 1 .. Size, Waiting(i)' PROVE Waiting(i)
      BY <2>1, <2>2, <3>1, <3>2 DEF Waiting, Ahead, Held
    <3> QED BY <2>1, <3>2
  <2>3. CASE w'.phase = w.phase /\ w.phase = "deliver"
    BY <2>1, <2>3 DEF Waiting
  <2>4. CASE w'.phase = NextPhase[w.phase] /\ w.phase # "deliver"
    <3>1. w.phase \in {"prepare", "frames", "videos"} BY <2>1, <2>4 DEF Shape, Placed, Phases
    <3>2. w'.phase = "frames" => w.phase = "prepare" BY <2>4, <3>1 DEF NextPhase
    <3>3. w'.phase # "prepare" BY <2>4, <3>1 DEF NextPhase
    <3> QED BY <2>1, <3>2, <3>3 DEF Waiting
  <2> QED BY <1>3, <2>2, <2>3, <2>4, NextDoes
<1>4. CASE Advances
  <2>1. ASSUME NEW i \in 1 .. Size, Waiting(i)' PROVE Waiting(i)
    <3>1. CASE w'.phase = "prepare" BY <1>4, <3>1 DEF Advances, SameHand, SameRun, Waiting
    <3>2. CASE w'.phase = "frames" /\ i > w'.i BY <1>4, <3>2 DEF Advances, SameHand, SameRun, Waiting, Ahead
    <3>3. CASE w'.phase = "frames" /\ i = w'.i /\ w'.pc \in EarlySteps
      <4>1. w.phase = "frames" /\ i = w.i /\ w.pc \in EarlySteps \cup {"video"} /\ w.pc \in RunSteps
        BY <1>0, <1>4, <3>3 DEF Advances, SameHand, SameRun
      <4>2. w.pc # "video" BY <4>1 DEF Shape, Placed, VideoSteps
      <4> QED BY <1>4, <4>1, <4>2 DEF Advances, Waiting, Held
    <3> QED BY <1>0, <1>4, <2>1, <3>1, <3>2, <3>3 DEF Waiting, Ahead, Held, Advances
  <2> QED BY <1>0, <1>4, <2>1 DEF Advances, SameHand, SameRun
<1>5. CASE Leaves
  <2>1. w.i \in Nat BY <1>5, HandIs DEF Leaves
  <2>2. w'.phase = w.phase /\ w'.i = w.i + 1 /\ w'.pc = "next" BY <1>5 DEF Leaves, SameRun
  <2>3. "next" \notin ItemSteps BY NotNext
  <2>4. ASSUME NEW i \in 1 .. Size, Waiting(i)' PROVE Waiting(i)
    BY <2>1, <2>2, <2>3, <2>4 DEF Waiting, Ahead, Held
  <2> QED BY <1>0, <1>5, <2>4 DEF Leaves, SameRun
<1> QED BY <1>1, <1>2, <1>3, <1>4, <1>5, WorkerMoves

\* The prompt of a row the worker waits to read stays in it.
LEMMA RowWaits ==
  ASSUME Shape, Agree, [Next]_vars, w.pc \in RunSteps, w'.pc \in RunSteps, w'.b = w.b,
         NEW i \in 1 .. Size, Waiting(i)', ~Done(i)
  PROVE  Row(i)'.prompt = Row(i).prompt /\ Row(i)'.stage = Row(i).stage
<1> DEFINE y == <<w.b, i>>
<1>0. w.b \in Batches /\ y \in Items /\ batch[w.b].state = "running"
  <2>1. w.b \in Batches /\ batch[w.b].state = "running" BY DEF Shape, Placed
  <2> QED BY <2>1, ItemsAre DEF Size
<1>1. ~(w'.pc = "next" /\ w'.i = w.i + 1 /\ SameRun /\ i = w.i /\ w.phase # "prepare")
  <2> SUFFICES ASSUME w'.pc = "next" /\ w'.i = w.i + 1 /\ SameRun /\ i = w.i /\ w.phase # "prepare"
               PROVE FALSE
    OBVIOUS
  <2> QED BY NotNext DEF Waiting, Ahead, Held, SameRun
<1>2. ~(w'.pc \in ItemSteps /\ w'.pc \notin EarlySteps /\ w'.i = w.i /\ i = w.i /\ w'.phase = w.phase /\ w.phase # "prepare")
  <2> SUFFICES ASSUME w'.pc \in ItemSteps /\ w'.pc \notin EarlySteps /\ w'.i = w.i /\ i = w.i /\ w'.phase = w.phase
                      /\ w.phase # "prepare"
               PROVE FALSE
    OBVIOUS
  <2> QED BY NotNext DEF Waiting, Ahead, Held
<1>3. y = it <=> i = w.i BY DEF it
<1> HIDE DEF y
<1>4. CASE UNCHANGED item BY <1>4 DEF Row
<1>q. item'[y].prompt = item[y].prompt /\ item'[y].stage = item[y].stage
  <2>1. CASE UNCHANGED item BY <2>1
  <2>2. CASE \E b \in Batches : CreateRemakeBatch(b)
    <3>1. PICK b \in Batches : CreateRemakeBatch(b) BY <2>2
    <3>2. y[1] # b BY <1>0, <3>1, CreateDoes DEF y
    <3> QED BY <1>0, <3>1, <3>2, CreateDoes
  <2>3. CASE NextItem BY <1>0, <2>3, NextDoes DEF ItemOnly
  <2>4. CASE MarkItem BY <1>0, <2>4, MarkItemDoes DEF ItemOnly
  <2>5. CASE Frame
    <3>1. CASE Skipped
      <4>1. w.pc \in ItemSteps /\ w.phase = "frames" /\ w \in WorkerStates
        BY <2>5, FrameDoes, PcIs DEF Shape, Typed, Placed
      <4>2. i # w.i BY <1>1, <3>1, <4>1, SkipDoes
      <4> QED BY <1>0, <1>3, <2>5, <4>2, FrameDoes DEF Freed, ItemOnly
    <3>2. CASE UNCHANGED item BY <3>2
    <3> QED BY <2>5, <3>1, <3>2, FrameDoes
  <2>6. CASE OwnPrompt
    <3>1. w.pc = "own" /\ w'.pc = "wait" /\ SameHand BY <2>6, OwnDoes DEF Moves
    <3>2. w.phase # "prepare" /\ w'.pc \in ItemSteps /\ w'.pc \notin EarlySteps
      BY <3>1, PcIs DEF Shape, Placed, PromptSteps, EarlySteps
    <3>3. i # w.i BY <1>2, <3>1, <3>2 DEF SameHand, SameRun
    <3> QED BY <1>0, <1>3, <2>6, <3>3, OwnDoes DEF ItemOnly
  <2>7. CASE Got
    <3>1. w.pc = "got" /\ w.phase # "prepare" BY <2>7, GotDoes, PcIs DEF Shape, Placed, PromptSteps
    <3>2. CASE Skipped
      <4>1. w \in WorkerStates BY DEF Shape, Typed
      <4>2. i # w.i BY <1>1, <3>1, <3>2, <4>1, SkipDoes
      <4> QED BY <1>0, <1>3, <2>7, <4>2, GotDoes DEF Freed, ItemOnly
    <3>3. CASE Moves({"mark"})
      <4>1. w'.pc = "mark" /\ w'.i = w.i /\ w'.phase = w.phase BY <3>3 DEF Moves, SameHand, SameRun
      <4>2. w'.pc \in ItemSteps /\ w'.pc \notin EarlySteps BY <4>1, PcIs DEF EarlySteps
      <4>3. i # w.i BY <1>2, <3>1, <4>1, <4>2
      <4> QED BY <1>0, <1>3, <2>7, <4>3, GotDoes DEF Freed, ItemOnly
    <3>4. CASE UNCHANGED item BY <3>4
    <3> QED BY <2>7, <3>2, <3>3, <3>4, GotDoes
  <2>8. CASE SettleItem
    <3>1. w.pc = "settle" /\ Skipped BY <2>8, SettleDoes
    <3>2. w.phase = "deliver" /\ w \in WorkerStates BY <3>1, PcIs DEF Shape, Typed, Placed, DeliverySteps
    <3>3. i # w.i BY <1>1, <3>1, <3>2, SkipDoes
    <3> QED BY <1>0, <1>3, <2>8, <3>3, SettleDoes DEF ItemOnly
  <2>9. CASE w' = Idle("idle") BY <2>9, IdleIs
  <2> QED BY <2>1, <2>2, <2>3, <2>4, <2>5, <2>6, <2>7, <2>8, <2>9, ItemChanges
<1> QED BY <1>q DEF Row, y

\* What other threads do changes no row that the worker holds.
LEMMA StaysBeside ==
  ASSUME Shape, Agree, [Next]_vars, UNCHANGED w, NEW y \in Items, item[y].state # "none"
  PROVE  item'[y] = item[y] /\ rev'[y] = rev[y]
<1>0. w \in WorkerStates /\ w.i \in Nat BY DEF Shape, Typed, WorkerStates
<1>1. ~Skipped /\ ~Generated BY <1>0, SkipDoes, SkipGenDoes
<1>2. \A pcs : Moves(pcs) => w.pc \in pcs BY DEF Moves
<1>3. ASSUME NEW b \in Batches, CreateRemakeBatch(b) PROVE item'[y] = item[y] /\ rev'[y] = rev[y]
  <2>1. y[1] # b BY <1>3, CreateDoes DEF Agree, RowsOK
  <2> QED BY <1>3, <2>1, CreateDoes
<1>4. ~(w' = Idle("idle") /\ w.pc \in {"down", "recover"}) BY IdleIs
<1>5. item'[y] = item[y]
  <2>1. CASE UNCHANGED item BY <2>1
  <2>2. CASE NextItem
    <3>1. w'.pc \in ItemSteps => UNCHANGED item BY <2>2, NotNext, NextDoes
    <3> QED BY <2>2, <3>1, NextDoes
  <2>3. CASE MarkItem BY <1>2, <2>3, MarkItemDoes
  <2>4. CASE Frame BY <1>1, <2>4, FrameDoes DEF Asks
  <2>5. CASE OwnPrompt BY <1>2, <2>5, OwnDoes
  <2>6. CASE Got BY <1>1, <1>2, <2>6, GotDoes
  <2>7. CASE SettleItem BY <1>1, <2>7, SettleDoes
  <2> QED BY <1>3, <1>4, <2>1, <2>2, <2>3, <2>4, <2>5, <2>6, <2>7, ItemChanges
<1>6. rev'[y] = rev[y]
  <2>1. CASE UNCHANGED rev BY <2>1
  <2>2. CASE Prepare
    <3>1. ~Prepared(UsedRoute)
      <4>1. w.pc \in ItemSteps /\ w.pc \in RunSteps BY <2>2, PrepareDoes, PcIs
      <4>2. UsedRoute \in Routes BY <4>1, RouteIs
      <4>3. w.i \in 1 .. Size /\ Len(w.route) = Size /\ w.route \in Seq(RouteOrNone)
        BY <1>0, <4>1 DEF Shape, Placed, WorkerStates
      <4> QED BY <1>0, <4>2, <4>3, SkipPrepDoes
    <3> QED BY <2>2, <3>1, PrepareDoes
  <2>3. CASE MarkRevision BY <1>1, <2>3, MarkRevisionDoes
  <2>4. CASE Video BY <1>1, <2>4, VideoDoes DEF Asks
  <2>5. CASE ExposeRevision BY <1>2, <2>5, ExposeDoes
  <2> QED BY <1>3, <1>4, <2>1, <2>2, <2>3, <2>4, <2>5, RevChanges
<1> QED BY <1>5, <1>6

\* The worker asks for the prompt that its row names.
LEMMA AskMoves ==
  ASSUME Shape, [Next]_vars, w'.pc \in PromptSteps \cup {"bind"}
  PROVE  \/ UNCHANGED w
         \/ Frame \/ Video \/ ReadHistory \/ ReadQueue \/ QueuePrompt \/ OwnPrompt \/ WaitPrompt
         \/ Got /\ Moves({"bind"})
<1>0. w \in WorkerStates /\ w'.pc \in {"history", "queue", "post", "own", "wait", "got", "bind"}
  BY DEF Shape, Typed, PromptSteps
<1>1. CASE Http \/ RunPrompt \/ ComfyDies \/ Damage \/ UNCHANGED vars
  BY <1>0, <1>1 DEF Http, CreateRemakeBatch, SubmitBatch, AbandonCurrent, CancelProjectPrompts,
     QueueRemakeBatch, QueueManualFinal, RunPrompt, ComfyDies, Damage, vars
<1>2. CASE Crash BY <1>0, <1>2, CrashDoes, IdleIs
<1>3. CASE Boot BY <1>0, <1>3, BootDoes, IdleIs
<1>4. CASE StartFinal BY <1>0, <1>4, StartFinalDoes
<1>5. CASE Stitch \/ JobEnds \/ EndBatch \/ RecoverBatches
  BY <1>0, <1>5, IdleIs DEF Stitch, JobEnds, EndBatch, RecoverBatches
<1>6. CASE Tick BY <1>0, <1>6, TickDoes
<1>7. CASE HandleFatal BY <1>0, <1>7, FatalErrorDoes
<1>8. CASE StartBatch BY <1>0, <1>8, StartBatchDoes
<1>9. CASE NextItem
  <2>1. w'.pc \in {"next", "verdict"} \/ (w'.pc = Work(w.phase) /\ w.phase \in Phases)
    BY <1>9, NextDoes DEF Shape, Placed, RunSteps
  <2> QED BY <1>0, <2>1 DEF Work, Phases
<1>10. CASE Prepare
  <2>1. CASE Prepared(UsedRoute)
    <3>1. w.pc \in ItemSteps /\ w.pc \in RunSteps BY <1>10, PrepareDoes, PcIs
    <3>2. UsedRoute \in Routes BY <3>1, RouteIs
    <3>3. w.i \in 1 .. Size /\ Len(w.route) = Size /\ w.route \in Seq(RouteOrNone)
      BY <1>0, <3>1 DEF Shape, Placed, WorkerStates
    <3> QED BY <1>0, <2>1, <3>2, <3>3, SkipPrepDoes
  <2> QED BY <1>0, <1>10, <2>1, PrepareDoes DEF Moves
<1>11. CASE MarkItem BY <1>0, <1>11, MarkItemDoes DEF Moves
<1>12. CASE MarkRevision BY <1>0, <1>12, MarkRevisionDoes, SkipDoes
<1>14. CASE Got BY <1>0, <1>14, GotDoes, SkipDoes DEF Moves
<1>15. CASE Bind BY <1>0, <1>15, BindDoes, SkipGenDoes
<1>16. CASE Deliver BY <1>0, <1>16, DeliverDoes DEF Moves
<1>17. CASE Send BY <1>0, <1>17, SendDoes DEF Moves
<1>18. CASE Answer BY <1>0, <1>18, AnswerDoes
<1>19. CASE ExposeRevision BY <1>0, <1>19, ExposeDoes DEF Moves
<1>20. CASE SettleItem BY <1>0, <1>20, SettleDoes, SkipDoes
<1>21. CASE Worker
  BY <1>21, <1>4, <1>5, <1>6, <1>7, <1>8, <1>9, <1>10, <1>11, <1>12, <1>14, <1>15, <1>16, <1>17,
     <1>18, <1>19, <1>20 DEF Worker
<1> QED BY <1>1, <1>2, <1>3, <1>21 DEF Next

LEMMA HoldKept == ASSUME Shape, Agree, HoldOK, [Next]_vars PROVE HoldOK'
<1>0. Shape' BY NextShapes
<1>1. ASSUME w'.pc = "own" PROVE w'.p = Len(prompts')
  <2>1. w'.pc \in RunSteps /\ w'.pc \in ItemSteps BY <1>1, PcIs DEF PromptSteps
  <2>2. CASE UNCHANGED w
    <3>1. ~QueuePrompt BY <1>1, <2>2, QueuePromptDoes
    <3>2. w.p = Len(prompts) BY <1>1, <2>2 DEF HoldOK
    <3>3. Len(prompts') = Len(prompts)
      <4>1. CASE CancelProjectPrompts
        BY <4>1, CancelledEnds DEF CancelProjectPrompts, Ends
      <4> QED BY <3>1, <4>1, PromptChanges, RunPromptDoes, ComfyDiesDoes DEF Ends
    <3> QED BY <2>2, <3>2, <3>3
  <2>3. CASE QueuePrompt
    <3>1. prompts' = Append(prompts, Queued) /\ w'.p = Len(prompts) + 1
      BY <1>1, <2>3, QueuePromptDoes DEF Moves
    <3>2. w.pc \in ItemSteps /\ w.stage \in Stages BY <2>3, QueuePromptDoes, PcIs DEF PromptSteps
    <3> QED BY <3>1, <3>2, SentGrows
  <2>4. w'.pc \notin {"history", "queue", "wait", "got", "bind"} BY <1>1
  <2>5. ~Frame /\ ~Video
    <3>1. w \in WorkerStates BY DEF Shape, Typed
    <3> QED BY <1>1, <3>1, FrameDoes, VideoDoes, SkipDoes, SkipGenDoes DEF Asks
  <2> QED BY <1>1, <2>2, <2>3, <2>5, AskMoves, HistoryDoes, ReadQueueDoes, OwnDoes, WaitDoes DEF Moves, PromptSteps
<1>2. ASSUME w'.pc \in {"history", "queue", "wait", "got"}, w'.p # 0
      PROVE  item'[it'].prompt = w'.p /\ item'[it'].stage = w'.stage
  <2>1. CASE UNCHANGED w
    <3>1. w.pc \in ItemSteps BY <1>2, <2>1, PcIs DEF PromptSteps
    <3>2. it' = it /\ it \in Items /\ item[it].state # "none" BY <2>1, <3>1, HandIs, HeldStand DEF it, Agree
    <3>3. item'[it] = item[it] BY <2>1, <3>2, StaysBeside
    <3> QED BY <1>2, <2>1, <3>2, <3>3 DEF HoldOK
  <2>2. CASE Frame
    <3>1. w.pc = "frame" /\ w.pc \in ItemSteps /\ w \in WorkerStates BY <2>2, FrameDoes, PcIs DEF Shape, Typed
    <3>2. ~Skipped BY <1>2, <3>1, SkipDoes
    <3>3. /\ UNCHANGED item /\ SameHand /\ w'.stage = "t2i"
          /\ w'.p = IF w.rows[w.i].stage = "t2i" THEN w.rows[w.i].prompt ELSE 0
      BY <2>2, <3>2, FrameDoes DEF Asks
    <3>4. w.phase = "frames" /\ w.i \in 1 .. Size /\ w.pc \in RunSteps
      BY <3>1, HandIs DEF Shape, Placed
    <3>5. Waiting(w.i) /\ ~Done(w.i)
      <4>1. Held(w.i) /\ item[it].state = "running" /\ Row(w.i) = item[it] BY <3>1, HeldStand DEF Agree
      <4> QED BY <3>1, <3>4, <4>1 DEF Waiting, EarlySteps, Done, Settled
    <3>6. Unmoved(w.i) BY <3>4, <3>5 DEF HoldOK
    <3>7. it' = it BY <3>3, SameIt
    <3> QED BY <1>2, <3>3, <3>6, <3>7 DEF Unmoved, Row, it
  <2>3. CASE Video
    <3>1. w.pc = "video" /\ w.pc \in ItemSteps /\ w \in WorkerStates BY <2>3, VideoDoes, PcIs DEF Shape, Typed, VideoSteps
    <3>2. ~Generated BY <1>2, <3>1, SkipGenDoes
    <3>3. UNCHANGED item /\ SameHand /\ w'.stage = w.route[w.i] /\ w'.p = Claim
      BY <2>3, <3>2, VideoDoes DEF Asks
    <3>4. it' = it BY <3>3, SameIt
    <3> QED BY <1>2, <3>3, <3>4 DEF Claim
  <2>4. CASE OwnPrompt
    <3>1. SameHand /\ SamePrompt /\ it' = it BY <2>4, OwnDoes, SameIt DEF Moves
    <3> QED BY <2>4, <3>1, OwnDoes DEF SamePrompt
  <2>5. CASE ReadHistory \/ ReadQueue \/ WaitPrompt
    <3>1. UNCHANGED item /\ SameHand /\ SamePrompt /\ w.pc \in {"history", "queue", "wait"}
      BY <2>5, HistoryDoes, ReadQueueDoes, WaitDoes DEF Moves, store
    <3>2. it' = it BY <3>1, SameIt
    <3> QED BY <1>2, <3>1, <3>2 DEF SamePrompt, HoldOK
  <2>6. ~QueuePrompt /\ ~Moves({"bind"}) BY <1>2, QueuePromptDoes DEF Moves
  <2> QED BY <1>2, <2>1, <2>2, <2>3, <2>4, <2>5, <2>6, AskMoves DEF PromptSteps
<1>3. ASSUME w'.pc \in RunSteps, NEW i \in 1 .. Size', Waiting(i)' PROVE Done(i)' \/ Unmoved(i)'
  <2>1. CASE StartBatch
    <3>1. w'.rows[i] = item[<<w'.b, i>>] /\ UNCHANGED item BY <1>3, <2>1, StartBatchDoes
    <3> QED BY <3>1 DEF Unmoved, Row
  <2>2. CASE /\ w.pc \in RunSteps /\ w'.b = w.b /\ w'.rows = w.rows
             /\ \A j \in 1 .. Size : Waiting(j)' => Waiting(j)
    <3>1. Size' = Size /\ <<w.b, i>> \in Items
      <4>1. w.b \in Batches BY <2>2 DEF Shape, Placed
      <4> QED BY <1>3, <2>2, <4>1, ItemsAre DEF Size
    <3>2. Waiting(i) BY <1>3, <2>2, <3>1
    <3>3. Done(i) \/ Unmoved(i) BY <1>3, <2>2, <3>1, <3>2 DEF HoldOK
    <3>4. CASE Done(i)
      <4>1. item'[<<w.b, i>>].state \in Settled BY <3>1, <3>4, SettledStands DEF Done, Row
      <4> QED BY <2>2, <4>1 DEF Done, Row
    <3>5. CASE ~Done(i) /\ Unmoved(i)
      <4>1. Row(i)'.prompt = Row(i).prompt /\ Row(i)'.stage = Row(i).stage
        BY <1>3, <2>2, <3>1, <3>5, RowWaits
      <4> QED BY <2>2, <3>5, <4>1 DEF Unmoved, Row
    <3> QED BY <3>3, <3>4, <3>5
  <2> QED BY <1>3, <2>1, <2>2, WaitsOn
<1> QED BY <1>1, <1>2, <1>3 DEF HoldOK

\* The row read at the start of the batch, or by _run_remake_i2v, still says what the worker
\* acts on when run_or_reclaim_prompt looks for its prompt.
THEOREM InHold == Spec => []HoldOK
<1>1. Init => HoldOK
  BY IdleIs DEF Init, HoldOK
<1>2. Shape /\ Agree /\ HoldOK /\ [Next]_vars => HoldOK' BY HoldKept
<1> QED BY <1>1, <1>2, InShape, InAgreement, PTL DEF Spec

-----------------------------------------------------------------------------
(* No clip is posted twice *)

\* The worker records the intent of a delivery, posts, and hears of it.
LEMMA DeliveryMoves ==
  ASSUME Shape, [Next]_vars, w'.pc \in {"send", "sent", "unsent"}
  PROVE  UNCHANGED w \/ Deliver \/ Send
<1>0. w \in WorkerStates BY DEF Shape, Typed
<1>1. CASE Http \/ RunPrompt \/ ComfyDies \/ Damage \/ UNCHANGED vars
  BY <1>1 DEF Http, CreateRemakeBatch, SubmitBatch, AbandonCurrent, CancelProjectPrompts,
     QueueRemakeBatch, QueueManualFinal, RunPrompt, ComfyDies, Damage, vars
<1>2. CASE Crash BY <1>2, CrashDoes, IdleIs
<1>3. CASE Boot BY <1>3, BootDoes, IdleIs
<1>4. CASE StartFinal BY <1>4, StartFinalDoes
<1>5. CASE Stitch \/ JobEnds \/ EndBatch \/ RecoverBatches
  BY <1>5, IdleIs DEF Stitch, JobEnds, EndBatch, RecoverBatches
<1>6. CASE Tick BY <1>6, TickDoes
<1>7. CASE HandleFatal BY <1>7, FatalErrorDoes
<1>8. CASE StartBatch BY <1>8, StartBatchDoes
<1>9. CASE NextItem
  <2>1. w'.pc \in {"next", "verdict"} \/ (w'.pc = Work(w.phase) /\ w.phase \in Phases)
    BY <1>9, NextDoes DEF Shape, Placed, RunSteps
  <2> QED BY <2>1 DEF Work, Phases
<1>10. CASE Prepare
  <2>1. CASE Prepared(UsedRoute)
    <3>1. w.pc \in ItemSteps /\ w.pc \in RunSteps BY <1>10, PrepareDoes, PcIs
    <3>2. UsedRoute \in Routes BY <3>1, RouteIs
    <3>3. w.i \in 1 .. Size /\ Len(w.route) = Size /\ w.route \in Seq(RouteOrNone)
      BY <1>0, <3>1 DEF Shape, Placed, WorkerStates
    <3> QED BY <1>0, <2>1, <3>2, <3>3, SkipPrepDoes
  <2> QED BY <1>10, <2>1, PrepareDoes DEF Moves
<1>11. CASE MarkItem BY <1>11, MarkItemDoes DEF Moves
<1>12. CASE MarkRevision BY <1>0, <1>12, MarkRevisionDoes, SkipDoes
<1>13. CASE QueuePrompt BY <1>13, QueuePromptDoes DEF Moves
<1>14. CASE Got BY <1>0, <1>14, GotDoes, SkipDoes DEF Moves
<1>15. CASE Bind BY <1>0, <1>15, BindDoes, SkipGenDoes
<1>16. CASE Frame BY <1>0, <1>16, FrameDoes, SkipDoes DEF Asks
<1>17. CASE Video BY <1>0, <1>17, VideoDoes, SkipGenDoes DEF Asks
<1>18. CASE ReadHistory \/ ReadQueue \/ OwnPrompt \/ WaitPrompt
  BY <1>18, HistoryDoes, ReadQueueDoes, OwnDoes, WaitDoes DEF Moves
<1>19. CASE Answer BY <1>19, AnswerDoes
<1>20. CASE ExposeRevision BY <1>20, ExposeDoes DEF Moves
<1>21. CASE SettleItem BY <1>0, <1>21, SettleDoes, SkipDoes
<1>22. CASE Worker
  BY <1>22, <1>4, <1>5, <1>6, <1>7, <1>8, <1>9, <1>10, <1>11, <1>12, <1>13, <1>14, <1>15, <1>16, <1>17,
     <1>18, <1>19, <1>20, <1>21 DEF Worker
<1> QED BY <1>1, <1>2, <1>3, <1>22 DEF Next

\* A marker and the clip it is about, in the order of the prompts.
Ordered(y) ==
  LET m == disk[y].marker IN
  /\ m.clip <= Len(prompts)
  /\ disk[y].clip # 0 => m.clip <= disk[y].clip
  /\ item[y].stage \in Routes /\ item[y].prompt # 0
       => disk[y].clip <= item[y].prompt /\ m.clip <= item[y].prompt

LEMMA OrderStays ==
  ASSUME Shape, Agree, HoldOK, [Next]_vars, NEW y \in Items, Ordered(y)
  PROVE  Ordered(y)'
<1>1. Grows /\ Len(prompts) \in Nat /\ Len(prompts') \in Nat /\ Len(prompts) <= Len(prompts')
  BY AlwaysGrows DEF Grows, Shape, Typed
<1>2. /\ disk[y].clip \in Nat /\ disk[y].marker.clip \in Nat /\ item[y].prompt \in Nat
      /\ disk[y].clip <= Len(prompts) /\ "t2i" \notin Routes
  <2>1. disk[y] \in Files /\ item[y] \in ItemRows BY DEF Shape, Typed
  <2> QED BY <2>1 DEF Files, Markers, ItemRows, Shape, Named, Routes
<1>3. CASE Got /\ w.pc = "got" /\ w.stage # "t2i" /\ y = it /\ disk'[y].clip = w.p
  <2>1. disk'[y].marker = disk[y].marker
    <3>1. ~Deliver /\ ~Answer BY <1>3, DeliverDoes, AnswerDoes
    <3> QED BY <3>1, MarkerMoves
  <2>2. UNCHANGED item
    <3>1. w.pc \in ItemSteps BY <1>3, PcIs DEF PromptSteps
    <3> QED BY <1>3, GotDoes
  <2>3. w.p # 0 /\ w.stage \in Routes
    <3>1. w.pc \in PromptSteps /\ w.pc \in RunSteps BY <1>3, PcIs DEF PromptSteps
    <3>2. w.stage = w.route[w.i] /\ w.i \in w.prep BY <1>3, <3>1 DEF Shape, Placed
    <3>3. w.p # 0 BY <1>3, <3>1 DEF Shape, Named
    <3> QED BY <3>1, <3>2, <3>3 DEF Shape, Placed
  <2>4. item[y].prompt = w.p /\ item[y].stage = w.stage BY <1>3, <2>3 DEF HoldOK
  <2> QED BY <1>1, <1>2, <1>3, <2>1, <2>2, <2>3, <2>4 DEF Ordered
<1>4. CASE (Deliver \/ Answer) /\ y = it
  <2>1. UNCHANGED item /\ disk'[y].clip = disk[y].clip
    <3>1. w.pc \in ItemSteps BY <1>4, DeliverDoes, AnswerDoes, PcIs DEF DeliverySteps
    <3> QED BY <1>4, DeliverDoes, AnswerDoes
  <2>2. disk'[y].marker = disk[y].marker \/ disk'[y].marker.clip = disk[y].clip
    BY <1>4, DeliverDoes, AnswerDoes DEF Intent
  <2> QED BY <1>1, <1>2, <2>1, <2>2 DEF Ordered
<1>5. CASE disk'[y].clip \in {disk[y].clip, 0} /\ disk'[y].marker = disk[y].marker
  <2>1. CASE item'[y].prompt = item[y].prompt /\ item'[y].stage = item[y].stage
    BY <1>1, <1>2, <1>5, <2>1 DEF Ordered
  <2>2. CASE item'[y].prompt = 0 BY <1>1, <1>2, <1>5, <2>2 DEF Ordered
  <2>3. CASE OwnPrompt /\ y = it /\ item'[y].prompt = w.p /\ item'[y].stage = w.stage
    <3>1. w.p = Len(prompts) BY <2>3, OwnDoes DEF HoldOK
    <3> QED BY <1>1, <1>2, <1>5, <2>3, <3>1 DEF Ordered
  <2> QED BY <2>1, <2>2, <2>3, ItemMoves
<1> QED BY <1>3, <1>4, <1>5, ClipMoves, MarkerMoves

\* A post is not newer than the marker, and not one that is known to have failed.
Marked(y, c) == LET m == disk[y].marker IN
                /\ c <= m.clip
                /\ c = m.clip => m.st \in {"sent", "dispatching", "ambiguous"}

LEMMA MarkStays ==
  ASSUME Shape, [Next]_vars, NEW y \in Items, NEW c \in Nat, Ordered(y), Marked(y, c),
         w.pc \in {"sent", "unsent"} /\ y = it => disk[y].marker = Intent(y),
         w.pc = "unsent" /\ y = it => c # disk[y].clip
  PROVE  Marked(y, c)'
<1>1. disk[y].clip \in Nat /\ disk[y].marker.clip \in Nat
  <2>1. disk[y] \in Files BY DEF Shape, Typed
  <2> QED BY <2>1 DEF Files, Markers
<1>2. CASE disk'[y].marker = disk[y].marker BY <1>2 DEF Marked
<1>3. CASE Deliver /\ y = it
  BY <1>1, <1>3, DeliverDoes DEF Marked, Ordered, Intent
<1>4. CASE Answer /\ y = it
  <2>1. w.pc \in {"sent", "unsent"} /\ disk[y].marker.clip = disk[y].clip
    BY <1>4, AnswerDoes DEF Intent
  <2>2. disk'[y].marker.clip = disk[y].clip /\ disk'[y].marker.st \in {"sent", "ambiguous", "failed"}
        /\ (w.pc = "sent" => disk'[y].marker.st # "failed")
    BY <1>4, AnswerDoes
  <2> QED BY <1>1, <1>4, <2>1, <2>2 DEF Marked
<1> QED BY <1>2, <1>3, <1>4, MarkerMoves

LEMMA PostsMade ==
  ASSUME Shape', PostedOnce', \A y \in Items : Ordered(y)',
         \A y \in Items : \A c \in Nat : \A j \in DOMAIN posted' : posted'[j] = <<y, c>> => Marked(y, c)',
         w'.pc \in {"send", "sent", "unsent"} =>
            /\ disk'[it'].clip # 0 /\ disk'[it'].marker = [st |-> "dispatching", clip |-> disk'[it'].clip]
            /\ w'.pc # "sent" => \A j \in DOMAIN posted' : posted'[j] # <<it', disk'[it'].clip>>
  PROVE  PostsOK'
<1>1. ASSUME NEW j \in DOMAIN posted'
      PROVE  /\ posted'[j][2] <= disk'[posted'[j][1]].marker.clip
             /\ posted'[j][2] = disk'[posted'[j][1]].marker.clip
                  => disk'[posted'[j][1]].marker.st \in {"sent", "dispatching", "ambiguous"}
  <2>1. posted' \in Seq(Items \X Nat) BY DEF Shape, Typed
  <2>2. PICK y \in Items, c \in Nat : posted'[j] = <<y, c>> BY <2>1
  <2> QED BY <2>2 DEF Marked
<1> QED BY <1>1 DEF PostsOK, Ordered

LEMMA PostsKept == ASSUME Shape, Agree, HoldOK, PostsOK, [Next]_vars PROVE PostsOK'
<1>0. posted \in Seq(Items \X Nat) /\ Len(posted) \in Nat /\ DOMAIN posted = 1 .. Len(posted)
  BY DEF Shape, Typed
<1>1. ASSUME NEW y \in Items PROVE Ordered(y) /\ Ordered(y)'
  <2>1. Ordered(y) BY DEF PostsOK, Ordered
  <2> QED BY <2>1, OrderStays
<1>2. ASSUME NEW j \in DOMAIN posted
      PROVE  /\ posted[j][1] \in Items /\ posted[j][2] \in Nat /\ posted[j] = <<posted[j][1], posted[j][2]>>
             /\ Marked(posted[j][1], posted[j][2])
  BY <1>0 DEF PostsOK, Marked
<1>3. ASSUME NEW j \in DOMAIN posted, NEW y \in Items, NEW c \in Nat, posted[j] = <<y, c>>
      PROVE  Marked(y, c)'
  <2>1. posted[j][1] = y /\ posted[j][2] = c BY <1>3
  <2>2. w.pc \in {"sent", "unsent"} /\ y = it => disk[y].marker = Intent(y)
    BY DEF PostsOK, Intent
  <2>4. w.pc = "unsent" /\ y = it => c # disk[y].clip
    BY <1>3 DEF PostsOK
  <2>3. Marked(y, c) BY <1>2, <2>1
  <2> QED BY <1>1, <2>2, <2>3, <2>4, MarkStays
<1>4. ASSUME w'.pc \in {"send", "sent", "unsent"}
      PROVE  /\ disk'[it'].clip # 0 /\ disk'[it'].marker = [st |-> "dispatching", clip |-> disk'[it'].clip]
             /\ w'.pc # "sent" => \A j \in DOMAIN posted' : posted'[j] # <<it', disk'[it'].clip>>
  <2>1. CASE UNCHANGED w
    <3>1. it' = it /\ it \in Items
      <4>1. w.pc \in ItemSteps BY <1>4, <2>1, PcIs DEF DeliverySteps
      <4> QED BY <2>1, <4>1, HandIs DEF it
    <3>2. disk'[it].clip = disk[it].clip /\ disk'[it].marker = disk[it].marker
      <4>1. ~Damage /\ w.pc # "got" BY <1>4, <2>1, DamageDoes
      <4>2. ~Deliver /\ ~Answer BY <1>4, <2>1, DeliverDoes, AnswerDoes DEF Moves
      <4> QED BY <3>1, <4>1, <4>2, ClipMoves, MarkerMoves
    <3>3. UNCHANGED posted
      <4>1. ~Send BY <2>1, SendDoes DEF Moves
      <4> QED BY <4>1, PostChanges
    <3>4. disk[it].clip # 0 /\ disk[it].marker = Intent(it)
      BY <1>4, <2>1 DEF PostsOK, Intent
    <3>5. w.pc # "sent" => \A j \in DOMAIN posted : posted[j] # <<it, disk[it].clip>>
      BY <1>4, <2>1 DEF PostsOK
    <3> QED BY <2>1, <3>1, <3>2, <3>3, <3>4, <3>5 DEF Intent
  <2>2. CASE Deliver
    <3>1. w.pc = "deliver" /\ w.pc \in ItemSteps /\ it \in Items BY <2>2, DeliverDoes, PcIs, HandIs DEF DeliverySteps
    <3>2. /\ disk[it].clip # 0 /\ disk'[it].clip = disk[it].clip /\ Moves({"send"})
          /\ ~Settles(disk[it].marker, disk[it].clip) /\ disk'[it].marker = Intent(it) /\ UNCHANGED posted
      BY <1>4, <2>2, DeliverDoes DEF Moves
    <3>3. it' = it BY <3>2, SameIt DEF Moves
    <3>4. ASSUME NEW j \in DOMAIN posted, posted[j] = <<it, disk[it].clip>> PROVE FALSE
      <4>1. disk[it].clip \in Nat /\ disk[it].marker.clip \in Nat
        <5>1. disk[it] \in Files BY <3>1 DEF Shape, Typed
        <5> QED BY <5>1 DEF Files, Markers
      <4>2. Marked(it, disk[it].clip) BY <1>2, <3>4
      <4>3. Ordered(it) BY <1>1, <3>1
      <4>4. disk[it].marker.clip = disk[it].clip BY <3>2, <4>1, <4>2, <4>3 DEF Marked, Ordered
      <4> QED BY <3>2, <4>2, <4>4 DEF Marked, Settles
    <3> QED BY <3>1, <3>2, <3>3, <3>4 DEF Intent
  <2>3. CASE Send
    <3>1. w.pc = "send" /\ w.pc \in ItemSteps /\ it \in Items BY <2>3, SendDoes, PcIs, HandIs DEF DeliverySteps
    <3>2. it' = it BY <2>3, SendDoes, SameIt DEF Moves
    <3>3. UNCHANGED disk /\ (w'.pc = "sent" \/ UNCHANGED posted) BY <2>3, SendDoes DEF Moves
    <3>4. disk[it].clip # 0 /\ disk[it].marker = Intent(it) BY <3>1 DEF PostsOK, Intent
    <3>5. \A j \in DOMAIN posted : posted[j] # <<it, disk[it].clip>> BY <3>1 DEF PostsOK
    <3> QED BY <3>1, <3>2, <3>3, <3>4, <3>5 DEF Intent
  <2> QED BY <1>4, <2>1, <2>2, <2>3, DeliveryMoves
<1>5. CASE UNCHANGED posted
  <2>1. PostedOnce' BY <1>5 DEF PostsOK, PostedOnce
  <2>2. Shape' BY NextShapes
  <2>3. ASSUME NEW y \in Items, NEW c \in Nat, NEW j \in DOMAIN posted', posted'[j] = <<y, c>>
        PROVE  Marked(y, c)'
    <3>1. j \in DOMAIN posted /\ posted[j] = <<y, c>> BY <1>5, <2>3
    <3> QED BY <1>3, <3>1
  <2> QED BY <1>1, <1>4, <2>1, <2>2, <2>3, PostsMade
<1>6. CASE Send /\ posted' = Append(posted, <<it, disk[it].clip>>)
  <2>1. w.pc = "send" /\ w.pc \in ItemSteps /\ it \in Items /\ UNCHANGED disk
    BY <1>6, SendDoes, PcIs, HandIs DEF DeliverySteps
  <2>2. disk[it].clip \in Nat
    <3>1. disk[it] \in Files BY <2>1 DEF Shape, Typed
    <3> QED BY <3>1 DEF Files
  <2> DEFINE c == disk[it].clip
             y == it
             n == Len(posted) + 1
  <2>3. disk[y].marker = [st |-> "dispatching", clip |-> c] /\ \A j \in DOMAIN posted : posted[j] # <<y, c>>
    BY <2>1 DEF PostsOK
  <2>4. y \in Items /\ c \in Nat /\ posted' = Append(posted, <<y, c>>) BY <1>6, <2>1, <2>2
  <2>5. ASSUME NEW z \in Items, NEW d \in Nat, z = y, d = c PROVE Marked(z, d)'
    BY <2>1, <2>3, <2>4, <2>5 DEF Marked
  <2> HIDE DEF c, y
  <2>6. /\ DOMAIN posted' = 1 .. n /\ posted'[n] = <<y, c>> /\ \A j \in DOMAIN posted : posted'[j] = posted[j]
    BY <1>0, <2>4
  <2>7. PostedOnce' BY <1>0, <2>3, <2>6 DEF PostsOK, PostedOnce
  <2>8. ASSUME NEW z \in Items, NEW d \in Nat, NEW j \in DOMAIN posted', posted'[j] = <<z, d>>
        PROVE  Marked(z, d)'
    <3>1. CASE j = n
      <4>1. z = y /\ d = c BY <2>4, <2>6, <2>8, <3>1
      <4> QED BY <2>5, <4>1
    <3>2. CASE j \in DOMAIN posted
      <4>1. posted[j] = <<z, d>> BY <2>6, <2>8, <3>2
      <4> QED BY <1>3, <3>2, <4>1
    <3> QED BY <1>0, <2>6, <2>8, <3>1, <3>2
  <2>9. Shape' BY NextShapes
  <2> QED BY <1>1, <1>4, <2>7, <2>8, <2>9, PostsMade
<1> QED BY <1>5, <1>6, PostChanges, SendDoes

\* Posts, delivery markers and clips of a revision follow the order of its prompts, and a post
\* of the present clip is covered by a marker that settles the delivery.
THEOREM InPosts == Spec => []PostsOK
<1>1. Init => PostsOK
  <2> SUFFICES ASSUME Init PROVE PostsOK OBVIOUS
  <2>1. Shape /\ posted = <<>> /\ prompts = <<>> BY InitShape DEF Init
  <2>2. \A y \in Items : disk[y].clip = 0 /\ disk[y].marker.clip = 0 /\ item[y].prompt = 0 BY DEF Init
  <2>3. w.pc = "idle" BY IdleIs DEF Init
  <2> QED BY <2>1, <2>2, <2>3 DEF PostsOK, PostedOnce
<1>2. Shape /\ Agree /\ HoldOK /\ PostsOK /\ [Next]_vars => PostsOK' BY PostsKept
<1> QED BY <1>1, <1>2, InShape, InAgreement, InHold, PTL DEF Spec

\* No clip of a revision is posted twice, over crashes between the post, its answer and its
\* marker (deliver_scene_video).
THEOREM PostsAreSingle == Spec => []PostedOnce
<1>1. PostsOK => PostedOnce BY DEF PostsOK
<1> QED BY <1>1, InPosts, PTL

-----------------------------------------------------------------------------
(* A remake keeps its route *)

\* A lost prompt id stays lost.
LEMMA LostStays == ASSUME Shape, [Next]_vars, env.lost PROVE env'.lost
<1>0. env \in EnvRows BY DEF Shape, Typed, EnvRows
<1>1. CASE Http
  BY <1>1 DEF Http, CreateRemakeBatch, SubmitBatch, AbandonCurrent, CancelProjectPrompts,
     QueueRemakeBatch, QueueManualFinal, store
<1>2. CASE UNCHANGED env BY <1>2
<1>3. CASE Tick BY <1>0, <1>3, TickDoes DEF EnvRows
<1>4. CASE Prepare BY <1>0, <1>4, PrepareDoes DEF EnvRows
<1>5. CASE ReadQueue BY <1>0, <1>5, ReadQueueDoes DEF EnvRows
<1>6. CASE QueuePrompt BY <1>0, <1>6, QueuePromptDoes DEF EnvRows
<1>7. CASE HandleFatal BY <1>0, <1>7, FatalErrorDoes DEF EnvRows
<1>8. CASE RecoverBatches BY <1>0, <1>8 DEF RecoverBatches, EnvRows
<1>9. CASE Worker
  BY <1>2, <1>3, <1>4, <1>5, <1>6, <1>7, <1>8, <1>9 DEF Worker, StartFinal, Stitch, StartBatch, JobEnds,
     NextItem, MarkItem, MarkRevision, Frame, Video, ReadHistory, OwnPrompt, WaitPrompt, Got, Bind,
     Deliver, Send, Answer, ExposeRevision, SettleItem, EndBatch
<1>10. CASE RunPrompt BY <1>0, <1>10, RunPromptDoes DEF EnvRows
<1>11. CASE ComfyDies BY <1>0, <1>11, ComfyDiesDoes DEF EnvRows
<1>12. CASE Crash BY <1>12, CrashDoes
<1>13. CASE Boot BY <1>13, BootDoes
<1>14. CASE Damage BY <1>0, <1>14, DamageDoes DEF EnvRows
<1>15. CASE UNCHANGED vars BY <1>15 DEF vars
<1> QED BY <1>1, <1>9, <1>10, <1>11, <1>12, <1>13, <1>14, <1>15 DEF Next

\* A continuation plan stays.
LEMMA PlanMoves ==
  ASSUME Shape, Agree, [Next]_vars, NEW y \in Items
  PROVE  \/ rev'[y].plan = rev[y].plan
         \/ item[y].state = "none" /\ item'[y] = Fresh /\ ~rev'[y].plan
         \/ Video /\ y = it /\ rev'[y].plan /\ w.route[w.i] = "continuation"
<1>1. CASE UNCHANGED rev BY <1>1
<1>2. CASE \E b \in Batches : CreateRemakeBatch(b)
  <2>1. PICK b \in Batches : CreateRemakeBatch(b) BY <1>2
  <2> QED BY <2>1, CreateDoes DEF Agree, RowsOK
<1>3. CASE Prepare
  <2>1. CASE UNCHANGED rev BY <2>1
  <2>2. CASE RevOnly(it) /\ rev'[it].plan = rev[it].plan BY <2>2 DEF RevOnly
  <2> QED BY <1>3, <2>1, <2>2, PrepareDoes
<1>4. CASE MarkRevision BY <1>4, MarkRevisionDoes DEF RevOnly
<1>5. CASE Video BY <1>5, VideoDoes DEF RevOnly
<1>6. CASE ExposeRevision BY <1>6, ExposeDoes DEF RevOnly
<1>7. CASE Recovered
  <2>1. Again(y) BY <1>7, RecoveredDoes
  <2> QED BY <2>1 DEF Again
<1> QED BY <1>1, <1>2, <1>3, <1>4, <1>5, <1>6, <1>7, RevChanges

\* The row of a created item stays created.
LEMMA RowStays ==
  ASSUME Shape, [Next]_vars, NEW y \in Items, item[y].state # "none" PROVE item'[y].state # "none"
<1>1. CASE UNCHANGED item BY <1>1
<1>2. CASE \E b \in Batches : CreateRemakeBatch(b)
  <2>1. PICK b \in Batches : CreateRemakeBatch(b) BY <1>2
  <2> QED BY <2>1, CreateDoes DEF Fresh
<1>3. CASE NextItem BY <1>3, NextDoes DEF ItemOnly
<1>4. CASE MarkItem BY <1>4, MarkItemDoes DEF ItemOnly
<1>5. CASE Frame BY <1>5, FrameDoes DEF Freed, ItemOnly
<1>6. CASE OwnPrompt BY <1>6, OwnDoes DEF ItemOnly
<1>7. CASE Got BY <1>7, GotDoes DEF Freed, ItemOnly
<1>8. CASE SettleItem BY <1>8, SettleDoes DEF Finished, ItemOnly
<1>9. CASE Recovered
  <2>1. Again(y) BY <1>9, RecoveredDoes
  <2> QED BY <2>1 DEF Again, Finished
<1> QED BY <1>1, <1>2, <1>3, <1>4, <1>5, <1>6, <1>7, <1>8, <1>9, ItemChanges

\* A route in the row of an item goes only with the item, or for the prompt just queued.
LEMMA RouteStays ==
  ASSUME Shape, Agree, HoldOK, [Next]_vars, NEW y \in Items, item[y].state # "none",
         item[y].stage \in Routes, item'[y].state \notin Settled
  PROVE  \/ item'[y].stage = item[y].stage
         \/ OwnPrompt /\ y = it /\ item'[y].stage = w.stage
<1>0. item[y].stage # "t2i" BY DEF Routes
<1>1. CASE UNCHANGED item BY <1>1
<1>2. CASE \E b \in Batches : CreateRemakeBatch(b)
  <2>1. PICK b \in Batches : CreateRemakeBatch(b) BY <1>2
  <2>2. y[1] # b BY <2>1, CreateDoes DEF Agree, RowsOK
  <2> QED BY <2>1, <2>2, CreateDoes
<1>3. CASE NextItem BY <1>3, NextDoes DEF ItemOnly
<1>4. CASE MarkItem BY <1>4, MarkItemDoes DEF ItemOnly
<1>5. CASE Frame
  <2>1. CASE UNCHANGED item BY <2>1
  <2>2. CASE Freed(it) /\ item[it].stage = "t2i" BY <1>0, <2>2 DEF Freed, ItemOnly
  <2> QED BY <1>5, <2>1, <2>2, FrameDoes
<1>6. CASE OwnPrompt BY <1>6, OwnDoes DEF ItemOnly
<1>7. CASE Got
  <2>1. w.pc = "got" /\ (UNCHANGED item \/ (Freed(it) /\ w.stage = "t2i")) BY <1>7, GotDoes
  <2>2. w.p # 0
    <3>1. w.pc \in PromptSteps BY <2>1 DEF PromptSteps
    <3> QED BY <2>1, <3>1 DEF Shape, Named
  <2>3. item[it].stage = w.stage BY <2>1, <2>2 DEF HoldOK
  <2> QED BY <1>0, <2>1, <2>3 DEF Freed, ItemOnly
<1>8. CASE SettleItem BY <1>8, SettleDoes DEF Finished, ItemOnly, Settled
<1>9. CASE Recovered
  <2>1. Again(y) BY <1>9, RecoveredDoes
  <2> QED BY <2>1 DEF Again, Finished, Settled
<1> QED BY <1>1, <1>2, <1>3, <1>4, <1>5, <1>6, <1>7, <1>8, <1>9, ItemChanges

\* The id of a prompt is written to its row, or lost in a crash.
LEMMA FromOwn ==
  ASSUME Shape, [Next]_vars, w.pc = "own" PROVE UNCHANGED w \/ OwnPrompt \/ Crash
<1>1. CASE Http \/ RunPrompt \/ ComfyDies \/ Damage \/ UNCHANGED vars
  BY <1>1 DEF Http, CreateRemakeBatch, SubmitBatch, AbandonCurrent, CancelProjectPrompts,
     QueueRemakeBatch, QueueManualFinal, RunPrompt, ComfyDies, Damage, vars
<1>2. CASE Worker
  BY <1>2 DEF Worker, At, StartFinal, Stitch, StartBatch, Tick, JobEnds, NextItem, Prepare, MarkItem,
     MarkRevision, Frame, Video, ReadHistory, ReadQueue, QueuePrompt, WaitPrompt, Got, Bind, Deliver,
     Send, Answer, ExposeRevision, SettleItem, EndBatch, HandleFatal, RecoverBatches
<1>3. CASE Boot BY <1>3, BootDoes
<1> QED BY <1>1, <1>2, <1>3 DEF Next

PlanSays(y) == /\ item[y].stage = "legacy" => ~rev[y].plan
               /\ item[y].stage = "continuation" => rev[y].plan
PromptSays(p) ==
  LET y == prompts[p].of IN
  /\ item[y].state # "none"
  /\ prompts[p].stage = "continuation" => rev[y].plan
  /\ prompts[p].stage = "legacy" /\ item[y].state \notin Settled =>
       \/ env.lost \/ item[y].stage = "legacy" \/ Owning(p)
       \/ \E r \in p .. Len(prompts) : prompts[r].of = y /\ prompts[r].stage = "t2i"
RouteSays(i) == /\ w.route[i] = "legacy" => ~rev[<<w.b, i>>].plan
                /\ Row(i).stage \in Routes /\ ~Done(i) => Row(i).stage = w.route[i]
HandSays == w.pc \in PromptSteps /\ w.stage = "continuation" => rev[it].plan

\* What the worker is about to write to the row of its item.
LEMMA OwnRoute ==
  ASSUME Shape, Agree, RoutesOK, w.pc \in PromptSteps
  PROVE  /\ w.stage \in Stages /\ HandSays
         /\ w.stage # "t2i" => w.stage = w.route[w.i] /\ RouteSays(w.i)
         /\ ~Done(w.i) /\ Row(w.i) = item[it] /\ w.i \in w.prep /\ it \in Items
<1>1. w.pc \in ItemSteps /\ w.pc \in RunSteps /\ w.pc # "markrev" /\ it \in Items
  BY PcIs, HandIs DEF PromptSteps
<1>2. w.i \in w.prep /\ w.route[w.i] \in Routes /\ (w.stage = "t2i" \/ w.stage = w.route[w.i])
  BY <1>1 DEF Shape, Placed
<1>3. RouteSays(w.i) BY <1>1, <1>2 DEF RoutesOK, RouteSays
<1>4. Row(w.i) = item[it] /\ item[it].state = "running" BY <1>1, HeldStand DEF Agree
<1> QED BY <1>1, <1>2, <1>3, <1>4 DEF RoutesOK, HandSays, Done, Settled, Stages

LEMMA PlanSaysOn ==
  ASSUME Shape, Agree, HoldOK, RoutesOK, [Next]_vars, NEW y \in Items PROVE PlanSays(y)'
<1>1. PlanSays(y) BY DEF RoutesOK, PlanSays
<1>2. CASE item'[y] = Fresh BY <1>2 DEF Fresh, PlanSays
<1>3. CASE Video /\ y = it /\ rev'[y].plan /\ w.route[w.i] = "continuation"
  <2>1. UNCHANGED item /\ w.pc = "video" /\ w.pc \in ItemSteps /\ w.pc \in RunSteps
    BY <1>3, VideoDoes, PcIs DEF VideoSteps
  <2>2. w.i \in w.prep BY <2>1 DEF Shape, Placed, VideoSteps
  <2>3. RouteSays(w.i) BY <2>1, <2>2 DEF RoutesOK, RouteSays
  <2>4. Row(w.i) = item[y] /\ ~Done(w.i)
    BY <1>3, <2>1, HeldStand DEF Agree, Done, Settled
  <2>5. item[y].stage # "legacy" BY <1>3, <2>3, <2>4 DEF RouteSays, Routes
  <2> QED BY <1>3, <2>1, <2>5 DEF PlanSays
<1>4. CASE rev'[y].plan = rev[y].plan
  <2>1. CASE item'[y].stage = item[y].stage BY <1>1, <1>4, <2>1 DEF PlanSays
  <2>2. CASE item'[y].stage = "none" BY <2>2 DEF PlanSays
  <2>3. CASE OwnPrompt /\ y = it /\ item'[y].stage = w.stage
    <3>1. w.pc \in PromptSteps BY <2>3, OwnDoes DEF PromptSteps
    <3>2. /\ HandSays
          /\ w.stage # "t2i" => w.stage = w.route[w.i] /\ RouteSays(w.i)
      BY <3>1, OwnRoute
    <3>3. <<w.b, w.i>> = y BY <2>3 DEF it
    <3>4. w.stage = "continuation" => rev[y].plan BY <2>3, <3>1, <3>2 DEF HandSays
    <3>5. w.stage = "legacy" => ~rev[y].plan BY <3>2, <3>3 DEF RouteSays
    <3> QED BY <1>4, <2>3, <3>4, <3>5 DEF PlanSays
  <2> QED BY <2>1, <2>2, <2>3, ItemMoves
<1> QED BY <1>2, <1>3, <1>4, PlanMoves

LEMMA PromptSaysOn ==
  ASSUME Shape, Agree, HoldOK, RoutesOK, [Next]_vars, NEW p \in DOMAIN prompts PROVE PromptSays(p)'
<1>0. /\ Grows /\ Len(prompts) \in Nat /\ DOMAIN prompts = 1 .. Len(prompts) /\ p \in 1 .. Len(prompts)
      /\ Len(prompts') \in Nat
  BY AlwaysGrows DEF Grows, Shape, Typed
<1>1. PICK y \in Items : prompts[p].of = y
  <2>1. prompts[p] \in PromptRows BY DEF Shape, Typed
  <2> QED BY <2>1 DEF PromptRows
<1>2. prompts'[p].of = y /\ prompts'[p].stage = prompts[p].stage BY <1>0, <1>1 DEF Grows
<1>3. PromptSays(p) BY DEF RoutesOK, PromptSays
<1>4. item[y].state # "none" /\ item'[y].state # "none" BY <1>1, <1>3, RowStays DEF PromptSays
<1>5. prompts[p].stage = "continuation" => rev'[y].plan
  BY <1>1, <1>3, <1>4, PlanMoves DEF PromptSays
<1>6. ASSUME prompts[p].stage = "legacy", item'[y].state \notin Settled
      PROVE  \/ env'.lost \/ item'[y].stage = "legacy" \/ (w'.pc = "own" /\ w'.p = p)
             \/ \E r \in p .. Len(prompts') : prompts'[r].of = y /\ prompts'[r].stage = "t2i"
  <2>1. item[y].state \notin Settled BY <1>6, SettledStands
  <2>2. CASE env.lost BY <2>2, LostStays
  <2>3. CASE item[y].stage = "legacy"
    <3>1. CASE item'[y].stage = item[y].stage BY <2>3, <3>1
    <3>2. CASE OwnPrompt /\ y = it /\ item'[y].stage = w.stage
      <4>1. w.pc = "own" /\ w.pc \in PromptSteps /\ UNCHANGED prompts BY <3>2, OwnDoes DEF PromptSteps
      <4>2. /\ w.stage \in Stages /\ ~Done(w.i) /\ Row(w.i) = item[y]
            /\ w.stage # "t2i" => w.stage = w.route[w.i] /\ RouteSays(w.i)
        BY <3>2, <4>1, OwnRoute
      <4>3. w.stage # "t2i" => w.stage = "legacy" BY <2>3, <4>2 DEF RouteSays, Routes
      <4>4. w.p = Len(prompts) /\ w.p # 0 /\ prompts[w.p].of = y /\ prompts[w.p].stage = w.stage
        <5>1. w.p # 0 /\ Names(prompts, w.p, it, w.stage) BY <4>1 DEF Shape, Named
        <5>2. w.p = Len(prompts) BY <4>1 DEF HoldOK
        <5> QED BY <3>2, <5>1, <5>2 DEF Names
      <4>5. Len(prompts) \in p .. Len(prompts) BY <1>0
      <4> QED BY <3>2, <4>1, <4>3, <4>4, <4>5
    <3> QED BY <1>4, <1>6, <2>3, <3>1, <3>2, RouteStays DEF Routes
  <2>4. CASE Owning(p)
    <3>1. w.pc = "own" /\ w.p = p BY <2>4 DEF Owning
    <3>2. CASE UNCHANGED w BY <3>1, <3>2
    <3>3. CASE OwnPrompt
      <4>1. w.pc \in PromptSteps BY <3>1 DEF PromptSteps
      <4>2. w.p # 0 /\ Names(prompts, w.p, it, w.stage) BY <3>1, <4>1 DEF Shape, Named
      <4>3. y = it /\ w.stage = "legacy" BY <1>1, <1>6, <3>1, <4>2 DEF Names
      <4> QED BY <3>3, <4>3, OwnDoes
    <3>4. CASE Crash BY <3>1, <3>4, CrashDoes
    <3> QED BY <3>1, <3>2, <3>3, <3>4, FromOwn
  <2>5. CASE \E r \in p .. Len(prompts) : prompts[r].of = y /\ prompts[r].stage = "t2i"
    <3>1. PICK r \in p .. Len(prompts) : prompts[r].of = y /\ prompts[r].stage = "t2i" BY <2>5
    <3>2. r \in 1 .. Len(prompts) /\ r \in p .. Len(prompts') BY <1>0, <3>1 DEF Grows
    <3>3. prompts'[r].of = y /\ prompts'[r].stage = "t2i" BY <1>0, <3>1, <3>2 DEF Grows
    <3> QED BY <3>2, <3>3
  <2> QED BY <1>1, <1>3, <1>6, <2>1, <2>2, <2>3, <2>4, <2>5 DEF PromptSays
<1> QED BY <1>2, <1>4, <1>5, <1>6 DEF PromptSays, Owning

\* The route of a prepared item was chosen when the worker prepared it.
LEMMA PrepMoves ==
  ASSUME Shape, [Next]_vars, w'.pc \in RunSteps, NEW i \in w'.prep
  PROVE  \/ /\ w.pc \in RunSteps /\ w'.b = w.b /\ i \in w.prep /\ w'.route[i] = w.route[i]
            /\ i \in 1 .. Size
         \/ /\ Prepare /\ Prepared(UsedRoute) /\ w.pc \in ItemSteps /\ w'.b = w.b /\ i = w.i
            /\ w'.route[i] = UsedRoute /\ UsedRoute \in Routes
<1>0. w \in WorkerStates BY DEF Shape, Typed
<1>a. \A pc \in ItemSteps : pc \in RunSteps BY PcIs
<1>b. w.pc \in RunSteps => w.prep \subseteq 1 .. Size /\ Len(w.route) = Size /\ w.route \in Seq(RouteOrNone)
  BY <1>0 DEF Shape, Placed, WorkerStates
<1>1. CASE UNCHANGED w BY <1>1, <1>b
<1>2. CASE StartBatch BY <1>2, StartBatchDoes
<1>3. CASE NextItem BY <1>3, <1>b, NextDoes DEF SameSets, RunSteps
<1>4. CASE Advances BY <1>4, <1>a, <1>b DEF Advances, SameHand, SameRun, SameSets
<1>5. CASE Leaves
  <2>1. CASE w'.prep = w.prep /\ w'.route = w.route BY <1>5, <1>a, <1>b, <2>1 DEF Leaves, SameRun
  <2>2. CASE Prepare /\ Prepared(UsedRoute)
    <3>1. w.pc \in ItemSteps /\ w.pc \in RunSteps BY <1>5, <1>a DEF Leaves
    <3>2. UsedRoute \in Routes BY <3>1, RouteIs
    <3>3. w.i \in 1 .. Size /\ DOMAIN w.route = 1 .. Size BY <1>b, <3>1, HandIs
    <3>4. /\ w'.prep = w.prep \cup {w.i} /\ w'.route[w.i] = UsedRoute /\ w'.b = w.b
          /\ \A j \in DOMAIN w.route : j # w.i => w'.route[j] = w.route[j]
      BY <1>0, <2>2, <3>2, <3>3, SkipPrepDoes DEF SameRun
    <3>5. CASE i = w.i BY <2>2, <3>1, <3>2, <3>4, <3>5
    <3>6. CASE i # w.i BY <1>b, <3>1, <3>3, <3>4, <3>6
    <3> QED BY <3>5, <3>6
  <2> QED BY <1>5, <2>1, <2>2 DEF Leaves, SameSets
<1> QED BY <1>1, <1>2, <1>3, <1>4, <1>5, WorkerMoves

LEMMA RouteSaysOn ==
  ASSUME Shape, Agree, HoldOK, RoutesOK, [Next]_vars, w'.pc \in RunSteps, NEW i \in w'.prep
  PROVE  RouteSays(i)'
<1>1. CASE /\ w.pc \in RunSteps /\ w'.b = w.b /\ i \in w.prep /\ w'.route[i] = w.route[i] /\ i \in 1 .. Size
  <2> DEFINE y == <<w.b, i>>
  <2>1. y \in Items
    <3>1. w.b \in Batches BY <1>1 DEF Shape, Placed
    <3> QED BY <1>1, <3>1, ItemsAre DEF Size
  <2>2. RouteSays(i) BY <1>1 DEF RoutesOK, RouteSays
  <2>3. /\ w.route[i] = "legacy" => ~rev[y].plan
        /\ item[y].stage \in Routes /\ item[y].state \notin Settled => item[y].stage = w.route[i]
    BY <2>2 DEF RouteSays, Row, Done
  <2>4. y = it => i = w.i BY DEF it
  <2> HIDE DEF y
  <2>5. w.route[i] = "legacy" => ~rev'[y].plan
    <3>1. CASE Video /\ y = it /\ w.route[w.i] = "continuation" BY <2>4, <3>1
    <3> QED BY <2>1, <2>3, <3>1, PlanMoves
  <2>6. ASSUME item'[y].stage \in Routes, item'[y].state \notin Settled PROVE item'[y].stage = w.route[i]
    <3>1. item[y].state \notin Settled BY <2>1, <2>6, SettledStands
    <3>2. CASE item'[y].stage = item[y].stage BY <2>3, <2>6, <3>1, <3>2
    <3>3. CASE OwnPrompt /\ y = it /\ item'[y].stage = w.stage
      <4>1. w.pc \in PromptSteps BY <3>3, OwnDoes DEF PromptSteps
      <4>2. w.stage # "t2i" BY <2>6, <3>3 DEF Routes
      <4> QED BY <2>4, <3>3, <4>1, <4>2, OwnRoute
    <3>4. CASE item'[y].stage = "none" BY <2>6, <3>4 DEF Routes
    <3> QED BY <2>1, <3>2, <3>3, <3>4, ItemMoves
  <2>7. <<w'.b, i>> = y BY <1>1 DEF y
  <2> QED BY <1>1, <2>5, <2>6, <2>7 DEF RouteSays, Row, Done
<1>2. CASE /\ Prepare /\ w.pc \in ItemSteps /\ w'.b = w.b /\ i = w.i
           /\ w'.route[i] = UsedRoute /\ UsedRoute \in Routes
  <2>1. UNCHANGED item /\ w.pc = "prepare" /\ it \in Items BY <1>2, PrepareDoes, HandIs
  <2>2. rev'[it].plan = rev[it].plan
    <3>1. ~Video /\ item[it].state # "none"
      BY <1>2, <2>1, VideoDoes, HeldStand DEF Agree
    <3> QED BY <2>1, <3>1, PlanMoves
  <2>3. item[it].stage = w.rows[w.i].stage /\ Row(w.i) = item[it]
    <3>1. Row(w.i) = item[it] /\ item[it].state = "running" /\ w.i \in 1 .. Size /\ w.pc \in RunSteps
      BY <1>2, <2>1, HeldStand, PcIs DEF Agree
    <3>2. w.phase = "prepare" BY <2>1, <3>1 DEF Shape, Placed
    <3>3. Unmoved(w.i) BY <3>1, <3>2 DEF HoldOK, Waiting, Done, Settled
    <3> QED BY <3>1, <3>3 DEF Unmoved
  <2>4. PlanSays(it) BY <2>1 DEF RoutesOK, PlanSays
  <2>5. /\ item[it].stage \in Routes => UsedRoute = item[it].stage
        /\ item[it].stage \notin Routes /\ rev[it].plan => UsedRoute = "continuation"
    BY <2>3 DEF UsedRoute, UsesRoute, Routes
  <2>6. UsedRoute = "legacy" => ~rev[it].plan BY <2>4, <2>5 DEF PlanSays, Routes
  <2>7. <<w'.b, i>> = it BY <1>2 DEF it
  <2> QED BY <1>2, <2>1, <2>2, <2>5, <2>6, <2>7 DEF RouteSays, Row, Done
<1> QED BY <1>1, <1>2, PrepMoves

LEMMA HandSaysOn == ASSUME Shape, Agree, RoutesOK, [Next]_vars PROVE HandSays'
<1> SUFFICES ASSUME w'.pc \in PromptSteps, w'.stage = "continuation" PROVE rev'[it'].plan
  BY DEF HandSays
<1>0. HandSays BY DEF RoutesOK, HandSays
<1>1. CASE UNCHANGED w
  <2>1. w.pc \in ItemSteps BY <1>1, PcIs
  <2>2. it' = it /\ it \in Items /\ item[it].state # "none" BY <1>1, <2>1, HandIs, HeldStand DEF it, Agree
  <2> QED BY <1>0, <1>1, <2>2, StaysBeside DEF HandSays
<1>2. CASE Frame
  <2>1. w \in WorkerStates BY DEF Shape, Typed
  <2>2. ~Skipped BY <2>1, SkipDoes DEF PromptSteps
  <2> QED BY <1>2, <2>2, FrameDoes DEF Asks
<1>3. CASE Video
  <2>1. w \in WorkerStates BY DEF Shape, Typed
  <2>2. ~Generated BY <2>1, SkipGenDoes DEF PromptSteps
  <2>3. SameHand /\ w'.stage = w.route[w.i] /\ (w.route[w.i] # "continuation" \/ rev'[it].plan)
    BY <1>3, <2>2, VideoDoes DEF Asks
  <2> QED BY <2>3, SameIt
<1>4. CASE ReadHistory \/ ReadQueue \/ QueuePrompt \/ OwnPrompt \/ WaitPrompt
  <2>1. w.pc \in PromptSteps /\ SameHand /\ w'.stage = w.stage /\ UNCHANGED rev
    BY <1>4, HistoryDoes, ReadQueueDoes, QueuePromptDoes, OwnDoes, WaitDoes DEF Moves, SamePrompt, PromptSteps, store
  <2> QED BY <1>0, <2>1, SameIt DEF HandSays
<1>5. ~Moves({"bind"}) BY DEF Moves, PromptSteps
<1> QED BY <1>1, <1>2, <1>3, <1>4, <1>5, AskMoves

LEMMA RoutesKept == ASSUME Shape, Agree, HoldOK, RoutesOK, [Next]_vars PROVE RoutesOK'
<1>0. /\ Grows /\ Len(prompts) \in Nat /\ DOMAIN prompts = 1 .. Len(prompts)
      /\ DOMAIN prompts' = 1 .. Len(prompts') /\ Len(prompts') \in Nat
  BY AlwaysGrows DEF Grows, Shape, Typed
<1>1. ASSUME NEW p \in DOMAIN prompts PROVE PromptSays(p) /\ PromptSays(p)'
  BY PromptSaysOn DEF RoutesOK, PromptSays
<1>2. ASSUME NEW p \in 1 .. Len(prompts), NEW q \in p .. Len(prompts),
             prompts'[p].of = prompts'[q].of, "t2i" \notin {prompts'[p].stage, prompts'[q].stage},
             prompts'[p].stage # prompts'[q].stage
      PROVE  /\ prompts'[p].stage = "legacy"
             /\ \/ env'.lost
                \/ \E r \in p .. q : prompts'[r].of = prompts'[p].of /\ prompts'[r].stage = "t2i"
  <2>1. q \in 1 .. Len(prompts) BY <1>0
  <2>2. \A r \in p .. q : r \in 1 .. Len(prompts) BY <1>0
  <2>3. \A r \in 1 .. Len(prompts) : prompts'[r].of = prompts[r].of /\ prompts'[r].stage = prompts[r].stage
    BY <1>0 DEF Grows
  <2>4. /\ prompts[p].stage = "legacy"
        /\ env.lost \/ \E r \in p .. q : prompts[r].of = prompts[p].of /\ prompts[r].stage = "t2i"
    <3>1. RouteKept BY DEF RoutesOK
    <3>2. prompts[p].of = prompts[q].of /\ "t2i" \notin {prompts[p].stage, prompts[q].stage}
          /\ prompts[p].stage # prompts[q].stage
      BY <1>2, <2>1, <2>3
    <3>3. p \in DOMAIN prompts /\ q \in p .. Len(prompts) BY <1>0
    <3> QED BY <3>1, <3>2, <3>3 DEF RouteKept
  <2>5. CASE env.lost BY <2>3, <2>4, <2>5, LostStays
  <2>6. CASE \E r \in p .. q : prompts[r].of = prompts[p].of /\ prompts[r].stage = "t2i"
    <3>1. PICK r \in p .. q : prompts[r].of = prompts[p].of /\ prompts[r].stage = "t2i" BY <2>6
    <3>2. prompts'[r].of = prompts'[p].of /\ prompts'[r].stage = "t2i" BY <2>2, <2>3, <3>1
    <3> QED BY <2>3, <2>4, <3>2
  <2> QED BY <2>4, <2>5, <2>6
<1>3. CASE Len(prompts') = Len(prompts)
  <2>1. ASSUME NEW p \in DOMAIN prompts' PROVE PromptSays(p)' BY <1>0, <1>1, <1>3
  <2>2. RouteKept' BY <1>0, <1>2, <1>3 DEF RouteKept
  <2> QED BY <2>1, <2>2, PlanSaysOn, RouteSaysOn, HandSaysOn
      DEF RoutesOK, PlanSays, PromptSays, RouteSays, HandSays
<1>4. CASE QueuePrompt /\ prompts' = Append(prompts, Queued)
  <2> DEFINE n == Len(prompts) + 1
  <2>1. w.pc = "post" /\ w.pc \in PromptSteps /\ w.pc \in ItemSteps /\ w.stage \in Stages /\ UNCHANGED <<item, rev>>
    BY <1>4, QueuePromptDoes, PcIs DEF PromptSteps, store
  <2>2. Len(prompts') = n /\ prompts'[n] = Queued BY <1>4, <2>1, SentGrows
  <2>3. /\ HandSays /\ ~Done(w.i) /\ Row(w.i) = item[it] /\ it \in Items
        /\ w.stage # "t2i" => w.stage = w.route[w.i] /\ RouteSays(w.i)
    BY <2>1, OwnRoute
  <2>4. item[it].state = "running" BY <2>1, HeldStand DEF Agree
  <2>5. env'.lost \/ (w'.pc = "own" /\ w'.p = n)
    <3>1. env \in EnvRows BY DEF Shape, Typed, EnvRows
    <3>2. CASE env' = [env EXCEPT !.faults = env.faults + 1, !.lost = TRUE] BY <3>1, <3>2 DEF EnvRows
    <3>3. CASE UNCHANGED prompts BY <1>0, <2>2, <3>3
    <3> QED BY <1>4, <3>2, <3>3, QueuePromptDoes
  <2>6. prompts'[n].of = it /\ prompts'[n].stage = w.stage BY <2>2 DEF Queued
  <2>8. ASSUME NEW p \in DOMAIN prompts' PROVE PromptSays(p)'
    <3>1. p \in DOMAIN prompts \/ p = n BY <1>0, <2>2
    <3>2. ASSUME NEW m, m = n PROVE PromptSays(m)'
      BY <2>1, <2>3, <2>4, <2>5, <2>6, <3>2 DEF PromptSays, HandSays, Owning
    <3> QED BY <1>1, <3>1, <3>2
  <2>9. ASSUME NEW p \in 1 .. Len(prompts), prompts'[p].of = it, w.stage # "t2i",
               prompts'[p].stage # "t2i", prompts'[p].stage # w.stage
        PROVE  /\ prompts'[p].stage = "legacy"
               /\ \/ env'.lost
                  \/ \E r \in p .. n : prompts'[r].of = it /\ prompts'[r].stage = "t2i"
    <3>1. prompts[p].of = it /\ prompts[p].stage = prompts'[p].stage /\ prompts[p] \in PromptRows
      BY <1>0, <2>9 DEF Grows, Shape, Typed
    <3>2. PromptSays(p) BY <1>0, <1>1
    <3>3. RouteSays(w.i) /\ w.stage = w.route[w.i] BY <2>3, <2>9
    <3>4. rev[<<w.b, w.i>>] = rev[it] BY DEF it
    <3>5. prompts[p].stage # "continuation"
      BY <2>1, <2>9, <3>1, <3>2, <3>3, <3>4 DEF PromptSays, RouteSays, Stages, Routes
    <3>6. prompts[p].stage = "legacy" /\ w.stage = "continuation"
      BY <2>1, <2>9, <3>1, <3>5 DEF PromptRows, Stages, Routes
    <3>7. item[it].stage # "legacy" BY <2>3, <3>3, <3>6 DEF RouteSays, Routes
    <3>8. env.lost \/ \E r \in p .. Len(prompts) : prompts[r].of = it /\ prompts[r].stage = "t2i"
      BY <2>1, <2>4, <3>1, <3>2, <3>6, <3>7 DEF PromptSays, Owning, Settled
    <3>9. CASE env.lost BY <3>1, <3>6, <3>9, LostStays
    <3>10. CASE \E r \in p .. Len(prompts) : prompts[r].of = it /\ prompts[r].stage = "t2i"
      <4>1. PICK r \in p .. Len(prompts) : prompts[r].of = it /\ prompts[r].stage = "t2i" BY <3>10
      <4>2. r \in 1 .. Len(prompts) /\ r \in p .. n BY <1>0, <4>1
      <4>3. prompts'[r].of = it /\ prompts'[r].stage = "t2i" BY <1>0, <4>1, <4>2 DEF Grows
      <4> QED BY <3>1, <3>6, <4>2, <4>3
    <3> QED BY <3>8, <3>9, <3>10
  <2>10. RouteKept'
    <3> SUFFICES ASSUME NEW p \in DOMAIN prompts', NEW q \in p .. Len(prompts'),
                        prompts'[p].of = prompts'[q].of, "t2i" \notin {prompts'[p].stage, prompts'[q].stage},
                        prompts'[p].stage # prompts'[q].stage
                 PROVE  /\ prompts'[p].stage = "legacy"
                        /\ \/ env'.lost
                           \/ \E r \in p .. q : prompts'[r].of = prompts'[p].of /\ prompts'[r].stage = "t2i"
      BY DEF RouteKept
    <3>1. CASE q \in p .. Len(prompts)
      <4>1. p \in 1 .. Len(prompts) BY <1>0, <2>2, <3>1
      <4> QED BY <1>2, <3>1, <4>1
    <3>2. CASE q = n
      <4>1. p # n BY <3>2
      <4>2. p \in 1 .. Len(prompts) BY <1>0, <2>2, <4>1
      <4> QED BY <2>6, <2>9, <3>2, <4>2
    <3> QED BY <1>0, <2>2, <3>1, <3>2
  <2> QED BY <2>8, <2>10, PlanSaysOn, RouteSaysOn, HandSaysOn
      DEF RoutesOK, PlanSays, PromptSays, RouteSays, HandSays
<1>5. Len(prompts') = Len(prompts) \/ (QueuePrompt /\ prompts' = Append(prompts, Queued))
  <2>1. CASE CancelProjectPrompts BY <2>1, CancelledEnds DEF CancelProjectPrompts, Ends
  <2>2. CASE QueuePrompt BY <2>2, QueuePromptDoes
  <2> QED BY <2>1, <2>2, PromptChanges, RunPromptDoes, ComfyDiesDoes DEF Ends
<1> QED BY <1>3, <1>4, <1>5

\* What _remake_uses_continuation reads, the stage in the row and the plan, tells the route of
\* every prompt of the revision, with the exceptions RouteKept names.
THEOREM InRoutes == Spec => []RoutesOK
<1>1. Init => RoutesOK
  <2> SUFFICES ASSUME Init PROVE RoutesOK OBVIOUS
  <2>1. prompts = <<>> /\ \A y \in Items : item[y].stage = "none" BY DEF Init
  <2>2. w.pc = "idle" BY IdleIs DEF Init
  <2>3. w.pc \notin RunSteps /\ w.pc \notin PromptSteps BY <2>2, IdleIs, PcIs
  <2> QED BY <2>1, <2>3 DEF RoutesOK, RouteKept
<1>2. Shape /\ Agree /\ HoldOK /\ RoutesOK /\ [Next]_vars => RoutesOK' BY RoutesKept
<1> QED BY <1>1, <1>2, InShape, InAgreement, InHold, PTL DEF Spec

\* An interrupted remake stays on its selected I2V route although the setting changes between
\* restarts.
THEOREM RoutesAreKept == Spec => []RouteKept
<1>1. RoutesOK => RouteKept BY DEF RoutesOK
<1> QED BY <1>1, InRoutes, PTL

-----------------------------------------------------------------------------
(* All frames before any video *)


\* A prompt that has ended has only ended ones before it.
LEMMA OrderKept == ASSUME Shape, OrderOK, [Next]_vars PROVE OrderOK'
<1>0. /\ Len(prompts) \in Nat /\ DOMAIN prompts = 1 .. Len(prompts)
      /\ DOMAIN prompts' = 1 .. Len(prompts') /\ Len(prompts') \in Nat
  BY AlwaysGrows DEF Grows, Shape, Typed
<1>1. CASE UNCHANGED prompts BY <1>1 DEF OrderOK, Past, Live
<1>2. ASSUME Len(prompts') = Len(prompts), \A p \in 1 .. Len(prompts) : prompts'[p].st # "queued"
      PROVE  OrderOK'
  <2>1. ASSUME NEW p \in DOMAIN prompts', NEW q \in 1 .. p PROVE prompts'[q].st # "queued"
    <3>1. q \in 1 .. Len(prompts) BY <1>0, <1>2
    <3> QED BY <1>2, <3>1
  <2> QED BY <2>1 DEF OrderOK, Past, Live
<1>3. CASE CancelProjectPrompts
  <2>1. UNCHANGED prompts \/ prompts' = Cancelled BY <1>3 DEF CancelProjectPrompts
  <2> QED BY <1>1, <1>2, <2>1, CancelledEnds DEF Ends
<1>4. CASE ComfyDies BY <1>2, <1>4, ComfyDiesDoes DEF Ends
<1>5. CASE QueuePrompt /\ prompts' = Append(prompts, Queued)
  <2>1. w.pc \in ItemSteps /\ w.stage \in Stages BY <1>5, QueuePromptDoes, PcIs DEF PromptSteps
  <2>2. /\ Len(prompts') = Len(prompts) + 1 /\ prompts'[Len(prompts) + 1].st = "queued"
        /\ \A p \in 1 .. Len(prompts) : prompts'[p] = prompts[p]
    BY <1>5, <2>1, SentGrows DEF Queued
  <2>3. ASSUME NEW p \in DOMAIN prompts', prompts'[p].st \in {"done", "failed"}, NEW q \in 1 .. p
        PROVE  prompts'[q].st # "queued"
    <3>1. p \in 1 .. Len(prompts) BY <1>0, <2>2, <2>3
    <3>2. q \in 1 .. Len(prompts) /\ prompts'[p] = prompts[p] /\ prompts'[q] = prompts[q] BY <1>0, <2>2, <3>1
    <3> QED BY <1>0, <2>3, <3>1, <3>2 DEF OrderOK, Past, Live
  <2> QED BY <2>3 DEF OrderOK, Past, Live
<1>6. CASE RunPrompt
  <2>1. PICK r \in 1 .. Len(prompts) :
          /\ First(r) /\ \A q \in 1 .. Len(prompts) : q # r => prompts'[q] = prompts[q]
          /\ prompts'[r].st \in {"done", "failed"}
    BY <1>6, RunPromptDoes
  <2>2. Len(prompts') = Len(prompts) BY <1>6, RunPromptDoes DEF Ends
  <2>3. ASSUME NEW p \in DOMAIN prompts', prompts'[p].st \in {"done", "failed"}, NEW q \in 1 .. p
        PROVE  prompts'[q].st # "queued"
    <3>1. p \in 1 .. Len(prompts) /\ q \in 1 .. Len(prompts) BY <1>0, <2>2
    <3>2. CASE q = r BY <2>1, <3>2
    <3>3. CASE q # r /\ p = r
      <4>1. q \in 1 .. r - 1 BY <3>1, <3>3
      <4> QED BY <2>1, <3>1, <3>3, <4>1 DEF First, Live
    <3>4. CASE q # r /\ p # r
      <4>1. prompts'[p] = prompts[p] /\ prompts'[q] = prompts[q] BY <2>1, <3>1, <3>4
      <4> QED BY <1>0, <2>3, <3>1, <4>1 DEF OrderOK, Past, Live
    <3> QED BY <3>2, <3>3, <3>4
  <2> QED BY <2>3 DEF OrderOK, Past, Live
<1> QED BY <1>1, <1>3, <1>4, <1>5, <1>6, PromptChanges, QueuePromptDoes

\* When a prompt has finished or failed so has every prompt queued before it: ComfyUI runs its
\* queue in order.
THEOREM InOrder == Spec => []OrderOK
<1>1. Init => OrderOK BY DEF Init, OrderOK
<1>2. Shape /\ OrderOK /\ [Next]_vars => OrderOK' BY OrderKept
<1> QED BY <1>1, <1>2, InShape, PTL DEF Spec

\* How the worker leaves an item for the next one.
LEMMA LeaveMoves ==
  ASSUME Shape, [Next]_vars, w.pc \in ItemSteps, w'.pc = "next"
  PROVE  \/ Prepare /\ Prepared(UsedRoute)
         \/ MarkRevision
         \/ Frame /\ Skipped
         \/ Video /\ Generated
         \/ Got /\ Skipped
         \/ Bind
         \/ SettleItem
<1>0. w \in WorkerStates BY DEF Shape, Typed
<1>a. w.pc # "next" /\ w.pc # "idle" /\ w.pc \in RunSteps BY NotNext, PcIs, IdleIs
<1>1. CASE Http \/ RunPrompt \/ ComfyDies \/ Damage \/ UNCHANGED vars
  BY <1>1, <1>a DEF Http, CreateRemakeBatch, SubmitBatch, AbandonCurrent, CancelProjectPrompts,
     QueueRemakeBatch, QueueManualFinal, RunPrompt, ComfyDies, Damage, vars
<1>2. CASE Crash BY <1>2, CrashDoes, IdleIs
<1>3. CASE Boot BY <1>3, BootDoes, IdleIs
<1>4. CASE StartFinal \/ Tick \/ StartBatch \/ NextItem
  BY <1>a, <1>4, StartFinalDoes, TickDoes, StartBatchDoes, NextDoes
<1>5. CASE Stitch \/ JobEnds \/ EndBatch \/ RecoverBatches
  BY <1>5, IdleIs DEF Stitch, JobEnds, EndBatch, RecoverBatches
<1>6. CASE HandleFatal BY <1>6, FatalErrorDoes
<1>7. CASE Prepare BY <1>7, PrepareDoes DEF Moves
<1>8. CASE MarkItem BY <1>8, MarkItemDoes DEF Moves
<1>9. CASE Frame BY <1>9, FrameDoes DEF Asks
<1>10. CASE Video BY <1>10, VideoDoes DEF Asks
<1>11. CASE ReadHistory \/ ReadQueue \/ OwnPrompt \/ WaitPrompt
  BY <1>11, HistoryDoes, ReadQueueDoes, OwnDoes, WaitDoes DEF Moves
<1>12. CASE QueuePrompt BY <1>12, QueuePromptDoes DEF Moves
<1>13. CASE Got BY <1>13, GotDoes DEF Moves
<1>14. CASE Deliver BY <1>14, DeliverDoes DEF Moves
<1>15. CASE Send BY <1>15, SendDoes DEF Moves
<1>16. CASE Answer BY <1>16, AnswerDoes
<1>17. CASE ExposeRevision BY <1>17, ExposeDoes DEF Moves
<1>18. CASE Worker
  BY <1>18, <1>4, <1>5, <1>6, <1>7, <1>8, <1>9, <1>10, <1>11, <1>12, <1>13, <1>14, <1>15, <1>16, <1>17
     DEF Worker
<1> QED BY <1>1, <1>2, <1>3, <1>18 DEF Next

\* A frame is kept, lost, or just rendered; a video-only remake gets the original.
LEMMA FrameMoves ==
  ASSUME Shape, Agree, [Next]_vars, NEW y \in Items
  PROVE  \/ disk'[y].frame = disk[y].frame
         \/ Damage /\ disk'[y].frame = 0
         \/ item[y].state = "none" /\ item'[y] = Fresh /\ (\E b \in Batches : CreateRemakeBatch(b))
            /\ ~Both(y) /\ disk'[y].frame = Original
         \/ /\ RunPrompt
            /\ \E p \in 1 .. Len(prompts) : /\ First(p) /\ prompts[p].of = y /\ prompts[p].stage = "t2i"
                                            /\ disk'[y].frame = p /\ prompts'[p].st = "done"
<1>1. CASE UNCHANGED disk BY <1>1
<1>2. CASE \E b \in Batches : CreateRemakeBatch(b)
  <2>1. PICK b \in Batches : CreateRemakeBatch(b) BY <1>2
  <2>2. Both(y) \in BOOLEAN BY ItemsAre
  <2> QED BY <1>2, <2>1, <2>2, CreateDoes DEF Agree, RowsOK
<1>3. CASE Prepare
  <2>1. CASE UNCHANGED disk BY <2>1
  <2>2. CASE DiskOnly(it) /\ disk'[it].frame = disk[it].frame BY <2>2 DEF DiskOnly
  <2> QED BY <1>3, <2>1, <2>2, PrepareDoes
<1>4. CASE MarkRevision BY <1>4, MarkRevisionDoes DEF DiskOnly
<1>5. CASE Got BY <1>5, GotDoes DEF DiskOnly
<1>6. CASE Bind BY <1>6, BindDoes DEF DiskOnly
<1>7. CASE Deliver BY <1>7, DeliverDoes DEF DiskOnly
<1>8. CASE Answer BY <1>8, AnswerDoes DEF DiskOnly
<1>9. CASE ExposeRevision BY <1>9, ExposeDoes DEF DiskOnly
<1>10. CASE RunPrompt
  <2>1. PICK p \in 1 .. Len(prompts) :
          /\ First(p) /\ prompts[p].of \in Items
          /\ \/ /\ prompts'[p].st = "done"
                /\ \/ UNCHANGED disk
                   \/ /\ prompts[p].stage = "t2i" /\ DiskOnly(prompts[p].of)
                      /\ disk'[prompts[p].of].frame = p
             \/ UNCHANGED disk
    BY <1>10, RunPromptDoes
  <2>2. CASE UNCHANGED disk BY <2>2
  <2>3. CASE y = prompts[p].of /\ ~UNCHANGED disk BY <1>10, <2>1, <2>3
  <2>4. CASE y # prompts[p].of /\ ~UNCHANGED disk BY <2>1, <2>4 DEF DiskOnly
  <2> QED BY <2>2, <2>3, <2>4
<1>11. CASE Damage BY <1>11, DamageDoes DEF DiskOnly
<1> QED BY <1>1, <1>2, <1>3, <1>4, <1>5, <1>6, <1>7, <1>8, <1>9, <1>10, <1>11, DiskChanges

\* A prepared item has its frame, has failed, or is still to be visited for it.
FrameSays(i) ==
  \/ disk[<<w.b, i>>].frame # 0 \/ Row(i).state = "failed"
  \/ w.phase = "prepare" /\ Both(<<w.b, i>>)
  \/ w.phase = "frames" /\ Both(<<w.b, i>>) /\ (Ahead(i) \/ Held(i))

LEMMA FrameSaysOn ==
  ASSUME Shape, Agree, FramesOK, [Next]_vars, w'.pc \in RunSteps, NEW i \in w'.prep
  PROVE  FrameSays(i)'
<1>1. CASE /\ w.pc \in RunSteps /\ w'.b = w.b /\ i \in w.prep /\ i \in 1 .. Size
  <2> DEFINE y == <<w.b, i>>
  <2>1. y \in Items /\ item[y].state # "none"
    <3>1. w.b \in Batches BY <1>1 DEF Shape, Placed
    <3>2. Stand(i) BY <1>1 DEF Agree, HandOK
    <3> QED BY <1>1, <3>1, <3>2, ItemsAre DEF Size, Stand, Row, Settled
  <2>2. FrameSays(i) BY <1>1 DEF FramesOK, FrameSays
  <2>3. y = it <=> i = w.i BY DEF it
  <2>4. FrameSays(i) <=> \/ disk[y].frame # 0 \/ item[y].state = "failed"
                         \/ w.phase = "prepare" /\ Both(y)
                         \/ w.phase = "frames" /\ Both(y) /\ (Ahead(i) \/ Held(i))
    BY DEF FrameSays, Row
  <2>5. FrameSays(i)' <=> \/ disk'[y].frame # 0 \/ item'[y].state = "failed"
                          \/ w'.phase = "prepare" /\ Both(y)
                          \/ w'.phase = "frames" /\ Both(y) /\ (Ahead(i)' \/ Held(i)')
    BY <1>1 DEF FrameSays, Row, Both
  <2> HIDE DEF y
  <2>6. CASE disk[y].frame # 0
    <3>1. ~Damage BY <1>1, DamageDoes, IdleIs
    <3>2. 0 \notin 1 .. Len(prompts) OBVIOUS
    <3>3. disk'[y].frame # 0 BY <2>1, <2>6, <3>1, <3>2, FrameMoves
    <3> QED BY <2>5, <3>3
  <2>7. CASE item[y].state = "failed"
    <3>1. item'[y].state = "failed" BY <2>1, <2>7, SettledStands DEF Settled
    <3> QED BY <2>5, <3>1
  <2>8. CASE disk[y].frame = 0 /\ item[y].state # "failed"
    <3>0. Both(y) /\ (w.phase = "prepare" \/ (w.phase = "frames" /\ (Ahead(i) \/ Held(i))))
      BY <2>2, <2>4, <2>8
    <3>1. CASE UNCHANGED w BY <2>5, <3>0, <3>1 DEF Ahead, Held
    <3>2. CASE StartBatch BY <1>1, <3>2, StartBatchDoes, IdleIs
    <3>3. CASE NextItem
      <4>1. w.pc = "next" /\ w'.pc # "verdict" /\ w.i \in Nat /\ Size \in Nat
        BY <3>0, <3>3, NextDoes, NotNext
      <4>2. CASE w.phase = "prepare"
        <5>1. w'.phase = "prepare" \/ (w'.phase = "frames" /\ w'.i = 1 /\ w'.pc = "next")
          BY <3>3, <4>2, NextDoes DEF NextPhase
        <5>2. w'.phase = "frames" /\ w'.i = 1 /\ w'.pc = "next" => Ahead(i)' BY <1>1, <4>1 DEF Ahead
        <5> QED BY <2>5, <3>0, <5>1, <5>2
      <4>3. CASE w.phase = "frames"
        <5>1. i >= w.i BY <1>1, <3>0, <4>1, <4>3, NotNext DEF Ahead, Held
        <5>2. i \in w.i .. Size /\ Due(i) BY <1>1, <3>0, <4>1, <4>3, <5>1 DEF Due, y
        <5>3. /\ w'.phase = "frames" /\ w'.i \in w.i .. Size /\ w'.i <= i /\ w'.pc \in ItemSteps
          BY <3>3, <4>3, <5>2, NextDoes
        <5>4. Ahead(i)' \/ Held(i)' BY <1>1, <4>1, <5>3 DEF Ahead, Held
        <5> QED BY <2>5, <3>0, <5>3, <5>4
      <4> QED BY <3>0, <4>2, <4>3
    <3>4. CASE Advances
      <4>1. /\ w'.phase = w.phase /\ w'.i = w.i /\ w.pc \in ItemSteps /\ w'.pc \in ItemSteps /\ w.pc # "next"
        BY <3>4, NotNext DEF Advances, SameHand, SameRun
      <4>2. Ahead(i) \/ Held(i) => Ahead(i)' \/ Held(i)' BY <4>1 DEF Ahead, Held
      <4> QED BY <2>5, <3>0, <4>1, <4>2
    <3>5. CASE Leaves
      <4>1. w'.phase = w.phase /\ w'.i = w.i + 1 /\ w.pc \in ItemSteps /\ w'.pc = "next" /\ w.pc # "next"
        BY <3>5, NotNext DEF Leaves, SameRun
      <4>2. w.i \in Nat /\ w.i \in 1 .. Size BY <4>1, HandIs
      <4>3. CASE Ahead(i)
        <5>1. Ahead(i)' BY <1>1, <4>1, <4>2, <4>3 DEF Ahead
        <5> QED BY <2>5, <3>0, <4>1, <5>1
      <4>4. CASE w.phase = "frames" /\ i = w.i
        <5>1. y = it BY <2>3, <4>4
        <5>2. CASE Prepare BY <4>4, <5>2, PrepareDoes DEF Shape, Placed, RunSteps, ItemSteps
        <5>3. CASE MarkRevision
          <6>1. item[it].state = "failed" BY <4>1, <5>3, MarkRevisionDoes, HeldStand DEF Agree
          <6> QED BY <2>8, <5>1, <6>1
        <5>4. CASE Frame /\ Skipped
          <6>1. w \in WorkerStates BY DEF Shape, Typed
          <6> QED BY <2>8, <4>1, <5>1, <5>4, <6>1, FrameDoes DEF Asks
        <5>5. CASE Got /\ Skipped BY <2>8, <4>1, <5>1, <5>5, GotDoes DEF Moves
        <5>6. CASE Video \/ Bind
          BY <4>1, <4>4, <5>6, VideoDoes, BindDoes, PcIs DEF Shape, Placed, VideoSteps
        <5>7. CASE SettleItem BY <4>1, <4>4, <5>7, SettleDoes, PcIs DEF Shape, Placed, DeliverySteps
        <5> QED BY <4>1, <5>2, <5>3, <5>4, <5>5, <5>6, <5>7, LeaveMoves
      <4>5. Held(i) => i = w.i BY DEF Held
      <4> QED BY <2>5, <3>0, <4>1, <4>3, <4>4, <4>5
    <3> QED BY <3>1, <3>2, <3>3, <3>4, <3>5, WorkerMoves
  <2> QED BY <2>6, <2>7, <2>8
<1>2. CASE Prepare /\ Prepared(UsedRoute) /\ w.pc \in ItemSteps /\ w'.b = w.b /\ i = w.i /\ UsedRoute \in Routes
  <2>1. w \in WorkerStates /\ w.i \in DOMAIN w.route /\ it \in Items
    <3>1. w.i \in 1 .. Size /\ w.pc \in RunSteps BY <1>2, HandIs
    <3> QED BY <1>2, <3>1, HandIs DEF Shape, Placed, Typed, WorkerStates
  <2>2. w'.pc = "next" /\ w'.phase = w.phase BY <1>2, <2>1, SkipPrepDoes DEF SameRun
  <2>3. w.phase = "prepare"
    <3>1. w.pc = "prepare" BY <1>2, PrepareDoes
    <3> QED BY <3>1 DEF Shape, Placed
  <2>4. Both(it) \/ disk[it].frame # 0 BY <1>2, <2>2, PrepareDoes DEF Moves
  <2>5. disk'[it].frame = disk[it].frame BY <1>2, PrepareDoes
  <2>6. <<w'.b, i>> = it BY <1>2 DEF it
  <2> QED BY <2>2, <2>3, <2>4, <2>5, <2>6 DEF FrameSays, Both
<1> QED BY <1>1, <1>2, PrepMoves

\* Every prepared item of the batch in hand has its frame on disk, has failed, or is an image
\* remake that is still to be visited.
THEOREM InFrames == Spec => []FramesOK
<1>1. Init => FramesOK BY IdleIs DEF Init, FramesOK
<1>2. Shape /\ Agree /\ FramesOK /\ [Next]_vars => FramesOK' BY FrameSaysOn DEF FramesOK, FrameSays
<1> QED BY <1>1, <1>2, InShape, InAgreement, PTL DEF Spec

\* All frames before any video: no image-to-video prompt is queued while an item that was
\* prepared, and has not failed, lacks its frame.
THEOREM FramesAreFirst == Spec => FramesFirst
<1>1. ASSUME Shape, FramesOK, [Next]_vars,
             NEW p \in DOMAIN prompts' \ DOMAIN prompts, prompts'[p].stage # "t2i", NEW i \in w.prep
      PROVE  item[<<w.b, i>>].state = "failed" \/ disk[<<w.b, i>>].frame # 0
  <2>1. DOMAIN prompts = 1 .. Len(prompts) /\ Len(prompts) \in Nat /\ DOMAIN prompts' = 1 .. Len(prompts')
    BY <1>1, AlwaysGrows DEF Shape, Typed, Grows
  <2>2. Len(prompts') # Len(prompts) BY <1>1, <2>1
  <2>3. QueuePrompt /\ prompts' = Append(prompts, Queued)
    <3>1. CASE CancelProjectPrompts BY <1>1, <2>2, <3>1, CancelledEnds DEF CancelProjectPrompts, Ends
    <3>2. CASE RunPrompt \/ ComfyDies BY <1>1, <2>2, <3>2, RunPromptDoes, ComfyDiesDoes DEF Ends
    <3> QED BY <1>1, <2>2, <3>1, <3>2, PromptChanges, QueuePromptDoes
  <2>4. w.pc = "post" /\ w.pc \in PromptSteps /\ w.pc \in RunSteps /\ w.stage \in Stages /\ w.pc \in ItemSteps
    BY <1>1, <2>3, QueuePromptDoes, PcIs DEF PromptSteps
  <2>5. prompts'[p].stage = w.stage
    <3>1. Len(prompts') = Len(prompts) + 1 /\ prompts'[Len(prompts) + 1] = Queued
      BY <1>1, <2>3, <2>4, SentGrows
    <3>2. p = Len(prompts) + 1 BY <1>1, <2>1, <3>1
    <3> QED BY <3>1, <3>2 DEF Queued
  <2>6. w.phase = "videos" BY <1>1, <2>4, <2>5 DEF Shape, Placed
  <2>7. FrameSays(i) BY <1>1, <2>4 DEF FramesOK, FrameSays
  <2> QED BY <2>6, <2>7 DEF FrameSays, Row
<1>2. Shape /\ FramesOK /\ [Next]_vars =>
        \A p \in DOMAIN prompts' \ DOMAIN prompts :
          prompts'[p].stage # "t2i" =>
            \A i \in w.prep : item[<<w.b, i>>].state = "failed" \/ disk[<<w.b, i>>].frame # 0
  BY <1>1
<1>3. Shape /\ FramesOK /\ [Next]_vars =>
        [\A p \in DOMAIN prompts' \ DOMAIN prompts :
          prompts'[p].stage # "t2i" =>
            \A i \in w.prep : \/ item[<<w.b, i>>].state = "failed"
                              \/ disk[<<w.b, i>>].frame # 0]_vars
  BY <1>2
<1> QED BY <1>3, InShape, InFrames, PTL DEF Spec, FramesFirst

-----------------------------------------------------------------------------
(* A clip belongs to the frame it was rendered from *)

\* Only the worker queues a prompt, of the item in hand.
LEMMA NewPrompt ==
  ASSUME Shape, [Next]_vars, NEW p \in DOMAIN prompts', p \notin DOMAIN prompts
  PROVE  /\ QueuePrompt /\ w.pc = "post" /\ p = Len(prompts) + 1 /\ Len(prompts') = p
         /\ prompts'[p] = Queued
         /\ \A q \in DOMAIN prompts : prompts'[q] = prompts[q]
         /\ env'.lost \/ (w'.pc = "own" /\ w'.p = p)
<1>1. DOMAIN prompts = 1 .. Len(prompts) /\ Len(prompts) \in Nat /\ DOMAIN prompts' = 1 .. Len(prompts')
  BY AlwaysGrows DEF Shape, Typed, Grows
<1>2. Len(prompts') # Len(prompts) BY <1>1
<1>3. QueuePrompt /\ prompts' = Append(prompts, Queued)
  <2>1. CASE CancelProjectPrompts BY <1>2, <2>1, CancelledEnds DEF CancelProjectPrompts, Ends
  <2>2. CASE RunPrompt \/ ComfyDies BY <1>2, <2>2, RunPromptDoes, ComfyDiesDoes DEF Ends
  <2> QED BY <1>2, <2>1, <2>2, PromptChanges, QueuePromptDoes
<1>4. w.pc = "post" /\ w.stage \in Stages /\ w.pc \in ItemSteps BY <1>3, QueuePromptDoes, PcIs DEF PromptSteps
<1>5. /\ Len(prompts') = Len(prompts) + 1 /\ prompts'[Len(prompts) + 1] = Queued
      /\ \A q \in 1 .. Len(prompts) : prompts'[q] = prompts[q]
  BY <1>3, <1>4, SentGrows
<1>6. p = Len(prompts) + 1 BY <1>1, <1>5
<1>7. env'.lost \/ (w'.pc = "own" /\ w'.p = p)
  <2>1. env \in EnvRows BY DEF Shape, Typed, EnvRows
  <2>2. CASE env' = [env EXCEPT !.faults = env.faults + 1, !.lost = TRUE] BY <2>1, <2>2 DEF EnvRows
  <2> QED BY <1>2, <1>3, <1>6, <2>2, QueuePromptDoes
<1> QED BY <1>1, <1>3, <1>4, <1>5, <1>6, <1>7

\* A prompt that has left the queue does not come back.
LEMMA LiveOnly ==
  ASSUME Shape, [Next]_vars, NEW p \in DOMAIN prompts
  PROVE  /\ p \in DOMAIN prompts' /\ prompts'[p].of = prompts[p].of /\ prompts'[p].stage = prompts[p].stage
         /\ prompts'[p].st = "queued" => prompts[p].st = "queued"
<1>1. Grows /\ DOMAIN prompts = 1 .. Len(prompts) /\ Len(prompts) \in Nat /\ DOMAIN prompts' = 1 .. Len(prompts')
  BY AlwaysGrows DEF Shape, Typed, Grows
<1>2. prompts'[p].st = "queued" => prompts[p].st = "queued"
  <2>1. CASE CancelProjectPrompts BY <1>1, <2>1, CancelledEnds DEF CancelProjectPrompts, Ends
  <2>2. CASE RunPrompt \/ ComfyDies BY <1>1, <2>2, RunPromptDoes, ComfyDiesDoes DEF Ends
  <2>3. CASE QueuePrompt /\ prompts' = Append(prompts, Queued) BY <1>1, <2>3
  <2> QED BY <2>1, <2>2, <2>3, PromptChanges, QueuePromptDoes
<1> QED BY <1>1, <1>2 DEF Grows

LEMMA NoFrameStays ==
  ASSUME Shape, [Next]_vars, NEW y \in Items, NoFrameDue(y),
         QueuePrompt => y # it \/ w.stage # "t2i"
  PROVE  NoFrameDue(y)'
<1> SUFFICES ASSUME NEW p \in DOMAIN prompts', prompts'[p].st = "queued", prompts'[p].of = y,
                    prompts'[p].stage = "t2i"
             PROVE  FALSE
  BY DEF NoFrameDue, Live
<1>1. CASE p \in DOMAIN prompts BY <1>1, LiveOnly DEF NoFrameDue, Live
<1>2. CASE p \notin DOMAIN prompts BY <1>2, NewPrompt DEF Queued
<1> QED BY <1>1, <1>2

LEMMA PastStays ==
  ASSUME Shape, [Next]_vars, NEW p \in 1 .. Len(prompts), Past(p) PROVE Past(p)'
<1>1. ASSUME NEW q \in 1 .. p PROVE prompts'[q].st # "queued"
  <2>1. q \in DOMAIN prompts BY DEF Shape, Typed
  <2> QED BY <2>1, LiveOnly DEF Past, Live
<1> QED BY <1>1 DEF Past, Live

LEMMA ManifestMoves ==
  ASSUME Shape, [Next]_vars, NEW y \in Items
  PROVE  \/ disk'[y].manifest = disk[y].manifest
         \/ Prepare /\ Prepared(UsedRoute) /\ y = it /\ disk'[y].manifest = Opened(UsedRoute)
         \/ MarkRevision /\ y = it /\ disk'[y].manifest.status = "failed"
         \/ Bind /\ y = it /\ disk'[y].manifest = Bound
         \/ ExposeRevision /\ y = it /\ disk'[y].manifest.status = "succeeded"
            /\ disk'[y].manifest.frame = disk[y].manifest.frame
<1>0. disk[y] \in Files /\ disk[y].manifest \in Manifests BY DEF Shape, Typed, Files
<1>1. CASE UNCHANGED disk BY <1>1
<1>2. CASE \E b \in Batches : CreateRemakeBatch(b)
  <2>1. PICK b \in Batches : CreateRemakeBatch(b) BY <1>2
  <2> QED BY <2>1, CreateDoes
<1>3. CASE Prepare BY <1>3, PrepareDoes DEF DiskOnly
<1>4. CASE MarkRevision BY <1>0, <1>4, MarkRevisionDoes DEF DiskOnly, Manifests
<1>5. CASE Got BY <1>5, GotDoes DEF DiskOnly
<1>6. CASE Bind BY <1>6, BindDoes DEF DiskOnly
<1>7. CASE Deliver BY <1>7, DeliverDoes DEF DiskOnly
<1>8. CASE Answer BY <1>8, AnswerDoes DEF DiskOnly
<1>9. CASE ExposeRevision BY <1>0, <1>9, ExposeDoes DEF DiskOnly, Manifests
<1>10. CASE RunPrompt BY <1>10, RunPromptDoes DEF DiskOnly
<1>11. CASE Damage BY <1>11, DamageDoes DEF DiskOnly
<1> QED BY <1>1, <1>2, <1>3, <1>4, <1>5, <1>6, <1>7, <1>8, <1>9, <1>10, <1>11, DiskChanges

LEMMA RevSucceeds ==
  ASSUME Shape, [Next]_vars, NEW y \in Items, rev'[y].state = "succeeded"
  PROVE  rev[y].state = "succeeded" \/ (ExposeRevision /\ y = it)
<1>1. CASE UNCHANGED rev BY <1>1
<1>2. CASE \E b \in Batches : CreateRemakeBatch(b)
  <2>1. PICK b \in Batches : CreateRemakeBatch(b) BY <1>2
  <2> QED BY <2>1, CreateDoes
<1>3. CASE Prepare
  <2>1. CASE UNCHANGED rev BY <2>1
  <2>2. CASE RevOnly(it) /\ rev'[it].state = "running" BY <2>2 DEF RevOnly
  <2> QED BY <1>3, <2>1, <2>2, PrepareDoes
<1>4. CASE MarkRevision BY <1>4, MarkRevisionDoes DEF RevOnly
<1>5. CASE Video BY <1>5, VideoDoes DEF RevOnly
<1>6. CASE ExposeRevision BY <1>6, ExposeDoes DEF RevOnly
<1>7. CASE Recovered
  <2>1. Again(y) BY <1>7, RecoveredDoes
  <2> QED BY <2>1 DEF Again
<1> QED BY <1>1, <1>2, <1>3, <1>4, <1>5, <1>6, <1>7, RevChanges

\* What stands of the item in hand at the steps that write its manifest.
LEMMA HeldManifest ==
  ASSUME Shape, Agree, w.pc \in {"prepare", "markrev", "bind"}
  PROVE  /\ rev[it].state # "succeeded" /\ w.pc \in ItemSteps /\ it \in Items /\ w.pc \in RunSteps
         /\ w.pc # "markrev" => item[it].state = "running"
<1>1. w.pc \in ItemSteps BY PcIs DEF VideoSteps
<1>2. it \in Items /\ w.pc \in RunSteps BY <1>1, HandIs
<1>3. item[it].state = IF w.pc = "markrev" THEN "failed" ELSE "running" BY <1>1, HeldStand DEF Agree
<1>4. rev[it].state = "succeeded" => item[it].state \in {"succeeded", "running"} BY <1>2 DEF Agree, RowsOK
<1>5. rev[it].state = "succeeded" /\ item[it].state = "running" => w.pc = "settle"
  BY <1>1, HeldStand DEF Agree
<1> QED BY <1>1, <1>2, <1>3, <1>4, <1>5

LEMMA ManifestSaysOn ==
  ASSUME Shape, Agree, ClipsOK, [Next]_vars, NEW y \in Items PROVE ManifestSays(y)'
<1>0. ManifestSays(y) /\ HandChecked BY DEF ClipsOK
<1>1. ASSUME rev'[y].state = "succeeded" PROVE disk'[y].manifest.status = "succeeded"
  <2>1. CASE ExposeRevision /\ y = it
    <3>1. disk'[it].manifest = [disk[it].manifest EXCEPT !.status = "succeeded"] BY <2>1, ExposeDoes
    <3>2. disk[y] \in Files BY DEF Shape, Typed
    <3> QED BY <2>1, <3>1, <3>2 DEF Files, Manifests
  <2>2. CASE rev[y].state = "succeeded" /\ ~(ExposeRevision /\ y = it)
    <3>1. (~Prepare /\ ~MarkRevision /\ ~Bind) \/ y # it
      BY <2>2, HeldManifest, PrepareDoes, MarkRevisionDoes, BindDoes
    <3>2. disk[y].manifest.status = "succeeded" BY <1>0, <2>2 DEF ManifestSays
    <3> QED BY <2>2, <3>1, <3>2, ManifestMoves
  <2> QED BY <1>1, <2>1, <2>2, RevSucceeds
<1>2. ASSUME disk'[y].manifest.status \in {"video_generated", "succeeded"}, Both(y)
      PROVE  env'.lost \/ (NoFrameDue(y)' /\ disk'[y].frame \in {0, disk'[y].manifest.frame})
  <2>1. CASE Bind /\ y = it /\ disk'[y].manifest = Bound
    <3>1. disk'[y].manifest.frame = disk[y].frame /\ disk'[y].frame = disk[y].frame /\ w.pc = "bind" /\ ~QueuePrompt
      BY <2>1, BindDoes, QueuePromptDoes DEF Bound
    <3>2. CASE env.lost BY <3>2, LostStays
    <3>3. CASE NoFrameDue(y) BY <3>1, <3>3, NoFrameStays
    <3> QED BY <1>0, <2>1, <3>1, <3>2, <3>3 DEF HandChecked
  <2>2. CASE Checked(y) /\ disk'[y].manifest.frame = disk[y].manifest.frame
    <3>1. CASE env.lost BY <3>1, LostStays
    <3>2. CASE NoFrameDue(y) /\ disk[y].frame \in {0, disk[y].manifest.frame}
      <4>1. QueuePrompt => y # it
        <5>1. QueuePrompt => w.pc \in PromptSteps BY QueuePromptDoes DEF PromptSteps
        <5> QED BY <1>0, <2>2, <5>1 DEF HandChecked
      <4>2. NoFrameDue(y)' BY <3>2, <4>1, NoFrameStays
      <4>3. disk'[y].frame \in {0, disk[y].frame}
        <5>1. ~\E p \in 1 .. Len(prompts) : First(p) /\ prompts[p].of = y /\ prompts[p].stage = "t2i"
          <6>1. DOMAIN prompts = 1 .. Len(prompts) BY DEF Shape, Typed
          <6> QED BY <3>2, <6>1 DEF NoFrameDue, First
        <5> QED BY <1>2, <5>1, FrameMoves
      <4> QED BY <2>2, <3>2, <4>2, <4>3
    <3> QED BY <1>0, <1>2, <2>2, <3>1, <3>2 DEF ManifestSays
  <2>3. CASE ExposeRevision /\ y = it
    <3>1. w.pc = "expose" /\ w.pc \in DeliverySteps /\ w.pc \in RunSteps /\ w.pc \in ItemSteps
      BY <2>3, ExposeDoes, PcIs DEF DeliverySteps
    <3>2. w.i \in w.gen /\ Bringing(w.i) BY <3>1 DEF Shape, Placed, Bringing, Held
    <3>3. GenSays(w.i) BY <3>1, <3>2 DEF ClipsOK
    <3>4. disk[it].manifest.status = "video_generated" BY <3>2, <3>3 DEF GenSays, it
    <3>5. disk[it] \in Files BY <2>3 DEF Shape, Typed
    <3>6. disk'[it].manifest.frame = disk[it].manifest.frame BY <2>3, <3>5, ExposeDoes DEF Files, Manifests
    <3> QED BY <2>2, <2>3, <3>4, <3>6 DEF Checked
  <2> QED BY <1>2, <2>1, <2>2, <2>3, ManifestMoves DEF Checked, Opened
<1> QED BY <1>1, <1>2 DEF ManifestSays, Checked

LEMMA QueueSaysOn ==
  ASSUME Shape, Agree, HoldOK, ClipsOK, [Next]_vars, NEW y \in Items PROVE QueueSays(y)'
<1> SUFFICES ASSUME item'[y].stage \in Routes, item'[y].prompt # 0, item'[y].state \notin Settled,
                    NEW q \in item'[y].prompt .. Len(prompts'),
                    prompts'[q].st = "queued", prompts'[q].of = y, prompts'[q].stage = "t2i"
             PROVE  env'.lost \/ (w'.pc = "own" /\ w'.p = q)
  BY DEF QueueSays, Live, Owning
<1>0. /\ DOMAIN prompts = 1 .. Len(prompts) /\ Len(prompts) \in Nat /\ Len(prompts') \in Nat
      /\ DOMAIN prompts' = 1 .. Len(prompts') /\ item'[y].prompt \in Nat
  <2>1. Shape' /\ Grows BY NextShapes, AlwaysGrows
  <2>2. item'[y] \in ItemRows BY <2>1 DEF Shape, Typed
  <2> QED BY <2>1, <2>2, SMTT(30) DEF Shape, Typed, Grows, ItemRows
<1>1. CASE q \notin DOMAIN prompts
  <2>1. q \in DOMAIN prompts' BY <1>0
  <2> QED BY <1>1, <2>1, NewPrompt
<1>2. CASE q \in DOMAIN prompts
  <2>1. prompts[q].st = "queued" /\ prompts[q].of = y /\ prompts[q].stage = "t2i" BY <1>2, LiveOnly
  <2>2. CASE OwnPrompt /\ y = it /\ item'[y].prompt = w.p /\ item'[y].stage = w.stage
    <3>1. w.pc = "own" /\ w.pc \in PromptSteps BY <2>2, OwnDoes DEF PromptSteps
    <3>2. w.p = Len(prompts) /\ w.p # 0 /\ Names(prompts, w.p, it, w.stage)
      BY <3>1 DEF HoldOK, Shape, Named
    <3>3. q = w.p BY <1>0, <1>2, <2>2, <3>2
    <3> QED BY <2>1, <2>2, <3>2, <3>3 DEF Names, Routes
  <2>3. CASE item'[y].prompt = item[y].prompt /\ item'[y].stage = item[y].stage
             /\ ~(OwnPrompt /\ y = it)
    <3>1. item[y].state \notin Settled BY SettledStands
    <3>2. q \in item[y].prompt .. Len(prompts) BY <1>0, <1>2, <2>3
    <3>3. env.lost \/ Owning(q) BY <2>1, <2>3, <3>1, <3>2 DEF ClipsOK, QueueSays, Live
    <3>4. CASE env.lost BY <3>4, LostStays
    <3>5. CASE w.pc = "own" /\ w.p = q
      <4>1. y = it
        <5>1. w.pc \in PromptSteps BY <3>5 DEF PromptSteps
        <5>2. w.p # 0 /\ Names(prompts, w.p, it, w.stage) BY <3>5, <5>1 DEF Shape, Named
        <5> QED BY <2>1, <3>5, <5>2 DEF Names
      <4> QED BY <2>3, <3>5, <4>1, FromOwn, CrashDoes
    <3> QED BY <3>3, <3>4, <3>5 DEF Owning
  <2>4. CASE OwnPrompt /\ y = it
    <3>1. item'[y].prompt = w.p /\ item'[y].stage = w.stage BY <2>4, OwnDoes
    <3> QED BY <2>2, <2>4, <3>1
  <2> QED BY <2>2, <2>3, <2>4, ItemMoves
<1> QED BY <1>1, <1>2

\* The worker does not go back from the deliveries.
LEMMA PhaseMoves ==
  ASSUME Shape, [Next]_vars, w.pc \in RunSteps, w'.pc \in RunSteps
  PROVE  w'.b = w.b /\ (w'.phase # "deliver" => w.phase # "deliver")
<1>1. CASE StartBatch BY <1>1, StartBatchDoes, IdleIs
<1>2. CASE NextItem BY <1>2, NextDoes
<1> QED BY <1>1, <1>2, WorkerMoves DEF Advances, Leaves, SameHand, SameRun

\* A prepared item: nothing of it has succeeded, and a checked clip has its frame.
LEMMA PrepSaysOn ==
  ASSUME Shape, Agree, FramesOK, ClipsOK, [Next]_vars, w'.pc \in RunSteps, NEW i \in w'.prep
  PROVE  PrepSays(i)'
<1> SUFFICES ASSUME w'.phase # "deliver"
             PROVE  /\ disk'[<<w'.b, i>>].manifest.status # "succeeded"
                    /\ disk'[<<w'.b, i>>].manifest.status = "video_generated" => disk'[<<w'.b, i>>].frame # 0
  BY DEF PrepSays, Checked
<1>1. CASE /\ w.pc \in RunSteps /\ w'.b = w.b /\ i \in w.prep /\ i \in 1 .. Size
  <2> DEFINE y == <<w.b, i>>
  <2>1. y \in Items /\ item[y].state # "none"
    <3>1. w.b \in Batches BY <1>1 DEF Shape, Placed
    <3>2. Stand(i) BY <1>1 DEF Agree, HandOK
    <3> QED BY <1>1, <3>1, <3>2, ItemsAre DEF Size, Stand, Row, Settled
  <2>2. w.phase # "deliver" BY <1>1, PhaseMoves
  <2>3. PrepSays(i) BY <1>1 DEF ClipsOK
  <2>4. disk[y].manifest.status # "succeeded" /\ (Checked(y) => disk[y].frame # 0)
    BY <2>2, <2>3 DEF PrepSays
  <2>5. y = it => i = w.i BY DEF it
  <2>6. <<w'.b, i>> = y BY <1>1
  <2>7. FrameSays(i) BY <1>1 DEF FramesOK, FrameSays
  <2>8. w.phase = "videos" /\ item[y].state # "failed" => disk[y].frame # 0 BY <2>7 DEF FrameSays, Row
  <2> HIDE DEF y
  <2>9. CASE disk'[y].manifest = disk[y].manifest
    <3>1. ~Damage BY <1>1, DamageDoes, IdleIs
    <3>2. 0 \notin 1 .. Len(prompts) OBVIOUS
    <3>3. disk[y].frame # 0 => disk'[y].frame # 0 BY <2>1, <3>1, <3>2, FrameMoves
    <3> QED BY <2>4, <2>6, <2>9, <3>3 DEF Checked
  <2>10. CASE Bind /\ y = it /\ disk'[y].manifest = Bound
    <3>1. w.pc = "bind" /\ disk'[it].frame = disk[it].frame BY <2>10, BindDoes
    <3>2. w.phase = "videos" /\ item[it].state = "running"
      BY <3>1, HeldManifest DEF Shape, Placed, VideoSteps
    <3> QED BY <2>6, <2>8, <2>10, <3>1, <3>2 DEF Bound
  <2>11. CASE ExposeRevision
    <3>1. w.phase = "deliver"
      <4>1. w.pc \in DeliverySteps BY <2>11, ExposeDoes DEF DeliverySteps
      <4> QED BY <4>1 DEF Shape, Placed
    <3> QED BY <2>2, <3>1
  <2>12. CASE disk'[y].manifest = Opened(UsedRoute) \/ disk'[y].manifest.status = "failed"
    BY <2>6, <2>12 DEF Opened
  <2> QED BY <2>1, <2>9, <2>10, <2>11, <2>12, ManifestMoves
<1>2. CASE Prepare /\ Prepared(UsedRoute) /\ w.pc \in ItemSteps /\ w'.b = w.b /\ i = w.i /\ UsedRoute \in Routes
  <2>1. w \in WorkerStates /\ w.i \in DOMAIN w.route /\ it \in Items
    <3>1. w.i \in 1 .. Size /\ w.pc \in RunSteps BY <1>2, HandIs
    <3> QED BY <1>2, <3>1, HandIs, SMTT(30) DEF Shape, Placed, Typed, WorkerStates
  <2>2. w'.pc = "next" BY <1>2, <2>1, SkipPrepDoes
  <2>3. \/ CheckpointValid(it, UsedRoute) /\ UNCHANGED disk
        \/ disk'[it].manifest = Opened(UsedRoute)
    BY <1>2, <2>2, PrepareDoes DEF Moves
  <2>4. <<w'.b, i>> = it BY <1>2 DEF it
  <2> QED BY <2>3, <2>4 DEF CheckpointValid, Opened
<1> QED BY <1>1, <1>2, PrepMoves

\* Where an item got its clip in this run of the batch.
LEMMA GenMoves ==
  ASSUME Shape, [Next]_vars, w'.pc \in RunSteps, NEW i \in w'.gen
  PROVE  \/ w.pc \in RunSteps /\ w'.b = w.b /\ i \in w.gen /\ i \in 1 .. Size
         \/ /\ (Video /\ Generated) \/ Bind
            /\ w.pc \in VideoSteps /\ w.pc \in ItemSteps /\ w'.b = w.b /\ i = w.i
<1>0. w \in WorkerStates BY DEF Shape, Typed
<1>a. \A pc \in ItemSteps : pc \in RunSteps BY PcIs
<1>b. w.pc \in RunSteps => w.gen \subseteq 1 .. Size BY DEF Shape, Placed
<1>1. CASE UNCHANGED w BY <1>1, <1>b
<1>2. CASE StartBatch BY <1>2, StartBatchDoes
<1>3. CASE NextItem BY <1>3, <1>b, NextDoes DEF SameSets, RunSteps
<1>4. CASE Advances BY <1>4, <1>a, <1>b DEF Advances, SameHand, SameRun, SameSets
<1>5. CASE Leaves
  <2>1. CASE w'.gen = w.gen BY <1>5, <1>a, <1>b, <2>1 DEF Leaves, SameRun
  <2>2. CASE w.pc \in VideoSteps /\ w'.gen = w.gen \cup {w.i}
    <3>1. (Video /\ Generated) \/ Bind
      <4>1. w.pc \in ItemSteps /\ w'.pc = "next" /\ w.pc \in {"video", "bind"}
        BY <1>5, <2>2 DEF Leaves, VideoSteps
      <4> QED BY <4>1, LeaveMoves, PrepareDoes, MarkRevisionDoes, FrameDoes, GotDoes, SettleDoes
    <3> QED BY <1>5, <1>a, <1>b, <2>2, <3>1 DEF Leaves, SameRun
  <2>3. CASE Prepare /\ Prepared(UsedRoute)
    <3>1. w.pc \in ItemSteps /\ w.pc \in RunSteps BY <1>5, <1>a DEF Leaves
    <3>2. UsedRoute \in Routes BY <3>1, RouteIs
    <3>3. w.i \in 1 .. Size /\ DOMAIN w.route = 1 .. Size BY <1>0, <3>1, HandIs DEF Shape, Placed, WorkerStates
    <3>4. w'.gen = w.gen BY <1>0, <2>3, <3>2, <3>3, SkipPrepDoes
    <3> QED BY <2>1, <3>4
  <2> QED BY <1>5, <2>1, <2>2, <2>3 DEF Leaves, SameSets
<1> QED BY <1>1, <1>2, <1>3, <1>4, <1>5, WorkerMoves

\* An item with a clip is being brought to its settlement until it is settled.
LEMMA BringsOn ==
  ASSUME Shape, Agree, [Next]_vars, w.pc \in RunSteps, w'.pc \in RunSteps, NEW i \in w.gen, i \in 1 .. Size,
         Bringing(i)'
  PROVE  /\ Bringing(i) /\ w.phase \in {"videos", "deliver"}
         /\ w.pc = "markrev" => i # w.i
<1>0. Stand(i) /\ w.phase \in Phases /\ i \in Nat /\ w.i \in Nat
  BY DEF Agree, HandOK, Shape, Placed, Typed, WorkerStates
<1>1. w.phase \in {"videos", "deliver"} BY <1>0 DEF Stand, Phases
<1>2. CASE w.phase = "videos"
  <2>1. w.pc = "markrev" => i # w.i
    <3>1. ~Held(i) BY <1>0, <1>2 DEF Stand
    <3>2. "markrev" \in ItemSteps BY PcIs
    <3> QED BY <3>1, <3>2 DEF Held
  <2> QED BY <1>2, <2>1 DEF Bringing
<1>3. CASE w.phase = "deliver"
  <2>1. w'.phase # "videos" BY <1>3, PhaseMoves
  <2>2. Ahead(i)' \/ (Held(i)' /\ w'.pc # "settle" /\ w'.pc \in DeliverySteps)
    BY <2>1 DEF Bringing
  <2>3. CASE UNCHANGED w
    <3>1. Ahead(i) \/ (Held(i) /\ w.pc # "settle" /\ w.pc \in DeliverySteps) BY <2>2, <2>3 DEF Ahead, Held
    <3>2. w.pc = "markrev" => i # w.i
      <4>1. "markrev" \notin DeliverySteps BY DEF DeliverySteps
      <4> QED BY <1>0, <3>1, <4>1 DEF Ahead
    <3> QED BY <1>1, <3>1, <3>2 DEF Bringing
  <2>4. CASE StartBatch BY <2>4, StartBatchDoes, IdleIs
  <2>5. CASE NextItem
    <3>1. /\ w.pc = "next" /\ Size \in Nat
          /\ \/ w'.pc \in ItemSteps /\ w'.i \in w.i .. Size
             \/ w'.pc = "verdict" /\ w'.i = w.i
      BY <1>3, <2>5, NextDoes
    <3>2. i >= w.i BY <1>0, <2>2, <3>1, NotNext DEF Ahead, Held
    <3>3. Ahead(i) BY <1>0, <3>1, <3>2 DEF Ahead
    <3> QED BY <1>1, <3>1, <3>3 DEF Bringing
  <2>6. CASE Advances
    <3>1. /\ w.pc \in ItemSteps /\ w'.pc \in ItemSteps /\ w'.i = w.i /\ w.pc # "next" /\ w'.pc # "next"
          /\ w'.pc \in DeliverySteps => w.pc \in DeliverySteps \ {"settle"}
      BY <2>6, NotNext DEF Advances, SameHand
    <3>2. Ahead(i) \/ (Held(i) /\ w.pc # "settle" /\ w.pc \in DeliverySteps)
      BY <2>2, <3>1 DEF Ahead, Held
    <3>3. w.pc = "markrev" => i # w.i
      <4>1. "markrev" \notin DeliverySteps BY DEF DeliverySteps
      <4> QED BY <1>0, <3>1, <3>2, <4>1 DEF Ahead
    <3> QED BY <1>1, <3>2, <3>3 DEF Bringing
  <2>7. CASE Leaves
    <3>1. w.pc \in ItemSteps /\ w'.pc = "next" /\ w'.i = w.i + 1 BY <2>7 DEF Leaves
    <3>2. i > w.i BY <1>0, <2>2, <3>1, NotNext DEF Ahead, Held
    <3>3. Ahead(i) BY <3>2 DEF Ahead
    <3>4. i # w.i BY <1>0, <3>2
    <3> QED BY <1>1, <3>3, <3>4 DEF Bringing
  <2> QED BY <2>3, <2>4, <2>5, <2>6, <2>7, WorkerMoves
<1> QED BY <1>1, <1>2, <1>3

LEMMA GenSaysOn ==
  ASSUME Shape, Agree, ClipsOK, [Next]_vars, w'.pc \in RunSteps, NEW i \in w'.gen
  PROVE  GenSays(i)'
<1> SUFFICES ASSUME Bringing(i)' PROVE disk'[<<w'.b, i>>].manifest.status = "video_generated"
  BY DEF GenSays
<1>1. CASE w.pc \in RunSteps /\ w'.b = w.b /\ i \in w.gen /\ i \in 1 .. Size
  <2> DEFINE y == <<w.b, i>>
  <2>1. y \in Items
    <3>1. w.b \in Batches BY <1>1 DEF Shape, Placed
    <3> QED BY <1>1, <3>1, ItemsAre DEF Size
  <2>2. Bringing(i) /\ w.phase \in {"videos", "deliver"} /\ (w.pc = "markrev" => i # w.i) BY <1>1, BringsOn
  <2>3. GenSays(i) BY <1>1 DEF ClipsOK
  <2>4. disk[y].manifest.status = "video_generated" BY <2>2, <2>3 DEF GenSays
  <2>5. y = it => i = w.i BY DEF it
  <2>6. <<w'.b, i>> = y BY <1>1
  <2> HIDE DEF y
  <2>7. CASE Prepare
    <3>1. w.phase = "prepare" BY <2>7, PrepareDoes DEF Shape, Placed
    <3> QED BY <2>2, <3>1
  <2>8. CASE MarkRevision /\ y = it BY <2>2, <2>5, <2>8, MarkRevisionDoes
  <2>9. CASE Bind /\ y = it /\ disk'[y].manifest = Bound BY <2>6, <2>9 DEF Bound
  <2>10. CASE ExposeRevision /\ y = it
    <3>1. /\ w.pc = "expose" /\ w'.pc = "settle" /\ w'.i = w.i /\ w'.phase = w.phase /\ w.i \in Nat
      BY <2>10, ExposeDoes DEF Moves, SameHand, SameRun, Shape, Typed, WorkerStates
    <3>2. w.phase = "deliver"
      <4>1. w.pc \in DeliverySteps BY <3>1 DEF DeliverySteps
      <4> QED BY <4>1 DEF Shape, Placed
    <3>3. ~Bringing(i)' BY <2>5, <2>10, <3>1, <3>2 DEF Bringing, Ahead
    <3> QED BY <3>3
  <2> QED BY <2>1, <2>4, <2>6, <2>7, <2>8, <2>9, <2>10, ManifestMoves
<1>2. CASE ((Video /\ Generated) \/ Bind) /\ w.pc \in ItemSteps /\ w'.b = w.b /\ i = w.i
  <2>1. <<w'.b, i>> = it BY <1>2 DEF it
  <2>2. CASE Video /\ Generated
    <3>1. w'.pc = "next" BY <2>2, SkipGenDoes DEF Shape, Typed
    <3> QED BY <2>1, <2>2, <3>1, VideoDoes DEF Asks
  <2>3. CASE Bind BY <2>1, <2>3, BindDoes DEF Bound
  <2> QED BY <1>2, <2>2, <2>3
<1> QED BY <1>1, <1>2, GenMoves

\* While a prompt of the item in hand is looked for, its manifest is not that of a checked clip.
LEMMA UncheckedStays ==
  ASSUME Shape, [Next]_vars, w'.pc \in PromptSteps \cup {"bind"}, NEW y \in Items, ~Checked(y)
  PROVE  disk'[y].manifest.status \notin {"video_generated", "succeeded"}
<1>1. ~Bind
  <2>1. "next" \notin PromptSteps \cup {"bind"} BY DEF PromptSteps
  <2> QED BY <2>1, BindDoes, SkipGenDoes DEF Shape, Typed
<1>2. ~ExposeRevision
  <2>1. "settle" \notin PromptSteps \cup {"bind"} BY DEF PromptSteps
  <2> QED BY <2>1, ExposeDoes DEF Moves
<1> QED BY <1>1, <1>2, ManifestMoves DEF Checked, Opened

LEMMA AskIsUnchecked ==
  ASSUME Shape, Agree, ClipsOK, [Next]_vars, w'.pc \in PromptSteps \cup {"bind"}
  PROVE  it' = it /\ it \in Items /\ ~Checked(it)
<1>0. w \in WorkerStates BY DEF Shape, Typed
<1>a. HandChecked BY DEF ClipsOK
<1>b. "bind" \in VideoSteps BY DEF VideoSteps
<1>c. "next" \notin PromptSteps \cup {"bind"} BY DEF PromptSteps
<1>1. CASE UNCHANGED w
  <2>1. w.pc \in ItemSteps BY <1>1, <1>b, PcIs
  <2> QED BY <1>1, <1>a, <2>1, HandIs DEF it, HandChecked
<1>2. ASSUME w.pc \in {"frame", "video"}, w.phase # "deliver", w.i \in w.prep
      PROVE  /\ it \in Items /\ disk[it].manifest.status # "succeeded"
             /\ Checked(it) => disk[it].frame # 0
  <2>1. w.pc \in ItemSteps BY <1>2, PcIs DEF VideoSteps
  <2>2. w.pc \in RunSteps /\ it \in Items BY <2>1, HandIs
  <2>3. PrepSays(w.i) BY <1>2, <2>2 DEF ClipsOK
  <2> QED BY <1>2, <2>2, <2>3 DEF PrepSays, it
<1>3. CASE Frame
  <2>1. ~Skipped BY <1>0, <1>c, SkipDoes
  <2>2. disk[it].frame = 0 /\ SameHand /\ w.pc = "frame" BY <1>3, <2>1, FrameDoes DEF Asks
  <2>3. w.phase = "frames" /\ w.i \in w.prep BY <2>2 DEF Shape, Placed
  <2> QED BY <1>2, <2>2, <2>3, SameIt
<1>4. CASE Video
  <2>1. ~Generated BY <1>0, <1>c, SkipGenDoes
  <2>2. disk[it].manifest.status # "video_generated" /\ SameHand /\ w.pc = "video"
    BY <1>4, <2>1, VideoDoes DEF Asks
  <2>3. w.phase = "videos" /\ w.i \in w.prep BY <2>2 DEF Shape, Placed, VideoSteps
  <2> QED BY <1>2, <2>2, <2>3, SameIt DEF Checked
<1>5. CASE ReadHistory \/ ReadQueue \/ QueuePrompt \/ OwnPrompt \/ WaitPrompt \/ (Got /\ Moves({"bind"}))
  <2>1. w.pc \in PromptSteps /\ SameHand
    BY <1>5, HistoryDoes, ReadQueueDoes, QueuePromptDoes, OwnDoes, WaitDoes, GotDoes DEF Moves, PromptSteps
  <2>2. w.pc \in ItemSteps BY <2>1, PcIs
  <2> QED BY <1>a, <2>1, <2>2, HandIs, SameIt DEF HandChecked
<1> QED BY <1>1, <1>3, <1>4, <1>5, AskMoves

\* A prompt that has ended was the last one before which others could still run.
LEMMA GotIsPast ==
  ASSUME Shape, OrderOK, w.pc \in {"history", "wait"}, w.p # 0, prompts[w.p].st = "done"
  PROVE  w.p \in 1 .. Len(prompts) /\ Past(w.p)
<1>1. w.pc \in PromptSteps \ {"post"} BY DEF PromptSteps
<1>2. w.p \in 1 .. Len(prompts) BY <1>1 DEF Shape, Named, Names
<1>3. w.p \in DOMAIN prompts BY <1>2 DEF Shape, Typed
<1> QED BY <1>2, <1>3 DEF OrderOK

\* No image prompt of the item is due when its video is fetched.
LEMMA GotIsLast ==
  ASSUME Shape, Agree, HoldOK, ClipsOK, w.pc \in {"history", "wait"}, w.p # 0, w.stage # "t2i", Past(w.p)
  PROVE  env.lost \/ NoFrameDue(it)
<1> SUFFICES ASSUME ~env.lost, NEW q \in DOMAIN prompts, Live(q), prompts[q].of = it, prompts[q].stage = "t2i"
             PROVE  FALSE
  BY DEF NoFrameDue
<1>1. w.pc \in PromptSteps /\ w.pc \in ItemSteps BY PcIs DEF PromptSteps
<1>2. it \in Items /\ item[it].state = "running" BY <1>1, HandIs, HeldStand DEF Agree
<1>3. item[it].prompt = w.p /\ item[it].stage = w.stage BY DEF HoldOK
<1>4. w.stage \in Routes
  <2>1. w.pc \in RunSteps /\ w.i \in w.prep /\ w.stage = w.route[w.i] BY <1>1, HandIs DEF Shape, Placed
  <2> QED BY <2>1 DEF Shape, Placed
<1>5. DOMAIN prompts = 1 .. Len(prompts) /\ w.p \in Nat /\ Len(prompts) \in Nat
  BY DEF Shape, Typed, WorkerStates
<1>6. q \in w.p .. Len(prompts)
  <2>1. ~(q \in 1 .. w.p) BY DEF Past
  <2> QED BY <1>5, <2>1
<1>7. Owning(q)
  <2>1. QueueSays(it) BY <1>2 DEF ClipsOK
  <2>2. item[it].state \notin Settled BY <1>2 DEF Settled
  <2> QED BY <1>3, <1>4, <1>6, <2>1, <2>2 DEF QueueSays
<1> QED BY <1>7 DEF Owning

LEMMA HandCheckedOn ==
  ASSUME Shape, Agree, HoldOK, OrderOK, ClipsOK, [Next]_vars PROVE HandChecked'
<1>a. HandChecked BY DEF ClipsOK
<1>0. w \in WorkerStates BY DEF Shape, Typed
<1>1. ASSUME w'.pc \in PromptSteps \cup {"bind"} PROVE ~Checked(it)'
  <2>1. it' = it /\ it \in Items /\ ~Checked(it) BY <1>1, AskIsUnchecked
  <2>2. disk'[it].manifest.status \notin {"video_generated", "succeeded"} BY <1>1, <2>1, UncheckedStays
  <2> QED BY <2>1, <2>2 DEF Checked
<1>2. ASSUME w'.pc = "got"
      PROVE  \/ /\ w.pc = "got" /\ UNCHANGED w /\ w.p \in 1 .. Len(prompts)
             \/ /\ w.pc \in {"history", "wait"} /\ w.p # 0 /\ prompts[w.p].st = "done"
                /\ w'.p = w.p /\ w'.stage = w.stage
  <2>0. w'.pc \in PromptSteps BY <1>2 DEF PromptSteps
  <2>1. CASE UNCHANGED w
    <3>1. w.pc = "got" /\ w.pc \in PromptSteps \ {"history", "post"} BY <1>2, <2>1 DEF PromptSteps
    <3> QED BY <2>1, <3>1 DEF Shape, Named, Names
  <2>2. CASE ReadHistory BY <1>2, <2>2, HistoryDoes DEF Moves, SamePrompt
  <2>3. CASE WaitPrompt
    <3>1. w.pc = "wait" /\ w.pc \in PromptSteps \ {"history", "post"} BY <2>3, WaitDoes DEF PromptSteps
    <3>2. w.p # 0 BY <3>1 DEF Shape, Named
    <3> QED BY <1>2, <2>3, <3>1, <3>2, WaitDoes DEF Moves, SamePrompt
  <2>4. CASE Frame \/ Video
    <3>1. ~Skipped /\ ~Generated BY <1>0, <1>2, SkipDoes, SkipGenDoes
    <3> QED BY <1>2, <2>4, <3>1, FrameDoes, VideoDoes DEF Asks
  <2>5. ~ReadQueue /\ ~QueuePrompt /\ ~OwnPrompt /\ ~Moves({"bind"})
    BY <1>2, ReadQueueDoes, QueuePromptDoes, OwnDoes DEF Moves
  <2> QED BY <2>0, <2>1, <2>2, <2>3, <2>4, <2>5, AskMoves
<1>3. ASSUME w'.pc = "got" PROVE Past(w.p) /\ w.p \in 1 .. Len(prompts) /\ w'.p = w.p
  BY <1>2, <1>3, <1>a, GotIsPast DEF HandChecked
<1>4. ASSUME w'.pc = "got" PROVE Past(w.p)'
  <2>1. Past(w.p) /\ w.p \in 1 .. Len(prompts) /\ w'.p = w.p BY <1>3, <1>4
  <2> DEFINE p == w.p
  <2>2. Past(p) /\ p \in 1 .. Len(prompts) /\ w'.p = p BY <2>1
  <2> HIDE DEF p
  <2>3. ASSUME NEW n \in 1 .. Len(prompts), Past(n) PROVE \A q \in 1 .. n : prompts'[q].st # "queued"
    BY <2>3, PastStays DEF Past, Live
  <2>4. \A q \in 1 .. w'.p : prompts'[q].st # "queued" BY <2>1, <2>3
  <2> QED BY <2>4 DEF Past, Live
<1>5. ASSUME w'.pc = "bind" \/ (w'.pc = "got" /\ w'.stage # "t2i") PROVE env'.lost \/ NoFrameDue(it)'
  <2>1. w'.pc \in PromptSteps \cup {"bind"} BY <1>5 DEF PromptSteps
  <2>2. it' = it /\ it \in Items BY <2>1, AskIsUnchecked
  <2>3. env.lost \/ NoFrameDue(it)
    <3>1. CASE w'.pc = "got"
      <4>1. CASE w.pc = "got" /\ UNCHANGED w BY <1>5, <1>a, <3>1, <4>1 DEF HandChecked
      <4>2. CASE w.pc \in {"history", "wait"} /\ w.p # 0 /\ w'.stage = w.stage
        <5>1. Past(w.p) BY <1>3, <3>1
        <5> QED BY <1>5, <3>1, <4>2, <5>1, GotIsLast
      <4> QED BY <1>2, <3>1, <4>1, <4>2
    <3>2. CASE w'.pc = "bind"
      <4>1. CASE UNCHANGED w BY <1>a, <3>2, <4>1 DEF HandChecked
      <4>2. CASE Got /\ Moves({"bind"})
        <5>1. ~Skipped BY <1>0, <3>2, SkipDoes
        <5>2. w.pc = "got" /\ w.stage # "t2i" BY <3>2, <4>2, <5>1, GotDoes DEF Moves
        <5> QED BY <1>a, <5>2 DEF HandChecked
      <4>3. CASE Frame \/ Video
        <5>1. ~Skipped /\ ~Generated BY <1>0, <3>2, SkipDoes, SkipGenDoes
        <5> QED BY <3>2, <4>3, <5>1, FrameDoes, VideoDoes DEF Asks
      <4>4. ~ReadHistory /\ ~ReadQueue /\ ~QueuePrompt /\ ~OwnPrompt /\ ~WaitPrompt
        BY <3>2, HistoryDoes, ReadQueueDoes, QueuePromptDoes, OwnDoes, WaitDoes DEF Moves
      <4> QED BY <2>1, <4>1, <4>2, <4>3, <4>4, AskMoves
    <3> QED BY <1>5, <3>1, <3>2
  <2>4. ~QueuePrompt BY <1>5, QueuePromptDoes DEF Moves
  <2>5. ASSUME NEW y \in Items, NoFrameDue(y)
        PROVE  \A p \in DOMAIN prompts' : ~(prompts'[p].st = "queued" /\ prompts'[p].of = y /\ prompts'[p].stage = "t2i")
    BY <2>4, <2>5, NoFrameStays DEF NoFrameDue, Live
  <2>6. CASE env.lost BY <2>6, LostStays
  <2>7. CASE NoFrameDue(it)
    <3>1. \A p \in DOMAIN prompts' : ~(prompts'[p].st = "queued" /\ prompts'[p].of = it' /\ prompts'[p].stage = "t2i")
      BY <2>2, <2>5, <2>7
    <3> QED BY <3>1 DEF NoFrameDue, Live
  <2> QED BY <2>3, <2>6, <2>7
<1> QED BY <1>1, <1>4, <1>5 DEF HandChecked

\* A manifest that vouches for a clip names the frame on disk, and no prompt is due that could
\* bring another one, unless the id of a prompt was lost.
THEOREM InClips == Spec => []ClipsOK
<1>1. Init => ClipsOK
  BY IdleIs DEF Init, ClipsOK, ManifestSays, QueueSays, HandChecked, Checked, NoManifest, Routes, PromptSteps
<1>2. ASSUME Shape, Agree, HoldOK, OrderOK, FramesOK, ClipsOK, [Next]_vars PROVE ClipsOK'
  <2>1. ASSUME NEW y \in Items PROVE ManifestSays(y)' /\ QueueSays(y)'
    BY <1>2, ManifestSaysOn, QueueSaysOn
  <2>2. ASSUME w'.pc \in RunSteps
        PROVE  (\A i \in w'.prep : PrepSays(i)') /\ \A i \in w'.gen : GenSays(i)'
    BY <1>2, <2>2, PrepSaysOn, GenSaysOn
  <2>3. HandChecked' BY <1>2, HandCheckedOn
  <2> QED BY <2>1, <2>2, <2>3 DEF ClipsOK
<1>3. Shape /\ Agree /\ HoldOK /\ OrderOK /\ FramesOK /\ ClipsOK /\ [Next]_vars => ClipsOK' BY <1>2
<1> QED BY <1>1, <1>3, InShape, InAgreement, InHold, InOrder, InFrames, PTL DEF Spec

\* A succeeded image remake was rendered from the frame it now has, over the checkpoints
\* _remake_video_checkpoint_is_valid takes up again.
THEOREM ClipsAreOfTheirFrames == Spec => []ClipOfItsFrame
<1>1. ASSUME Shape, ClipsOK, NEW y \in Items, rev[y].state = "succeeded", Both(y), disk[y].frame # 0
      PROVE  env.lost \/ disk[y].manifest.frame = disk[y].frame
  <2>1. ManifestSays(y) BY <1>1 DEF ClipsOK
  <2> QED BY <1>1, <2>1 DEF ManifestSays, Checked
<1>2. Shape /\ ClipsOK => ClipOfItsFrame BY <1>1 DEF ClipOfItsFrame
<1> QED BY <1>2, InShape, InClips, PTL

-----------------------------------------------------------------------------
(* Diffusion is not repeated *)

\* An item that is due for its frame is visited for it.
LEMMA VisitsOn ==
  ASSUME Shape, Agree, [Next]_vars, w.pc \in RunSteps, w'.pc \in RunSteps,
         NEW i \in w.prep, i \in 1 .. Size, Both(<<w.b, i>>),
         w.phase = "prepare" \/ (w.phase = "frames" /\ (Ahead(i) \/ Held(i)))
  PROVE  \/ w'.phase = "prepare" \/ (w'.phase = "frames" /\ (Ahead(i)' \/ Held(i)'))
         \/ w.phase = "frames" /\ i = w.i /\ w.pc \in ItemSteps /\ w'.pc = "next"
<1>1. CASE UNCHANGED w BY <1>1 DEF Ahead, Held
<1>2. CASE StartBatch BY <1>2, StartBatchDoes, IdleIs
<1>3. CASE NextItem
  <2>1. w.pc = "next" /\ w'.pc # "verdict" /\ w.i \in Nat /\ Size \in Nat
    BY <1>3, NextDoes, NotNext
  <2>2. CASE w.phase = "prepare"
    <3>1. w'.phase = "prepare" \/ (w'.phase = "frames" /\ w'.i = 1 /\ w'.pc = "next")
      BY <1>3, <2>2, NextDoes DEF NextPhase
    <3>2. w'.phase = "frames" /\ w'.i = 1 /\ w'.pc = "next" => Ahead(i)' BY <2>1 DEF Ahead
    <3> QED BY <3>1, <3>2
  <2>3. CASE w.phase = "frames"
    <3>1. i >= w.i BY <2>1, <2>3, NotNext DEF Ahead, Held
    <3>2. i \in w.i .. Size /\ Due(i) BY <2>1, <2>3, <3>1 DEF Due
    <3>3. /\ w'.phase = "frames" /\ w'.i \in w.i .. Size /\ w'.i <= i /\ w'.pc \in ItemSteps
      BY <1>3, <2>3, <3>2, NextDoes
    <3>4. Ahead(i)' \/ Held(i)' BY <2>1, <3>3 DEF Ahead, Held
    <3> QED BY <3>3, <3>4
  <2> QED BY <2>2, <2>3
<1>4. CASE Advances
  <2>1. /\ w'.phase = w.phase /\ w'.i = w.i /\ w.pc \in ItemSteps /\ w'.pc \in ItemSteps /\ w.pc # "next"
    BY <1>4, NotNext DEF Advances, SameHand, SameRun
  <2>2. Ahead(i) \/ Held(i) => Ahead(i)' \/ Held(i)' BY <2>1 DEF Ahead, Held
  <2> QED BY <2>1, <2>2
<1>5. CASE Leaves
  <2>1. w'.phase = w.phase /\ w'.i = w.i + 1 /\ w.pc \in ItemSteps /\ w'.pc = "next" /\ w.pc # "next"
    BY <1>5, NotNext DEF Leaves, SameRun
  <2>2. w.i \in Nat BY <2>1, HandIs
  <2>3. Ahead(i) => Ahead(i)' BY <2>1, <2>2 DEF Ahead
  <2>4. Held(i) => i = w.i BY DEF Held
  <2> QED BY <2>1, <2>3, <2>4
<1> QED BY <1>1, <1>2, <1>3, <1>4, <1>5, WorkerMoves

\* The row of an item that the worker leaves in its phase of the frames says no image prompt.
LEMMA LeftImage ==
  ASSUME Shape, Agree, HoldOK, [Next]_vars, w.phase = "frames", w.pc \in ItemSteps, w'.pc = "next"
  PROVE  item[it].state \in Settled \/ item'[it].stage # "t2i"
<1>0. w \in WorkerStates /\ w.pc \in RunSteps /\ w.i \in 1 .. Size /\ it \in Items BY HandIs
<1>2. CASE Prepare BY <1>0, <1>2, PrepareDoes DEF Shape, Placed
<1>3. CASE MarkRevision BY <1>0, <1>3, MarkRevisionDoes, HeldStand DEF Agree, Settled
<1>4. CASE Frame /\ Skipped
  <2>1. w.pc = "frame" BY <1>4, FrameDoes
  <2>2. ~Done(w.i) /\ Waiting(w.i) /\ Row(w.i) = item[it]
    <3>1. Held(w.i) /\ item[it].state = "running" /\ Row(w.i) = item[it] BY <2>1, HeldStand DEF Agree
    <3> QED BY <2>1, <3>1 DEF Waiting, EarlySteps, Done, Settled
  <2>3. Unmoved(w.i) BY <1>0, <2>2 DEF HoldOK
  <2>4. w.rows[w.i].stage = item[it].stage BY <2>2, <2>3 DEF Unmoved
  <2>5. ~SameHand \/ w'.pc # "history" BY <1>0
  <2> QED BY <1>0, <1>4, <2>4, FrameDoes DEF Asks, Freed
<1>5. CASE Got /\ Skipped
  <2>1. w.pc = "got" /\ w.pc \in PromptSteps BY <1>5, GotDoes DEF PromptSteps
  <2>2. w.stage = "t2i" BY <1>0, <2>1 DEF Shape, Placed
  <2> QED BY <1>5, <2>2, GotDoes DEF Freed
<1>6. CASE Video \/ Bind BY <1>0, <1>6, VideoDoes, BindDoes DEF Shape, Placed, VideoSteps
<1>7. CASE SettleItem BY <1>7, SettleDoes DEF Finished
<1> QED BY <1>2, <1>3, <1>4, <1>5, <1>6, <1>7, LeaveMoves

LEMMA ImageSaysOn ==
  ASSUME Shape, Agree, HoldOK, StagesOK, [Next]_vars, w'.pc \in RunSteps, NEW i \in w'.prep
  PROVE  ImageSays(i)'
<1> SUFFICES ASSUME item'[<<w'.b, i>>].stage = "t2i", item'[<<w'.b, i>>].state \notin Settled
             PROVE  w'.phase = "prepare" \/ (w'.phase = "frames" /\ (Ahead(i)' \/ Held(i)'))
  BY DEF ImageSays, Row, Done
<1>1. CASE /\ w.pc \in RunSteps /\ w'.b = w.b /\ i \in w.prep /\ i \in 1 .. Size
  <2> DEFINE y == <<w.b, i>>
  <2>1. y \in Items
    <3>1. w.b \in Batches BY <1>1 DEF Shape, Placed
    <3> QED BY <1>1, <3>1, ItemsAre DEF Size
  <2>2. item[y].state \notin Settled BY <1>1, <2>1, SettledStands
  <2>3. ImageSays(i) BY <1>1 DEF StagesOK
  <2>4. CASE item'[y].stage = item[y].stage
    <3>1. item[y].stage = "t2i" /\ Both(y) BY <1>1, <2>1, <2>4 DEF StagesOK
    <3>2. w.phase = "prepare" \/ (w.phase = "frames" /\ (Ahead(i) \/ Held(i)))
      BY <2>2, <2>3, <3>1 DEF ImageSays, Row, Done
    <3>3. \/ w'.phase = "prepare" \/ (w'.phase = "frames" /\ (Ahead(i)' \/ Held(i)'))
          \/ w.phase = "frames" /\ i = w.i /\ w.pc \in ItemSteps /\ w'.pc = "next"
      BY <1>1, <3>1, <3>2, VisitsOn
    <3>4. i = w.i => y = it BY DEF it
    <3>5. ~(w.phase = "frames" /\ i = w.i /\ w.pc \in ItemSteps /\ w'.pc = "next")
      BY <1>1, <2>2, <3>4, LeftImage
    <3> QED BY <3>3, <3>5
  <2>5. CASE OwnPrompt /\ y = it /\ item'[y].stage = w.stage
    <3>1. w.pc = "own" /\ w.pc \in PromptSteps /\ w.pc \in ItemSteps /\ Moves({"wait"})
      BY <2>5, OwnDoes, PcIs DEF PromptSteps
    <3>2. w.stage = "t2i" BY <1>1, <2>5
    <3>3. w.phase = "frames" BY <1>1, <3>1, <3>2, HandIs DEF Shape, Placed, Routes
    <3>4. w'.phase = "frames" /\ w'.i = w.i /\ w'.pc = "wait" BY <3>1, <3>3 DEF Moves, SameHand, SameRun
    <3>5. "wait" \in ItemSteps BY PcIs DEF PromptSteps
    <3>6. i = w.i BY <2>5 DEF it
    <3> QED BY <3>4, <3>5, <3>6 DEF Held
  <2>6. CASE item'[y].stage = "none" BY <1>1, <2>6
  <2> QED BY <2>1, <2>4, <2>5, <2>6, ItemMoves
<1>2. CASE Prepare /\ Prepared(UsedRoute) /\ w.pc \in ItemSteps /\ UsedRoute \in Routes
  <2>1. w \in WorkerStates /\ w.i \in DOMAIN w.route
    <3>1. w.i \in 1 .. Size /\ w.pc \in RunSteps BY <1>2, HandIs
    <3> QED BY <1>2, <3>1, HandIs DEF Shape, Placed, Typed, WorkerStates
  <2>2. w'.phase = w.phase BY <1>2, <2>1, SkipPrepDoes DEF SameRun
  <2>3. w.pc = "prepare" BY <1>2, PrepareDoes
  <2> QED BY <2>2, <2>3 DEF Shape, Placed
<1> QED BY <1>1, <1>2, PrepMoves

\* Only image remakes are ever in an image prompt, and not beyond the phase that visits them.
THEOREM InStages == Spec => []StagesOK
<1>1. Init => StagesOK BY IdleIs DEF Init, StagesOK
<1>2. ASSUME Shape, Agree, HoldOK, StagesOK, [Next]_vars PROVE StagesOK'
  <2>1. ASSUME NEW y \in Items, item'[y].stage = "t2i" PROVE Both(y)
    <3>1. CASE item'[y].stage = item[y].stage BY <1>2, <2>1, <3>1 DEF StagesOK
    <3>2. CASE OwnPrompt /\ y = it /\ item'[y].stage = w.stage
      <4>1. w.pc \in PromptSteps /\ w.pc \in ItemSteps BY <1>2, <3>2, OwnDoes, PcIs DEF PromptSteps
      <4> QED BY <1>2, <2>1, <3>2, <4>1, HandIs DEF Shape, Placed, Routes
    <3> QED BY <1>2, <2>1, <3>1, <3>2, ItemMoves
  <2>2. ASSUME w'.pc \in RunSteps, NEW i \in w'.prep PROVE ImageSays(i)' BY <1>2, <2>2, ImageSaysOn
  <2> QED BY <2>1, <2>2 DEF StagesOK, Both
<1>3. Shape /\ Agree /\ HoldOK /\ StagesOK /\ [Next]_vars => StagesOK' BY <1>2
<1> QED BY <1>1, <1>3, InShape, InAgreement, InHold, PTL DEF Spec

\* A prompt that finished unseen stays unseen.
LEMMA UnseenStays == ASSUME Shape, [Next]_vars, env.unseen PROVE env'.unseen
<1>0. env \in EnvRows BY DEF Shape, Typed, EnvRows
<1>1. CASE Http
  BY <1>1 DEF Http, CreateRemakeBatch, SubmitBatch, AbandonCurrent, CancelProjectPrompts,
     QueueRemakeBatch, QueueManualFinal, store
<1>2. CASE UNCHANGED env BY <1>2
<1>3. CASE Tick BY <1>0, <1>3, TickDoes DEF EnvRows
<1>4. CASE Prepare BY <1>0, <1>4, PrepareDoes DEF EnvRows
<1>5. CASE ReadQueue BY <1>0, <1>5, ReadQueueDoes DEF EnvRows
<1>6. CASE QueuePrompt BY <1>0, <1>6, QueuePromptDoes DEF EnvRows
<1>7. CASE HandleFatal BY <1>0, <1>7, FatalErrorDoes DEF EnvRows
<1>8. CASE RecoverBatches BY <1>0, <1>8 DEF RecoverBatches, EnvRows
<1>9. CASE Worker
  BY <1>2, <1>3, <1>4, <1>5, <1>6, <1>7, <1>8, <1>9 DEF Worker, StartFinal, Stitch, StartBatch, JobEnds,
     NextItem, MarkItem, MarkRevision, Frame, Video, ReadHistory, OwnPrompt, WaitPrompt, Got, Bind,
     Deliver, Send, Answer, ExposeRevision, SettleItem, EndBatch
<1>10. CASE RunPrompt BY <1>0, <1>10, RunPromptDoes DEF EnvRows
<1>11. CASE ComfyDies BY <1>0, <1>11, ComfyDiesDoes DEF EnvRows
<1>12. CASE Crash BY <1>12, CrashDoes
<1>13. CASE Boot BY <1>13, BootDoes
<1>14. CASE Damage BY <1>0, <1>14, DamageDoes DEF EnvRows
<1>15. CASE UNCHANGED vars BY <1>15 DEF vars
<1> QED BY <1>1, <1>9, <1>10, <1>11, <1>12, <1>13, <1>14, <1>15 DEF Next

\* Only a prompt that has ended is struck from its row.
LEMMA Forgets ==
  ASSUME Shape, Agree, HoldOK, HandChecked, [Next]_vars, NEW y \in Items, item[y].state # "none",
         FramePast(y), item'[y].state \notin Settled
  PROVE  \/ item'[y].prompt = item[y].prompt /\ item'[y].stage = item[y].stage
         \/ OwnPrompt /\ y = it /\ item'[y].prompt = w.p /\ item'[y].stage = w.stage
         \/ item'[y].stage = "none" /\ Past(item[y].prompt) /\ w.pc # "own"
<1>0. item[y].state \notin Settled BY SettledStands
<1>1. CASE UNCHANGED item BY <1>1
<1>2. CASE \E b \in Batches : CreateRemakeBatch(b)
  <2>1. PICK b \in Batches : CreateRemakeBatch(b) BY <1>2
  <2>2. y[1] # b BY <2>1, CreateDoes DEF Agree, RowsOK
  <2> QED BY <2>1, <2>2, CreateDoes
<1>3. CASE NextItem BY <1>3, NextDoes DEF ItemOnly
<1>4. CASE MarkItem BY <1>4, MarkItemDoes DEF ItemOnly
<1>5. CASE Frame
  <2>1. CASE UNCHANGED item BY <2>1
  <2>2. CASE Freed(it) /\ item[it].stage = "t2i" /\ disk[it].frame # 0
    <3>1. CASE y # it BY <2>2, <3>1 DEF Freed, ItemOnly
    <3>2. CASE y = it
      <4>1. Past(item[y].prompt) BY <1>0, <2>2, <3>2 DEF FramePast
      <4> QED BY <1>5, <2>2, <3>2, <4>1, FrameDoes DEF Freed
    <3> QED BY <3>1, <3>2
  <2> QED BY <1>5, <2>1, <2>2, FrameDoes
<1>6. CASE OwnPrompt BY <1>6, OwnDoes DEF ItemOnly
<1>7. CASE Got
  <2>1. w.pc = "got" /\ (UNCHANGED item \/ Freed(it)) BY <1>7, GotDoes
  <2>2. w.p # 0
    <3>1. w.pc \in PromptSteps BY <2>1 DEF PromptSteps
    <3> QED BY <2>1, <3>1 DEF Shape, Named
  <2>3. item[it].prompt = w.p /\ Past(w.p) BY <2>1, <2>2 DEF HoldOK, HandChecked
  <2>4. CASE Freed(it) /\ y = it BY <2>1, <2>3, <2>4 DEF Freed
  <2>5. CASE UNCHANGED item \/ (Freed(it) /\ y # it) BY <2>5 DEF Freed, ItemOnly
  <2> QED BY <2>1, <2>4, <2>5
<1>8. CASE SettleItem BY <1>8, SettleDoes DEF Finished, ItemOnly, Settled
<1>9. CASE Recovered
  <2>1. Again(y) BY <1>9, RecoveredDoes
  <2> QED BY <2>1 DEF Again, Finished, Settled
<1> QED BY <1>1, <1>2, <1>3, <1>4, <1>5, <1>6, <1>7, <1>8, <1>9, ItemChanges

\* What the row of the item in hand may say while the worker looks for its video.
LEMMA VideoRow ==
  ASSUME Shape, Agree, RoutesOK, StagesOK, w.phase = "videos", w.pc \in ItemSteps, w.i \in w.prep,
         w.pc # "markrev"
  PROVE  item[it].stage # "t2i" /\ (item[it].stage \in Routes => item[it].stage = w.route[w.i])
<1>1. w.pc \in RunSteps /\ Row(w.i) = item[it] /\ item[it].state = "running" BY HandIs, HeldStand DEF Agree
<1>2. ImageSays(w.i) /\ RouteSays(w.i) BY <1>1 DEF StagesOK, RoutesOK, RouteSays
<1> QED BY <1>1, <1>2 DEF ImageSays, RouteSays, Done, Settled

\* A prompt that its row or the worker knows.
KnowsOf(q, y, sent, rows, hand) ==
  \/ rows[y].prompt = q \/ hand
  \/ sent[q].stage # "t2i" /\ rows[y].stage = "t2i" /\ q < rows[y].prompt

LEMMA KnownSaysOn ==
  ASSUME Shape, Agree, HoldOK, RoutesOK, HandChecked, StagesOK, [Next]_vars, ~env'.lost,
         \A p \in DOMAIN prompts : KnownSays(p), \A y \in Items : FramePast(y), NoTwin,
         NEW q \in DOMAIN prompts'
  PROVE  KnownSays(q)'
<1> SUFFICES ASSUME prompts'[q].st = "queued", item'[prompts'[q].of].state \notin Settled
             PROVE  KnowsOf(q, prompts'[q].of, prompts', item', w'.pc = "own" /\ w'.p = q)
  BY DEF KnownSays, Live, Owning, KnowsOf
<1>1. CASE q \notin DOMAIN prompts BY <1>1, NewPrompt DEF KnowsOf
<1>2. CASE q \in DOMAIN prompts
  <2> DEFINE y == prompts[q].of
  <2>1. /\ y \in Items /\ item[y].state # "none" /\ prompts'[q].of = y /\ prompts[q].st = "queued"
        /\ prompts'[q].stage = prompts[q].stage /\ prompts[q].stage \in Stages
        /\ q \in 1 .. Len(prompts) /\ Len(prompts) \in Nat
    <3>1. prompts[q] \in PromptRows /\ DOMAIN prompts = 1 .. Len(prompts) /\ Len(prompts) \in Nat
      BY <1>2 DEF Shape, Typed
    <3>2. item[y].state # "none" BY <1>2 DEF RoutesOK
    <3> QED BY <1>2, <3>1, <3>2, LiveOnly DEF PromptRows
  <2>2. KnowsOf(q, y, prompts, item, Owning(q))
    <3>1. item[y].state \notin Settled BY <2>1, SettledStands
    <3> QED BY <1>2, <2>1, <3>1 DEF KnownSays, KnowsOf, Live
  <2> HIDE DEF y
  <2>3. Owning(q) => y = it /\ w.pc = "own"
    <3>1. w.pc = "own" => w.pc \in PromptSteps \ {"post"} BY DEF PromptSteps
    <3> QED BY <2>1, <3>1 DEF Owning, Shape, Named, Names, y
  <2>4. CASE OwnPrompt /\ y = it /\ item'[y].prompt = w.p /\ item'[y].stage = w.stage
    <3>1. w.pc = "own" /\ w.p = Len(prompts) /\ w.pc \in PromptSteps /\ w.pc \in ItemSteps /\ w.pc \in RunSteps
          /\ w.pc # "markrev"
      BY <2>4, OwnDoes, PcIs DEF HoldOK, PromptSteps
    <3>2. CASE q = w.p BY <2>1, <2>4, <3>2 DEF KnowsOf
    <3>3. CASE q # w.p
      <4>1. q < w.p /\ ~Owning(q) BY <2>1, <3>1, <3>3 DEF Owning
      <4>2. prompts[q].stage # w.stage
        <5>1. ~Twin(q) BY <1>2, <3>1 DEF NoTwin
        <5> QED BY <2>1, <2>4, <4>1, <5>1 DEF Twin, Live, y
      <4>3. CASE w.stage = "t2i" BY <2>1, <2>4, <4>1, <4>2, <4>3 DEF KnowsOf
      <4>4. CASE w.stage # "t2i"
        <5>1. w.phase = "videos" /\ w.stage = w.route[w.i] /\ w.i \in w.prep
          BY <3>1, <4>4 DEF Shape, Placed
        <5>2. item[it].stage # "t2i" /\ (item[it].stage \in Routes => item[it].stage = w.stage)
          BY <3>1, <5>1, VideoRow
        <5>3. item[it].prompt = q BY <2>2, <2>4, <4>1, <5>2 DEF KnowsOf
        <5>4. q # 0 /\ prompts[q].stage = item[it].stage
          BY <2>1, <2>4, <5>3 DEF Shape, Named, Names
        <5> QED BY <2>1, <4>2, <5>2, <5>4 DEF Stages
      <4> QED BY <4>3, <4>4
    <3> QED BY <3>2, <3>3
  <2>5. CASE /\ item'[y].prompt = item[y].prompt /\ item'[y].stage = item[y].stage
             /\ ~(OwnPrompt /\ y = it)
    <3>1. CASE Owning(q)
      <4>1. w.pc = "own" /\ y = it BY <2>3, <3>1
      <4>2. UNCHANGED w BY <2>5, <4>1, FromOwn, CrashDoes
      <4> QED BY <2>1, <3>1, <4>2 DEF Owning, KnowsOf
    <3> QED BY <2>1, <2>2, <2>5, <3>1 DEF KnowsOf
  <2>6. CASE Past(item[y].prompt) /\ w.pc # "own"
    <3>1. item[y].prompt \in Nat BY <2>1 DEF Shape, Typed, ItemRows
    <3>2. ~Owning(q) BY <2>6 DEF Owning
    <3>3. q <= item[y].prompt BY <2>1, <2>2, <3>1, <3>2 DEF KnowsOf
    <3>4. q \in 1 .. item[y].prompt BY <2>1, <3>1, <3>3
    <3> QED BY <2>1, <2>6, <3>4 DEF Past, Live
  <2>7. OwnPrompt /\ y = it => item'[y].prompt = w.p /\ item'[y].stage = w.stage BY OwnDoes
  <2> QED BY <2>1, <2>4, <2>5, <2>6, <2>7, Forgets
<1> QED BY <1>1, <1>2

\* A frame that appears was rendered by the first prompt in the queue.
LEMMA FrameComes ==
  ASSUME Shape, Agree, [Next]_vars, NEW y \in Items, item[y].state # "none",
         disk[y].frame = 0, disk'[y].frame # 0
  PROVE  \E p \in 1 .. Len(prompts) :
           /\ RunPrompt /\ UNCHANGED <<item, w, comfy>>
           /\ Live(p) /\ prompts[p].of = y /\ prompts[p].stage = "t2i" /\ prompts'[p].st = "done"
           /\ \A q \in 1 .. p : prompts'[q].st # "queued"
<1>1. PICK p \in 1 .. Len(prompts) :
        /\ RunPrompt /\ First(p) /\ prompts[p].of = y /\ prompts[p].stage = "t2i"
        /\ prompts'[p].st = "done"
  BY FrameMoves
<1>2. UNCHANGED <<item, w, comfy>> BY <1>1, RunPromptDoes DEF store
<1>3. DOMAIN prompts = 1 .. Len(prompts) /\ Len(prompts) \in Nat BY DEF Shape, Typed
<1>4. ASSUME NEW q \in 1 .. p PROVE prompts'[q].st # "queued"
  <2>1. q \in DOMAIN prompts BY <1>3
  <2>2. CASE q = p BY <1>1, <2>2
  <2>3. CASE q # p
    <3>1. q \in 1 .. p - 1 BY <2>3
    <3> QED BY <1>1, <2>1, <3>1, LiveOnly DEF First, Live
  <2> QED BY <2>2, <2>3
<1> QED BY <1>1, <1>2, <1>4 DEF First

LEMMA FramePastOn ==
  ASSUME Shape, Agree, HoldOK, RoutesOK, [Next]_vars,
         \A p \in DOMAIN prompts : KnownSays(p), \A y \in Items : FramePast(y), HandFrame,
         NEW y \in Items
  PROVE  FramePast(y)'
<1> SUFFICES ASSUME item'[y].state \notin Settled, item'[y].stage = "t2i", disk'[y].frame # 0,
                    NEW q \in 1 .. item'[y].prompt, prompts'[q].st = "queued"
             PROVE  FALSE
  BY DEF FramePast, Past, Live
<1>0. item[y].state \notin Settled BY SettledStands
<1>1. DOMAIN prompts = 1 .. Len(prompts) /\ Len(prompts) \in Nat BY DEF Shape, Typed
<1>2. CASE item'[y].prompt = item[y].prompt /\ item'[y].stage = item[y].stage
  <2>1. /\ item[y].prompt \in 1 .. Len(prompts) /\ q \in DOMAIN prompts /\ Live(q)
        /\ prompts[item[y].prompt].of = y
    <3>1. item[y].prompt \in Nat BY DEF Shape, Typed, ItemRows
    <3>2. item[y].prompt # 0 BY <1>2, <3>1
    <3>3. item[y].prompt \in 1 .. Len(prompts) /\ prompts[item[y].prompt].of = y
      BY <3>2 DEF Shape, Named, Names
    <3>4. q \in DOMAIN prompts BY <1>1, <1>2, <3>1, <3>3
    <3> QED BY <3>3, <3>4, LiveOnly DEF Live
  <2>2. item[y].state # "none" BY <1>1, <2>1 DEF RoutesOK
  <2>3. disk[y].frame = 0 BY <1>0, <1>2, <2>1 DEF FramePast, Past
  <2>4. PICK p \in 1 .. Len(prompts) :
          /\ Live(p) /\ prompts[p].of = y /\ prompts[p].stage = "t2i"
          /\ \A r \in 1 .. p : prompts'[r].st # "queued"
    BY <2>2, <2>3, FrameComes
  <2>5. item[y].prompt = p \/ Owning(p) BY <1>0, <1>1, <2>4 DEF KnownSays
  <2>6. Owning(p) => p = Len(prompts) BY DEF Owning, HoldOK
  <2>7. item[y].prompt <= p BY <1>1, <2>1, <2>5, <2>6
  <2>8. q \in 1 .. p BY <1>1, <1>2, <2>1, <2>7
  <2> QED BY <2>4, <2>8
<1>3. CASE OwnPrompt /\ y = it /\ item'[y].prompt = w.p /\ item'[y].stage = w.stage
  <2>1. w.pc = "own" /\ UNCHANGED <<disk, prompts>> BY <1>3, OwnDoes
  <2>2. Past(w.p) BY <1>3, <2>1 DEF HandFrame
  <2> QED BY <1>3, <2>1, <2>2 DEF Past, Live
<1> QED BY <1>2, <1>3, ItemMoves

LEMMA ComfyChanges ==
  ASSUME Shape, [Next]_vars PROVE UNCHANGED comfy \/ ~comfy' \/ w.pc \in {"down", "fatal"}
<1>1. CASE Http
  BY <1>1 DEF Http, CreateRemakeBatch, SubmitBatch, AbandonCurrent, CancelProjectPrompts,
     QueueRemakeBatch, QueueManualFinal, store
<1>2. CASE HandleFatal BY <1>2, FatalErrorDoes
<1>3. CASE Worker
  BY <1>2, <1>3 DEF Worker, StartFinal, Stitch, StartBatch, Tick, JobEnds, NextItem, Prepare, MarkItem,
     MarkRevision, Frame, Video, ReadHistory, ReadQueue, QueuePrompt, OwnPrompt, WaitPrompt, Got, Bind,
     Deliver, Send, Answer, ExposeRevision, SettleItem, EndBatch, RecoverBatches, store
<1>4. CASE Boot BY <1>4, BootDoes
<1>5. CASE RunPrompt \/ ComfyDies \/ Crash \/ Damage \/ UNCHANGED vars
  BY <1>5 DEF RunPrompt, ComfyDies, Crash, Damage, store, vars
<1> QED BY <1>1, <1>3, <1>4, <1>5 DEF Next

\* A prompt that has ended stays so, until ComfyUI dies with its history.
LEMMA EndedStays ==
  ASSUME Shape, [Next]_vars, w.pc \in {"history", "queue"}, NEW p \in 1 .. Len(prompts),
         prompts[p].st = "done" \/ (prompts[p].st = "gone" /\ ~comfy)
  PROVE  prompts'[p].st = "done" \/ (prompts'[p].st = "gone" /\ ~comfy')
<1>0. UNCHANGED comfy \/ ~comfy' BY ComfyChanges
<1>1. CASE UNCHANGED prompts
  <2>1. prompts'[p].st = "done" \/ (prompts'[p].st = "gone" /\ ~comfy') BY <1>0, <1>1
  <2> QED BY <2>1
<1>2. CASE CancelProjectPrompts /\ prompts' = Cancelled
  <2>1. ~Live(p) /\ ~First(p) /\ p \in DOMAIN prompts BY DEF Live, First, Shape, Typed
  <2>2. prompts'[p] = prompts[p] BY <1>2, <2>1 DEF Cancelled
  <2> QED BY <1>0, <2>2
<1>3. CASE RunPrompt BY <1>0, <1>3, RunPromptDoes DEF First, Live
<1>4. CASE ComfyDies BY <1>4, ComfyDiesDoes
<1>5. ~QueuePrompt BY QueuePromptDoes
<1> QED BY <1>1, <1>2, <1>3, <1>4, <1>5, PromptChanges DEF CancelProjectPrompts

LEMMA HandFrameOn ==
  ASSUME Shape, Agree, HoldOK, [Next]_vars, ~env'.unseen,
         \A p \in DOMAIN prompts : KnownSays(p), HandFrame, NoTwin
  PROVE  HandFrame'
<1> SUFFICES ASSUME w'.stage = "t2i", disk'[it'].frame # 0, w'.pc \in {"post", "history", "queue", "own"}
             PROVE  /\ w'.pc # "post"
                    /\ w'.pc \in {"history", "queue"} =>
                         w'.p # 0 /\ (prompts'[w'.p].st = "done" \/ (prompts'[w'.p].st = "gone" /\ ~comfy'))
                    /\ w'.pc = "own" => \A q \in 1 .. w'.p : prompts'[q].st # "queued"
  BY DEF HandFrame, HasEnded, Past, Live
<1>0. w \in WorkerStates /\ DOMAIN prompts = 1 .. Len(prompts) /\ Len(prompts) \in Nat BY DEF Shape, Typed
<1>1. CASE UNCHANGED w
  <2>1. /\ w.pc \in PromptSteps /\ w.pc \in ItemSteps /\ it' = it /\ it \in Items
        /\ item[it].state = "running"
    <3>1. w.pc \in PromptSteps /\ w.pc \in ItemSteps BY <1>1, PcIs DEF PromptSteps
    <3> QED BY <1>1, <3>1, HandIs, HeldStand DEF it, Agree
  <2>2. /\ w.pc # "post" => Names(prompts, w.p, it, w.stage)
        /\ w.pc \in {"queue", "own"} => w.p # 0
    <3>1. w.pc # "post" => w.pc \in PromptSteps \ {"post"} BY <2>1
    <3>2. w.pc \in {"queue", "own"} => w.pc \in PromptSteps \ {"history", "post"} BY <2>1
    <3> QED BY <3>1, <3>2 DEF Shape, Named
  <2>3. CASE disk[it].frame # 0
    <3>1. /\ w.pc # "post" /\ (w.pc \in {"history", "queue"} => HasEnded) /\ (w.pc = "own" => Past(w.p))
      BY <1>1, <2>3 DEF HandFrame
    <3>2. CASE w.pc \in {"history", "queue"}
      <4>1. w.p \in 1 .. Len(prompts) BY <2>2, <3>1, <3>2 DEF HasEnded, Names
      <4>2. prompts[w.p].st = "done" \/ (prompts[w.p].st = "gone" /\ ~comfy) BY <3>1, <3>2 DEF HasEnded
      <4> QED BY <1>1, <3>1, <3>2, <4>1, <4>2, EndedStays
    <3>3. CASE w.pc = "own"
      <4>1. w.p \in 1 .. Len(prompts) /\ Past(w.p) BY <2>2, <3>1, <3>3 DEF Names
      <4>2. ASSUME NEW q \in 1 .. w.p PROVE prompts'[q].st # "queued"
        <5>1. q \in DOMAIN prompts BY <1>0, <4>1
        <5> QED BY <4>1, <5>1, LiveOnly DEF Past, Live
      <4> QED BY <1>1, <3>3, <4>2
    <3> QED BY <1>1, <3>1, <3>2, <3>3
  <2>4. CASE disk[it].frame = 0
    <3>1. PICK p \in 1 .. Len(prompts) :
            /\ Live(p) /\ prompts[p].of = it /\ prompts[p].stage = "t2i" /\ prompts'[p].st = "done"
            /\ \A q \in 1 .. p : prompts'[q].st # "queued"
      BY <2>1, <2>4, FrameComes
    <3>2. KnownSays(p) /\ (Twin(p) \/ Owning(p)) BY <1>0, <1>1, <3>1 DEF Twin
    <3>3. w.pc = "own" => p = w.p BY <1>0, <3>2 DEF NoTwin, Owning
    <3>4. w.pc # "post" BY <1>0, <3>2 DEF NoTwin, Owning
    <3>5. CASE w.pc \in {"history", "queue"}
      <4>1. ~Owning(p) BY <3>5 DEF Owning
      <4>2. w.p # 0 BY <1>0, <2>2, <3>2, <3>5, <4>1 DEF NoTwin
      <4>3. item[it].prompt = w.p BY <3>5, <4>2 DEF HoldOK
      <4>4. item[it].prompt = p BY <2>1, <3>1, <3>2, <4>1 DEF KnownSays, Settled
      <4> QED BY <1>1, <3>1, <3>4, <3>5, <4>2, <4>3, <4>4
    <3> QED BY <1>1, <3>1, <3>3, <3>4, <3>5
  <2> QED BY <2>3, <2>4
<1>2. CASE Frame
  <2>1. ~Skipped BY <1>0, SkipDoes
  <2>2. disk[it].frame = 0 /\ UNCHANGED disk /\ it' = it BY <1>2, <2>1, FrameDoes, SameIt DEF Asks
  <2> QED BY <2>2
<1>3. CASE Video
  <2>1. ~Generated BY <1>0, SkipGenDoes
  <2> QED BY <1>3, <2>1, VideoDoes DEF Asks, Routes
<1>4. CASE ReadHistory
  <2>1. it' = it /\ w'.stage = w.stage /\ w'.p = w.p /\ UNCHANGED <<disk, prompts, comfy>> /\ w.pc = "history"
    BY <1>4, HistoryDoes, SameIt DEF Moves, SamePrompt
  <2>2. HasEnded BY <2>1 DEF HandFrame
  <2>3. w'.pc # "post" /\ w'.pc # "own" BY <1>4, <2>2, HistoryDoes DEF HasEnded, Moves
  <2> QED BY <2>1, <2>2, <2>3 DEF HasEnded
<1>5. CASE ReadQueue
  <2>1. it' = it /\ w'.stage = w.stage /\ UNCHANGED disk /\ w.pc = "queue" /\ w'.pc = "post"
    BY <1>5, ReadQueueDoes, SameIt DEF Moves, SamePrompt
  <2>2. HasEnded BY <2>1 DEF HandFrame
  <2>3. comfy BY <1>5, <2>1 DEF ReadQueue, Transport, Go, Shape, Typed, WorkerStates
  <2>4. prompts[w.p].st = "done" BY <2>2, <2>3 DEF HasEnded
  <2>5. env \in EnvRows BY DEF Shape, Typed, EnvRows
  <2>6. env'.unseen BY <1>5, <2>1, <2>4, <2>5, ReadQueueDoes DEF EnvRows
  <2> QED BY <2>6
<1>6. CASE QueuePrompt
  <2>1. it' = it /\ w'.stage = w.stage /\ UNCHANGED disk /\ w.pc = "post"
    BY <1>6, QueuePromptDoes, SameIt DEF Moves, SamePrompt
  <2> QED BY <2>1 DEF HandFrame
<1>7. ~OwnPrompt /\ ~WaitPrompt /\ ~Moves({"bind"}) BY OwnDoes, WaitDoes DEF Moves
<1>8. w'.pc \in PromptSteps BY DEF PromptSteps
<1> QED BY <1>1, <1>2, <1>3, <1>4, <1>5, <1>6, <1>7, <1>8, AskMoves

LEMMA NoTwinOn ==
  ASSUME Shape, Agree, HoldOK, StagesOK, [Next]_vars, ~env'.lost,
         \A p \in DOMAIN prompts : KnownSays(p), NoTwin
  PROVE  NoTwin'
<1> SUFFICES ASSUME w'.pc \in {"post", "own"} \/ (w'.pc = "history" /\ w'.p = 0),
                    NEW q \in DOMAIN prompts', prompts'[q].st = "queued", prompts'[q].of = it',
                    prompts'[q].stage = w'.stage, ~(w'.pc = "own" /\ w'.p = q)
             PROVE  FALSE
  BY DEF NoTwin, Twin, Live, Owning
<1>0. w \in WorkerStates BY DEF Shape, Typed
<1>1. q \in DOMAIN prompts BY NewPrompt
<1>2. /\ Live(q) /\ prompts[q].of = it' /\ prompts[q].stage = w'.stage
      /\ q # 0 /\ prompts[q].stage \in Stages
  <2>1. prompts[q] \in PromptRows /\ q # 0 BY <1>1 DEF Shape, Typed
  <2> QED BY <1>1, <2>1, LiveOnly DEF Live, PromptRows
<1>3. CASE UNCHANGED w
  <2>1. it' = it BY <1>3 DEF it
  <2>2. Twin(q) BY <1>2, <1>3, <2>1 DEF Twin, Owning
  <2> QED BY <1>1, <1>3, <2>2 DEF NoTwin
\* what the rows say of a prompt that is due of an item the worker takes up
<1>4. ASSUME w.pc \in {"frame", "video", "queue"}, it' = it
      PROVE  /\ it \in Items /\ item[it].state = "running" /\ Row(w.i) = item[it] /\ w.i \in w.prep
             /\ item[it].prompt # 0 => prompts[item[it].prompt].stage = item[it].stage
             /\ \/ item[it].prompt = q
                \/ prompts[q].stage # "t2i" /\ item[it].stage = "t2i"
  <2>1. w.pc \in ItemSteps /\ w.pc # "markrev" BY <1>4, PcIs DEF VideoSteps, PromptSteps
  <2>2. it \in Items /\ item[it].state = "running" /\ Row(w.i) = item[it] BY <2>1, HandIs, HeldStand DEF Agree
  <2>3. w.i \in w.prep BY <1>4, <2>1, HandIs DEF Shape, Placed, VideoSteps, PromptSteps
  <2>4. item[it].prompt # 0 => prompts[item[it].prompt].stage = item[it].stage
    BY <2>2 DEF Shape, Named, Names
  <2>5. KnownSays(q) /\ ~Owning(q) BY <1>1, <1>4 DEF Owning
  <2> QED BY <1>2, <1>4, <2>2, <2>3, <2>4, <2>5 DEF KnownSays, Settled
<1>5. CASE Frame
  <2>1. ~Skipped BY <1>0, SkipDoes
  <2>2. /\ it' = it /\ w'.stage = "t2i" /\ w.pc = "frame" /\ w'.pc = "history"
        /\ w'.p = IF w.rows[w.i].stage = "t2i" THEN w.rows[w.i].prompt ELSE 0
    BY <1>5, <2>1, FrameDoes, SameIt DEF Asks
  <2>3. item[it].prompt = q /\ item[it].stage = "t2i" BY <1>2, <1>4, <2>2
  <2>4. Unmoved(w.i) /\ Row(w.i) = item[it]
    <3>1. w.pc \in ItemSteps /\ w.phase = "frames" /\ w.pc \in RunSteps /\ w.i \in 1 .. Size
      BY <2>2, PcIs, HandIs DEF Shape, Placed
    <3>2. Held(w.i) BY <3>1, HeldStand DEF Agree
    <3>3. Waiting(w.i) /\ ~Done(w.i) BY <1>4, <2>2, <3>1, <3>2 DEF Waiting, EarlySteps, Done, Settled
    <3> QED BY <1>4, <2>2, <3>1, <3>3 DEF HoldOK
  <2>5. w'.p = q BY <2>2, <2>3, <2>4 DEF Unmoved
  <2> QED BY <1>2, <2>2, <2>5
<1>6. CASE Video
  <2>1. ~Generated BY <1>0, SkipGenDoes
  <2>2. /\ it' = it /\ w'.stage = w.route[w.i] /\ w.pc = "video" /\ w'.pc = "history" /\ w'.p = Claim
        /\ w.route[w.i] \in Routes
    BY <1>6, <2>1, VideoDoes, SameIt DEF Asks
  <2>3. w.phase = "videos" /\ w.pc \in RunSteps /\ w.pc \in ItemSteps
    BY <2>2, PcIs DEF Shape, Placed, VideoSteps
  <2>4. item[it].stage # "t2i"
    <3>1. ImageSays(w.i) BY <1>4, <2>2, <2>3 DEF StagesOK
    <3> QED BY <1>4, <2>2, <2>3, <3>1 DEF ImageSays, Done, Settled
  <2>5. item[it].prompt = q /\ item[it].stage = w.route[w.i] BY <1>2, <1>4, <2>2, <2>4
  <2>6. w'.p = q BY <2>2, <2>5 DEF Claim
  <2> QED BY <1>2, <2>2, <2>6
<1>7. CASE ReadHistory
  <2>1. it' = it /\ w'.stage = w.stage /\ w.p = 0 /\ w.pc = "history"
    BY <1>7, HistoryDoes, SameIt DEF Moves, SamePrompt
  <2>2. Twin(q) BY <1>2, <2>1 DEF Twin, Owning
  <2> QED BY <1>1, <2>1, <2>2 DEF NoTwin
<1>8. CASE ReadQueue
  <2>1. it' = it /\ w'.stage = w.stage /\ w.pc = "queue" /\ ~Live(w.p)
    BY <1>8, ReadQueueDoes, SameIt DEF Moves, SamePrompt
  <2>2. w.p # 0
    <3>1. w.pc \in PromptSteps \ {"history", "post"} BY <2>1 DEF PromptSteps
    <3> QED BY <3>1 DEF Shape, Named
  <2>3. item[it].prompt = w.p /\ item[it].stage = w.stage BY <2>1, <2>2 DEF HoldOK
  <2> QED BY <1>2, <1>4, <2>1, <2>3
<1>9. CASE QueuePrompt
  <2>1. it' = it /\ w'.stage = w.stage /\ w.pc = "post"
    BY <1>9, QueuePromptDoes, SameIt DEF Moves, SamePrompt
  <2>2. Twin(q) BY <1>2, <2>1 DEF Twin, Owning
  <2> QED BY <1>1, <2>1, <2>2 DEF NoTwin
<1>10. ~OwnPrompt /\ ~WaitPrompt /\ ~Moves({"bind"}) BY OwnDoes, WaitDoes DEF Moves
<1>11. w'.pc \in PromptSteps BY DEF PromptSteps
<1> QED BY <1>3, <1>5, <1>6, <1>7, <1>8, <1>9, <1>10, <1>11, AskMoves

\* As long as no prompt was lost or finished unseen, every prompt in the queue is the one its
\* row names, the one in hand, or a clip prompt from before the frame was rendered again.
THEOREM InOnce == Spec => []OnceOK
<1>1. Init => OnceOK
  <2>1. ASSUME Init PROVE OnceOK
    <3>1. w.pc = "idle" /\ w.stage = "none" BY <2>1 DEF Init, Idle
    <3>2. HandFrame /\ NoTwin BY <3>1 DEF HandFrame, NoTwin
    <3>3. \A y \in Items : FramePast(y) BY <2>1 DEF Init, FramePast
    <3>4. \A q \in DOMAIN prompts : KnownSays(q) BY <2>1 DEF Init
    <3> QED BY <3>2, <3>3, <3>4 DEF OnceOK
  <2> QED BY <2>1
<1>2. ASSUME Shape, Agree, HoldOK, RoutesOK, ClipsOK, StagesOK, OnceOK, [Next]_vars PROVE OnceOK'
  <2>1. CASE Blind
    <3>1. env'.lost \/ env'.unseen BY <1>2, <2>1, LostStays, UnseenStays DEF Blind
    <3> QED BY <3>1 DEF OnceOK, Blind
  <2>2. CASE env'.lost \/ env'.unseen BY <2>2 DEF OnceOK, Blind
  <2>3. CASE ~Blind /\ ~(env'.lost \/ env'.unseen)
    <3>1. /\ \A q \in DOMAIN prompts : KnownSays(q)
          /\ \A y \in Items : FramePast(y)
          /\ HandFrame /\ NoTwin /\ HandChecked
      BY <1>2, <2>3 DEF OnceOK, ClipsOK
    <3>2. ASSUME NEW q \in DOMAIN prompts' PROVE KnownSays(q)' BY <1>2, <2>3, <3>1, <3>2, KnownSaysOn
    <3>3. ASSUME NEW y \in Items PROVE FramePast(y)' BY <1>2, <3>1, FramePastOn
    <3>4. HandFrame' BY <1>2, <2>3, <3>1, HandFrameOn
    <3>5. NoTwin' BY <1>2, <2>3, <3>1, NoTwinOn
    <3> QED BY <3>2, <3>3, <3>4, <3>5 DEF OnceOK
  <2> QED BY <2>1, <2>2, <2>3
<1>3. Shape /\ Agree /\ HoldOK /\ RoutesOK /\ ClipsOK /\ StagesOK /\ OnceOK /\ [Next]_vars => OnceOK'
  BY <1>2
<1> QED BY <1>1, <1>3, InShape, InAgreement, InHold, InRoutes, InClips, InStages, PTL DEF Spec

\* run_or_reclaim_prompt queues no clip for a bound checkpoint, and no prompt while a prompt of
\* the same revision and stage is in the queue.
THEOREM DiffusionIsOnce == Spec => DiffusionOnce
<1>1. ASSUME Shape, ClipsOK, OnceOK, [Next]_vars, NEW p \in DOMAIN prompts' \ DOMAIN prompts
      PROVE  LET y == prompts'[p].of
             IN /\ prompts'[p].stage # "t2i" => ~CheckpointValid(y, disk[y].manifest.route)
                /\ \/ env.lost \/ env.unseen
                   \/ \A q \in DOMAIN prompts :
                        ~(Live(q) /\ prompts[q].of = y /\ prompts[q].stage = prompts'[p].stage)
  <2>1. w.pc = "post" /\ prompts'[p].of = it /\ prompts'[p].stage = w.stage
    BY <1>1, NewPrompt DEF Queued
  <2>2. ~Checked(it)
    <3>1. w.pc \in PromptSteps BY <2>1 DEF PromptSteps
    <3> QED BY <1>1, <3>1 DEF ClipsOK, HandChecked
  <2>3. ~CheckpointValid(it, disk[it].manifest.route) BY <2>2 DEF CheckpointValid, Checked
  <2>4. CASE ~Blind
    <3>1. \A q \in DOMAIN prompts : ~Twin(q) BY <1>1, <2>1, <2>4 DEF OnceOK, NoTwin
    <3>2. \A q \in DOMAIN prompts : ~(Live(q) /\ prompts[q].of = it /\ prompts[q].stage = w.stage)
      BY <2>1, <3>1 DEF Twin, Owning
    <3> QED BY <2>1, <2>3, <3>2
  <2> QED BY <2>1, <2>3, <2>4 DEF Blind
<1>2. Shape /\ ClipsOK /\ OnceOK /\ [Next]_vars =>
        [\A p \in DOMAIN prompts' \ DOMAIN prompts :
         LET y == prompts'[p].of
         IN /\ prompts'[p].stage # "t2i" => ~CheckpointValid(y, disk[y].manifest.route)
            /\ \/ env.lost \/ env.unseen
               \/ \A q \in DOMAIN prompts :
                    ~(Live(q) /\ prompts[q].of = y /\ prompts[q].stage = prompts'[p].stage)]_vars
  BY <1>1
<1> QED BY <1>2, InShape, InClips, InOnce, PTL DEF Spec, DiffusionOnce

\* Nothing is done twice or too early: frames come first, no diffusion is repeated, and no
\* succeeded revision is taken up again.
THEOREM WorkIsDoneOnce == Spec => WorkOnce
BY FramesAreFirst, DiffusionIsOnce, SucceededIsFinal DEF WorkOnce

-----------------------------------------------------------------------------
(* The numbers of the revisions *)

\* The revisions of a scene have numbers of their own, from 2 on, as many as there are.
Taken(s) == {z \in Items : Scene(z) = s /\ rev[z].state # "none"}
NumberSays(y) ==
  /\ rev[y].state = "none" => rev[y].number = 0
  /\ rev[y].state # "none" =>
       /\ rev[y].number \in 2 .. 1 + Cardinality(Taken(Scene(y)))
       /\ \A z \in Items \ {y} : rev[z].state # "none" /\ Scene(z) = Scene(y)
                                 => rev[z].number # rev[y].number
NumbersOK == \A y \in Items : NumberSays(y)

LEMMA TakenSize ==
  ASSUME NEW S \in SUBSET Items, NEW T \in SUBSET S
  PROVE  /\ IsFiniteSet(S) /\ Cardinality(S) \in Nat /\ Cardinality(T) \in Nat
         /\ Cardinality(T) <= Cardinality(S)
         /\ \A y \in S \ T : Cardinality(T) + 1 <= Cardinality(S)
<1>1. IsFiniteSet(S) BY FiniteItems, FS_Subset
<1>2. IsFiniteSet(T) /\ Cardinality(T) <= Cardinality(S) BY <1>1, FS_Subset
<1>3. Cardinality(S) \in Nat /\ Cardinality(T) \in Nat BY <1>1, <1>2, FS_CardinalityType
<1>4. ASSUME NEW y \in S \ T PROVE Cardinality(T) + 1 <= Cardinality(S)
  <2>1. Cardinality(T \cup {y}) = Cardinality(T) + 1 BY <1>2, FS_AddElement
  <2>2. T \cup {y} \in SUBSET S OBVIOUS
  <2>3. Cardinality(T \cup {y}) <= Cardinality(S) BY <1>1, <2>2, FS_Subset
  <2> QED BY <2>1, <2>3
<1> QED BY <1>1, <1>2, <1>3, <1>4

\* Only the creation of a batch gives a number, or makes a revision.
LEMMA NumberMoves ==
  ASSUME Shape, Agree, [Next]_vars, NEW y \in Items, ~\E b \in Batches : CreateRemakeBatch(b)
  PROVE  /\ rev'[y].number = rev[y].number
         /\ rev'[y].state = "none" <=> rev[y].state = "none"
<1>1. ASSUME w.pc \in ItemSteps
      PROVE  it \in Items /\ rev[it].state # "none"
  <2>1. it \in Items BY <1>1, HandIs
  <2>2. item[it].state # "none" BY <1>1, HeldStand DEF Agree
  <2> QED BY <2>1, <2>2 DEF Agree, RowsOK
<1>2. CASE UNCHANGED rev BY <1>2
<1>3. CASE Prepare
  <2>1. w.pc \in ItemSteps BY <1>3, PrepareDoes, PcIs
  <2>2. CASE UNCHANGED rev BY <2>2
  <2>3. CASE RevOnly(it) /\ rev'[it].number = rev[it].number /\ rev'[it].state = "running"
    BY <1>1, <2>1, <2>3 DEF RevOnly
  <2> QED BY <1>3, <2>2, <2>3, PrepareDoes
<1>4. CASE MarkRevision
  <2>1. w.pc \in ItemSteps BY <1>4, MarkRevisionDoes, PcIs
  <2> QED BY <1>1, <1>4, <2>1, MarkRevisionDoes DEF RevOnly
<1>5. CASE Video BY <1>5, VideoDoes DEF RevOnly
<1>6. CASE ExposeRevision
  <2>1. w.pc \in ItemSteps BY <1>6, ExposeDoes, PcIs DEF DeliverySteps
  <2> QED BY <1>1, <1>6, <2>1, ExposeDoes DEF RevOnly
<1>7. CASE Recovered
  <2>1. Again(y) BY <1>7, RecoveredDoes
  <2> QED BY <2>1 DEF Again
<1> QED BY <1>2, <1>3, <1>4, <1>5, <1>6, <1>7, RevChanges

\* The numbers a new batch gets are above those in use, and grow with the position.
Before(z) == {y \in Items : /\ Scene(y) = Scene(z)
                            /\ \/ rev[y].state # "none"
                               \/ y[1] = z[1] /\ y[2] < z[2]}
LEMMA NumbersMade ==
  ASSUME Shape, Agree, NumbersOK, NEW b \in Batches, CreateRemakeBatch(b)
  PROVE  NumbersOK'
<1>1. /\ batch[b].state = "none"
      /\ \A y \in Items : IF y[1] # b THEN rev'[y] = rev[y]
                          ELSE rev'[y].state = "pending" /\ rev'[y].number = Number(y)
  BY CreateDoes
<1>2. \A y \in Items : y[1] = b => rev[y].state = "none" BY <1>1 DEF Agree, RowsOK
<1>3. ASSUME NEW s PROVE Taken(s)' = Taken(s) \cup {z \in Items : Scene(z) = s /\ z[1] = b}
  BY <1>1, <1>2 DEF Taken
<1>4. ASSUME NEW y \in Items, y[1] = b
      PROVE  /\ rev'[y].state # "none" /\ rev'[y].number \in Nat
             /\ 1 + Cardinality(Taken(Scene(y))) < rev'[y].number
             /\ rev'[y].number <= 1 + Cardinality(Taken(Scene(y))')
             /\ Cardinality(Taken(Scene(y))) \in Nat
             /\ Cardinality(Taken(Scene(y))') \in Nat
  <2>1. rev'[y].number = 2 + Cardinality(Before(y)) /\ rev'[y].state = "pending"
    BY <1>1, <1>4 DEF Number, Before
  <2>2. Taken(Scene(y)) \in SUBSET Before(y) /\ Before(y) \in SUBSET Items
    BY DEF Taken, Before
  <2>3. Before(y) \in SUBSET Taken(Scene(y))' BY <1>3, <1>4 DEF Before, Taken
  <2>4. y \in Taken(Scene(y))' \ Before(y)
    <3>1. y[2] \in Nat BY ItemsAre
    <3>2. y \notin Before(y) BY <1>2, <1>4, <3>1 DEF Before
    <3> QED BY <1>3, <1>4, <3>2
  <2>5. Taken(Scene(y))' \in SUBSET Items BY DEF Taken
  <2>6. /\ Cardinality(Taken(Scene(y))) \in Nat /\ Cardinality(Before(y)) \in Nat
        /\ Cardinality(Taken(Scene(y))) <= Cardinality(Before(y))
    BY <2>2, TakenSize
  <2>7. /\ Cardinality(Before(y)) + 1 <= Cardinality(Taken(Scene(y))')
        /\ Cardinality(Taken(Scene(y))') \in Nat
    BY <2>3, <2>4, <2>5, TakenSize
  <2> QED BY <2>1, <2>6, <2>7
<1>5. ASSUME NEW y \in Items, NEW z \in Items, y[1] = b, z[1] = b, y[2] < z[2],
             Scene(y) = Scene(z)
      PROVE  rev'[y].number # rev'[z].number
  <2>1. rev'[y].number = 2 + Cardinality(Before(y)) /\ rev'[z].number = 2 + Cardinality(Before(z))
    BY <1>1, <1>5 DEF Number, Before
  <2>2. y[2] \in Nat /\ z[2] \in Nat BY ItemsAre
  <2>3. Before(y) \in SUBSET Before(z) /\ Before(z) \in SUBSET Items
    <3>1. ASSUME NEW x \in Before(y) PROVE x \in Before(z)
      <4>1. x \in Items /\ x[2] \in Nat BY ItemsAre DEF Before
      <4> QED BY <1>5, <2>2, <4>1 DEF Before
    <3> QED BY <3>1 DEF Before
  <2>4. y \in Before(z) \ Before(y) BY <1>2, <1>5, <2>2 DEF Before
  <2>5. Cardinality(Before(y)) \in Nat /\ Cardinality(Before(z)) \in Nat
        /\ Cardinality(Before(y)) + 1 <= Cardinality(Before(z))
    BY <2>3, <2>4, TakenSize
  <2> QED BY <2>1, <2>5
<1>6. ASSUME NEW y \in Items, y[1] # b, rev'[y].state # "none"
      PROVE  /\ rev'[y] = rev[y]
             /\ rev'[y].number \in 2 .. 1 + Cardinality(Taken(Scene(y)))
             /\ Cardinality(Taken(Scene(y))) \in Nat
             /\ rev'[y].number \in 2 .. 1 + Cardinality(Taken(Scene(y))')
  <2>1. rev'[y] = rev[y] BY <1>1, <1>6
  <2>2. rev[y].number \in 2 .. 1 + Cardinality(Taken(Scene(y)))
    BY <1>6, <2>1 DEF NumbersOK, NumberSays
  <2>3. Taken(Scene(y)) \in SUBSET Taken(Scene(y))' /\ Taken(Scene(y))' \in SUBSET Items
    BY <1>3 DEF Taken
  <2>4. /\ Cardinality(Taken(Scene(y))) \in Nat /\ Cardinality(Taken(Scene(y))') \in Nat
        /\ Cardinality(Taken(Scene(y))) <= Cardinality(Taken(Scene(y))')
    BY <2>3, TakenSize
  <2> QED BY <2>1, <2>2, <2>4
<1>7. ASSUME NEW y \in Items, NEW z \in Items \ {y}, rev'[y].state # "none",
             rev'[z].state # "none", Scene(z) = Scene(y)
      PROVE  rev'[z].number # rev'[y].number
  <2>1. CASE y[1] = b /\ z[1] = b
    <3>1. y[2] \in Nat /\ z[2] \in Nat /\ y = <<y[1], y[2]>> /\ z = <<z[1], z[2]>> BY ItemsAre
    <3>2. y[2] < z[2] \/ z[2] < y[2] BY <2>1, <3>1
    <3> QED BY <1>5, <1>7, <2>1, <3>2
  <2>2. CASE y[1] = b /\ z[1] # b BY <1>4, <1>6, <1>7, <2>2
  <2>3. CASE y[1] # b /\ z[1] = b BY <1>4, <1>6, <1>7, <2>3
  <2>4. CASE y[1] # b /\ z[1] # b
    <3>1. rev'[y] = rev[y] /\ rev'[z] = rev[z] BY <1>6, <1>7, <2>4
    <3>2. NumberSays(y) BY DEF NumbersOK
    <3> QED BY <1>7, <3>1, <3>2 DEF NumberSays
  <2> QED BY <2>1, <2>2, <2>3, <2>4
<1>8. ASSUME NEW y \in Items PROVE NumberSays(y)'
  <2>1. rev'[y].state = "none" => rev'[y].number = 0
    <3>1. ASSUME rev'[y].state = "none" PROVE rev'[y] = rev[y] BY <1>1, <3>1
    <3> QED BY <3>1 DEF NumbersOK, NumberSays
  <2>2. ASSUME rev'[y].state # "none"
        PROVE  rev'[y].number \in 2 .. 1 + Cardinality(Taken(Scene(y))')
    <3>1. CASE y[1] = b BY <1>4, <3>1
    <3>2. CASE y[1] # b BY <1>6, <2>2, <3>2
    <3> QED BY <3>1, <3>2
  <2> QED BY <1>7, <2>1, <2>2 DEF NumberSays
<1> QED BY <1>8 DEF NumbersOK

\* create_remake_batch gives the revisions of a scene numbers of their own, also when one batch
\* remakes a scene several times.
THEOREM InNumbers == Spec => []NumbersOK
<1>1. Init => NumbersOK BY DEF Init, NumbersOK, NumberSays
<1>2. ASSUME Shape, Agree, NumbersOK, [Next]_vars PROVE NumbersOK'
  <2>1. CASE \E b \in Batches : CreateRemakeBatch(b) BY <1>2, <2>1, NumbersMade
  <2>2. CASE ~\E b \in Batches : CreateRemakeBatch(b)
    <3>1. \A y \in Items : /\ rev'[y].number = rev[y].number
                           /\ rev'[y].state = "none" <=> rev[y].state = "none"
      BY <1>2, <2>2, NumberMoves
    <3>2. ASSUME NEW s PROVE Taken(s)' = Taken(s) BY <3>1 DEF Taken
    <3>3. ASSUME NEW y \in Items PROVE NumberSays(y)'
      <4>1. NumberSays(y) BY <1>2 DEF NumbersOK
      <4>2. Taken(Scene(y))' = Taken(Scene(y)) BY <3>2
      <4> QED BY <3>1, <4>1, <4>2 DEF NumberSays
    <3> QED BY <3>3 DEF NumbersOK
  <2> QED BY <2>1, <2>2
<1>3. Shape /\ Agree /\ NumbersOK /\ [Next]_vars => NumbersOK' BY <1>2
<1> QED BY <1>1, <1>3, InShape, InAgreement, PTL DEF Spec

LEMMA TypesHold == ASSUME Shape, NumbersOK PROVE TypeOK
<1>1. ASSUME NEW b \in Batches
      PROVE  batch[b].state \in {"none", "draft", "queued", "running", "succeeded", "partial", "failed"}
  BY DEF Shape, Typed, BatchRows, BatchStates
<1>2. ASSUME NEW y \in Items
      PROVE  /\ item[y].state \in {"none", "pending", "running"} \cup Settled
             /\ rev[y].state \in {"none", "pending", "running"} \cup Settled
             /\ item[y].prompt \in 0 .. Len(prompts)
             /\ item[y].prompt # 0 => prompts[item[y].prompt].of = y
             /\ disk[y].clip \in 0 .. Len(prompts)
             /\ disk[y].frame \in Original .. Len(prompts)
  <2>1. item[y] \in ItemRows /\ rev[y] \in Revisions /\ disk[y] \in Files /\ Len(prompts) \in Nat
    BY DEF Shape, Typed
  <2>2. /\ Names(prompts, item[y].prompt, y, item[y].stage) /\ disk[y].clip <= Len(prompts)
        /\ disk[y].frame \in Original .. Len(prompts)
    BY DEF Shape, Named
  <2>3. item[y].prompt \in Nat /\ disk[y].clip \in Nat BY <2>1 DEF ItemRows, Files
  <2>4. item[y].prompt \in 0 .. Len(prompts)
    <3>1. item[y].prompt = 0 \/ item[y].prompt \in 1 .. Len(prompts) BY <2>2 DEF Names
    <3> QED BY <2>1, <3>1
  <2> QED BY <2>1, <2>2, <2>3, <2>4 DEF Names, ItemRows, Revisions, RowStates
<1>3. ASSUME NEW y \in Items, rev[y].state # "none", NEW z \in Items \ {y}, Scene(z) = Scene(y)
      PROVE  rev[z].number # rev[y].number
  <2>1. NumberSays(y) /\ NumberSays(z) BY DEF NumbersOK
  <2>2. rev[y].number \in 2 .. 1 + Cardinality(Taken(Scene(y))) BY <1>3, <2>1 DEF NumberSays
  <2>3. CASE rev[z].state = "none" BY <2>1, <2>2, <2>3 DEF NumberSays
  <2>4. CASE rev[z].state # "none" BY <1>3, <2>1, <2>4 DEF NumberSays
  <2> QED BY <2>3, <2>4
<1>4. /\ pipe \in {"free", "active", "error"} /\ comfy \in BOOLEAN
      /\ w.gen \subseteq w.prep /\ env.faults \in 0 .. MaxFaults
  BY DEF Shape, Typed, Placed
<1> QED BY <1>1, <1>2, <1>3, <1>4 DEF TypeOK

\* The rows of the remakes agree: types and unique revision numbers, every clip with its frame,
\* every verdict with its items and revisions.
THEOREM RemakesStayConsistent == Spec => []RemakesConsistent
<1>1. Shape /\ NumbersOK => TypeOK BY TypesHold
<1>2. TypeOK /\ ClipOfItsFrame /\ VerdictTrue => RemakesConsistent BY DEF RemakesConsistent
<1> QED BY <1>1, <1>2, InShape, InNumbers, ClipsAreOfTheirFrames, VerdictIsTrue, PTL
=============================================================================
