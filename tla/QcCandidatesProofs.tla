------------------------- MODULE QcCandidatesProofs -------------------------
(* Proofs about the quality control of a scene: its lineage of candidates stays *)
(* whole, the planner is asked once, the GPU has one user, and the decision of  *)
(* the operator holds.                                                          *)
EXTENDS QcCandidates, FiniteSetTheorems, SequenceTheorems, TLAPS

-----------------------------------------------------------------------------
(* The inductive invariant.                                                     *)

FinalSteps == {"final", "final launch", "final wait"}
RenderSteps == FinalSteps \cup {"generate", "t2i", "t2i wait", "bind", "i2v", "i2v wait", "complete"}
PlannerSteps == {"plan", "patch", "record", "reject", "b1", "settle", "failed"}
RouteSteps == {"routed", "b2", "ledger", "supersede"} \cup PlannerSteps
CurSteps == (RenderSteps \ {"final", "generate"}) \cup RouteSteps
            \cup {"judge", "judging", "manifest", "evidence", "route", "promote"}
Steps == CurSteps \cup {"idle", "register", "loop", "requeue", "final", "generate", "pending",
                        "start", "charge", "evaluate", "close", "select"}
Answers == {"ACCEPTED", "REJECTED", "FAILED", "AMBIGUOUS"}

\* The worker is a record, at a step of the epoch, with candidates of the scene in hand.
Shape(x) == x = [pc |-> x.pc, todo |-> x.todo, cur |-> x.cur, decision |-> x.decision,
                 resumed |-> x.resumed, child |-> x.child, out |-> x.out, seen |-> x.seen,
                 retry |-> x.retry]
WorkerOK ==
  /\ Shape(w) /\ w.pc \in Steps
  /\ w.todo \subseteq Ids /\ w.cur \in Ids \cup {0} /\ w.child \in Ids \cup {0}
  /\ w.pc \in CurSteps => w.cur \in Ids
  /\ w.pc = "register" => cands = <<>>

ScalarsOK ==
  /\ setting \in [auto : BOOLEAN, draft : BOOLEAN]
  /\ revs \in 1 .. MaxRevs
  /\ pstate \in {"RUNNING_QC", "AWAITING_QC_REVIEW", "STITCHING", "QC_BLOCKED"}
  /\ comfy \in BOOLEAN /\ server \in {"down", "owned", "orphan"}
  /\ faults \in 0 .. MaxFaults /\ ops \in 0 .. MaxOps

\* A candidate that may have a repair: its evidence is complete and no pass, or a pass the
\* operator took back.
Failed(c) == c.ev = "COMPLETE" /\ (c.verdict # "PASS" \/ c.human \in {"REJECT", "HOLD"})

\* What a row says by itself, for a job that advances passes by itself or not.
RowOK(c, auto) ==
  /\ c \in Candidates
  /\ c.calls <= 1 /\ (c.claim = "none" => c.calls = 0)
  /\ c.state \in {"FINAL_PENDING", "FINAL_RENDERING"} \/ c.final # "none" => c.human = "APPROVE"
  /\ c.state = "PASS_PENDING_HUMAN" \/ c.human \in {"REJECT", "HOLD"} => ~auto
  /\ c.state = "ACCEPTED" => c.human = "APPROVE" \/ (auto /\ c.verdict = "PASS")
  /\ c.b2row => c.tier = "B1"

RowsOK == /\ cands \in Seq(Candidates) /\ Len(cands) <= MaxCands
          /\ \A i \in Ids : RowOK(cands[i], setting.auto)

\* The place of a tier in a lineage, and the tier of the repair a candidate gets.
Place(t) == CASE t = "ORIGINAL" -> 0 [] t = "A1" -> 1 [] t = "A2" -> 2 [] t = "B1" -> 3
              [] t = "B2" -> 4 [] t = "C" -> 5 [] t = "D" -> 6
Heir(c) ==
  CASE c.verdict = "FRAME" /\ c.tier \in {"ORIGINAL", "A1", "A2", "B1"} -> "B2"
    [] c.tier = "ORIGINAL" /\ c.verdict # "FRAME" -> "A1"
    [] c.tier = "A1" /\ c.verdict # "FRAME" -> "A2"
    [] c.tier = "A2" /\ c.verdict # "FRAME" -> IF c.repair = "REJECTED" THEN "C" ELSE "B1"
    [] c.tier = "B1" /\ c.verdict # "FRAME" -> "C"
    [] c.tier = "B2" -> "C"
    [] c.tier \in {"C", "D"} -> "D"

\* The lineage: tiers rise, only D may repeat, and up to the first D it is a chain in which
\* each candidate is the repair of the one before.
LineageOK ==
  /\ \A j \in Ids : /\ cands[j].tier = "ORIGINAL" <=> j = 1
                    /\ j = 1 => cands[j].par = 0
                    /\ j > 1 => cands[j].par \in 1 .. j - 1 /\ Failed(cands[cands[j].par])
  /\ \A i, j \in Ids : i < j => \/ Place(cands[i].tier) < Place(cands[j].tier)
                                \/ cands[i].tier = "D" /\ cands[j].tier = "D"
  /\ \A i \in Ids : cands[i].tier # "D" /\ i < Len(cands) =>
       /\ cands[i + 1].par = i /\ cands[i + 1].tier = Heir(cands[i])
       /\ cands[i].tier = "A2" /\ cands[i].verdict # "FRAME" => cands[i].repair # "none"
  /\ \A j \in Ids : cands[j].tier = "B2" /\ cands[j].ledger = "none" =>
       j > 1 /\ cands[cands[j].par].tier = "B1"

RevisionsOK ==
  /\ \A i \in Ids : cands[i].rev <= revs /\ (cands[i].b2row => cands[i].rev < revs)
  /\ RevisionsDistinct
  /\ \A i, j \in Ids : cands[i].b2row /\ cands[j].rev = cands[i].rev + 1 => cands[j].tier = "B2"

\* Whoever was chosen stays so: the approved, and what was accepted and promoted.
Promoting(i) == w.pc = "promote" /\ w.cur = i
Firm == {i \in Ids : \/ cands[i].human = "APPROVE"
                     \/ cands[i].state = "ACCEPTED" /\ ~Promoting(i)}
SupersededOK ==
  /\ \A i \in Ids : cands[i].state = "SUPERSEDED" =>
       Firm # {} \/ \E j \in Ids : cands[j].par = i /\ cands[j].ledger # "none"
  /\ \A i \in Ids : cands[i].state = "ACCEPTED" /\ cands[i].human # "APPROVE" /\ ~Promoting(i)
                      => i \notin w.todo /\ i # w.cur

\* Some candidate without a repair is alive.
Leaf(k) == \A j \in Ids : cands[j].par # k
AliveOK == cands # <<>> => \E k \in Ids : cands[k].state # "SUPERSEDED" /\ Leaf(k)

\* What the worker knows of the candidate it holds, step by step.
EvidenceOK ==
  LET c == cands[w.cur] IN
  /\ w.pc \in {"judge", "judging"} => c.ev \in {"RUNNING", "raw"}
  /\ w.pc = "manifest" => c.ev = "raw"
  /\ w.pc = "evidence" => c.ev = "manifest"
  /\ w.pc \in RouteSteps \cup {"route", "promote"} => c.ev = "COMPLETE"
  /\ w.pc = "promote" => setting.auto /\ c.verdict = "PASS"
  /\ w.pc = "routed" /\ w.decision = "PASS" => c.verdict = "PASS"
  /\ w.pc \in RouteSteps /\ w.decision # "PASS" =>
       Failed(c) /\ (w.decision = "FRAME" <=> c.verdict = "FRAME")
  /\ w.pc \in RouteSteps \ {"routed"} => w.decision # "PASS"

PlannerOK ==
  LET c == cands[w.cur] IN
  /\ w.pc \in PlannerSteps => c.tier = "A2" /\ c.verdict # "FRAME"
  /\ w.pc \in {"plan", "patch", "record"} => c.repair = "none"
  /\ w.pc = "plan" => c.claim = "CLAIMED" /\ c.calls = 0
  /\ w.pc \in {"patch", "record"} => w.out \in Answers
  /\ w.pc = "reject" => w.out \in Answers \ {"ACCEPTED"} /\ c.repair = "REJECTED"
  /\ w.pc = "b1" => w.out = "ACCEPTED" /\ c.repair = "ACCEPTED"
  /\ w.pc = "settle" =>
       /\ w.out \in Answers \cup {"STALE"}
       /\ w.out = "REJECTED" => c.repair = "REJECTED"
       /\ w.out = "ACCEPTED" => w.child \in Ids /\ cands[w.child].par = w.cur
  /\ w.pc = "routed" => \/ w.out = "none"
                        \/ w.out = "REJECTED" /\ c.repair = "REJECTED" /\ w.decision # "PASS"
  /\ w.pc \notin RouteSteps => w.out = "none"

ChildOK ==
  /\ w.pc = "b2" => cands[w.cur].b2row /\ cands[w.cur].verdict = "FRAME"
  /\ w.pc = "ledger" => w.child \in Ids /\ cands[w.child].par = w.cur
  /\ w.pc = "supersede" => \E j \in Ids : cands[j].par = w.cur /\ cands[j].ledger # "none"

FinalOK ==
  w.pc \in FinalSteps => /\ \A i \in w.todo : cands[i].human = "APPROVE"
                         /\ w.pc # "final" => cands[w.cur].human = "APPROVE"

\* ComfyUI is launched, and the server started, where the other one is known to be idle.
DevicesOK == /\ GpuExclusive
             /\ w.pc \in RenderSteps => server = "down"
             /\ w.pc = "start" => ~comfy

SelectionOK == pstate = "STITCHING" => w.pc = "idle" /\ Selectable(cands)

\* The table of the candidates, and what the worker knows of it.
TableOK == RowsOK /\ LineageOK /\ RevisionsOK /\ SupersededOK /\ AliveOK
KnownOK == EvidenceOK /\ PlannerOK /\ ChildOK /\ FinalOK

IInv == WorkerOK /\ ScalarsOK /\ TableOK /\ KnownOK /\ DevicesOK /\ SelectionOK

-----------------------------------------------------------------------------
(* The worker's moves                                                           *)

LEMMA GotoTurn ==
  ASSUME WorkerOK, NEW p, Goto(p)
  PROVE  /\ Shape(w') /\ w'.pc = p /\ w'.todo = w.todo /\ w'.cur = w.cur /\ w'.child = w.child
         /\ w'.decision = w.decision /\ w'.resumed = w.resumed /\ w'.out = w.out
BY DEF Goto, WorkerOK, Shape

LEMMA TakeTurn ==
  ASSUME WorkerOK, NEW i, NEW p, Take(i, p)
  PROVE  /\ Shape(w') /\ w'.pc = p /\ w'.todo = w.todo /\ w'.cur = i /\ w'.child = w.child
         /\ w'.decision = w.decision /\ w'.resumed = w.resumed /\ w'.out = w.out
BY DEF Take, WorkerOK, Shape

LEMMA DoneTurn ==
  ASSUME WorkerOK, NEW i, NEW p, Done(i, p)
  PROVE  /\ Shape(w') /\ w'.pc = p /\ w'.todo = w.todo \ {i} /\ w'.cur = 0 /\ w'.child = 0
         /\ w'.out = "none"
BY DEF Done, WorkerOK, Shape

LEMMA RaiseTurn ==
  ASSUME w' = NoWork
  PROVE  /\ Shape(w') /\ w'.pc = "idle" /\ w'.todo = {} /\ w'.cur = 0 /\ w'.child = 0
         /\ w'.out = "none"
BY DEF NoWork, Shape

-----------------------------------------------------------------------------
(* What a store operation does to one row                                       *)

\* One row of the table changes.
One(c, d, i) == /\ d \in Seq(Candidates) /\ Len(d) = Len(c) /\ DOMAIN d = DOMAIN c
                /\ \A j \in DOMAIN c : j # i => d[j] = c[j]

\* The row still is the same candidate; it is judged, repaired, decided as before.
SameCandidate(c, d) == /\ d \in Candidates
                       /\ d.tier = c.tier /\ d.par = c.par /\ d.rev = c.rev
                       /\ (d.ledger = "none" <=> c.ledger = "none")
SameVerdict(c, d) == d.ev = c.ev /\ d.verdict = c.verdict
SamePlan(c, d) == d.claim = c.claim /\ d.calls = c.calls /\ d.repair = c.repair
Kept(c, d) == SameCandidate(c, d) /\ SameVerdict(c, d) /\ SamePlan(c, d) /\ d.b2row = c.b2row

LEMMA RowReplaced ==
  ASSUME NEW c \in Seq(Candidates), NEW i \in DOMAIN c, NEW r \in Candidates,
         NEW d, d = [c EXCEPT ![i] = r]
  PROVE  One(c, d, i) /\ d[i] = r
BY DEF One

RowSet(r, s, n) == [r EXCEPT !.state = s, !.next = n]

LEMMA RowSet_Fields ==
  ASSUME NEW r \in Candidates, NEW s \in States, NEW n \in NextActions, NEW d,
         d = RowSet(r, s, n)
  PROVE  /\ Kept(r, d) /\ d.state = s /\ d.human = r.human /\ d.final = r.final
<1>1. d \in Candidates
  BY DEF Candidates, RowSet
<1>2. d.tier = r.tier /\ d.par = r.par /\ d.rev = r.rev /\ d.ledger = r.ledger
  BY DEF Candidates, RowSet
<1>3. d.ev = r.ev /\ d.verdict = r.verdict
  BY DEF Candidates, RowSet
<1>4. d.claim = r.claim /\ d.calls = r.calls /\ d.repair = r.repair
  BY DEF Candidates, RowSet
<1>5. /\ d.b2row = r.b2row /\ d.state = s /\ d.human = r.human /\ d.final = r.final
  BY DEF Candidates, RowSet
<1> QED BY <1>1, <1>2, <1>3, <1>4, <1>5 DEF Kept, SameCandidate, SameVerdict, SamePlan

RowDecided(r, h, s, n) == [r EXCEPT !.human = h, !.state = s, !.next = n]

LEMMA RowDecided_Fields ==
  ASSUME NEW r \in Candidates, NEW h \in {"APPROVE", "REJECT", "HOLD"}, NEW s \in States,
         NEW n \in NextActions, NEW d, d = RowDecided(r, h, s, n)
  PROVE  /\ Kept(r, d) /\ d.state = s /\ d.human = h /\ d.final = r.final
<1>1. d \in Candidates
  BY ZenonT(40) DEF Candidates, RowDecided
<1>2. d.tier = r.tier /\ d.par = r.par /\ d.rev = r.rev /\ d.ledger = r.ledger
  BY DEF Candidates, RowDecided
<1>3. d.ev = r.ev /\ d.verdict = r.verdict
  BY DEF Candidates, RowDecided
<1>4. d.claim = r.claim /\ d.calls = r.calls /\ d.repair = r.repair
  BY DEF Candidates, RowDecided
<1>5. /\ d.b2row = r.b2row /\ d.state = s /\ d.human = h /\ d.final = r.final
  BY DEF Candidates, RowDecided
<1> QED BY <1>1, <1>2, <1>3, <1>4, <1>5 DEF Kept, SameCandidate, SameVerdict, SamePlan

RowCharged(r, k, s, n) == [r EXCEPT !.infra = k, !.state = s, !.next = n]

LEMMA RowCharged_Fields ==
  ASSUME NEW r \in Candidates, NEW k \in 0 .. 2, NEW s \in States, NEW n \in NextActions,
         NEW d, d = RowCharged(r, k, s, n)
  PROVE  /\ Kept(r, d) /\ d.state = s /\ d.human = r.human /\ d.final = r.final
<1>1. d \in Candidates
  BY DEF Candidates, RowCharged
<1>2. d.tier = r.tier /\ d.par = r.par /\ d.rev = r.rev /\ d.ledger = r.ledger
  BY DEF Candidates, RowCharged
<1>3. d.ev = r.ev /\ d.verdict = r.verdict
  BY DEF Candidates, RowCharged
<1>4. d.claim = r.claim /\ d.calls = r.calls /\ d.repair = r.repair
  BY DEF Candidates, RowCharged
<1>5. /\ d.b2row = r.b2row /\ d.state = s /\ d.human = r.human /\ d.final = r.final
  BY DEF Candidates, RowCharged
<1> QED BY <1>1, <1>2, <1>3, <1>4, <1>5 DEF Kept, SameCandidate, SameVerdict, SamePlan

RowOwned(r, o, s) == [r EXCEPT !.owner = o, !.state = s]

LEMMA RowOwned_Fields ==
  ASSUME NEW r \in Candidates, NEW o \in {"t2i", "i2v"}, NEW s \in States, NEW d,
         d = RowOwned(r, o, s)
  PROVE  /\ Kept(r, d) /\ d.state = s /\ d.human = r.human /\ d.final = r.final
<1>1. d \in Candidates
  BY ZenonT(40) DEF Candidates, RowOwned
<1>2. d.tier = r.tier /\ d.par = r.par /\ d.rev = r.rev /\ d.ledger = r.ledger
  BY DEF Candidates, RowOwned
<1>3. d.ev = r.ev /\ d.verdict = r.verdict
  BY DEF Candidates, RowOwned
<1>4. d.claim = r.claim /\ d.calls = r.calls /\ d.repair = r.repair
  BY DEF Candidates, RowOwned
<1>5. /\ d.b2row = r.b2row /\ d.state = s /\ d.human = r.human /\ d.final = r.final
  BY DEF Candidates, RowOwned
<1> QED BY <1>1, <1>2, <1>3, <1>4, <1>5 DEF Kept, SameCandidate, SameVerdict, SamePlan

RowClip(r, k, s, n) == [r EXCEPT !.clip = k, !.state = s, !.next = n]

LEMMA RowClip_Fields ==
  ASSUME NEW r \in Candidates, NEW k \in Nat, NEW s \in States, NEW n \in NextActions,
         NEW d, d = RowClip(r, k, s, n)
  PROVE  /\ Kept(r, d) /\ d.state = s /\ d.human = r.human /\ d.final = r.final
<1>1. d \in Candidates
  BY DEF Candidates, RowClip
<1>2. d.tier = r.tier /\ d.par = r.par /\ d.rev = r.rev /\ d.ledger = r.ledger
  BY DEF Candidates, RowClip
<1>3. d.ev = r.ev /\ d.verdict = r.verdict
  BY DEF Candidates, RowClip
<1>4. d.claim = r.claim /\ d.calls = r.calls /\ d.repair = r.repair
  BY DEF Candidates, RowClip
<1>5. /\ d.b2row = r.b2row /\ d.state = s /\ d.human = r.human /\ d.final = r.final
  BY DEF Candidates, RowClip
<1> QED BY <1>1, <1>2, <1>3, <1>4, <1>5 DEF Kept, SameCandidate, SameVerdict, SamePlan

RowLedger(r, l) == [r EXCEPT !.ledger = l]

LEMMA RowLedger_Fields ==
  ASSUME NEW r \in Candidates, NEW l \in {"PLANNED", "RECIPE_BOUND", "QC_COMPLETE"}, NEW d,
         d = RowLedger(r, l)
  PROVE  /\ d \in Candidates /\ d.tier = r.tier /\ d.par = r.par /\ d.rev = r.rev
         /\ SameVerdict(r, d) /\ SamePlan(r, d) /\ d.b2row = r.b2row /\ d.ledger = l
         /\ d.state = r.state /\ d.human = r.human /\ d.final = r.final
<1>1. d \in Candidates
  BY DEF Candidates, RowLedger
<1>2. d.tier = r.tier /\ d.par = r.par /\ d.rev = r.rev
  BY DEF Candidates, RowLedger
<1>3. d.ev = r.ev /\ d.verdict = r.verdict
  BY DEF Candidates, RowLedger
<1>4. d.claim = r.claim /\ d.calls = r.calls /\ d.repair = r.repair
  BY DEF Candidates, RowLedger
<1>5. /\ d.b2row = r.b2row /\ d.ledger = l /\ d.state = r.state /\ d.human = r.human
      /\ d.final = r.final
  BY DEF Candidates, RowLedger
<1> QED BY <1>1, <1>2, <1>3, <1>4, <1>5 DEF SameVerdict, SamePlan

RowFrame(r, f) == [r EXCEPT !.frame = f]

LEMMA RowFrame_Fields ==
  ASSUME NEW r \in Candidates, NEW f \in Nat, NEW d, d = RowFrame(r, f)
  PROVE  /\ Kept(r, d) /\ d.state = r.state /\ d.human = r.human /\ d.final = r.final
<1>1. d \in Candidates
  BY DEF Candidates, RowFrame
<1>2. d.tier = r.tier /\ d.par = r.par /\ d.rev = r.rev /\ d.ledger = r.ledger
  BY DEF Candidates, RowFrame
<1>3. d.ev = r.ev /\ d.verdict = r.verdict
  BY DEF Candidates, RowFrame
<1>4. d.claim = r.claim /\ d.calls = r.calls /\ d.repair = r.repair
  BY DEF Candidates, RowFrame
<1>5. /\ d.b2row = r.b2row /\ d.state = r.state /\ d.human = r.human /\ d.final = r.final
  BY DEF Candidates, RowFrame
<1> QED BY <1>1, <1>2, <1>3, <1>4, <1>5 DEF Kept, SameCandidate, SameVerdict, SamePlan

RowDest(r, f) == [r EXCEPT !.dest = f]

LEMMA RowDest_Fields ==
  ASSUME NEW r \in Candidates, NEW f \in Nat, NEW d, d = RowDest(r, f)
  PROVE  /\ Kept(r, d) /\ d.state = r.state /\ d.human = r.human /\ d.final = r.final
<1>1. d \in Candidates
  BY DEF Candidates, RowDest
<1>2. d.tier = r.tier /\ d.par = r.par /\ d.rev = r.rev /\ d.ledger = r.ledger
  BY DEF Candidates, RowDest
<1>3. d.ev = r.ev /\ d.verdict = r.verdict
  BY DEF Candidates, RowDest
<1>4. d.claim = r.claim /\ d.calls = r.calls /\ d.repair = r.repair
  BY DEF Candidates, RowDest
<1>5. /\ d.b2row = r.b2row /\ d.state = r.state /\ d.human = r.human /\ d.final = r.final
  BY DEF Candidates, RowDest
<1> QED BY <1>1, <1>2, <1>3, <1>4, <1>5 DEF Kept, SameCandidate, SameVerdict, SamePlan

RowFinal(r, f) == [r EXCEPT !.final = f]

LEMMA RowFinal_Fields ==
  ASSUME NEW r \in Candidates,
         NEW f \in {"none", "PENDING", "RENDERING", "FAILED", "COMPLETE"}, NEW d,
         d = RowFinal(r, f)
  PROVE  /\ Kept(r, d) /\ d.state = r.state /\ d.human = r.human /\ d.final = f
<1>1. d \in Candidates
  BY DEF Candidates, RowFinal
<1>2. d.tier = r.tier /\ d.par = r.par /\ d.rev = r.rev /\ d.ledger = r.ledger
  BY DEF Candidates, RowFinal
<1>3. d.ev = r.ev /\ d.verdict = r.verdict
  BY DEF Candidates, RowFinal
<1>4. d.claim = r.claim /\ d.calls = r.calls /\ d.repair = r.repair
  BY DEF Candidates, RowFinal
<1>5. /\ d.b2row = r.b2row /\ d.state = r.state /\ d.human = r.human /\ d.final = f
  BY DEF Candidates, RowFinal
<1> QED BY <1>1, <1>2, <1>3, <1>4, <1>5 DEF Kept, SameCandidate, SameVerdict, SamePlan

RowRendering(r, f, s, n) == [r EXCEPT !.final = f, !.state = s, !.next = n]

LEMMA RowRendering_Fields ==
  ASSUME NEW r \in Candidates,
         NEW f \in {"none", "PENDING", "RENDERING", "FAILED", "COMPLETE"}, NEW s \in States,
         NEW n \in NextActions, NEW d, d = RowRendering(r, f, s, n)
  PROVE  /\ Kept(r, d) /\ d.state = s /\ d.human = r.human /\ d.final = f
<1>1. d \in Candidates
  BY ZenonT(40) DEF Candidates, RowRendering
<1>2. d.tier = r.tier /\ d.par = r.par /\ d.rev = r.rev /\ d.ledger = r.ledger
  BY DEF Candidates, RowRendering
<1>3. d.ev = r.ev /\ d.verdict = r.verdict
  BY DEF Candidates, RowRendering
<1>4. d.claim = r.claim /\ d.calls = r.calls /\ d.repair = r.repair
  BY DEF Candidates, RowRendering
<1>5. /\ d.b2row = r.b2row /\ d.state = s /\ d.human = r.human /\ d.final = f
  BY DEF Candidates, RowRendering
<1> QED BY <1>1, <1>2, <1>3, <1>4, <1>5 DEF Kept, SameCandidate, SameVerdict, SamePlan

RowStage(r, g) == [r EXCEPT !.stage = g]

LEMMA RowStage_Fields ==
  ASSUME NEW r \in Candidates, NEW g \in {"DRAFT", "LEGACY_FINAL", "FINAL"}, NEW d,
         d = RowStage(r, g)
  PROVE  /\ Kept(r, d) /\ d.state = r.state /\ d.human = r.human /\ d.final = r.final
<1>1. d \in Candidates
  BY DEF Candidates, RowStage
<1>2. d.tier = r.tier /\ d.par = r.par /\ d.rev = r.rev /\ d.ledger = r.ledger
  BY DEF Candidates, RowStage
<1>3. d.ev = r.ev /\ d.verdict = r.verdict
  BY DEF Candidates, RowStage
<1>4. d.claim = r.claim /\ d.calls = r.calls /\ d.repair = r.repair
  BY DEF Candidates, RowStage
<1>5. /\ d.b2row = r.b2row /\ d.state = r.state /\ d.human = r.human /\ d.final = r.final
  BY DEF Candidates, RowStage
<1> QED BY <1>1, <1>2, <1>3, <1>4, <1>5 DEF Kept, SameCandidate, SameVerdict, SamePlan

RowEv(r, e) == [r EXCEPT !.ev = e]

LEMMA RowEv_Fields ==
  ASSUME NEW r \in Candidates, NEW e \in {"none", "RUNNING", "raw", "manifest", "COMPLETE"},
         NEW d, d = RowEv(r, e)
  PROVE  /\ SameCandidate(r, d) /\ d.verdict = r.verdict /\ SamePlan(r, d)
         /\ d.b2row = r.b2row /\ d.ev = e /\ d.state = r.state /\ d.human = r.human
         /\ d.final = r.final
<1>1. d \in Candidates
  BY DEF Candidates, RowEv
<1>2. d.tier = r.tier /\ d.par = r.par /\ d.rev = r.rev /\ d.ledger = r.ledger
  BY DEF Candidates, RowEv
<1>3. d.verdict = r.verdict
  BY DEF Candidates, RowEv
<1>4. d.claim = r.claim /\ d.calls = r.calls /\ d.repair = r.repair
  BY DEF Candidates, RowEv
<1>5. /\ d.ev = e /\ d.b2row = r.b2row /\ d.state = r.state /\ d.human = r.human
      /\ d.final = r.final
  BY DEF Candidates, RowEv
<1> QED BY <1>1, <1>2, <1>3, <1>4, <1>5 DEF SameCandidate, SamePlan

RowJudged(r, e, v) == [r EXCEPT !.ev = e, !.verdict = v]

LEMMA RowJudged_Fields ==
  ASSUME NEW r \in Candidates, NEW e \in {"none", "RUNNING", "raw", "manifest", "COMPLETE"},
         NEW v \in Verdicts \cup {"none"}, NEW d, d = RowJudged(r, e, v)
  PROVE  /\ SameCandidate(r, d) /\ SamePlan(r, d) /\ d.b2row = r.b2row /\ d.ev = e
         /\ d.verdict = v /\ d.state = r.state /\ d.human = r.human /\ d.final = r.final
<1>1. d \in Candidates
  BY ZenonT(40) DEF Candidates, RowJudged
<1>2. d.tier = r.tier /\ d.par = r.par /\ d.rev = r.rev /\ d.ledger = r.ledger
  BY DEF Candidates, RowJudged
<1>3. d.claim = r.claim /\ d.calls = r.calls /\ d.repair = r.repair
  BY DEF Candidates, RowJudged
<1>4. /\ d.ev = e /\ d.verdict = v /\ d.b2row = r.b2row /\ d.state = r.state
      /\ d.human = r.human /\ d.final = r.final
  BY DEF Candidates, RowJudged
<1> QED BY <1>1, <1>2, <1>3, <1>4 DEF SameCandidate, SamePlan

RowClaimed(r, c, k) == [r EXCEPT !.claim = c, !.calls = k]

LEMMA RowClaimed_Fields ==
  ASSUME NEW r \in Candidates, NEW c \in {"none", "CLAIMED", "COMPLETED", "FAILED_CLOSED"},
         NEW k \in Nat, NEW d, d = RowClaimed(r, c, k)
  PROVE  /\ SameCandidate(r, d) /\ SameVerdict(r, d) /\ d.repair = r.repair
         /\ d.b2row = r.b2row /\ d.claim = c /\ d.calls = k /\ d.state = r.state
         /\ d.human = r.human /\ d.final = r.final
<1>1. d \in Candidates
  BY ZenonT(40) DEF Candidates, RowClaimed
<1>2. d.tier = r.tier /\ d.par = r.par /\ d.rev = r.rev /\ d.ledger = r.ledger
  BY DEF Candidates, RowClaimed
<1>3. d.ev = r.ev /\ d.verdict = r.verdict
  BY DEF Candidates, RowClaimed
<1>4. d.repair = r.repair
  BY DEF Candidates, RowClaimed
<1>5. /\ d.claim = c /\ d.calls = k /\ d.b2row = r.b2row /\ d.state = r.state
      /\ d.human = r.human /\ d.final = r.final
  BY DEF Candidates, RowClaimed
<1> QED BY <1>1, <1>2, <1>3, <1>4, <1>5 DEF SameCandidate, SameVerdict

RowPatched(r, x, n) == [r EXCEPT !.patch = x, !.planned = n]

LEMMA RowPatched_Fields ==
  ASSUME NEW r \in Candidates,
         NEW x \in {"none", "ACCEPTED", "REJECTED", "FAILED", "AMBIGUOUS"}, NEW n \in Nat,
         NEW d, d = RowPatched(r, x, n)
  PROVE  /\ Kept(r, d) /\ d.state = r.state /\ d.human = r.human /\ d.final = r.final
<1>1. d \in Candidates
  BY ZenonT(40) DEF Candidates, RowPatched
<1>2. d.tier = r.tier /\ d.par = r.par /\ d.rev = r.rev /\ d.ledger = r.ledger
  BY DEF Candidates, RowPatched
<1>3. d.ev = r.ev /\ d.verdict = r.verdict
  BY DEF Candidates, RowPatched
<1>4. d.claim = r.claim /\ d.calls = r.calls /\ d.repair = r.repair
  BY DEF Candidates, RowPatched
<1>5. /\ d.b2row = r.b2row /\ d.state = r.state /\ d.human = r.human /\ d.final = r.final
  BY DEF Candidates, RowPatched
<1> QED BY <1>1, <1>2, <1>3, <1>4, <1>5 DEF Kept, SameCandidate, SameVerdict, SamePlan

RowRepaired(r, y) == [r EXCEPT !.repair = y]

LEMMA RowRepaired_Fields ==
  ASSUME NEW r \in Candidates, NEW y \in {"none", "ACCEPTED", "REJECTED"}, NEW d,
         d = RowRepaired(r, y)
  PROVE  /\ SameCandidate(r, d) /\ SameVerdict(r, d) /\ d.claim = r.claim
         /\ d.calls = r.calls /\ d.b2row = r.b2row /\ d.repair = y /\ d.state = r.state
         /\ d.human = r.human /\ d.final = r.final
<1>1. d \in Candidates
  BY DEF Candidates, RowRepaired
<1>2. d.tier = r.tier /\ d.par = r.par /\ d.rev = r.rev /\ d.ledger = r.ledger
  BY DEF Candidates, RowRepaired
<1>3. d.ev = r.ev /\ d.verdict = r.verdict
  BY DEF Candidates, RowRepaired
<1>4. d.claim = r.claim /\ d.calls = r.calls
  BY DEF Candidates, RowRepaired
<1>5. /\ d.repair = y /\ d.b2row = r.b2row /\ d.state = r.state /\ d.human = r.human
      /\ d.final = r.final
  BY DEF Candidates, RowRepaired
<1> QED BY <1>1, <1>2, <1>3, <1>4, <1>5 DEF SameCandidate, SameVerdict

RowB2(r) == [r EXCEPT !.b2row = TRUE]

LEMMA RowB2_Fields ==
  ASSUME NEW r \in Candidates, NEW d, d = RowB2(r)
  PROVE  /\ SameCandidate(r, d) /\ SameVerdict(r, d) /\ SamePlan(r, d) /\ d.b2row = TRUE
         /\ d.state = r.state /\ d.human = r.human /\ d.final = r.final
<1>1. d \in Candidates
  BY DEF Candidates, RowB2
<1>2. d.tier = r.tier /\ d.par = r.par /\ d.rev = r.rev /\ d.ledger = r.ledger
  BY DEF Candidates, RowB2
<1>3. d.ev = r.ev /\ d.verdict = r.verdict
  BY DEF Candidates, RowB2
<1>4. d.claim = r.claim /\ d.calls = r.calls /\ d.repair = r.repair
  BY DEF Candidates, RowB2
<1>5. /\ d.b2row = TRUE /\ d.state = r.state /\ d.human = r.human /\ d.final = r.final
  BY DEF Candidates, RowB2
<1> QED BY <1>1, <1>2, <1>3, <1>4, <1>5 DEF SameCandidate, SameVerdict, SamePlan

-----------------------------------------------------------------------------
(* What a step leaves of the table's invariants                                 *)

\* A row goes on with its lineage.
Evolves(c, d) ==
  /\ d.tier = c.tier /\ d.par = c.par /\ d.rev = c.rev
  /\ Failed(c) => Failed(d) /\ d.verdict = c.verdict
  /\ c.repair # "none" => d.repair = c.repair
  /\ d.ledger = "none" => c.ledger = "none"
  /\ c.human = "APPROVE" => d.human = "APPROVE"

\* A row is not given up, and whoever was accepted stays so, unless the worker holds it.
Steady(c, d, mine) ==
  /\ d.state = "SUPERSEDED" => c.state = "SUPERSEDED"
  /\ c.state = "ACCEPTED" => d.state = "ACCEPTED" \/ mine
  /\ d.state = "ACCEPTED" => c.state = "ACCEPTED" \/ d.human = "APPROVE"

\* The worker takes up what it held before and what is not accepted, and it leaves a
\* promotion without the winner.
Held == w.todo \cup {w.cur}
Handover ==
  /\ \A i \in Held' : i \in Held \/ i = 0 \/ cands[i].state # "ACCEPTED"
  /\ w'.pc = "promote" => w.pc = "promote" /\ w'.cur = w.cur
  /\ w.pc = "promote" /\ w'.pc # "promote" => w.cur \notin Held'

LEMMA IdsRange == ASSUME RowsOK PROVE Ids = 1 .. Len(cands) /\ Len(cands) \in Nat
BY DEF RowsOK, Ids

LEMMA LineageKept ==
  ASSUME RowsOK, LineageOK, Ids' = Ids, Len(cands') = Len(cands),
         \A i \in Ids : Evolves(cands[i], cands'[i])
  PROVE  LineageOK'
<1>1. Ids = 1 .. Len(cands) /\ Len(cands) \in Nat
  BY IdsRange
<1>2. \A i \in Ids : cands'[i].tier = cands[i].tier /\ cands'[i].par = cands[i].par
  BY DEF Evolves
<1>3. (\A j \in Ids : /\ cands[j].tier = "ORIGINAL" <=> j = 1
                      /\ j = 1 => cands[j].par = 0
                      /\ j > 1 => cands[j].par \in 1 .. j - 1 /\ Failed(cands[cands[j].par]))'
  <2> SUFFICES ASSUME NEW j \in Ids
               PROVE  /\ cands'[j].tier = "ORIGINAL" <=> j = 1
                      /\ j = 1 => cands'[j].par = 0
                      /\ j > 1 => cands'[j].par \in 1 .. j - 1 /\ Failed(cands'[cands'[j].par])
    OBVIOUS
  <2>1. /\ cands[j].tier = "ORIGINAL" <=> j = 1
        /\ j = 1 => cands[j].par = 0
        /\ j > 1 => cands[j].par \in 1 .. j - 1 /\ Failed(cands[cands[j].par])
    BY DEF LineageOK
  <2>2. j > 1 => Failed(cands'[cands[j].par])
    <3> SUFFICES ASSUME j > 1 PROVE Failed(cands'[cands[j].par])
      OBVIOUS
    <3>1. cands[j].par \in Ids
      BY <1>1, <2>1
    <3> QED BY <2>1, <3>1 DEF Evolves
  <2> QED BY <1>2, <2>1, <2>2
<1>4. (\A i, j \in Ids : i < j => \/ Place(cands[i].tier) < Place(cands[j].tier)
                                  \/ cands[i].tier = "D" /\ cands[j].tier = "D")'
  BY <1>2 DEF LineageOK
<1>5. (\A i \in Ids : cands[i].tier # "D" /\ i < Len(cands) =>
         /\ cands[i + 1].par = i /\ cands[i + 1].tier = Heir(cands[i])
         /\ cands[i].tier = "A2" /\ cands[i].verdict # "FRAME" => cands[i].repair # "none")'
  <2> SUFFICES ASSUME NEW i \in Ids, cands[i].tier # "D", i < Len(cands)
               PROVE  /\ cands'[i + 1].par = i /\ cands'[i + 1].tier = Heir(cands'[i])
                      /\ cands'[i].tier = "A2" /\ cands'[i].verdict # "FRAME"
                           => cands'[i].repair # "none"
    BY <1>2
  <2>1. i + 1 \in Ids /\ i + 1 > 1
    BY <1>1
  <2>2. /\ cands[i + 1].par = i /\ cands[i + 1].tier = Heir(cands[i])
        /\ cands[i].tier = "A2" /\ cands[i].verdict # "FRAME" => cands[i].repair # "none"
    BY DEF LineageOK
  <2>3. Failed(cands[i])
    BY <2>1, <2>2 DEF LineageOK
  <2>4. /\ cands'[i].verdict = cands[i].verdict
        /\ cands[i].repair # "none" => cands'[i].repair = cands[i].repair
    BY <2>3 DEF Evolves
  <2>5. Heir(cands'[i]) = Heir(cands[i])
    <3>1. CASE cands[i].tier = "A2" /\ cands[i].verdict # "FRAME"
      BY <1>2, <2>2, <2>4, <3>1 DEF Heir
    <3>2. CASE ~(cands[i].tier = "A2" /\ cands[i].verdict # "FRAME")
      <4>1. cands'[i].tier = cands[i].tier /\ cands'[i].verdict = cands[i].verdict
        BY <1>2, <2>4
      <4> QED BY <3>2, <4>1 DEF Heir
    <3> QED BY <3>1, <3>2
  <2> QED BY <1>2, <2>1, <2>2, <2>4, <2>5
<1>6. (\A j \in Ids : cands[j].tier = "B2" /\ cands[j].ledger = "none" =>
         j > 1 /\ cands[cands[j].par].tier = "B1")'
  BY <1>1, <1>2 DEF LineageOK, Evolves
<1> QED BY <1>3, <1>4, <1>5, <1>6 DEF LineageOK

LEMMA RevisionsKept ==
  ASSUME RowsOK, RevisionsOK, Ids' = Ids, revs \in Nat, revs' \in Nat, revs' >= revs,
         \A i \in Ids : Evolves(cands[i], cands'[i]) /\ (cands'[i].b2row => cands[i].b2row)
  PROVE  RevisionsOK'
<1>1. \A i \in Ids : cands[i].rev \in Nat
  BY DEF RowsOK, RowOK, Candidates
<1>2. \A i \in Ids : cands'[i].rev = cands[i].rev /\ cands'[i].tier = cands[i].tier
  BY DEF Evolves
<1> QED BY <1>1, <1>2 DEF RevisionsOK, RevisionsDistinct

LEMMA FirmKept ==
  ASSUME WorkerOK, SupersededOK, Ids' = Ids, Handover,
         \A i \in Ids : Evolves(cands[i], cands'[i]) /\ Steady(cands[i], cands'[i], i \in Held)
  PROVE  Firm \subseteq Firm'
<1> SUFFICES ASSUME NEW i \in Firm PROVE i \in Firm'
  OBVIOUS
<1>1. i \in Ids
  BY DEF Firm
<1>2. CASE cands[i].human = "APPROVE"
  BY <1>1, <1>2 DEF Evolves, Firm
<1>3. CASE cands[i].human # "APPROVE"
  <2>1. cands[i].state = "ACCEPTED" /\ ~Promoting(i) /\ i \notin Held
    BY <1>1, <1>3 DEF Firm, SupersededOK, Held
  <2>2. cands'[i].state = "ACCEPTED"
    BY <1>1, <2>1 DEF Steady
  <2>3. ~Promoting(i)'
    BY <2>1 DEF Handover, Promoting
  <2> QED BY <1>1, <2>2, <2>3 DEF Firm
<1> QED BY <1>2, <1>3

LEMMA SupersededKept ==
  ASSUME WorkerOK, SupersededOK, 0 \notin Ids, Ids' = Ids, Handover,
         \A i \in Ids : Evolves(cands[i], cands'[i]) /\ Steady(cands[i], cands'[i], i \in Held)
  PROVE  SupersededOK'
<1>1. Firm \subseteq Firm'
  BY FirmKept
<1>2. \A i \in Ids : cands'[i].state = "SUPERSEDED" =>
        Firm' # {} \/ \E j \in Ids : cands'[j].par = i /\ cands'[j].ledger # "none"
  BY <1>1 DEF SupersededOK, Evolves, Steady
<1>3. ASSUME NEW i \in Ids, cands'[i].state = "ACCEPTED", cands'[i].human # "APPROVE",
             ~Promoting(i)'
      PROVE  i \notin w'.todo /\ i # w'.cur
  <2>1. cands[i].state = "ACCEPTED" /\ cands[i].human # "APPROVE"
    BY <1>3 DEF Steady, Evolves
  <2>2. CASE Promoting(i)
    BY <1>3, <2>2 DEF Promoting, Handover, Held
  <2>3. CASE ~Promoting(i)
    <3>1. i \notin Held
      BY <2>1, <2>3 DEF SupersededOK, Held
    <3> QED BY <2>1, <3>1 DEF Handover, Held
  <2> QED BY <2>2, <2>3
<1> QED BY <1>2, <1>3 DEF SupersededOK

LEMMA AliveKept ==
  ASSUME AliveOK, Ids' = Ids, cands = <<>> => cands' = <<>>,
         \A i \in Ids : Evolves(cands[i], cands'[i]) /\ Steady(cands[i], cands'[i], i \in Held)
  PROVE  AliveOK'
BY DEF AliveOK, Leaf, Evolves, Steady

\* Every row goes on, and none is given up.
LEMMA TableKept ==
  ASSUME IInv, setting' = setting, Handover, Ids' = Ids, Len(cands') = Len(cands),
         cands' \in Seq(Candidates), revs' \in Nat, revs' >= revs,
         \A i \in Ids : /\ RowOK(cands'[i], setting.auto)
                        /\ Evolves(cands[i], cands'[i])
                        /\ Steady(cands[i], cands'[i], i \in Held)
                        /\ cands'[i].b2row => cands[i].b2row
  PROVE  TableOK'
<1>1. RowsOK /\ LineageOK /\ RevisionsOK /\ SupersededOK /\ AliveOK /\ WorkerOK
  BY DEF IInv, TableOK
<1>2. Ids = 1 .. Len(cands) /\ Len(cands) \in Nat
  BY <1>1, IdsRange
<1>3. RowsOK'
  BY <1>1 DEF RowsOK
<1>4. LineageOK'
  BY <1>1, LineageKept
<1>5. RevisionsOK'
  <2>1. revs \in Nat
    BY BoundAssumption DEF IInv, ScalarsOK
  <2> QED BY <1>1, <2>1, RevisionsKept
<1>6. SupersededOK'
  BY <1>1, <1>2, SupersededKept
<1>7. AliveOK'
  <2>1. cands = <<>> => cands' = <<>>
    BY <1>1 DEF RowsOK
  <2> QED BY <1>1, <2>1, AliveKept
<1> QED BY <1>3, <1>4, <1>5, <1>6, <1>7 DEF TableOK

\* One row changes.
LEMMA RowStep ==
  ASSUME IInv, setting' = setting, Handover, revs' = revs, NEW i \in Ids,
         One(cands, cands', i), RowOK(cands'[i], setting.auto),
         Evolves(cands[i], cands'[i]), Steady(cands[i], cands'[i], i \in Held),
         cands'[i].b2row => cands[i].b2row
  PROVE  TableOK' /\ Ids' = Ids
<1>1. Ids' = Ids /\ Len(cands') = Len(cands) /\ cands' \in Seq(Candidates)
  BY DEF One, Ids
<1>2. revs' \in Nat /\ revs' >= revs
  BY BoundAssumption DEF IInv, ScalarsOK
<1>3. ASSUME NEW j \in Ids
      PROVE  /\ RowOK(cands'[j], setting.auto)
             /\ Evolves(cands[j], cands'[j])
             /\ Steady(cands[j], cands'[j], j \in Held)
             /\ cands'[j].b2row => cands[j].b2row
  <2>1. CASE j = i
    BY <2>1
  <2>2. CASE j # i
    <3>1. cands'[j] = cands[j]
      BY <2>2 DEF One, Ids
    <3>2. RowOK(cands[j], setting.auto)
      BY DEF IInv, TableOK, RowsOK
    <3> QED BY <3>1, <3>2 DEF Evolves, Steady
  <2> QED BY <2>1, <2>2
<1> QED BY <1>1, <1>2, <1>3, TableKept

\* The table stays as it is.
LEMMA SameTable ==
  ASSUME IInv, setting' = setting, Handover, cands' = cands, revs' \in Nat, revs' >= revs
  PROVE  TableOK' /\ Ids' = Ids
<1>1. Ids' = Ids /\ cands \in Seq(Candidates)
  BY DEF Ids, IInv, TableOK, RowsOK
<1>2. \A j \in Ids : /\ RowOK(cands[j], setting.auto)
                     /\ Evolves(cands[j], cands[j]) /\ Steady(cands[j], cands[j], j \in Held)
  BY DEF IInv, TableOK, RowsOK, Evolves, Steady
<1> QED BY <1>1, <1>2, TableKept

-----------------------------------------------------------------------------
(* The store's operations                                                       *)

LEMMA RowReplacedBy ==
  ASSUME NEW c \in Seq(Candidates), NEW i \in DOMAIN c
  PROVE  c[i] \in Candidates /\ One(c, c, i)
BY DEF One

LEMMA RowTypes ==
  ASSUME NEW r \in Candidates
  PROVE  /\ r.infra \in 0 .. 2 /\ r.dest \in Nat /\ r.frame \in Nat /\ r.rev \in Nat
         /\ r.ledger \in {"none", "PLANNED", "RECIPE_BOUND", "QC_COMPLETE"}
         /\ r.tier \in Tiers /\ r.calls \in Nat
BY DEF Candidates

LEMMA StatesListed ==
  /\ "PENDING_GENERATION" \in States /\ "GENERATING" \in States /\ "PENDING_QC" \in States
  /\ "QC_RUNNING" \in States /\ "PASS_PENDING_HUMAN" \in States
  /\ "HOLD_FOR_REVIEW" \in States /\ "DEFERRED" \in States /\ "PAUSED" \in States
  /\ "FINAL_PENDING" \in States /\ "FINAL_RENDERING" \in States /\ "ACCEPTED" \in States
  /\ "SUPERSEDED" \in States
BY DEF States

LEMMA NextsListed ==
  /\ "none" \in NextActions /\ "evaluate" \in NextActions /\ "retry_evaluation" \in NextActions
  /\ "route_existing_evidence" \in NextActions /\ "await_human" \in NextActions
  /\ "hold_for_review" \in NextActions /\ "planner_failure" \in NextActions
  /\ "deferred_untried_strategy_required" \in NextActions
  /\ "resume_adaptive" \in NextActions /\ "human_hold" \in NextActions
  /\ "operator_pause" \in NextActions /\ "retry_repair_generation" \in NextActions
  /\ "render_a1" \in NextActions /\ "render_b1" \in NextActions /\ "render_b2" \in NextActions
  /\ "render_adaptive_draft" \in NextActions /\ "render_final" \in NextActions
BY DEF NextActions

LEMMA Set_OK ==
  ASSUME NEW c \in Seq(Candidates), NEW i \in DOMAIN c, NEW s \in States, NEW n \in NextActions,
         NEW d, d = SetState(c, i, s, n)
  PROVE  /\ One(c, d, i) /\ Kept(c[i], d[i])
         /\ d[i].state = s /\ d[i].human = c[i].human /\ d[i].final = c[i].final
<1>1. c[i] \in Candidates
  OBVIOUS
<1>2. d = [c EXCEPT ![i] = RowSet(c[i], s, n)]
  BY <1>1 DEF SetState, Candidates, RowSet
<1>3. RowSet(c[i], s, n) \in Candidates
  BY <1>1, RowSet_Fields DEF Kept, SameCandidate
<1>4. One(c, d, i) /\ d[i] = RowSet(c[i], s, n)
  BY <1>2, <1>3, RowReplaced
<1> QED BY <1>1, <1>4, RowSet_Fields

ChargeTo(c, i, k, s, n) == SetState([c EXCEPT ![i].infra = k], i, s, n)

LEMMA ChargeTo_OK ==
  ASSUME NEW c \in Seq(Candidates), NEW i \in DOMAIN c, NEW k \in 0 .. 2,
         NEW s \in States, NEW n \in NextActions,
         NEW d, d = ChargeTo(c, i, k, s, n)
  PROVE  /\ One(c, d, i) /\ Kept(c[i], d[i])
         /\ d[i].state = s /\ d[i].human = c[i].human /\ d[i].final = c[i].final
<1>1. c[i] \in Candidates
  OBVIOUS
<1>2. d = [c EXCEPT ![i] = RowCharged(c[i], k, s, n)]
  BY <1>1 DEF ChargeTo, SetState, Candidates, RowCharged
<1>3. RowCharged(c[i], k, s, n) \in Candidates
  BY <1>1, RowCharged_Fields DEF Kept, SameCandidate
<1>4. One(c, d, i) /\ d[i] = RowCharged(c[i], k, s, n)
  BY <1>2, <1>3, RowReplaced
<1> QED BY <1>1, <1>4, RowCharged_Fields

LEMMA InfraFailure_OK ==
  ASSUME NEW c \in Seq(Candidates), NEW i \in DOMAIN c, NEW d, d = InfraFailure(c, i)
  PROVE  /\ One(c, d, i) /\ Kept(c[i], d[i])
         /\ d[i].state \in {c[i].state, "HOLD_FOR_REVIEW", "PENDING_QC"}
         /\ d[i].human = c[i].human /\ d[i].final = c[i].final
<1>1. c[i] \in Candidates /\ c[i].infra \in 0 .. 2
  BY RowTypes
<1>2. CASE c[i].infra >= 2
  BY <1>1, <1>2, RowReplacedBy DEF InfraFailure, Kept, SameCandidate, SameVerdict, SamePlan
<1>3. CASE ~(c[i].infra >= 2)
  <2>1. PICK k : k = c[i].infra + 1
    OBVIOUS
  <2>2. k \in 0 .. 2
    BY <1>1, <1>3, <2>1
  <2>3. CASE k >= 2
    <3>1. d = ChargeTo(c, i, k, "HOLD_FOR_REVIEW", "hold_for_review")
      BY <1>3, <2>1, <2>3 DEF InfraFailure, ChargeTo
    <3>2. "HOLD_FOR_REVIEW" \in States /\ "hold_for_review" \in NextActions
      BY StatesListed, NextsListed
    <3>3. /\ One(c, d, i) /\ Kept(c[i], d[i])
          /\ d[i].state = "HOLD_FOR_REVIEW" /\ d[i].human = c[i].human /\ d[i].final = c[i].final
      BY <2>2, <3>1, <3>2, ChargeTo_OK
    <3> QED BY <3>3
  <2>4. CASE ~(k >= 2)
    <3>1. d = ChargeTo(c, i, k, "PENDING_QC", "retry_evaluation")
      BY <1>3, <2>1, <2>4 DEF InfraFailure, ChargeTo
    <3>2. "PENDING_QC" \in States /\ "retry_evaluation" \in NextActions
      BY StatesListed, NextsListed
    <3>3. /\ One(c, d, i) /\ Kept(c[i], d[i])
          /\ d[i].state = "PENDING_QC" /\ d[i].human = c[i].human /\ d[i].final = c[i].final
      BY <2>2, <3>1, <3>2, ChargeTo_OK
    <3> QED BY <3>3
  <2> QED BY <2>3, <2>4
<1> QED BY <1>2, <1>3

LEMMA GenerationFailure_OK ==
  ASSUME NEW c \in Seq(Candidates), NEW i \in DOMAIN c, NEW retryable \in BOOLEAN,
         NEW d, d = GenerationFailure(c, i, retryable)
  PROVE  /\ One(c, d, i) /\ Kept(c[i], d[i])
         /\ d[i].state \in {c[i].state, "HOLD_FOR_REVIEW", "PENDING_GENERATION"}
         /\ d[i].human = c[i].human /\ d[i].final = c[i].final
<1>1. c[i] \in Candidates /\ c[i].infra \in 0 .. 2
  BY RowTypes
<1>2. CASE c[i].state = "HOLD_FOR_REVIEW"
  BY <1>1, <1>2, RowReplacedBy DEF GenerationFailure, Kept, SameCandidate, SameVerdict, SamePlan
<1>3. CASE c[i].state # "HOLD_FOR_REVIEW"
  <2>1. PICK k : k = IF c[i].infra >= 2 THEN 2 ELSE c[i].infra + 1
    OBVIOUS
  <2>2. k \in 0 .. 2
    BY <1>1, <2>1
  <2>3. PICK hold : hold = (~retryable \/ c[i].infra >= 1)
    OBVIOUS
  <2>4. [c EXCEPT ![i].infra = IF @ >= 2 THEN 2 ELSE @ + 1] = [c EXCEPT ![i].infra = k]
    BY <2>1
  <2>5. CASE hold
    <3>1. d = ChargeTo(c, i, k, "HOLD_FOR_REVIEW", "hold_for_review")
      BY <1>3, <2>3, <2>4, <2>5 DEF GenerationFailure, ChargeTo
    <3>2. "HOLD_FOR_REVIEW" \in States /\ "hold_for_review" \in NextActions
      BY StatesListed, NextsListed
    <3>3. /\ One(c, d, i) /\ Kept(c[i], d[i])
          /\ d[i].state = "HOLD_FOR_REVIEW" /\ d[i].human = c[i].human /\ d[i].final = c[i].final
      BY <2>2, <3>1, <3>2, ChargeTo_OK
    <3> QED BY <3>3
  <2>6. CASE ~hold
    <3>1. d = ChargeTo(c, i, k, "PENDING_GENERATION", "retry_repair_generation")
      BY <1>3, <2>3, <2>4, <2>6 DEF GenerationFailure, ChargeTo
    <3>2. "PENDING_GENERATION" \in States /\ "retry_repair_generation" \in NextActions
      BY StatesListed, NextsListed
    <3>3. /\ One(c, d, i) /\ Kept(c[i], d[i])
          /\ d[i].state = "PENDING_GENERATION" /\ d[i].human = c[i].human /\ d[i].final = c[i].final
      BY <2>2, <3>1, <3>2, ChargeTo_OK
    <3> QED BY <3>3
  <2> QED BY <2>5, <2>6
<1> QED BY <1>2, <1>3

LEMMA SetOwner_OK ==
  ASSUME NEW c \in Seq(Candidates), NEW i \in DOMAIN c, NEW o \in {"t2i", "i2v"},
         NEW d, d = SetOwner(c, i, o)
  PROVE  /\ One(c, d, i) /\ Kept(c[i], d[i])
         /\ d[i].state = "GENERATING" /\ d[i].human = c[i].human /\ d[i].final = c[i].final
<1>1. c[i] \in Candidates
  OBVIOUS
<1>2. PICK s \in States : s = "GENERATING"
  BY StatesListed
<1>3. d = [c EXCEPT ![i] = RowOwned(c[i], o, s)]
  BY <1>1, <1>2 DEF SetOwner, Candidates, RowOwned
<1>4. RowOwned(c[i], o, s) \in Candidates
  BY <1>1, RowOwned_Fields DEF Kept, SameCandidate
<1>5. One(c, d, i) /\ d[i] = RowOwned(c[i], o, s)
  BY <1>3, <1>4, RowReplaced
<1> QED BY <1>1, <1>2, <1>5, RowOwned_Fields

LEMMA CompleteGeneration_OK ==
  ASSUME NEW c \in Seq(Candidates), NEW i \in DOMAIN c, NEW d, d = CompleteGeneration(c, i)
  PROVE  /\ One(c, d, i) /\ Kept(c[i], d[i])
         /\ d[i].state = "PENDING_QC" /\ d[i].human = c[i].human /\ d[i].final = c[i].final
<1>1. c[i] \in Candidates /\ c[i].dest \in Nat
  BY RowTypes
<1>2. PICK s \in States : s = "PENDING_QC"
  BY StatesListed
<1>3. d = [c EXCEPT ![i] = RowClip(c[i], c[i].dest, s, "evaluate")]
  BY <1>1, <1>2 DEF CompleteGeneration, SetState, Candidates, RowClip
<1>4. RowClip(c[i], c[i].dest, s, "evaluate") \in Candidates
  BY <1>1, RowClip_Fields, NextsListed DEF Kept, SameCandidate
<1>5. One(c, d, i) /\ d[i] = RowClip(c[i], c[i].dest, s, "evaluate")
  BY <1>3, <1>4, RowReplaced
<1> QED BY <1>1, <1>2, <1>5, RowClip_Fields, NextsListed

LEMMA UpdateAttempt_OK ==
  ASSUME NEW c \in Seq(Candidates), NEW i \in DOMAIN c, NEW l \in {"RECIPE_BOUND", "QC_COMPLETE"},
         NEW d, d = UpdateAttempt(c, i, l)
  PROVE  /\ One(c, d, i) /\ Kept(c[i], d[i])
         /\ d[i].state = c[i].state /\ d[i].human = c[i].human /\ d[i].final = c[i].final
<1>1. c[i] \in Candidates
  OBVIOUS
<1>2. CASE c[i].ledger = "none"
  <2>1. d = c
    BY <1>1, <1>2 DEF UpdateAttempt, Candidates
  <2> QED BY <1>1, <2>1, RowReplacedBy DEF Kept, SameCandidate, SameVerdict, SamePlan
<1>3. CASE c[i].ledger # "none"
  <2>1. d = [c EXCEPT ![i] = RowLedger(c[i], l)]
    BY <1>1, <1>3 DEF UpdateAttempt, Candidates, RowLedger
  <2>2. RowLedger(c[i], l) \in Candidates
    BY <1>1, RowLedger_Fields
  <2>3. One(c, d, i) /\ d[i] = RowLedger(c[i], l)
    BY <2>1, <2>2, RowReplaced
  <2> QED BY <1>1, <1>3, <2>3, RowLedger_Fields DEF Kept, SameCandidate
<1> QED BY <1>2, <1>3

LEMMA BindRecipe_OK ==
  ASSUME NEW c \in Seq(Candidates), NEW i \in DOMAIN c, NEW d, d = BindRecipe(c, i)
  PROVE  /\ One(c, d, i) /\ Kept(c[i], d[i])
         /\ d[i].state = c[i].state /\ d[i].human = c[i].human /\ d[i].final = c[i].final
<1>1. CASE d = c
  BY <1>1, RowReplacedBy DEF Kept, SameCandidate, SameVerdict, SamePlan
<1>2. CASE d = UpdateAttempt(c, i, "RECIPE_BOUND")
  BY <1>2, UpdateAttempt_OK
<1> QED BY <1>1, <1>2 DEF BindRecipe

LEMMA EnsureAttempt_OK ==
  ASSUME NEW c \in Seq(Candidates), NEW i \in DOMAIN c, NEW d, d = EnsureAttempt(c, i)
  PROVE  /\ One(c, d, i) /\ d[i] \in Candidates /\ d[i].tier = c[i].tier
         /\ d[i].par = c[i].par /\ d[i].rev = c[i].rev /\ d[i].ledger # "none"
         /\ SameVerdict(c[i], d[i]) /\ SamePlan(c[i], d[i]) /\ d[i].b2row = c[i].b2row
         /\ d[i].state = c[i].state /\ d[i].human = c[i].human /\ d[i].final = c[i].final
<1>1. c[i] \in Candidates /\ c[i].ledger \in {"none", "PLANNED", "RECIPE_BOUND", "QC_COMPLETE"}
  BY RowTypes
<1>2. PICK l \in {"PLANNED", "RECIPE_BOUND", "QC_COMPLETE"} :
        l = IF c[i].ledger = "none" THEN "PLANNED" ELSE c[i].ledger
  BY <1>1
<1>3. d = [c EXCEPT ![i] = RowLedger(c[i], l)]
  BY <1>1, <1>2 DEF EnsureAttempt, Candidates, RowLedger
<1>4. RowLedger(c[i], l) \in Candidates
  BY <1>1, RowLedger_Fields
<1>5. One(c, d, i) /\ d[i] = RowLedger(c[i], l)
  BY <1>3, <1>4, RowReplaced
<1>6. l # "none"
  OBVIOUS
<1> QED BY <1>1, <1>5, <1>6, RowLedger_Fields

SetFinal(c, i, f) == [c EXCEPT ![i].final = f]

LEMMA SetFinal_OK ==
  ASSUME NEW c \in Seq(Candidates), NEW i \in DOMAIN c, NEW f \in {"none", "PENDING", "RENDERING", "FAILED", "COMPLETE"},
         NEW d, d = SetFinal(c, i, f)
  PROVE  /\ One(c, d, i) /\ Kept(c[i], d[i])
         /\ d[i].state = c[i].state /\ d[i].human = c[i].human /\ d[i].final = f
<1>1. c[i] \in Candidates
  OBVIOUS
<1>2. d = [c EXCEPT ![i] = RowFinal(c[i], f)]
  BY <1>1 DEF SetFinal, Candidates, RowFinal
<1>3. RowFinal(c[i], f) \in Candidates
  BY <1>1, RowFinal_Fields DEF Kept, SameCandidate
<1>4. One(c, d, i) /\ d[i] = RowFinal(c[i], f)
  BY <1>2, <1>3, RowReplaced
<1> QED BY <1>1, <1>4, RowFinal_Fields

SetStage(c, i, f) == [c EXCEPT ![i].stage = f]

LEMMA SetStage_OK ==
  ASSUME NEW c \in Seq(Candidates), NEW i \in DOMAIN c, NEW f \in {"DRAFT", "LEGACY_FINAL", "FINAL"},
         NEW d, d = SetStage(c, i, f)
  PROVE  /\ One(c, d, i) /\ Kept(c[i], d[i])
         /\ d[i].state = c[i].state /\ d[i].human = c[i].human /\ d[i].final = c[i].final
<1>1. c[i] \in Candidates
  OBVIOUS
<1>2. d = [c EXCEPT ![i] = RowStage(c[i], f)]
  BY <1>1 DEF SetStage, Candidates, RowStage
<1>3. RowStage(c[i], f) \in Candidates
  BY <1>1, RowStage_Fields DEF Kept, SameCandidate
<1>4. One(c, d, i) /\ d[i] = RowStage(c[i], f)
  BY <1>2, <1>3, RowReplaced
<1> QED BY <1>1, <1>4, RowStage_Fields

SetDest(c, i, f) == [c EXCEPT ![i].dest = f]

LEMMA SetDest_OK ==
  ASSUME NEW c \in Seq(Candidates), NEW i \in DOMAIN c, NEW f \in Nat,
         NEW d, d = SetDest(c, i, f)
  PROVE  /\ One(c, d, i) /\ Kept(c[i], d[i])
         /\ d[i].state = c[i].state /\ d[i].human = c[i].human /\ d[i].final = c[i].final
<1>1. c[i] \in Candidates
  OBVIOUS
<1>2. d = [c EXCEPT ![i] = RowDest(c[i], f)]
  BY <1>1 DEF SetDest, Candidates, RowDest
<1>3. RowDest(c[i], f) \in Candidates
  BY <1>1, RowDest_Fields DEF Kept, SameCandidate
<1>4. One(c, d, i) /\ d[i] = RowDest(c[i], f)
  BY <1>2, <1>3, RowReplaced
<1> QED BY <1>1, <1>4, RowDest_Fields

SetFrame(c, i, f) == [c EXCEPT ![i].frame = f]

LEMMA SetFrame_OK ==
  ASSUME NEW c \in Seq(Candidates), NEW i \in DOMAIN c, NEW f \in Nat,
         NEW d, d = SetFrame(c, i, f)
  PROVE  /\ One(c, d, i) /\ Kept(c[i], d[i])
         /\ d[i].state = c[i].state /\ d[i].human = c[i].human /\ d[i].final = c[i].final
<1>1. c[i] \in Candidates
  OBVIOUS
<1>2. d = [c EXCEPT ![i] = RowFrame(c[i], f)]
  BY <1>1 DEF SetFrame, Candidates, RowFrame
<1>3. RowFrame(c[i], f) \in Candidates
  BY <1>1, RowFrame_Fields DEF Kept, SameCandidate
<1>4. One(c, d, i) /\ d[i] = RowFrame(c[i], f)
  BY <1>2, <1>3, RowReplaced
<1> QED BY <1>1, <1>4, RowFrame_Fields

LEMMA FinalRendering_OK ==
  ASSUME NEW c \in Seq(Candidates), NEW i \in DOMAIN c, NEW d, d = UpdateFinal(c, i, "RENDERING")
  PROVE  /\ One(c, d, i) /\ Kept(c[i], d[i])
         /\ d[i].state = "FINAL_RENDERING" /\ d[i].human = c[i].human
<1>1. c[i] \in Candidates
  OBVIOUS
<1>2. PICK s \in States : s = "FINAL_RENDERING"
  BY StatesListed
<1>3. d = SetState([c EXCEPT ![i].final = "RENDERING"], i, s, "render_final")
  BY <1>2 DEF UpdateFinal
<1>4. d = [c EXCEPT ![i] = RowRendering(c[i], "RENDERING", s, "render_final")]
  BY <1>1, <1>3 DEF SetState, Candidates, RowRendering
<1>5. RowRendering(c[i], "RENDERING", s, "render_final") \in Candidates
  BY <1>1, RowRendering_Fields, NextsListed DEF Kept, SameCandidate
<1>6. One(c, d, i) /\ d[i] = RowRendering(c[i], "RENDERING", s, "render_final")
  BY <1>4, <1>5, RowReplaced
<1> QED BY <1>1, <1>2, <1>6, RowRendering_Fields, NextsListed

-----------------------------------------------------------------------------
(* Steps that have much in common                                               *)

\* States a row may enter in any hand.
Plain == {"PENDING_GENERATION", "GENERATING", "PENDING_QC", "QC_RUNNING", "HOLD_FOR_REVIEW",
          "DEFERRED", "PAUSED"}
MayEnter(c, s, auto, mine) ==
  /\ \/ s = c.state \/ s \in Plain
     \/ s \in {"FINAL_PENDING", "FINAL_RENDERING", "ACCEPTED"} /\ c.human = "APPROVE"
     \/ s = "PASS_PENDING_HUMAN" /\ ~auto
  /\ c.state = "ACCEPTED" => s = "ACCEPTED" \/ mine

\* One row changes its state, its files or its FINAL, and stays what it is otherwise.
LEMMA KeptStep ==
  ASSUME IInv, setting' = setting, revs' = revs, Handover, NEW i \in Ids,
         One(cands, cands', i), Kept(cands[i], cands'[i]), cands'[i].human = cands[i].human,
         cands'[i].final = cands[i].final \/ cands[i].human = "APPROVE",
         MayEnter(cands[i], cands'[i].state, setting.auto, i \in Held)
  PROVE  TableOK' /\ Ids' = Ids
<1>1. RowOK(cands[i], setting.auto)
  BY DEF IInv, TableOK, RowsOK
<1>2. RowOK(cands'[i], setting.auto)
  BY <1>1 DEF RowOK, MayEnter, Plain, Kept, SameCandidate, SameVerdict, SamePlan
<1>3. Evolves(cands[i], cands'[i])
  BY DEF Evolves, Failed, Kept, SameCandidate, SameVerdict, SamePlan
<1>4. Steady(cands[i], cands'[i], i \in Held)
  BY DEF Steady, MayEnter, Plain
<1>5. cands'[i].b2row => cands[i].b2row
  BY DEF Kept
<1> QED BY <1>2, <1>3, <1>4, <1>5, RowStep

LEMMA InfraStep ==
  ASSUME IInv, setting' = setting, revs' = revs, Handover, NEW i \in Ids, i \in Held,
         cands' = InfraFailure(cands, i)
  PROVE  TableOK' /\ Ids' = Ids
<1>1. cands \in Seq(Candidates)
  BY DEF IInv, TableOK, RowsOK
<1>2. /\ One(cands, cands', i) /\ Kept(cands[i], cands'[i])
      /\ cands'[i].state \in {cands[i].state, "HOLD_FOR_REVIEW", "PENDING_QC"}
      /\ cands'[i].human = cands[i].human /\ cands'[i].final = cands[i].final
  BY <1>1, InfraFailure_OK DEF Ids
<1>3. MayEnter(cands[i], cands'[i].state, setting.auto, i \in Held)
  BY <1>2 DEF MayEnter, Plain
<1> QED BY <1>2, <1>3, KeptStep

LEMMA SetStep ==
  ASSUME IInv, setting' = setting, revs' = revs, Handover, NEW i \in Ids,
         NEW s \in States, NEW n \in NextActions, cands' = SetState(cands, i, s, n),
         MayEnter(cands[i], s, setting.auto, i \in Held)
  PROVE  TableOK' /\ Ids' = Ids /\ One(cands, cands', i) /\ Kept(cands[i], cands'[i])
<1>1. cands \in Seq(Candidates)
  BY DEF IInv, TableOK, RowsOK
<1>2. /\ One(cands, cands', i) /\ Kept(cands[i], cands'[i])
      /\ cands'[i].state = s
      /\ cands'[i].human = cands[i].human /\ cands'[i].final = cands[i].final
  BY <1>1, Set_OK DEF Ids
<1> QED BY <1>2, KeptStep

\* Where the worker knows nothing of a candidate.
Blind == RouteSteps \cup FinalSteps
           \cup {"judge", "judging", "manifest", "evidence", "route", "promote"}
LEMMA KnowsNothing ==
  ASSUME w'.pc \notin Blind, w'.out = "none"
  PROVE  KnownOK'
BY DEF KnownOK, EvidenceOK, PlannerOK, ChildOK, FinalOK, Blind, RouteSteps, PlannerSteps,
       FinalSteps

\* A step of the worker inside the epoch that leaves the devices alone.
LEMMA WorkerStep ==
  ASSUME IInv, w.pc # "idle", UNCHANGED <<setting, pstate, comfy, server, ops>>,
         revs' \in 1 .. MaxRevs, faults' = faults \/ Fault,
         w'.pc \in RenderSteps => w.pc \in RenderSteps, w'.pc # "start"
  PROVE  ScalarsOK' /\ DevicesOK' /\ SelectionOK'
<1>1. ScalarsOK'
  BY BoundAssumption DEF IInv, ScalarsOK, Fault
<1>2. DevicesOK'
  BY DEF IInv, DevicesOK, GpuExclusive
<1>3. SelectionOK'
  BY DEF IInv, SelectionOK
<1> QED BY <1>1, <1>2, <1>3

LEMMA RevsTyped == ASSUME IInv PROVE revs \in 1 .. MaxRevs /\ revs \in Nat /\ MaxRevs \in Nat
BY BoundAssumption DEF IInv, ScalarsOK

LEMMA CurOf == ASSUME IInv PROVE /\ 0 \notin Ids /\ cands \in Seq(Candidates)
                                 /\ w.pc \in CurSteps => w.cur \in Ids
                                 /\ w.todo \subseteq Ids /\ WorkerOK
                                 /\ Ids = 1 .. Len(cands) /\ Len(cands) \in Nat
                                 /\ \A i \in Ids : RowOK(cands[i], setting.auto)
                                 /\ \A i \in Ids : cands[i] \in Candidates
<1>1. RowsOK /\ WorkerOK
  BY DEF IInv, TableOK
<1> QED BY <1>1, IdsRange DEF RowsOK, RowOK, WorkerOK, Ids

\* An exception that is charged to a candidate of the evaluation.
LEMMA ChargedStep ==
  ASSUME IInv, UNCHANGED <<setting, revs>>, NEW i \in Ids, i \in Held, w.pc # "promote" \/ i = w.cur,
         Charged(i)
  PROVE  WorkerOK' /\ TableOK' /\ KnownOK' /\ w'.pc = "evaluate"
<1>1. WorkerOK /\ 0 \notin Ids
  BY CurOf
<1>2. /\ Shape(w') /\ w'.pc = "evaluate" /\ w'.todo = w.todo \ {i} /\ w'.cur = 0
      /\ w'.child = 0 /\ w'.out = "none"
  BY <1>1, DoneTurn DEF Charged
<1>3. Handover
  BY <1>1, <1>2 DEF Handover, Held
<1>4. TableOK' /\ Ids' = Ids
  BY <1>3, InfraStep DEF Charged
<1>5. WorkerOK'
  BY <1>1, <1>2, <1>4 DEF WorkerOK, Steps, CurSteps, RenderSteps, RouteSteps, PlannerSteps, FinalSteps
<1>6. KnownOK'
  BY <1>2, KnowsNothing DEF Blind, RouteSteps, PlannerSteps, FinalSteps
<1> QED BY <1>2, <1>4, <1>5, <1>6

-----------------------------------------------------------------------------
(* The epoch loop                                                               *)

LEMMA InitIInv == ASSUME Init PROVE IInv
<1>1. Ids = {} /\ Len(cands) = 0 /\ cands \in Seq(Candidates)
  BY DEF Init, Ids
<1>2. WorkerOK
  BY <1>1 DEF Init, NoWork, WorkerOK, Shape, Steps, CurSteps, RenderSteps, RouteSteps,
              PlannerSteps, FinalSteps
<1>3. ScalarsOK
  <2>1. setting \in [auto : BOOLEAN, draft : BOOLEAN]
    BY SettingsAssumption DEF Init
  <2>2. revs \in 1 .. MaxRevs /\ faults \in 0 .. MaxFaults /\ ops \in 0 .. MaxOps
    BY BoundAssumption DEF Init
  <2>3. comfy \in BOOLEAN /\ pstate = "RUNNING_QC" /\ server = "down"
    BY DEF Init
  <2> QED BY <2>1, <2>2, <2>3 DEF ScalarsOK
<1>4. TableOK
  BY <1>1, BoundAssumption
  DEF Init, TableOK, RowsOK, LineageOK, RevisionsOK, RevisionsDistinct, SupersededOK, AliveOK
<1>5. KnownOK
  BY DEF Init, NoWork, KnownOK, EvidenceOK, PlannerOK, ChildOK, FinalOK, RouteSteps,
         PlannerSteps, FinalSteps
<1>6. DevicesOK /\ SelectionOK
  BY DEF Init, NoWork, DevicesOK, GpuExclusive, SelectionOK, RenderSteps, FinalSteps
<1> QED BY <1>2, <1>3, <1>4, <1>5, <1>6 DEF IInv

LEMMA EpochStartIInv == ASSUME IInv, EpochStart PROVE IInv'
<1>1. WorkerOK
  BY CurOf
<1>2. /\ w.pc = "idle" /\ pstate # "STITCHING" /\ w'.pc \in {"register", "loop"}
      /\ w'.pc = "register" => cands = <<>>
      /\ Shape(w') /\ w'.todo = w.todo /\ w'.cur = w.cur /\ w'.child = w.child /\ w'.out = w.out
  BY <1>1, GotoTurn DEF EpochStart
<1>3. w.out = "none"
  BY <1>2 DEF IInv, KnownOK, PlannerOK, RouteSteps, PlannerSteps
<1>4. TableOK' /\ Ids' = Ids
  BY <1>2, SameTable, RevsTyped DEF EpochStart, Handover, Held
<1>5. WorkerOK'
  BY <1>1, <1>2, <1>4 DEF EpochStart, WorkerOK, Steps, CurSteps, RenderSteps, RouteSteps,
                          PlannerSteps, FinalSteps
<1>6. KnownOK'
  BY <1>2, <1>3, KnowsNothing DEF Blind, RouteSteps, PlannerSteps, FinalSteps
<1>7. ScalarsOK' /\ SelectionOK'
  BY <1>2 DEF EpochStart, IInv, ScalarsOK, SelectionOK
<1>8. DevicesOK'
  BY <1>2 DEF EpochStart, IInv, DevicesOK, GpuExclusive, RenderSteps, FinalSteps
<1> QED BY <1>4, <1>5, <1>6, <1>7, <1>8 DEF IInv

LEMMA OriginalOK ==
  ASSUME setting \in [auto : BOOLEAN, draft : BOOLEAN]
  PROVE  /\ RowOK(Original, setting.auto)
         /\ Original.tier = "ORIGINAL" /\ Original.par = 0 /\ Original.rev = 1
         /\ Original.state = "PENDING_QC" /\ Original.b2row = FALSE
<1>1. PICK st, p : /\ st = IF setting.draft THEN "DRAFT" ELSE "LEGACY_FINAL"
                   /\ p = IF setting.draft THEN "draft" ELSE "clip"
  OBVIOUS
<1>2. st \in {"DRAFT", "LEGACY_FINAL", "FINAL"} /\ p \in {"draft", "clip"}
  BY <1>1
<1>3. /\ "ORIGINAL" \in Tiers /\ "PENDING_QC" \in States /\ "evaluate" \in NextActions
      /\ "none" \in Verdicts \cup {"none"}
  BY DEF Tiers, States, NextActions
<1>4. Original \in Candidates
  BY <1>1, <1>2, <1>3 DEF Original, Candidates
<1>5. /\ Original.tier = "ORIGINAL" /\ Original.par = 0 /\ Original.rev = 1
      /\ Original.state = "PENDING_QC" /\ Original.b2row = FALSE
  BY DEF Original
<1>6. /\ Original.calls = 0 /\ Original.final = "none" /\ Original.human = "none"
  BY DEF Original
<1> QED BY <1>4, <1>5, <1>6 DEF RowOK

LEMMA RegisterIInv == ASSUME IInv, Register PROVE IInv'
<1>1. WorkerOK /\ w.pc = "register" /\ cands = <<>> /\ Ids = {}
  BY CurOf DEF Register, WorkerOK, Ids
<1>2. setting \in [auto : BOOLEAN, draft : BOOLEAN]
  BY DEF IInv, ScalarsOK
<1>3. PICK r : r = Original
  OBVIOUS
<1>4. /\ RowOK(r, setting.auto) /\ r \in Candidates
      /\ r.tier = "ORIGINAL" /\ r.par = 0 /\ r.rev = 1 /\ r.state = "PENDING_QC" /\ ~r.b2row
  BY <1>2, <1>3, OriginalOK DEF RowOK
<1>5. cands' = <<r>> /\ setting' = setting /\ revs' = revs
  BY <1>3 DEF Register
<1>6. /\ cands' \in Seq(Candidates) /\ Len(cands') = 1 /\ Ids' = {1} /\ cands'[1] = r
  BY <1>4, <1>5 DEF Ids
<1>7. /\ Shape(w') /\ w'.pc = "loop" /\ w'.todo = w.todo /\ w'.cur = w.cur
      /\ w'.child = w.child /\ w'.out = w.out
  BY <1>1, GotoTurn DEF Register
<1>8. w.out = "none"
  BY <1>1 DEF IInv, KnownOK, PlannerOK, RouteSteps, PlannerSteps
<1>9. WorkerOK'
  BY <1>1, <1>6, <1>7 DEF WorkerOK, Steps, CurSteps, RenderSteps, RouteSteps,
                          PlannerSteps, FinalSteps
<1>10. TableOK'
  <2>1. RowsOK'
    BY <1>4, <1>5, <1>6, BoundAssumption DEF RowsOK
  <2>2. LineageOK'
    BY <1>4, <1>6 DEF LineageOK
  <2>3. RevisionsOK'
    BY <1>4, <1>5, <1>6, RevsTyped DEF RevisionsOK, RevisionsDistinct
  <2>4. SupersededOK' /\ AliveOK'
    BY <1>4, <1>6 DEF SupersededOK, AliveOK, Leaf
  <2> QED BY <2>1, <2>2, <2>3, <2>4 DEF TableOK
<1>11. KnownOK'
  BY <1>7, <1>8, KnowsNothing DEF Blind, RouteSteps, PlannerSteps, FinalSteps
<1>12. ScalarsOK' /\ DevicesOK' /\ SelectionOK'
  BY <1>1, <1>7, WorkerStep, RevsTyped DEF Register, RenderSteps, FinalSteps
<1> QED BY <1>9, <1>10, <1>11, <1>12 DEF IInv

\* The worker leaves the epoch, and the table stays as it is.
LEMMA RaiseStep ==
  ASSUME IInv, UNCHANGED <<setting, cands, revs>>, w' = NoWork
  PROVE  WorkerOK' /\ TableOK' /\ KnownOK' /\ w'.pc = "idle"
<1>1. /\ Shape(w') /\ w'.pc = "idle" /\ w'.todo = {} /\ w'.cur = 0 /\ w'.child = 0
      /\ w'.out = "none"
  BY RaiseTurn
<1>2. Handover
  BY <1>1, CurOf DEF Handover, Held, CurSteps
<1>3. TableOK' /\ Ids' = Ids
  BY <1>2, SameTable, RevsTyped
<1>4. WorkerOK'
  BY <1>1, <1>3 DEF WorkerOK, Steps, CurSteps, RenderSteps, RouteSteps, PlannerSteps, FinalSteps
<1>5. KnownOK'
  BY <1>1, KnowsNothing DEF Blind, RouteSteps, PlannerSteps, FinalSteps
<1> QED BY <1>1, <1>3, <1>4, <1>5

LEMMA HoldIncompleteIInv == ASSUME IInv, HoldIncomplete PROVE IInv'
<1>1. w.pc = "register" /\ WorkerOK' /\ TableOK' /\ KnownOK' /\ w'.pc = "idle"
  BY RaiseStep DEF HoldIncomplete, Raise
<1>2. ScalarsOK' /\ SelectionOK'
  BY DEF HoldIncomplete, IInv, ScalarsOK, SelectionOK
<1>3. DevicesOK'
  BY <1>1 DEF HoldIncomplete, IInv, DevicesOK, GpuExclusive, RenderSteps, FinalSteps
<1> QED BY <1>1, <1>2, <1>3 DEF IInv

LEMMA SelectIInv == ASSUME IInv, Select PROVE IInv'
<1>1. w.pc = "select" /\ WorkerOK' /\ TableOK' /\ KnownOK' /\ w'.pc = "idle"
  BY RaiseStep DEF Select, Raise
<1>2. ScalarsOK'
  BY DEF Select, IInv, ScalarsOK
<1>3. SelectionOK'
  <2>1. Selectable(cands)' <=> Selectable(cands)
    BY DEF Select
  <2> QED BY <1>1, <2>1 DEF Select, SelectionOK
<1>4. DevicesOK'
  BY <1>1 DEF Select, IInv, DevicesOK, GpuExclusive, RenderSteps, FinalSteps
<1> QED BY <1>1, <1>2, <1>3, <1>4 DEF IInv

\* The worker goes on in the epoch with a list of candidates that are not accepted, and
\* the table stays as it is.
LEMMA ListStep ==
  ASSUME IInv, UNCHANGED <<setting, cands, revs>>, Shape(w'), w.pc \notin RouteSteps,
         w.pc # "promote", w'.cur = w.cur, w'.child = w.child, w'.out = w.out,
         \A i \in w'.todo : i \in Ids /\ (i \in w.todo \/ cands[i].state # "ACCEPTED"),
         w'.pc \in {"loop", "requeue", "final", "generate", "pending", "start", "charge",
                    "evaluate", "close", "select"},
         w'.pc = "final" => \A i \in w'.todo : cands[i].human = "APPROVE"
  PROVE  WorkerOK' /\ TableOK' /\ KnownOK'
<1>1. WorkerOK
  BY CurOf
<1>2. TableOK' /\ Ids' = Ids
  <2>1. Handover
    BY DEF Handover, Held
  <2> QED BY <2>1, SameTable, RevsTyped
<1>3. WorkerOK'
  BY <1>1, <1>2 DEF WorkerOK, Steps, CurSteps, RenderSteps, RouteSteps, PlannerSteps, FinalSteps
<1>4. KnownOK'
  <2>1. w'.out = "none"
    BY DEF IInv, KnownOK, PlannerOK
  <2>2. CASE w'.pc = "final"
    BY <2>1, <2>2 DEF KnownOK, EvidenceOK, PlannerOK, ChildOK, FinalOK, RouteSteps, PlannerSteps,
                      FinalSteps
  <2>3. CASE w'.pc # "final"
    BY <2>1, <2>3, KnowsNothing DEF Blind, RouteSteps, PlannerSteps, FinalSteps
  <2> QED BY <2>2, <2>3
<1> QED BY <1>2, <1>3, <1>4

LEMMA RequeueIInv == 
  ASSUME IInv, Requeue, UNCHANGED <<setting, revs, pstate, comfy, server, faults, ops>>
  PROVE  IInv'
<1>1. WorkerOK /\ 0 \notin Ids
  BY CurOf
<1>2. CASE w.pc = "loop" /\ w' = [w EXCEPT !.pc = "requeue", !.todo = Deferred] /\ cands' = cands
  <2>1. /\ Shape(w') /\ w'.pc = "requeue" /\ w'.todo = Deferred /\ w'.cur = w.cur
        /\ w'.child = w.child /\ w'.out = w.out
    BY <1>1, <1>2 DEF WorkerOK, Shape
  <2>2. \A i \in w'.todo : i \in Ids /\ cands[i].state # "ACCEPTED"
    BY <2>1 DEF Deferred
  <2>3. WorkerOK' /\ TableOK' /\ KnownOK'
    BY <1>2, <2>1, <2>2, ListStep DEF RouteSteps, PlannerSteps
  <2>4. ScalarsOK' /\ DevicesOK' /\ SelectionOK'
    BY <1>2, <2>1, WorkerStep, RevsTyped DEF RenderSteps, FinalSteps
  <2> QED BY <2>3, <2>4 DEF IInv
<1>3. ASSUME NEW i \in w.todo, w.pc = "requeue",
             cands' = SetState(cands, i, "PENDING_QC", "route_existing_evidence"),
             w' = [w EXCEPT !.todo = @ \ {i}, !.pc = IF w.todo = {i} THEN "loop" ELSE @]
      PROVE  IInv'
  <2>1. /\ Shape(w') /\ w'.pc \in {"requeue", "loop"} /\ w'.todo = w.todo \ {i}
        /\ w'.cur = w.cur /\ w'.child = w.child /\ w'.out = w.out
    BY <1>1, <1>3 DEF WorkerOK, Shape
  <2>2. i \in Ids /\ i \in Held
    BY <1>1, <1>3 DEF WorkerOK, Held
  <2>3. Handover
    BY <1>3, <2>1 DEF Handover, Held
  <2>4. MayEnter(cands[i], "PENDING_QC", setting.auto, i \in Held)
    BY <2>2 DEF MayEnter, Plain
  <2>5. TableOK' /\ Ids' = Ids
    BY <1>3, <2>2, <2>3, <2>4, SetStep, StatesListed, NextsListed
  <2>6. WorkerOK'
    BY <1>1, <1>3, <2>1, <2>5 DEF WorkerOK, Steps, CurSteps, RenderSteps, RouteSteps,
                                  PlannerSteps, FinalSteps
  <2>7. w.out = "none"
    BY <1>3 DEF IInv, KnownOK, PlannerOK, RouteSteps, PlannerSteps
  <2>8. KnownOK'
    BY <2>1, <2>7, KnowsNothing DEF Blind, RouteSteps, PlannerSteps, FinalSteps
  <2>9. ScalarsOK' /\ DevicesOK' /\ SelectionOK'
    BY <1>3, <2>1, WorkerStep, RevsTyped DEF RenderSteps, FinalSteps
  <2> QED BY <2>5, <2>6, <2>8, <2>9 DEF IInv
<1> QED BY <1>2, <1>3 DEF Requeue

LEMMA TurnIInv == 
  ASSUME IInv, Turn, UNCHANGED <<setting, revs, pstate, comfy, server, faults, ops>>
  PROVE  IInv'
<1>1. WorkerOK /\ w.pc = "loop" /\ cands' = cands
  BY CurOf DEF Turn
<1>2. CASE Raise
  <2>1. WorkerOK' /\ TableOK' /\ KnownOK' /\ w'.pc = "idle"
    BY <1>1, <1>2, RaiseStep DEF Raise
  <2>2. ScalarsOK' /\ DevicesOK' /\ SelectionOK'
    BY <1>1, <2>1, WorkerStep, RevsTyped DEF RenderSteps, FinalSteps
  <2> QED BY <2>1, <2>2 DEF IInv
<1>3. ASSUME Shape(w'), w'.cur = w.cur, w'.child = w.child, w'.out = w.out,
             \A i \in w'.todo : i \in Ids /\ (i \in w.todo \/ cands[i].state # "ACCEPTED"),
             \/ w'.pc \in {"select", "pending"}
             \/ w'.pc \in {"final", "generate"} /\ server = "down",
             w'.pc = "final" => \A i \in w'.todo : cands[i].human = "APPROVE"
      PROVE  IInv'
  <2>1. WorkerOK' /\ TableOK' /\ KnownOK'
    BY <1>1, <1>3, ListStep DEF RouteSteps, PlannerSteps
  <2>2. ScalarsOK' /\ SelectionOK'
    BY <1>1 DEF IInv, ScalarsOK, SelectionOK
  <2>3. DevicesOK'
    BY <1>3 DEF IInv, DevicesOK, GpuExclusive, RenderSteps, FinalSteps
  <2> QED BY <2>1, <2>2, <2>3 DEF IInv
<1>4. CASE Goto("select")
  BY <1>1, <1>3, <1>4, GotoTurn DEF WorkerOK
<1>5. CASE /\ server = "down"
           /\ w' = [w EXCEPT !.pc = "final", !.todo = Finals, !.seen = @ \cup {WorkState}]
  <2>1. /\ Shape(w') /\ w'.pc = "final" /\ w'.todo = Finals /\ w'.cur = w.cur
        /\ w'.child = w.child /\ w'.out = w.out
    BY <1>1, <1>5 DEF WorkerOK, Shape
  <2>2. \A i \in Finals : i \in Ids /\ cands[i].state \in {"FINAL_PENDING", "FINAL_RENDERING"}
    BY DEF Finals, InState
  <2>3. \A i \in Finals : cands[i].human = "APPROVE"
    BY <2>2, CurOf DEF RowOK
  <2> QED BY <1>3, <1>5, <2>1, <2>2, <2>3
<1>6. CASE /\ server = "down"
           /\ w' = [w EXCEPT !.pc = "generate", !.todo = Generation, !.retry = FALSE,
                             !.seen = @ \cup {WorkState}]
  <2>1. /\ Shape(w') /\ w'.pc = "generate" /\ w'.todo = Generation /\ w'.cur = w.cur
        /\ w'.child = w.child /\ w'.out = w.out
    BY <1>1, <1>6 DEF WorkerOK, Shape
  <2>2. \A i \in Generation : i \in Ids /\ cands[i].state \in {"PENDING_GENERATION", "GENERATING"}
    BY DEF Generation, InState
  <2> QED BY <1>3, <1>6, <2>1, <2>2
<1>7. CASE w' = [w EXCEPT !.pc = "pending", !.seen = @ \cup {WorkState}]
  <2>1. /\ Shape(w') /\ w'.pc = "pending" /\ w'.todo = w.todo /\ w'.cur = w.cur
        /\ w'.child = w.child /\ w'.out = w.out
    BY <1>1, <1>7 DEF WorkerOK, Shape
  <2> QED BY <1>1, <1>3, <2>1 DEF WorkerOK
<1> QED BY <1>2, <1>4, <1>5, <1>6, <1>7 DEF Turn

LEMMA EpochIInv == ASSUME IInv, Epoch PROVE IInv'
<1>1. CASE Loop
  BY <1>1, RequeueIInv, TurnIInv DEF Loop
<1> QED BY <1>1, EpochStartIInv, RegisterIInv, HoldIncompleteIInv, SelectIInv DEF Epoch

-----------------------------------------------------------------------------
(* The renderers                                                                *)

LEMMA RenderStep ==
  ASSUME IInv, w.pc \in RenderSteps, UNCHANGED <<setting, revs, pstate, server, ops>>,
         comfy' \in BOOLEAN, faults' = faults \/ Fault, w'.pc # "start"
  PROVE  ScalarsOK' /\ DevicesOK' /\ SelectionOK'
<1>1. ScalarsOK'
  BY BoundAssumption DEF IInv, ScalarsOK, Fault
<1>2. DevicesOK'
  BY DEF IInv, DevicesOK, GpuExclusive
<1>3. SelectionOK'
  BY DEF IInv, SelectionOK, RenderSteps, FinalSteps
<1> QED BY <1>1, <1>2, <1>3

LEMMA RenderKnows ==
  ASSUME IInv, w.pc \in RenderSteps
  PROVE  /\ w.out = "none"
         /\ w.pc \in FinalSteps => \A i \in w.todo : cands[i].human = "APPROVE"
         /\ w.pc \in FinalSteps \ {"final"} => cands[w.cur].human = "APPROVE"
BY DEF IInv, KnownOK, PlannerOK, FinalOK, RenderSteps, FinalSteps, RouteSteps, PlannerSteps

LEMMA FinalKnows ==
  ASSUME w'.out = "none", w'.pc \in FinalSteps, \A i \in w'.todo : cands'[i].human = "APPROVE",
         w'.pc # "final" => cands'[w'.cur].human = "APPROVE"
  PROVE  KnownOK'
BY DEF KnownOK, EvidenceOK, PlannerOK, ChildOK, FinalOK, FinalSteps, RouteSteps, PlannerSteps

LEMMA HumansKept ==
  ASSUME NEW i \in Ids, One(cands, cands', i), cands'[i].human = cands[i].human
  PROVE  \A j \in Ids : cands'[j].human = cands[j].human
BY DEF One, Ids

LEMMA KeptTwice ==
  ASSUME NEW a, NEW b, NEW c, NEW i \in DOMAIN a, One(a, b, i), One(b, c, i),
         Kept(a[i], b[i]), Kept(b[i], c[i])
  PROVE  One(a, c, i) /\ Kept(a[i], c[i])
BY DEF One, Kept, SameCandidate, SameVerdict, SamePlan

\* A step of the renderer to another of its steps, on one row.
LEMMA RenderTurn ==
  ASSUME IInv, w.pc \in RenderSteps, UNCHANGED <<setting, revs>>, NEW i \in Ids,
         One(cands, cands', i), Kept(cands[i], cands'[i]), cands'[i].human = cands[i].human,
         cands'[i].final = cands[i].final \/ cands[i].human = "APPROVE",
         MayEnter(cands[i], cands'[i].state, setting.auto, i \in Held),
         Shape(w'), w'.pc \in RenderSteps \cup {"idle", "loop", "pending"},
         w'.todo \subseteq w.todo, w'.cur \in {0, w.cur, i}, w'.cur = i => i \in Held,
         w'.child \in {0, w.child},
         w'.out = "none", w'.pc \in CurSteps => w'.cur \in Ids,
         w'.pc \in FinalSteps => w.pc \in FinalSteps,
         w'.pc \in FinalSteps \ {"final"} => cands[w'.cur].human = "APPROVE"
  PROVE  WorkerOK' /\ TableOK' /\ KnownOK'
<1>1. WorkerOK /\ 0 \notin Ids /\ w.todo \subseteq Ids
  BY CurOf
<1>2. Handover
  BY DEF Handover, Held, RenderSteps, FinalSteps
<1>3. TableOK' /\ Ids' = Ids
  BY <1>2, KeptStep
<1>4. WorkerOK'
  <2>1. w'.pc \in Steps /\ w'.pc # "register"
    BY DEF Steps, CurSteps, RenderSteps, FinalSteps, RouteSteps, PlannerSteps
  <2> QED BY <1>1, <1>3, <2>1 DEF WorkerOK
<1>5. KnownOK'
  <2>1. CASE w'.pc \in FinalSteps
    <3>1. \A j \in w.todo : cands[j].human = "APPROVE"
      BY <2>1, RenderKnows
    <3>2. \A j \in Ids : cands'[j].human = cands[j].human
      BY HumansKept
    <3>3. w'.pc # "final" => w'.cur \in Ids
      BY <2>1 DEF CurSteps, RenderSteps, FinalSteps
    <3> QED BY <1>1, <2>1, <3>1, <3>2, <3>3, FinalKnows
  <2>2. CASE w'.pc \notin FinalSteps
    BY <2>2, KnowsNothing DEF Blind, RouteSteps, PlannerSteps, RenderSteps, FinalSteps
  <2> QED BY <2>1, <2>2
<1> QED BY <1>3, <1>4, <1>5

\* The same without a change of the table.
LEMMA RenderSame ==
  ASSUME IInv, w.pc \in RenderSteps, UNCHANGED <<setting, revs, cands>>,
         Shape(w'), w'.pc \in {"idle", "loop", "pending"},
         w'.todo \subseteq w.todo, w'.cur \in {0, w.cur}, w'.child \in {0, w.child},
         w'.out = "none"
  PROVE  WorkerOK' /\ TableOK' /\ KnownOK'
<1>1. WorkerOK /\ 0 \notin Ids /\ w.todo \subseteq Ids
  BY CurOf
<1>2. Handover
  BY DEF Handover, Held, RenderSteps, FinalSteps
<1>3. TableOK' /\ Ids' = Ids
  BY <1>2, SameTable, RevsTyped
<1>4. WorkerOK'
  BY <1>1, <1>3 DEF WorkerOK, Steps, CurSteps, RenderSteps, FinalSteps, RouteSteps, PlannerSteps
<1>5. KnownOK'
  BY KnowsNothing DEF Blind, RouteSteps, PlannerSteps, FinalSteps
<1> QED BY <1>3, <1>4, <1>5

LEMMA FinalsDoneIInv == ASSUME IInv, FinalsDone PROVE IInv'
<1>1. WorkerOK /\ w.pc \in RenderSteps
  BY CurOf DEF FinalsDone, RenderSteps, FinalSteps
<1>2. /\ Shape(w') /\ w'.pc = "loop" /\ w'.todo = w.todo /\ w'.cur = w.cur
      /\ w'.child = w.child /\ w'.out = w.out
  BY <1>1, GotoTurn DEF FinalsDone
<1>3. WorkerOK' /\ TableOK' /\ KnownOK'
  BY <1>1, <1>2, RenderSame, RenderKnows DEF FinalsDone
<1>4. ScalarsOK' /\ DevicesOK' /\ SelectionOK'
  BY <1>1, <1>2, RenderStep DEF FinalsDone, IInv, ScalarsOK
<1> QED BY <1>3, <1>4 DEF IInv

LEMMA FinalEnsureIInv == ASSUME IInv, NEW i \in Ids, FinalEnsure(i) PROVE IInv'
<1>1. /\ WorkerOK /\ w.pc = "final" /\ w.pc \in RenderSteps /\ i \in w.todo /\ w.out = "none"
      /\ 0 \notin Ids /\ cands \in Seq(Candidates) /\ i \in Held /\ cands[i].human = "APPROVE"
  <2>1. w.pc = "final" /\ i \in w.todo
    BY DEF FinalEnsure
  <2> QED BY <2>1, CurOf, RenderKnows DEF RenderSteps, FinalSteps, Held
<1>2. UNCHANGED <<setting, revs, pstate, comfy, server, faults, ops>> /\ comfy \in BOOLEAN
  BY DEF FinalEnsure, IInv, ScalarsOK
<1>3. CASE Raise /\ UNCHANGED cands
  <2>1. WorkerOK' /\ TableOK' /\ KnownOK' /\ w'.pc = "idle"
    BY <1>2, <1>3, RaiseStep DEF Raise
  <2> QED BY <1>1, <1>2, <2>1, RenderStep DEF IInv
<1>4. ASSUME cands' = [BindRecipe(cands, i) EXCEPT ![i].final = IF @ = "none" THEN "PENDING" ELSE @],
             Done(i, "final") \/ Take(i, "final launch")
      PROVE  IInv'
  <2>1. PICK b : b = BindRecipe(cands, i)
    OBVIOUS
  <2>2. /\ One(cands, b, i) /\ Kept(cands[i], b[i])
        /\ b[i].state = cands[i].state /\ b[i].human = cands[i].human
    BY <1>1, <2>1, BindRecipe_OK DEF Ids
  <2>3. b \in Seq(Candidates) /\ i \in DOMAIN b /\ b[i] \in Candidates
    BY <2>2 DEF One, Kept, SameCandidate, Ids
  <2>4. PICK f : f = IF b[i].final = "none" THEN "PENDING" ELSE b[i].final
    OBVIOUS
  <2>5. f \in {"none", "PENDING", "RENDERING", "FAILED", "COMPLETE"}
    BY <2>3, <2>4 DEF Candidates
  <2>6. cands' = SetFinal(b, i, f)
    BY <1>4, <2>1, <2>4 DEF SetFinal
  <2>7. /\ One(b, cands', i) /\ Kept(b[i], cands'[i])
        /\ cands'[i].state = b[i].state /\ cands'[i].human = b[i].human
    BY <2>3, <2>5, <2>6, SetFinal_OK
  <2>8. /\ One(cands, cands', i) /\ Kept(cands[i], cands'[i])
        /\ cands'[i].state = cands[i].state /\ cands'[i].human = cands[i].human
    BY <2>2, <2>7, KeptTwice DEF Ids
  <2>9. MayEnter(cands[i], cands'[i].state, setting.auto, i \in Held)
    BY <1>1, <2>8 DEF MayEnter
  <2>10. /\ Shape(w') /\ w'.pc \in {"final", "final launch"} /\ w'.todo \subseteq w.todo
         /\ w'.cur \in {0, i} /\ w'.child \in {0, w.child} /\ w'.out = "none"
         /\ w'.pc = "final launch" => w'.cur = i
    BY <1>1, <1>4, DoneTurn, TakeTurn
  <2>11. w'.pc \in FinalSteps /\ w'.pc \in RenderSteps /\ w.pc \in FinalSteps
    BY <1>1, <2>10 DEF FinalSteps, RenderSteps
  <2>12. w'.pc \in CurSteps => w'.pc = "final launch"
    BY <2>10 DEF CurSteps, RenderSteps, RouteSteps, PlannerSteps
  <2>13. WorkerOK' /\ TableOK' /\ KnownOK'
    BY <1>1, <1>2, <2>8, <2>9, <2>10, <2>11, <2>12, RenderTurn
  <2> QED BY <1>1, <1>2, <2>10, <2>13, RenderStep DEF IInv
<1> QED BY <1>3, <1>4 DEF FinalEnsure

LEMMA FinalLaunchIInv == ASSUME IInv, FinalLaunch PROVE IInv'
<1>1. /\ WorkerOK /\ w.pc = "final launch" /\ w.cur \in Ids /\ w.out = "none"
      /\ cands \in Seq(Candidates) /\ w.cur \in Held /\ cands[w.cur].human = "APPROVE"
  <2>1. w.pc = "final launch"
    BY DEF FinalLaunch
  <2> QED BY <2>1, CurOf, RenderKnows DEF RenderSteps, FinalSteps, Held, CurSteps
<1>2. w.pc \in RenderSteps /\ w.pc \in FinalSteps
  BY <1>1 DEF RenderSteps, FinalSteps
<1>3. /\ One(cands, cands', w.cur) /\ Kept(cands[w.cur], cands'[w.cur])
      /\ cands'[w.cur].state = "FINAL_RENDERING" /\ cands'[w.cur].human = cands[w.cur].human
  BY <1>1, FinalRendering_OK DEF FinalLaunch, Ids
<1>4. MayEnter(cands[w.cur], cands'[w.cur].state, setting.auto, w.cur \in Held)
  BY <1>1, <1>3 DEF MayEnter
<1>5. /\ Shape(w') /\ w'.pc = "final wait" /\ w'.todo = w.todo /\ w'.cur = w.cur
      /\ w'.child = w.child /\ w'.out = w.out
  BY <1>1, GotoTurn DEF FinalLaunch
<1>6. w'.pc \in RenderSteps
  BY <1>5 DEF RenderSteps, FinalSteps
<1>7. WorkerOK' /\ TableOK' /\ KnownOK'
  BY <1>1, <1>2, <1>3, <1>4, <1>5, <1>6, RenderTurn DEF FinalLaunch
<1>8. ScalarsOK' /\ DevicesOK' /\ SelectionOK'
  BY <1>2, <1>5, RenderStep DEF FinalLaunch
<1> QED BY <1>7, <1>8 DEF IInv

FinalRendered(c, i) == [UpdateFinal(c, i, "COMPLETE") EXCEPT
                          ![i].dest = IF c[i].path = "clip" THEN 0 ELSE @]

LEMMA FinalRendered_OK ==
  ASSUME NEW c \in Seq(Candidates), NEW i \in DOMAIN c,
         NEW d, d = FinalRendered(c, i)
  PROVE  /\ One(c, d, i) /\ Kept(c[i], d[i])
         /\ d[i].state = "ACCEPTED" /\ d[i].human = c[i].human
<1>1. PICK b : b = SetFinal(c, i, "COMPLETE")
  OBVIOUS
<1>2. PICK e : e = SetStage(b, i, "FINAL")
  OBVIOUS
<1>3. PICK g : g = SetState(e, i, "ACCEPTED", "none")
  OBVIOUS
<1>4. PICK x : x = IF c[i].path = "clip" THEN 0 ELSE g[i].dest
  OBVIOUS
<1>5. One(c, b, i) /\ Kept(c[i], b[i]) /\ b[i].human = c[i].human
  BY <1>1, SetFinal_OK
<1>6. b \in Seq(Candidates) /\ i \in DOMAIN b
  BY <1>5 DEF One
<1>7. One(b, e, i) /\ Kept(b[i], e[i]) /\ e[i].human = b[i].human
  BY <1>2, <1>6, SetStage_OK
<1>8. e \in Seq(Candidates) /\ i \in DOMAIN e
  BY <1>6, <1>7 DEF One
<1>9. One(e, g, i) /\ Kept(e[i], g[i]) /\ g[i].human = e[i].human /\ g[i].state = "ACCEPTED"
  BY <1>3, <1>8, Set_OK, StatesListed, NextsListed, SMTT(20)
<1>10. g \in Seq(Candidates) /\ i \in DOMAIN g
  BY <1>8, <1>9 DEF One
<1>11. x \in Nat
  BY <1>4, <1>10, RowTypes
<1>12. d = SetDest(g, i, x)
  BY <1>1, <1>2, <1>3, <1>4 DEF FinalRendered, UpdateFinal, SetFinal, SetStage, SetDest
<1>13. One(g, d, i) /\ Kept(g[i], d[i]) /\ d[i].human = g[i].human /\ d[i].state = g[i].state
  BY <1>10, <1>11, <1>12, SetDest_OK, Zenon
<1>14. One(c, e, i) /\ Kept(c[i], e[i])
  BY <1>5, <1>7, KeptTwice
<1>15. One(c, g, i) /\ Kept(c[i], g[i])
  BY <1>9, <1>14, KeptTwice
<1>16. One(c, d, i) /\ Kept(c[i], d[i])
  BY <1>13, <1>15, KeptTwice
<1> QED BY <1>5, <1>7, <1>9, <1>13, <1>16

LEMMA FinalDoneIInv == ASSUME IInv, FinalDone PROVE IInv'
<1>1. /\ WorkerOK /\ w.pc = "final wait" /\ w.cur \in Ids /\ w.out = "none"
      /\ cands \in Seq(Candidates) /\ w.cur \in Held /\ cands[w.cur].human = "APPROVE"
  <2>1. w.pc = "final wait"
    BY DEF FinalDone
  <2> QED BY <2>1, CurOf, RenderKnows DEF RenderSteps, FinalSteps, Held, CurSteps
<1>2. w.pc \in RenderSteps /\ w.pc \in FinalSteps
  BY <1>1 DEF RenderSteps, FinalSteps
<1>3. /\ One(cands, cands', w.cur) /\ Kept(cands[w.cur], cands'[w.cur])
      /\ cands'[w.cur].state = "ACCEPTED" /\ cands'[w.cur].human = cands[w.cur].human
  <2>1. cands' = FinalRendered(cands, w.cur)
    BY DEF FinalDone, FinalRendered
  <2> QED BY <1>1, <2>1, FinalRendered_OK DEF Ids
<1>4. MayEnter(cands[w.cur], cands'[w.cur].state, setting.auto, w.cur \in Held)
  BY <1>1, <1>3 DEF MayEnter
<1>5. /\ Shape(w') /\ w'.pc = "final" /\ w'.todo = w.todo \ {w.cur} /\ w'.cur = 0
      /\ w'.child = 0 /\ w'.out = "none"
  BY <1>1, DoneTurn DEF FinalDone, Next1
<1>6. w'.pc \in RenderSteps /\ w'.pc \notin CurSteps
  BY <1>5 DEF RenderSteps, FinalSteps, CurSteps, RouteSteps, PlannerSteps
<1>7. WorkerOK' /\ TableOK' /\ KnownOK'
  BY <1>1, <1>2, <1>3, <1>4, <1>5, <1>6, CurOf, RenderTurn DEF FinalDone
<1>8. ScalarsOK' /\ DevicesOK' /\ SelectionOK'
  BY <1>2, <1>5, RenderStep DEF FinalDone
<1> QED BY <1>7, <1>8 DEF IInv

LEMMA FinalFailsIInv == ASSUME IInv, FinalFails PROVE IInv'
<1>1. /\ WorkerOK /\ w.pc = "final wait" /\ w.cur \in Ids /\ w.out = "none"
      /\ cands \in Seq(Candidates) /\ w.cur \in Held /\ cands[w.cur].human = "APPROVE"
  <2>1. w.pc = "final wait"
    BY DEF FinalFails
  <2> QED BY <2>1, CurOf, RenderKnows DEF RenderSteps, FinalSteps, Held, CurSteps
<1>2. w.pc \in RenderSteps /\ w.pc \in FinalSteps
  BY <1>1 DEF RenderSteps, FinalSteps
<1>3. /\ One(cands, cands', w.cur) /\ Kept(cands[w.cur], cands'[w.cur])
      /\ cands'[w.cur].state = cands[w.cur].state /\ cands'[w.cur].human = cands[w.cur].human
  <2>1. cands' = SetFinal(cands, w.cur, "FAILED")
    BY DEF FinalFails, UpdateFinal, SetFinal
  <2>2. w.cur \in DOMAIN cands /\ "FAILED" \in {"none", "PENDING", "RENDERING", "FAILED", "COMPLETE"}
    BY <1>1 DEF Ids
  <2>3. PICK i : i = w.cur
    OBVIOUS
  <2>4. cands \in Seq(Candidates) /\ i \in DOMAIN cands
    BY <1>1, <2>2, <2>3
  <2>5. PICK d : d = SetFinal(cands, i, "FAILED")
    OBVIOUS
  <2>6. /\ One(cands, d, i) /\ Kept(cands[i], d[i])
        /\ d[i].state = cands[i].state /\ d[i].human = cands[i].human
    BY <2>2, <2>4, <2>5, SetFinal_OK
  <2> QED BY <2>1, <2>3, <2>5, <2>6
<1>4. MayEnter(cands[w.cur], cands'[w.cur].state, setting.auto, w.cur \in Held)
  BY <1>1, <1>3 DEF MayEnter
<1>5. /\ Shape(w') /\ w'.pc = "idle" /\ w'.todo = {} /\ w'.cur = 0
      /\ w'.child = 0 /\ w'.out = "none"
  BY RaiseTurn DEF FinalFails, Raise
<1>6. w'.pc \notin RenderSteps /\ w'.pc \notin CurSteps /\ w'.pc \notin FinalSteps
  BY <1>5 DEF RenderSteps, FinalSteps, CurSteps, RouteSteps, PlannerSteps
<1>7. WorkerOK' /\ TableOK' /\ KnownOK'
  BY <1>1, <1>2, <1>3, <1>4, <1>5, <1>6, CurOf, RenderTurn DEF FinalFails
<1>8. ScalarsOK' /\ DevicesOK' /\ SelectionOK'
  BY <1>2, <1>5, RenderStep DEF FinalFails
<1> QED BY <1>7, <1>8 DEF IInv

\* The handlers around the renderer: the failure is charged, or it ends the epoch.
LEMMA ChargeStep ==
  ASSUME IInv, w.pc \in RenderSteps, UNCHANGED <<setting, revs>>, NEW i \in Ids, i \in Held,
         NEW retryable \in BOOLEAN, Charge(i, retryable)
  PROVE  WorkerOK' /\ TableOK' /\ KnownOK' /\ w'.pc \in {"idle", "generate"}
<1>1. WorkerOK /\ cands \in Seq(Candidates) /\ w.out = "none"
  BY CurOf, RenderKnows
<1>2. CASE UNCHANGED cands /\ Raise
  BY <1>2, RaiseStep DEF Raise
<1>3. ASSUME NEW c, c = GenerationFailure(cands, i, retryable), cands' = c,
             w' = [w EXCEPT !.pc = "generate", !.todo = @ \ {i}, !.cur = 0,
                         !.retry = @ \/ (retryable /\ c[i].state = "PENDING_GENERATION")]
      PROVE  WorkerOK' /\ TableOK' /\ KnownOK' /\ w'.pc = "generate"
  <2>1. /\ Shape(w') /\ w'.pc = "generate" /\ w'.todo = w.todo \ {i} /\ w'.cur = 0
        /\ w'.child = w.child /\ w'.out = w.out
    BY <1>1, <1>3 DEF WorkerOK, Shape
  <2>2. /\ One(cands, cands', i) /\ Kept(cands[i], cands'[i])
        /\ cands'[i].state \in {cands[i].state, "HOLD_FOR_REVIEW", "PENDING_GENERATION"}
        /\ cands'[i].human = cands[i].human /\ cands'[i].final = cands[i].final
    BY <1>1, <1>3, GenerationFailure_OK DEF Ids
  <2>3. MayEnter(cands[i], cands'[i].state, setting.auto, i \in Held)
    BY <2>2 DEF MayEnter, Plain
  <2>4. /\ w'.pc \in RenderSteps /\ w'.pc \notin CurSteps /\ w'.pc \notin FinalSteps
    BY <2>1 DEF RenderSteps, FinalSteps, CurSteps, RouteSteps, PlannerSteps
  <2> QED BY <1>1, <2>1, <2>2, <2>3, <2>4, CurOf, RenderTurn
<1> QED BY <1>2, <1>3 DEF Charge

\* What the renderer holds at its steps.
LEMMA Rendering ==
  ASSUME IInv, w.pc \in RenderSteps
  PROVE  /\ WorkerOK /\ w.out = "none" /\ cands \in Seq(Candidates) /\ DOMAIN cands = Ids
         /\ w.todo \subseteq Held /\ w.todo \subseteq Ids /\ w.cur \in Held
         /\ w.pc \notin {"final", "generate"} => w.cur \in Ids
         /\ \A i \in Ids : i \in Nat /\ cands[i] \in Candidates
<1>1. WorkerOK /\ w.out = "none" /\ cands \in Seq(Candidates) /\ w.todo \subseteq Ids
  BY CurOf, RenderKnows
<1>2. w.pc \notin {"final", "generate"} => w.pc \in CurSteps
  BY DEF CurSteps
<1>3. \A i \in Ids : i \in Nat /\ cands[i] \in Candidates
  BY CurOf
<1> QED BY <1>1, <1>2, <1>3 DEF WorkerOK, Held, Ids

\* One row changes its files or its launch, and the worker goes on with it.
LEMMA RenderOn ==
  ASSUME IInv, w.pc \in RenderSteps \ FinalSteps, UNCHANGED <<setting, revs>>, NEW i \in Ids,
         i \in Held,
         One(cands, cands', i), Kept(cands[i], cands'[i]), cands'[i].human = cands[i].human,
         cands'[i].final = cands[i].final,
         cands'[i].state = cands[i].state \/ cands'[i].state \in Plain,
         (Goto(w'.pc) /\ i = w.cur) \/ Take(i, w'.pc), w'.pc \in RenderSteps \ FinalSteps
  PROVE  WorkerOK' /\ TableOK' /\ KnownOK'
<1>1. WorkerOK /\ w.out = "none"
  BY Rendering
<1>2. /\ Shape(w') /\ w'.todo = w.todo /\ w'.cur = i /\ w'.child = w.child /\ w'.out = w.out
  BY <1>1, GotoTurn, TakeTurn
<1>3. MayEnter(cands[i], cands'[i].state, setting.auto, i \in Held)
  BY DEF MayEnter
<1> QED BY <1>1, <1>2, <1>3, RenderTurn

LEMMA GenerateDoneIInv == ASSUME IInv, GenerateDone PROVE IInv'
<1>1. /\ w.pc = "generate" /\ w.pc \in RenderSteps
      /\ UNCHANGED <<setting, cands, revs, pstate, comfy, server, faults, ops>> /\ comfy \in BOOLEAN
  BY DEF GenerateDone, RenderSteps, IInv, ScalarsOK
<1>2. WorkerOK /\ w.out = "none"
  BY <1>1, Rendering
<1>3. CASE Raise
  <2>1. WorkerOK' /\ TableOK' /\ KnownOK' /\ w'.pc = "idle"
    BY <1>1, <1>3, RaiseStep DEF Raise
  <2> QED BY <1>1, <2>1, RenderStep DEF IInv
<1>4. CASE Goto("pending")
  <2>1. /\ Shape(w') /\ w'.pc = "pending" /\ w'.todo = w.todo /\ w'.cur = w.cur
        /\ w'.child = w.child /\ w'.out = w.out
    BY <1>2, <1>4, GotoTurn
  <2>2. WorkerOK' /\ TableOK' /\ KnownOK'
    BY <1>1, <1>2, <2>1, RenderSame
  <2> QED BY <1>1, <2>1, <2>2, RenderStep DEF IInv
<1> QED BY <1>3, <1>4 DEF GenerateDone

LEMMA GenerateRefusedIInv == ASSUME IInv, NEW i \in Ids, GenerateRefused(i) PROVE IInv'
<1>1. /\ w.pc = "generate" /\ w.pc \in RenderSteps /\ i \in w.todo /\ Fault
      /\ UNCHANGED <<setting, revs, pstate, comfy, server, ops>> /\ comfy \in BOOLEAN
  BY DEF GenerateRefused, RenderSteps, IInv, ScalarsOK
<1>2. PICK retryable \in BOOLEAN : Charge(i, retryable)
  BY DEF GenerateRefused
<1>3. WorkerOK' /\ TableOK' /\ KnownOK' /\ w'.pc \in {"idle", "generate"}
  BY <1>1, <1>2, ChargeStep DEF Held
<1> QED BY <1>1, <1>3, RenderStep DEF IInv

LEMMA UnlinkFrameIInv == ASSUME IInv, NEW i \in Ids, UnlinkFrame(i) PROVE IInv'
<1>1. /\ w.pc = "generate" /\ w.pc \in RenderSteps \ FinalSteps /\ i \in w.todo
      /\ UNCHANGED <<setting, revs, pstate, comfy, server, faults, ops>> /\ comfy \in BOOLEAN
      /\ cands' = SetFrame(cands, i, 0) /\ Take(i, "t2i")
  BY DEF UnlinkFrame, SetFrame, RenderSteps, FinalSteps, IInv, ScalarsOK
<1>2. WorkerOK /\ cands \in Seq(Candidates) /\ DOMAIN cands = Ids /\ i \in Held
  BY <1>1, Rendering
<1>3. /\ One(cands, cands', i) /\ Kept(cands[i], cands'[i]) /\ cands'[i].human = cands[i].human
      /\ cands'[i].final = cands[i].final /\ cands'[i].state = cands[i].state
  BY <1>1, <1>2, SetFrame_OK
<1>4. w'.pc = "t2i" /\ w'.pc \in RenderSteps \ FinalSteps
  <2>1. w'.pc = "t2i"
    BY <1>1, <1>2, TakeTurn
  <2> QED BY <2>1 DEF RenderSteps, FinalSteps
<1>5. WorkerOK' /\ TableOK' /\ KnownOK'
  BY <1>1, <1>2, <1>3, <1>4, RenderOn
<1> QED BY <1>1, <1>4, <1>5, RenderStep DEF IInv

LEMMA LaunchFrameIInv == ASSUME IInv, LaunchFrame PROVE IInv'
<1>1. /\ w.pc = "t2i" /\ w.pc \in RenderSteps \ FinalSteps
      /\ UNCHANGED <<setting, revs, pstate, server, faults, ops>> /\ comfy' = TRUE
      /\ cands' = SetOwner(cands, w.cur, "t2i") /\ Goto("t2i wait")
  BY DEF LaunchFrame, RenderSteps, FinalSteps
<1>2. WorkerOK /\ cands \in Seq(Candidates) /\ DOMAIN cands = Ids /\ w.cur \in Held /\ w.cur \in Ids
  BY <1>1, Rendering
<1>3. /\ One(cands, cands', w.cur) /\ Kept(cands[w.cur], cands'[w.cur])
      /\ cands'[w.cur].human = cands[w.cur].human /\ cands'[w.cur].final = cands[w.cur].final
      /\ cands'[w.cur].state \in Plain
  BY <1>1, <1>2, SetOwner_OK DEF Plain
<1>4. w'.pc = "t2i wait" /\ w'.pc \in RenderSteps \ FinalSteps
  <2>1. w'.pc = "t2i wait"
    BY <1>1, <1>2, GotoTurn
  <2> QED BY <2>1 DEF RenderSteps, FinalSteps
<1>5. WorkerOK' /\ TableOK' /\ KnownOK'
  BY <1>1, <1>2, <1>3, <1>4, RenderOn
<1> QED BY <1>1, <1>4, <1>5, RenderStep DEF IInv

LEMMA FrameDoneIInv == ASSUME IInv, FrameDone PROVE IInv'
<1>1. /\ w.pc = "t2i wait" /\ w.pc \in RenderSteps \ FinalSteps
      /\ UNCHANGED <<setting, revs, pstate, server, faults, ops>> /\ comfy' = FALSE
      /\ cands' = SetFrame(cands, w.cur, w.cur) /\ Goto("bind")
  BY DEF FrameDone, SetFrame, RenderSteps, FinalSteps
<1>2. /\ WorkerOK /\ cands \in Seq(Candidates) /\ DOMAIN cands = Ids
      /\ w.cur \in Held /\ w.cur \in Ids /\ w.cur \in Nat
  BY <1>1, Rendering
<1>3. /\ One(cands, cands', w.cur) /\ Kept(cands[w.cur], cands'[w.cur])
      /\ cands'[w.cur].human = cands[w.cur].human /\ cands'[w.cur].final = cands[w.cur].final
      /\ cands'[w.cur].state = cands[w.cur].state
  <2>1. PICK x \in Nat : x = w.cur
    BY <1>2
  <2>2. cands' = SetFrame(cands, w.cur, x)
    BY <1>1, <2>1
  <2> QED BY <1>2, <2>1, <2>2, SetFrame_OK
<1>4. w'.pc = "bind" /\ w'.pc \in RenderSteps \ FinalSteps
  <2>1. w'.pc = "bind"
    BY <1>1, <1>2, GotoTurn
  <2> QED BY <2>1 DEF RenderSteps, FinalSteps
<1>5. WorkerOK' /\ TableOK' /\ KnownOK'
  BY <1>1, <1>2, <1>3, <1>4, RenderOn
<1> QED BY <1>1, <1>4, <1>5, RenderStep DEF IInv

LEMMA BindIInv == ASSUME IInv, NEW i \in Ids, Bind(i) PROVE IInv'
<1>1. /\ w.pc \in {"bind", "generate"} /\ w.pc \in RenderSteps \ FinalSteps
      /\ i \in w.todo \/ (w.pc = "bind" /\ i = w.cur)
      /\ UNCHANGED <<setting, revs, pstate, comfy, server, faults, ops>> /\ comfy \in BOOLEAN
      /\ cands' = BindRecipe(cands, i) /\ (Take(i, "complete") \/ Take(i, "i2v"))
  BY DEF Bind, RenderSteps, FinalSteps, IInv, ScalarsOK
<1>2. WorkerOK /\ cands \in Seq(Candidates) /\ DOMAIN cands = Ids /\ i \in Held
  BY <1>1, Rendering
<1>3. /\ One(cands, cands', i) /\ Kept(cands[i], cands'[i]) /\ cands'[i].human = cands[i].human
      /\ cands'[i].final = cands[i].final /\ cands'[i].state = cands[i].state
  BY <1>1, <1>2, BindRecipe_OK
<1>4. w'.pc \in {"complete", "i2v"} /\ w'.pc \in RenderSteps \ FinalSteps /\ Take(i, w'.pc)
  <2>1. ASSUME NEW p \in {"complete", "i2v"}, Take(i, p)
        PROVE  w'.pc = p
    BY <1>2, <2>1, TakeTurn
  <2>2. w'.pc \in {"complete", "i2v"} /\ Take(i, w'.pc)
    BY <1>1, <2>1
  <2> QED BY <2>2 DEF RenderSteps, FinalSteps
<1>5. WorkerOK' /\ TableOK' /\ KnownOK'
  BY <1>1, <1>2, <1>3, <1>4, RenderOn
<1> QED BY <1>1, <1>4, <1>5, RenderStep DEF IInv

LEMMA LaunchClipIInv == ASSUME IInv, LaunchClip PROVE IInv'
<1>1. /\ w.pc = "i2v" /\ w.pc \in RenderSteps \ FinalSteps
      /\ UNCHANGED <<setting, revs, pstate, server, faults, ops>> /\ comfy' = TRUE
      /\ cands' = SetOwner(cands, w.cur, "i2v") /\ Goto("i2v wait")
  BY DEF LaunchClip, RenderSteps, FinalSteps
<1>2. WorkerOK /\ cands \in Seq(Candidates) /\ DOMAIN cands = Ids /\ w.cur \in Held /\ w.cur \in Ids
  BY <1>1, Rendering
<1>3. /\ One(cands, cands', w.cur) /\ Kept(cands[w.cur], cands'[w.cur])
      /\ cands'[w.cur].human = cands[w.cur].human /\ cands'[w.cur].final = cands[w.cur].final
      /\ cands'[w.cur].state \in Plain
  BY <1>1, <1>2, SetOwner_OK DEF Plain
<1>4. w'.pc = "i2v wait" /\ w'.pc \in RenderSteps \ FinalSteps
  <2>1. w'.pc = "i2v wait"
    BY <1>1, <1>2, GotoTurn
  <2> QED BY <2>1 DEF RenderSteps, FinalSteps
<1>5. WorkerOK' /\ TableOK' /\ KnownOK'
  BY <1>1, <1>2, <1>3, <1>4, RenderOn
<1> QED BY <1>1, <1>4, <1>5, RenderStep DEF IInv

LEMMA ClipDoneIInv == ASSUME IInv, ClipDone PROVE IInv'
<1>1. /\ w.pc = "i2v wait" /\ w.pc \in RenderSteps \ FinalSteps
      /\ UNCHANGED <<setting, revs, pstate, server, faults, ops>> /\ comfy' = FALSE
      /\ cands' = SetDest(cands, w.cur, cands[w.cur].frame) /\ Goto("complete")
  BY DEF ClipDone, SetDest, RenderSteps, FinalSteps
<1>2. /\ WorkerOK /\ cands \in Seq(Candidates) /\ DOMAIN cands = Ids
      /\ w.cur \in Held /\ w.cur \in Ids /\ cands[w.cur].frame \in Nat
  BY <1>1, Rendering, RowTypes
<1>3. /\ One(cands, cands', w.cur) /\ Kept(cands[w.cur], cands'[w.cur])
      /\ cands'[w.cur].human = cands[w.cur].human /\ cands'[w.cur].final = cands[w.cur].final
      /\ cands'[w.cur].state = cands[w.cur].state
  <2>1. PICK x \in Nat : x = cands[w.cur].frame
    BY <1>2
  <2>2. cands' = SetDest(cands, w.cur, x)
    BY <1>1, <2>1
  <2> QED BY <1>2, <2>1, <2>2, SetDest_OK
<1>4. w'.pc = "complete" /\ w'.pc \in RenderSteps \ FinalSteps
  <2>1. w'.pc = "complete"
    BY <1>1, <1>2, GotoTurn
  <2> QED BY <2>1 DEF RenderSteps, FinalSteps
<1>5. WorkerOK' /\ TableOK' /\ KnownOK'
  BY <1>1, <1>2, <1>3, <1>4, RenderOn
<1> QED BY <1>1, <1>4, <1>5, RenderStep DEF IInv

LEMMA RenderFailsIInv == ASSUME IInv, RenderFails PROVE IInv'
<1>1. /\ w.pc \in {"t2i wait", "i2v wait"} /\ w.pc \in RenderSteps /\ Fault
      /\ UNCHANGED <<setting, revs, pstate, server, ops>> /\ comfy' \in BOOLEAN
  BY DEF RenderFails, RenderSteps
<1>2. PICK retryable \in BOOLEAN : Charge(w.cur, retryable)
  BY DEF RenderFails
<1>3. WorkerOK' /\ TableOK' /\ KnownOK' /\ w'.pc \in {"idle", "generate"}
  BY <1>1, <1>2, ChargeStep, Rendering
<1> QED BY <1>1, <1>3, RenderStep DEF IInv

LEMMA CompleteIInv == ASSUME IInv, Complete PROVE IInv'
<1>1. /\ w.pc = "complete" /\ w.pc \in RenderSteps /\ comfy \in BOOLEAN
      /\ UNCHANGED <<setting, revs, pstate, comfy, server, faults, ops>>
  BY DEF Complete, RenderSteps, IInv, ScalarsOK
<1>2. /\ WorkerOK /\ w.out = "none" /\ cands \in Seq(Candidates) /\ DOMAIN cands = Ids
      /\ w.cur \in Held /\ w.cur \in Ids /\ 0 \notin Ids
  BY <1>1, Rendering, CurOf
<1>3. CASE cands' = CompleteGeneration(cands, w.cur) /\ Next1("generate")
  <2>1. /\ One(cands, cands', w.cur) /\ Kept(cands[w.cur], cands'[w.cur])
        /\ cands'[w.cur].human = cands[w.cur].human /\ cands'[w.cur].final = cands[w.cur].final
        /\ cands'[w.cur].state = "PENDING_QC"
    BY <1>2, <1>3, CompleteGeneration_OK
  <2>2. MayEnter(cands[w.cur], cands'[w.cur].state, setting.auto, w.cur \in Held)
    BY <1>2, <2>1 DEF MayEnter, Plain
  <2>3. /\ Shape(w') /\ w'.pc = "generate" /\ w'.todo = w.todo \ {w.cur} /\ w'.cur = 0
        /\ w'.child = 0 /\ w'.out = "none"
    BY <1>2, <1>3, DoneTurn DEF Next1
  <2>4. w'.pc \in RenderSteps /\ w'.pc \notin CurSteps /\ w'.pc \notin FinalSteps
    BY <2>3 DEF RenderSteps, FinalSteps, CurSteps, RouteSteps, PlannerSteps
  <2>5. WorkerOK' /\ TableOK' /\ KnownOK'
    BY <1>1, <1>2, <2>1, <2>2, <2>3, <2>4, RenderTurn
  <2> QED BY <1>1, <2>3, <2>5, RenderStep DEF IInv
<1>4. CASE Charge(w.cur, FALSE)
  <2>1. WorkerOK' /\ TableOK' /\ KnownOK' /\ w'.pc \in {"idle", "generate"}
    BY <1>1, <1>2, <1>4, ChargeStep
  <2> QED BY <1>1, <2>1, RenderStep DEF IInv
<1> QED BY <1>3, <1>4 DEF Complete

LEMMA RenderIInv == ASSUME IInv, Render PROVE IInv'
BY FinalsDoneIInv, FinalLaunchIInv, FinalDoneIInv, GenerateDoneIInv, LaunchFrameIInv,
   FrameDoneIInv, FinalEnsureIInv, UnlinkFrameIInv, BindIInv, LaunchClipIInv, ClipDoneIInv,
   CompleteIInv DEF Render

-----------------------------------------------------------------------------
(* The evaluation                                                               *)

SetEv(c, i, e) == [c EXCEPT ![i].ev = e]
SetJudged(c, i, e, v) == [c EXCEPT ![i].ev = e, ![i].verdict = v]
Evidences == {"none", "RUNNING", "raw", "manifest", "COMPLETE"}

LEMMA SetEv_OK ==
  ASSUME NEW c \in Seq(Candidates), NEW i \in DOMAIN c, NEW e \in Evidences,
         NEW d, d = SetEv(c, i, e)
  PROVE  /\ One(c, d, i) /\ SameCandidate(c[i], d[i]) /\ SamePlan(c[i], d[i])
         /\ d[i].b2row = c[i].b2row /\ d[i].ev = e /\ d[i].verdict = c[i].verdict
         /\ d[i].state = c[i].state /\ d[i].human = c[i].human /\ d[i].final = c[i].final
<1>1. c[i] \in Candidates
  OBVIOUS
<1>2. d = [c EXCEPT ![i] = RowEv(c[i], e)]
  BY <1>1 DEF SetEv, Candidates, RowEv
<1>3. /\ SameCandidate(c[i], RowEv(c[i], e)) /\ SamePlan(c[i], RowEv(c[i], e))
      /\ RowEv(c[i], e).b2row = c[i].b2row /\ RowEv(c[i], e).ev = e
      /\ RowEv(c[i], e).verdict = c[i].verdict /\ RowEv(c[i], e).state = c[i].state
      /\ RowEv(c[i], e).human = c[i].human /\ RowEv(c[i], e).final = c[i].final
  BY <1>1, RowEv_Fields DEF Evidences
<1>4. RowEv(c[i], e) \in Candidates
  BY <1>3 DEF SameCandidate
<1>5. One(c, d, i) /\ d[i] = RowEv(c[i], e)
  BY <1>2, <1>4, RowReplaced
<1> QED BY <1>3, <1>5

LEMMA SetJudged_OK ==
  ASSUME NEW c \in Seq(Candidates), NEW i \in DOMAIN c, NEW e \in Evidences, NEW v \in Verdicts,
         NEW d, d = SetJudged(c, i, e, v)
  PROVE  /\ One(c, d, i) /\ SameCandidate(c[i], d[i]) /\ SamePlan(c[i], d[i])
         /\ d[i].b2row = c[i].b2row /\ d[i].ev = e
         /\ d[i].state = c[i].state /\ d[i].human = c[i].human /\ d[i].final = c[i].final
<1>1. c[i] \in Candidates /\ v \in Verdicts \cup {"none"}
  OBVIOUS
<1>2. d = [c EXCEPT ![i] = RowJudged(c[i], e, v)]
  BY <1>1 DEF SetJudged, Candidates, RowJudged
<1>3. /\ SameCandidate(c[i], RowJudged(c[i], e, v)) /\ SamePlan(c[i], RowJudged(c[i], e, v))
      /\ RowJudged(c[i], e, v).b2row = c[i].b2row /\ RowJudged(c[i], e, v).ev = e
      /\ RowJudged(c[i], e, v).state = c[i].state
      /\ RowJudged(c[i], e, v).human = c[i].human /\ RowJudged(c[i], e, v).final = c[i].final
  BY <1>1, RowJudged_Fields DEF Evidences
<1>4. RowJudged(c[i], e, v) \in Candidates
  BY <1>3 DEF SameCandidate
<1>5. One(c, d, i) /\ d[i] = RowJudged(c[i], e, v)
  BY <1>2, <1>4, RowReplaced
<1> QED BY <1>3, <1>5

\* What was accepted by itself is in nobody's hand once it is promoted.
LEMMA HandOpen ==
  ASSUME IInv, NEW i \in Ids, i \in Held, w.pc # "promote"
  PROVE  cands[i].state = "ACCEPTED" => cands[i].human = "APPROVE"
BY DEF IInv, TableOK, SupersededOK, Held, Promoting

\* The evidence of one candidate grows.
LEMMA JudgedStep ==
  ASSUME IInv, setting' = setting, revs' = revs, Handover, NEW i \in Ids, i \in Held,
         w.pc # "promote", cands[i].ev # "COMPLETE",
         One(cands, cands', i), SameCandidate(cands[i], cands'[i]), SamePlan(cands[i], cands'[i]),
         cands'[i].b2row = cands[i].b2row, cands'[i].state = cands[i].state,
         cands'[i].human = cands[i].human, cands'[i].final = cands[i].final
  PROVE  TableOK' /\ Ids' = Ids
<1>1. RowOK(cands[i], setting.auto)
  BY CurOf
<1>2. RowOK(cands'[i], setting.auto)
  BY <1>1, HandOpen DEF RowOK, SameCandidate, SamePlan
<1>3. Evolves(cands[i], cands'[i]) /\ Steady(cands[i], cands'[i], i \in Held)
  BY DEF Evolves, Steady, Failed, SameCandidate, SamePlan
<1> QED BY <1>2, <1>3, RowStep

LEMMA EvalKnows ==
  ASSUME w'.out = "none",
         \/ w'.pc \in {"judge", "judging"} /\ cands'[w'.cur].ev \in {"RUNNING", "raw"}
         \/ w'.pc = "manifest" /\ cands'[w'.cur].ev = "raw"
         \/ w'.pc = "evidence" /\ cands'[w'.cur].ev = "manifest"
         \/ w'.pc = "route" /\ cands'[w'.cur].ev = "COMPLETE"
  PROVE  KnownOK'
BY DEF KnownOK, EvidenceOK, PlannerOK, ChildOK, FinalOK, RouteSteps, PlannerSteps, FinalSteps

EvalSteps == {"judge", "judging", "manifest", "evidence", "route"}
\* What the worker holds in the evaluation.
LEMMA Evaluating ==
  ASSUME IInv, w.pc \in EvalSteps
  PROVE  /\ WorkerOK /\ w.out = "none" /\ cands \in Seq(Candidates) /\ DOMAIN cands = Ids
         /\ w.cur \in Held /\ w.cur \in Ids /\ 0 \notin Ids
         /\ w.pc # "promote" /\ w.pc # "idle" /\ w.pc \notin RenderSteps
         /\ w.pc \in {"judge", "judging"} => cands[w.cur].ev \in {"RUNNING", "raw"}
         /\ w.pc = "manifest" => cands[w.cur].ev = "raw"
         /\ w.pc = "evidence" => cands[w.cur].ev = "manifest"
         /\ w.pc = "route" => cands[w.cur].ev = "COMPLETE"
<1>1. w.pc \in CurSteps /\ w.pc \notin RouteSteps /\ w.pc \notin RenderSteps
  BY DEF EvalSteps, CurSteps, RouteSteps, PlannerSteps, RenderSteps, FinalSteps
<1>2. WorkerOK /\ cands \in Seq(Candidates) /\ w.cur \in Ids /\ 0 \notin Ids
  BY <1>1, CurOf
<1>3. w.out = "none"
  BY <1>1 DEF IInv, KnownOK, PlannerOK
<1>4. /\ w.pc \in {"judge", "judging"} => cands[w.cur].ev \in {"RUNNING", "raw"}
      /\ w.pc = "manifest" => cands[w.cur].ev = "raw"
      /\ w.pc = "evidence" => cands[w.cur].ev = "manifest"
      /\ w.pc = "route" => cands[w.cur].ev = "COMPLETE"
  BY DEF IInv, KnownOK, EvidenceOK
<1> QED BY <1>1, <1>2, <1>3, <1>4 DEF Held, Ids, EvalSteps

LEMMA BarrierIInv == ASSUME IInv, Barrier PROVE IInv'
<1>1. /\ w.pc = "pending" /\ WorkerOK
      /\ UNCHANGED <<setting, cands, revs, pstate, comfy, server, faults, ops>>
  BY CurOf DEF Barrier
<1>2. CASE Goto("loop")
  <2>1. /\ Shape(w') /\ w'.pc = "loop" /\ w'.todo = w.todo /\ w'.cur = w.cur
        /\ w'.child = w.child /\ w'.out = w.out
    BY <1>1, <1>2, GotoTurn
  <2>2. WorkerOK' /\ TableOK' /\ KnownOK'
    BY <1>1, <2>1, ListStep DEF RouteSteps, PlannerSteps, WorkerOK
  <2> QED BY <1>1, <2>1, <2>2, WorkerStep, RevsTyped DEF IInv, RenderSteps, FinalSteps
<1>3. CASE Raise
  <2>1. WorkerOK' /\ TableOK' /\ KnownOK' /\ w'.pc = "idle"
    BY <1>1, <1>3, RaiseStep DEF Raise
  <2> QED BY <1>1, <2>1, WorkerStep, RevsTyped DEF IInv, RenderSteps, FinalSteps
<1>4. CASE ~comfy /\ w' = [w EXCEPT !.pc = "start", !.todo = Pending]
  <2>1. /\ Shape(w') /\ w'.pc = "start" /\ w'.todo = Pending /\ w'.cur = w.cur
        /\ w'.child = w.child /\ w'.out = w.out
    BY <1>1, <1>4 DEF WorkerOK, Shape
  <2>2. \A i \in Pending : i \in Ids /\ cands[i].state # "ACCEPTED"
    BY DEF Pending, InState
  <2>3. WorkerOK' /\ TableOK' /\ KnownOK'
    BY <1>1, <2>1, <2>2, ListStep DEF RouteSteps, PlannerSteps
  <2>4. ScalarsOK' /\ SelectionOK'
    BY <1>1 DEF IInv, ScalarsOK, SelectionOK
  <2>5. DevicesOK'
    BY <1>1, <1>4, <2>1 DEF IInv, DevicesOK, GpuExclusive, RenderSteps, FinalSteps
  <2> QED BY <2>3, <2>4, <2>5 DEF IInv
<1> QED BY <1>2, <1>3, <1>4 DEF Barrier

LEMMA StartIInv == ASSUME IInv, Start PROVE IInv'
<1>1. /\ w.pc = "start" /\ WorkerOK /\ server' = "owned" /\ ~comfy
      /\ UNCHANGED <<setting, cands, revs, pstate, comfy, faults, ops>>
  BY CurOf DEF Start, IInv, DevicesOK
<1>2. /\ Shape(w') /\ w'.pc = "evaluate" /\ w'.todo = w.todo /\ w'.cur = w.cur
      /\ w'.child = w.child /\ w'.out = w.out
  BY <1>1, GotoTurn DEF Start
<1>3. WorkerOK' /\ TableOK' /\ KnownOK'
  BY <1>1, <1>2, ListStep DEF RouteSteps, PlannerSteps, WorkerOK
<1>4. ScalarsOK' /\ SelectionOK'
  BY <1>1 DEF IInv, ScalarsOK, SelectionOK
<1>5. DevicesOK'
  BY <1>1, <1>2 DEF DevicesOK, GpuExclusive, RenderSteps, FinalSteps
<1> QED BY <1>3, <1>4, <1>5 DEF IInv

LEMMA StartFailsIInv == ASSUME IInv, StartFails PROVE IInv'
<1>1. /\ w.pc = "start" /\ WorkerOK /\ UNCHANGED <<setting, cands, revs, pstate, comfy, server, ops>>
      /\ faults' = faults \/ Fault
  BY CurOf DEF StartFails
<1>2. /\ Shape(w') /\ w'.pc = "charge" /\ w'.todo = w.todo /\ w'.cur = w.cur
      /\ w'.child = w.child /\ w'.out = w.out
  BY <1>1, GotoTurn DEF StartFails
<1>3. WorkerOK' /\ TableOK' /\ KnownOK'
  BY <1>1, <1>2, ListStep DEF RouteSteps, PlannerSteps, WorkerOK
<1>4. ScalarsOK' /\ DevicesOK' /\ SelectionOK'
  BY <1>1, <1>2, WorkerStep, RevsTyped DEF RenderSteps, FinalSteps
<1> QED BY <1>3, <1>4 DEF IInv

LEMMA ChargeAllIInv == ASSUME IInv, ChargeAll PROVE IInv'
<1>1. PICK i \in w.todo :
        /\ cands' = InfraFailure(cands, i)
        /\ w' = [w EXCEPT !.todo = @ \ {i}, !.pc = IF w.todo = {i} THEN "loop" ELSE @]
  BY DEF ChargeAll
<1>2. /\ w.pc = "charge" /\ WorkerOK /\ i \in Ids /\ i \in Held
      /\ UNCHANGED <<setting, revs, pstate, comfy, server, faults, ops>>
  BY CurOf DEF ChargeAll, Held
<1>3. /\ Shape(w') /\ w'.pc \in {"charge", "loop"} /\ w'.todo = w.todo \ {i}
      /\ w'.cur = w.cur /\ w'.child = w.child /\ w'.out = w.out
  BY <1>1, <1>2 DEF WorkerOK, Shape
<1>4. Handover
  BY <1>2, <1>3 DEF Handover, Held
<1>5. TableOK' /\ Ids' = Ids
  BY <1>1, <1>2, <1>4, InfraStep
<1>6. WorkerOK'
  BY <1>2, <1>3, <1>5 DEF WorkerOK, Steps, CurSteps, RenderSteps, RouteSteps, PlannerSteps,
                          FinalSteps
<1>7. w.out = "none"
  BY <1>2 DEF IInv, KnownOK, PlannerOK, RouteSteps, PlannerSteps
<1>8. KnownOK'
  BY <1>3, <1>7, KnowsNothing DEF Blind, RouteSteps, PlannerSteps, FinalSteps
<1>9. ScalarsOK' /\ DevicesOK' /\ SelectionOK'
  BY <1>2, <1>3, WorkerStep, RevsTyped DEF RenderSteps, FinalSteps
<1> QED BY <1>5, <1>6, <1>8, <1>9 DEF IInv

\* A step of the evaluation that charges a candidate.
LEMMA ChargedIInv ==
  ASSUME IInv, NEW i \in Ids, i \in Held, w.pc # "promote" \/ i = w.cur, w.pc # "idle",
         Charged(i), UNCHANGED <<setting, revs, pstate, comfy, server, ops>>,
         faults' = faults \/ Fault
  PROVE  IInv'
<1>1. WorkerOK' /\ TableOK' /\ KnownOK' /\ w'.pc = "evaluate"
  BY ChargedStep
<1>2. ScalarsOK' /\ DevicesOK' /\ SelectionOK'
  BY <1>1, WorkerStep, RevsTyped DEF RenderSteps, FinalSteps
<1> QED BY <1>1, <1>2 DEF IInv

\* A step of the evaluation to another of its steps.
LEMMA EvalOn ==
  ASSUME IInv, w.pc # "idle", w.pc # "promote",
         UNCHANGED <<setting, revs, pstate, comfy, server, faults, ops>>,
         NEW i \in Ids, i \in Held, Shape(w'), w'.pc \in EvalSteps, w'.todo = w.todo, w'.cur = i,
         w'.child = w.child, w'.out = "none", Handover => TableOK' /\ Ids' = Ids,
         \/ w'.pc \in {"judge", "judging"} /\ cands'[i].ev \in {"RUNNING", "raw"}
         \/ w'.pc = "manifest" /\ cands'[i].ev = "raw"
         \/ w'.pc = "evidence" /\ cands'[i].ev = "manifest"
         \/ w'.pc = "route" /\ cands'[i].ev = "COMPLETE"
  PROVE  IInv'
<1>1. WorkerOK
  BY CurOf
<1>2. w'.pc \notin {"promote", "start", "register"} /\ w'.pc \notin RenderSteps /\ w'.pc \in Steps
  BY DEF EvalSteps, RenderSteps, FinalSteps, Steps, CurSteps
<1>3. Handover
  BY <1>2 DEF Handover, Held
<1>4. TableOK' /\ Ids' = Ids
  BY <1>3
<1>5. WorkerOK'
  BY <1>1, <1>2, <1>4 DEF WorkerOK
<1>6. KnownOK'
  BY EvalKnows
<1>7. ScalarsOK' /\ DevicesOK' /\ SelectionOK'
  BY <1>2, WorkerStep, RevsTyped
<1> QED BY <1>4, <1>5, <1>6, <1>7 DEF IInv

LEMMA BeginIInv == ASSUME IInv, NEW i \in Ids, Begin(i) PROVE IInv'
<1>1. /\ w.pc = "evaluate" /\ i \in w.todo /\ i \in Held /\ WorkerOK /\ cands \in Seq(Candidates)
      /\ cands[i] \in Candidates /\ DOMAIN cands = Ids
      /\ UNCHANGED <<setting, revs, pstate, comfy, server, faults, ops>>
  BY CurOf DEF Begin, Held, Ids
<1>2. CASE Charged(i)
  BY <1>1, <1>2, ChargedIInv
<1>3. ASSUME cands' = BeginEvaluation(cands, i), NEW p, Take(i, p),
             \/ p = "route" /\ cands[i].ev = "COMPLETE"
             \/ p = "evidence" /\ cands[i].ev = "manifest"
             \/ p = "judge" /\ cands[i].ev \notin {"COMPLETE", "manifest"}
      PROVE  IInv'
  <2>1. /\ Shape(w') /\ w'.pc = p /\ w'.todo = w.todo /\ w'.cur = i /\ w'.child = w.child
        /\ w'.out = w.out
    BY <1>1, <1>3, TakeTurn
  <2>2. w.out = "none"
    BY <1>1 DEF IInv, KnownOK, PlannerOK, RouteSteps, PlannerSteps
  <2>3. p \in EvalSteps
    BY <1>3 DEF EvalSteps
  <2>4. CASE cands[i].ev = "none"
    <3>1. cands' = SetEv(cands, i, "RUNNING")
      BY <1>3, <2>4 DEF BeginEvaluation, SetEv
    <3>2. PICK e \in Evidences : e = "RUNNING"
      BY DEF Evidences
    <3>3. /\ One(cands, cands', i) /\ SameCandidate(cands[i], cands'[i])
          /\ SamePlan(cands[i], cands'[i]) /\ cands'[i].b2row = cands[i].b2row
          /\ cands'[i].ev = e /\ cands'[i].state = cands[i].state
          /\ cands'[i].human = cands[i].human /\ cands'[i].final = cands[i].final
      BY <1>1, <3>1, <3>2, SetEv_OK
    <3>4. Handover => TableOK' /\ Ids' = Ids
      BY <1>1, <2>4, <3>3, JudgedStep
    <3> QED BY <1>1, <1>3, <2>1, <2>2, <2>3, <2>4, <3>2, <3>3, <3>4, EvalOn
  <2>5. CASE cands[i].ev # "none"
    <3>1. cands' = cands
      BY <1>1, <1>3, <2>5 DEF BeginEvaluation, Candidates
    <3>2. cands[i].ev \in {"RUNNING", "raw", "manifest", "COMPLETE"}
      BY <1>1, <2>5 DEF Candidates
    <3>3. Handover => TableOK' /\ Ids' = Ids
      BY <1>1, <3>1, SameTable, RevsTyped
    <3> QED BY <1>1, <1>3, <2>1, <2>2, <2>3, <3>1, <3>2, <3>3, EvalOn
  <2> QED BY <2>4, <2>5
<1>4. CASE ~Charged(i)
  <2>1. PICK p : /\ cands' = BeginEvaluation(cands, i) /\ Take(i, p)
                 /\ p = CASE cands[i].ev = "COMPLETE" -> "route"
                          [] cands[i].ev = "manifest" -> "evidence"
                          [] OTHER -> "judge"
    BY <1>4 DEF Begin
  <2>2. \/ p = "route" /\ cands[i].ev = "COMPLETE"
        \/ p = "evidence" /\ cands[i].ev = "manifest"
        \/ p = "judge" /\ cands[i].ev \notin {"COMPLETE", "manifest"}
    BY <2>1
  <2> QED BY <1>3, <2>1, <2>2
<1> QED BY <1>2, <1>4

LEMMA RunningIInv == ASSUME IInv, Running PROVE IInv'
<1>1. w.pc = "judge" /\ w.pc \in EvalSteps
  BY DEF Running, EvalSteps
<1>2. /\ WorkerOK /\ w.out = "none" /\ w.cur \in Held /\ w.cur \in Ids
      /\ cands[w.cur].ev \in {"RUNNING", "raw"}
  BY <1>1, Evaluating
<1>3. /\ Shape(w') /\ w'.pc = "judging" /\ w'.todo = w.todo /\ w'.cur = w.cur
      /\ w'.child = w.child /\ w'.out = w.out
  BY <1>2, GotoTurn DEF Running
<1>4. MayEnter(cands[w.cur], "QC_RUNNING", setting.auto, w.cur \in Held)
  BY <1>2 DEF MayEnter, Plain
<1>5. Handover
  BY <1>1, <1>3 DEF Handover, Held
<1>6. TableOK' /\ Ids' = Ids /\ Kept(cands[w.cur], cands'[w.cur])
  BY <1>2, <1>4, <1>5, SetStep, StatesListed, NextsListed DEF Running
<1>7. cands'[w.cur].ev \in {"RUNNING", "raw"}
  BY <1>2, <1>6 DEF Kept, SameVerdict
<1> QED BY <1>1, <1>2, <1>3, <1>6, <1>7, EvalOn DEF Running, EvalSteps

LEMMA JudgeIInv == ASSUME IInv, Judge PROVE IInv'
<1>1. w.pc = "judging" /\ w.pc \in EvalSteps
  BY DEF Judge, EvalSteps
<1>2. /\ WorkerOK /\ w.out = "none" /\ w.cur \in Held /\ w.cur \in Ids
      /\ cands \in Seq(Candidates) /\ DOMAIN cands = Ids
      /\ cands[w.cur].ev \in {"RUNNING", "raw"}
  BY <1>1, Evaluating
<1>3. UNCHANGED <<setting, revs, pstate, comfy, server, faults, ops>>
  BY DEF Judge
<1>4. CASE Charged(w.cur)
  BY <1>1, <1>2, <1>3, <1>4, ChargedIInv
<1>5. ASSUME NEW v \in Verdicts, cands' = SetJudged(cands, w.cur, "raw", v), Goto("manifest")
      PROVE  IInv'
  <2>1. /\ Shape(w') /\ w'.pc = "manifest" /\ w'.todo = w.todo /\ w'.cur = w.cur
        /\ w'.child = w.child /\ w'.out = w.out
    BY <1>2, <1>5, GotoTurn
  <2>2. PICK e \in Evidences : e = "raw"
    BY DEF Evidences
  <2>3. PICK i \in Ids : i = w.cur
    BY <1>2
  <2>4. /\ One(cands, cands', i) /\ SameCandidate(cands[i], cands'[i])
        /\ SamePlan(cands[i], cands'[i]) /\ cands'[i].b2row = cands[i].b2row
        /\ cands'[i].ev = e /\ cands'[i].state = cands[i].state
        /\ cands'[i].human = cands[i].human /\ cands'[i].final = cands[i].final
    BY <1>2, <1>5, <2>2, <2>3, SetJudged_OK
  <2>5. Handover => TableOK' /\ Ids' = Ids
    BY <1>1, <1>2, <1>3, <2>3, <2>4, JudgedStep
  <2>6. "manifest" \in EvalSteps
    BY DEF EvalSteps
  <2> QED BY <1>1, <1>2, <1>3, <2>1, <2>2, <2>3, <2>4, <2>5, <2>6, EvalOn
<1> QED BY <1>4, <1>5 DEF Judge, SetJudged

LEMMA JudgeFailsIInv == ASSUME IInv, JudgeFails PROVE IInv'
<1>1. w.pc = "judging" /\ w.pc \in EvalSteps
  BY DEF JudgeFails, EvalSteps
<1>2. WorkerOK /\ w.out = "none" /\ w.cur \in Held /\ w.cur \in Ids /\ 0 \notin Ids
  BY <1>1, Evaluating
<1>3. UNCHANGED <<setting, revs, pstate, comfy, server, ops>> /\ Fault
  BY DEF JudgeFails
<1>4. CASE Charged(w.cur)
  BY <1>1, <1>2, <1>3, <1>4, ChargedIInv
<1>5. CASE cands' = InfraFailure(cands, w.cur) /\ w' = [NoWork EXCEPT !.pc = "close", !.seen = w.seen]
  <2>1. /\ Shape(w') /\ w'.pc = "close" /\ w'.todo = {} /\ w'.cur = 0 /\ w'.child = 0
        /\ w'.out = "none"
    BY <1>5 DEF NoWork, Shape
  <2>2. Handover
    BY <1>1, <2>1 DEF Handover, Held
  <2>3. TableOK' /\ Ids' = Ids
    BY <1>2, <1>3, <1>5, <2>2, InfraStep
  <2>4. WorkerOK'
    BY <1>2, <2>1, <2>3 DEF WorkerOK, Steps, CurSteps, RenderSteps, RouteSteps, PlannerSteps,
                            FinalSteps
  <2>5. KnownOK'
    BY <2>1, KnowsNothing DEF Blind, RouteSteps, PlannerSteps, FinalSteps
  <2>6. ScalarsOK' /\ DevicesOK' /\ SelectionOK'
    BY <1>1, <1>3, <2>1, WorkerStep, RevsTyped DEF RenderSteps, FinalSteps
  <2> QED BY <2>3, <2>4, <2>5, <2>6 DEF IInv
<1> QED BY <1>4, <1>5 DEF JudgeFails

\* The evidence of the candidate in hand goes one step on.
LEMMA EvidenceOn ==
  ASSUME IInv, UNCHANGED <<setting, revs, pstate, comfy, server, faults, ops>>,
         NEW e \in Evidences, NEW p, cands' = SetEv(cands, w.cur, e), Goto(p),
         \/ w.pc = "manifest" /\ p = "evidence" /\ e = "manifest"
         \/ w.pc = "evidence" /\ p = "route" /\ e = "COMPLETE"
  PROVE  IInv'
<1>1. w.pc \in EvalSteps /\ p \in EvalSteps
  BY DEF EvalSteps
<1>2. /\ WorkerOK /\ w.out = "none" /\ w.cur \in Held /\ w.cur \in Ids
      /\ cands \in Seq(Candidates) /\ DOMAIN cands = Ids
      /\ cands[w.cur].ev \in {"raw", "manifest"}
  BY <1>1, Evaluating
<1>3. /\ Shape(w') /\ w'.pc = p /\ w'.todo = w.todo /\ w'.cur = w.cur
      /\ w'.child = w.child /\ w'.out = w.out
  BY <1>2, GotoTurn
<1>4. PICK i \in Ids : i = w.cur
  BY <1>2
<1>5. /\ One(cands, cands', i) /\ SameCandidate(cands[i], cands'[i])
      /\ SamePlan(cands[i], cands'[i]) /\ cands'[i].b2row = cands[i].b2row
      /\ cands'[i].ev = e /\ cands'[i].state = cands[i].state
      /\ cands'[i].human = cands[i].human /\ cands'[i].final = cands[i].final
  BY <1>2, <1>4, SetEv_OK
<1>6. Handover => TableOK' /\ Ids' = Ids
  BY <1>2, <1>4, <1>5, JudgedStep
<1> QED BY <1>1, <1>2, <1>3, <1>4, <1>5, <1>6, EvalOn

LEMMA ManifestIInv == ASSUME IInv, Manifest PROVE IInv'
BY EvidenceOn DEF Manifest, SetEv, Evidences

LEMMA EvidenceIInv == ASSUME IInv, Evidence PROVE IInv'
BY EvidenceOn DEF Evidence, SetEv, Evidences

LEMMA CloseIInv == ASSUME IInv, Close PROVE IInv'
<1>1. /\ w.pc \in {"close", "evaluate"} /\ WorkerOK /\ server' = "down"
      /\ UNCHANGED <<setting, cands, revs, pstate, comfy, faults, ops>>
  BY CurOf DEF Close, AtClose
<1>2. /\ Shape(w') /\ w'.pc = "loop" /\ w'.todo = w.todo /\ w'.cur = w.cur
      /\ w'.child = w.child /\ w'.out = w.out
  BY <1>1, GotoTurn DEF Close
<1>3. WorkerOK' /\ TableOK' /\ KnownOK'
  BY <1>1, <1>2, ListStep DEF RouteSteps, PlannerSteps, WorkerOK
<1>4. ScalarsOK' /\ SelectionOK'
  BY <1>1 DEF IInv, ScalarsOK, SelectionOK
<1>5. DevicesOK'
  BY <1>1, <1>2 DEF DevicesOK, GpuExclusive, RenderSteps, FinalSteps
<1> QED BY <1>3, <1>4, <1>5 DEF IInv

LEMMA CloseFailsIInv == ASSUME IInv, CloseFails PROVE IInv'
<1>1. /\ w.pc \in {"close", "evaluate"} /\ Fault /\ Raise
      /\ UNCHANGED <<setting, cands, revs, pstate, comfy, server, ops>>
  BY DEF CloseFails, AtClose
<1>2. WorkerOK' /\ TableOK' /\ KnownOK' /\ w'.pc = "idle"
  BY <1>1, RaiseStep DEF Raise
<1>3. ScalarsOK' /\ DevicesOK' /\ SelectionOK'
  BY <1>1, <1>2, WorkerStep, RevsTyped DEF RenderSteps, FinalSteps
<1> QED BY <1>2, <1>3 DEF IInv

LEMMA EvaluateIInv == ASSUME IInv, Evaluate PROVE IInv'
BY BarrierIInv, StartIInv, StartFailsIInv, ChargeAllIInv, BeginIInv, RunningIInv, JudgeIInv,
   ManifestIInv, EvidenceIInv, CloseIInv DEF Evaluate


-----------------------------------------------------------------------------
(* The lineage                                                                  *)

LEMMA Places ==
  ASSUME NEW t \in Tiers
  PROVE  /\ Place(t) \in 0 .. 6 /\ Place(t) \in Nat
         /\ Place(t) = 6 => t = "D"
         /\ t = "D" => Place(t) = 6
         /\ t = "ORIGINAL" => Place(t) = 0
BY DEF Tiers, Place

LEMMA HeirPlace ==
  ASSUME NEW c \in Candidates
  PROVE  /\ Heir(c) \in Tiers /\ Heir(c) # "ORIGINAL"
         /\ c.tier # "D" => Place(c.tier) < Place(Heir(c))
         /\ c.tier = "D" => Heir(c) = "D"
<1>1. c.tier \in {"ORIGINAL", "A1", "A2", "B1", "B2", "C", "D"}
  BY DEF Candidates, Tiers
<1>2. CASE c.verdict = "FRAME" /\ c.tier \in {"ORIGINAL", "A1", "A2", "B1"}
  <2>1. Heir(c) = "B2"
    BY <1>2 DEF Heir
  <2> QED BY <1>2, <2>1 DEF Place, Tiers
<1>3. CASE c.verdict # "FRAME" /\ c.tier = "ORIGINAL"
  <2>1. Heir(c) = "A1"
    BY <1>3 DEF Heir
  <2> QED BY <1>3, <2>1 DEF Place, Tiers
<1>4. CASE c.verdict # "FRAME" /\ c.tier = "A1"
  <2>1. Heir(c) = "A2"
    BY <1>4 DEF Heir
  <2> QED BY <1>4, <2>1 DEF Place, Tiers
<1>5. CASE c.verdict # "FRAME" /\ c.tier = "A2"
  <2>1. Heir(c) \in {"B1", "C"}
    BY <1>5 DEF Heir
  <2> QED BY <1>5, <2>1 DEF Place, Tiers
<1>6. CASE c.verdict # "FRAME" /\ c.tier = "B1"
  <2>1. Heir(c) = "C"
    BY <1>6 DEF Heir
  <2> QED BY <1>6, <2>1 DEF Place, Tiers
<1>7. CASE c.tier = "B2"
  <2>1. Heir(c) = "C"
    BY <1>7 DEF Heir
  <2> QED BY <1>7, <2>1 DEF Place, Tiers
<1>8. CASE c.tier \in {"C", "D"}
  <2>1. Heir(c) = "D"
    BY <1>8 DEF Heir
  <2> QED BY <1>8, <2>1 DEF Place, Tiers
<1> QED BY <1>1, <1>2, <1>3, <1>4, <1>5, <1>6, <1>7, <1>8

\* Only D has a second candidate of its tier.
LEMMA TierOnce ==
  ASSUME IInv, NEW i \in Ids, NEW j \in Ids, cands[i].tier = cands[j].tier, cands[i].tier # "D"
  PROVE  i = j
<1>1. cands[i].tier \in Tiers /\ i \in Nat /\ j \in Nat
  BY CurOf, RowTypes
<1>2. Place(cands[i].tier) \in Nat
  BY <1>1, Places
<1>3. i < j \/ j < i \/ i = j
  BY <1>1
<1> QED BY <1>2, <1>3 DEF IInv, TableOK, LineageOK

\* The heir of a candidate comes right behind it.
LEMMA HeirIsNext ==
  ASSUME IInv, NEW p \in Ids, cands[p].tier # "D"
  PROVE  /\ OfTier(Heir(cands[p])) = {} => p = Len(cands)
         /\ \A j \in OfTier(Heir(cands[p])) : p + 1 \in Ids /\ cands[p + 1].par = p
         /\ Heir(cands[p]) # "D" =>
              \A j \in OfTier(Heir(cands[p])) : j = p + 1
<1>1. Ids = 1 .. Len(cands) /\ Len(cands) \in Nat /\ cands[p] \in Candidates
  BY CurOf
<1>2. p < Len(cands) => /\ p + 1 \in Ids /\ cands[p + 1].par = p
                        /\ cands[p + 1].tier = Heir(cands[p])
  BY <1>1 DEF IInv, TableOK, LineageOK
<1>3. OfTier(Heir(cands[p])) = {} => p = Len(cands)
  BY <1>1, <1>2 DEF OfTier
<1>4. ASSUME NEW j \in OfTier(Heir(cands[p]))
      PROVE  /\ p + 1 \in Ids /\ cands[p + 1].par = p
             /\ Heir(cands[p]) # "D" => j = p + 1
  <2>1. j \in Ids /\ cands[j].tier = Heir(cands[p])
    BY DEF OfTier
  <2>2. /\ cands[p].tier \in Tiers /\ Heir(cands[p]) \in Tiers
        /\ Place(cands[p].tier) < Place(Heir(cands[p]))
    BY <1>1, HeirPlace, RowTypes
  <2>3. Place(cands[p].tier) \in Nat /\ Place(Heir(cands[p])) \in Nat
    BY <2>2, Places
  <2>4. j # p
    BY <2>1, <2>2, <2>3
  <2>5. ~(j < p)
    <3> SUFFICES ASSUME j < p PROVE FALSE
      OBVIOUS
    <3>1. Place(cands[j].tier) < Place(cands[p].tier)
      BY <2>1 DEF IInv, TableOK, LineageOK
    <3> QED BY <2>1, <2>2, <2>3, <3>1
  <2>6. p < Len(cands)
    BY <1>1, <2>1, <2>4, <2>5
  <2>7. Heir(cands[p]) # "D" => j = p + 1
    BY <1>2, <2>1, <2>6, TierOnce
  <2> QED BY <1>2, <2>6, <2>7
<1> QED BY <1>3, <1>4

LEMMA LeastOf ==
  ASSUME NEW S, NEW x, S = {x}, x \in Nat
  PROVE  Least(S) = x
BY DEF Least

\* The heir a candidate has is the first of its tier.
LEMMA HeirFound ==
  ASSUME IInv, NEW p \in Ids, cands[p].tier # "D", Heir(cands[p]) # "D",
         OfTier(Heir(cands[p])) # {}
  PROVE  /\ Least(OfTier(Heir(cands[p]))) \in Ids
         /\ Least(OfTier(Heir(cands[p]))) = p + 1
         /\ cands[p + 1].par = p /\ cands[p + 1].tier = Heir(cands[p])
<1>1. Ids = 1 .. Len(cands) /\ Len(cands) \in Nat
  BY CurOf
<1>2. PICK j : j \in OfTier(Heir(cands[p]))
  OBVIOUS
<1>3. p + 1 \in Ids /\ cands[p + 1].par = p /\ j = p + 1
  BY <1>2, HeirIsNext
<1>4. OfTier(Heir(cands[p])) = {p + 1}
  BY <1>2, <1>3, HeirIsNext
<1>5. Least(OfTier(Heir(cands[p]))) = p + 1
  BY <1>1, <1>4, LeastOf
<1> QED BY <1>2, <1>3, <1>5 DEF OfTier

\* A candidate that did not fail has no repair.
LEMMA NoRepairOf ==
  ASSUME IInv, NEW i \in Ids, ~Failed(cands[i])
  PROVE  Leaf(i)
<1> SUFFICES ASSUME NEW j \in Ids, cands[j].par = i PROVE FALSE
  BY DEF Leaf
<1>1. Ids = 1 .. Len(cands) /\ 0 \notin Ids
  BY CurOf
<1>2. j = 1 \/ j > 1
  BY <1>1
<1> QED BY <1>1, <1>2 DEF IInv, TableOK, LineageOK

Paths == {"draft", "clip"}
NewLedgers == {"none", "PLANNED"}

LEMMA NewCandidate_Fields ==
  ASSUME NEW p \in Ids, cands[p] \in Candidates, p \in Nat, NEW t \in Tiers, NEW r \in Nat,
         NEW path \in Paths, NEW n \in NextActions, NEW l \in NewLedgers,
         NEW auto, NEW x, x = NewCandidate(t, p, r, path, n, l)
  PROVE  /\ RowOK(x, auto) /\ x \in Candidates
         /\ x.tier = t /\ x.par = p /\ x.rev = r /\ x.ledger = l /\ ~x.b2row
         /\ x.state = "PENDING_GENERATION" /\ x.human = "none"
<1>1. cands[p].frame \in Nat
  BY RowTypes
<1>2. "PENDING_GENERATION" \in States /\ "none" \in Verdicts \cup {"none"}
  BY StatesListed
<1>3. x \in Candidates
  BY <1>1, <1>2 DEF NewCandidate, Candidates, Paths, NewLedgers
<1>4. /\ x.tier = t /\ x.par = p /\ x.rev = r /\ x.ledger = l /\ x.b2row = FALSE
      /\ x.state = "PENDING_GENERATION" /\ x.human = "none"
  BY DEF NewCandidate
<1>5. x.calls = 0 /\ x.final = "none"
  BY DEF NewCandidate
<1> QED BY <1>3, <1>4, <1>5 DEF RowOK


-----------------------------------------------------------------------------
(* A repair is inserted                                                         *)

LEMMA Appended ==
  ASSUME RowsOK, NEW x \in Candidates, NEW n, n = Len(cands) + 1, cands' = Append(cands, x)
  PROVE  /\ cands' \in Seq(Candidates) /\ Len(cands') = n /\ Ids' = Ids \cup {n}
         /\ n \notin Ids /\ n \in Nat /\ cands'[n] = x /\ Ids' = 1 .. n
         /\ \A i \in Ids : cands'[i] = cands[i]
BY IdsRange DEF RowsOK, Ids

\* The new candidate x is the repair of the one in hand, p.
Follows(x, p) ==
  /\ Failed(cands[p]) /\ x.par = p /\ x.tier # "ORIGINAL"
  /\ \/ /\ p = Len(cands) /\ cands[p].tier # "D" /\ x.tier = Heir(cands[p])
        /\ cands[p].tier = "A2" /\ cands[p].verdict # "FRAME" => cands[p].repair # "none"
     \/ cands[p].tier = "D" /\ x.tier = "D"
  /\ x.tier = "B2" /\ x.ledger = "none" => cands[p].tier = "B1"

LEMMA LineageGrows ==
  ASSUME IInv, NEW x \in Candidates, cands' = Append(cands, x), NEW p \in Ids, Follows(x, p)
  PROVE  LineageOK'
<1>1. RowsOK /\ LineageOK
  BY DEF IInv, TableOK
<1>2. PICK n : n = Len(cands) + 1
  OBVIOUS
<1>3. /\ Ids = 1 .. Len(cands) /\ Len(cands) \in Nat /\ Len(cands') = n
      /\ n \notin Ids /\ n \in Nat /\ cands'[n] = x /\ Ids' = 1 .. n /\ Ids' = Ids \cup {n}
      /\ \A i \in Ids : cands'[i] = cands[i] /\ cands[i] \in Candidates
  BY <1>1, <1>2, Appended, CurOf
<1>4. p \in 1 .. n - 1 /\ n > 1
  BY <1>2, <1>3
<1>5. ASSUME NEW j \in Ids'
      PROVE  /\ cands'[j].tier = "ORIGINAL" <=> j = 1
             /\ j = 1 => cands'[j].par = 0
             /\ j > 1 => cands'[j].par \in 1 .. j - 1 /\ Failed(cands'[cands'[j].par])
  <2>1. CASE j = n
    BY <1>3, <1>4, <2>1 DEF Follows
  <2>2. CASE j \in Ids
    <3>1. /\ cands[j].tier = "ORIGINAL" <=> j = 1
          /\ j = 1 => cands[j].par = 0
          /\ j > 1 => cands[j].par \in 1 .. j - 1 /\ Failed(cands[cands[j].par])
      BY <1>1, <2>2 DEF LineageOK
    <3>2. j > 1 => cands[j].par \in Ids
      BY <1>3, <2>2, <3>1
    <3> QED BY <1>3, <2>2, <3>1, <3>2
  <2> QED BY <1>3, <2>1, <2>2
<1>6. ASSUME NEW i \in Ids', NEW j \in Ids', i < j
      PROVE  \/ Place(cands'[i].tier) < Place(cands'[j].tier)
             \/ cands'[i].tier = "D" /\ cands'[j].tier = "D"
  <2>1. i \in Ids
    BY <1>3, <1>6
  <2>2. CASE j \in Ids
    BY <1>1, <1>3, <1>6, <2>1, <2>2, SMTT(20) DEF LineageOK
  <2>3. CASE j = n
    <3>1. /\ cands[i].tier \in Tiers /\ cands[p].tier \in Tiers /\ x.tier \in Tiers
      BY <1>3, <2>1, RowTypes
    <3>2. /\ Place(cands[i].tier) \in 0 .. 6 /\ Place(cands[p].tier) \in 0 .. 6
          /\ Place(x.tier) \in 0 .. 6 /\ (Place(cands[i].tier) = 6 => cands[i].tier = "D")
          /\ (x.tier = "D" => Place(x.tier) = 6)
      BY <3>1, Places
    <3>3. CASE x.tier = "D"
      BY <1>3, <2>1, <2>3, <3>2, <3>3
    <3>4. CASE x.tier # "D"
      <4>1. p = Len(cands) /\ cands[p].tier # "D" /\ x.tier = Heir(cands[p])
        BY <3>4 DEF Follows
      <4>2. Place(cands[p].tier) < Place(x.tier)
        BY <1>3, <4>1, HeirPlace
      <4>3. i = p \/ i < p
        BY <1>3, <2>1, <4>1
      <4>4. i < p => Place(cands[i].tier) < Place(cands[p].tier)
        BY <1>1, <2>1, <4>1 DEF LineageOK
      <4> QED BY <1>3, <2>1, <2>3, <3>2, <4>2, <4>3, <4>4
    <3> QED BY <3>3, <3>4
  <2> QED BY <1>3, <2>2, <2>3
<1>7. ASSUME NEW i \in Ids', cands'[i].tier # "D", i < n
      PROVE  /\ cands'[i + 1].par = i /\ cands'[i + 1].tier = Heir(cands'[i])
             /\ cands'[i].tier = "A2" /\ cands'[i].verdict # "FRAME"
                  => cands'[i].repair # "none"
  <2>1. i \in Ids /\ cands'[i] = cands[i]
    BY <1>3, <1>7
  <2>2. CASE i < Len(cands)
    <3>1. i + 1 \in Ids
      BY <1>3, <2>1, <2>2
    <3> QED BY <1>1, <1>3, <1>7, <2>1, <2>2, <3>1 DEF LineageOK
  <2>3. CASE i = Len(cands)
    <3>1. cands[i].tier # "D" /\ i + 1 = n
      BY <1>2, <1>7, <2>1, <2>3
    <3>2. cands[p].tier # "D"
      <4> SUFFICES ASSUME cands[p].tier = "D" PROVE FALSE
        OBVIOUS
      <4>1. cands[i].tier \in Tiers /\ Place("D") = 6
        BY <1>3, <2>1, RowTypes DEF Place
      <4>2. Place(cands[i].tier) \in 0 .. 6
        BY <4>1, Places
      <4>3. p < i
        BY <1>3, <2>3, <3>1
      <4>4. Place(cands[p].tier) < Place(cands[i].tier)
        BY <1>1, <2>1, <3>1, <4>3 DEF LineageOK
      <4> QED BY <4>1, <4>2, <4>4
    <3>3. /\ p = i /\ x.tier = Heir(cands[i]) /\ x.par = i
          /\ cands[i].tier = "A2" /\ cands[i].verdict # "FRAME" => cands[i].repair # "none"
      BY <2>3, <3>2 DEF Follows
    <3> QED BY <1>3, <2>1, <3>1, <3>3
  <2> QED BY <1>3, <2>1, <2>2, <2>3
<1>8. ASSUME NEW j \in Ids', cands'[j].tier = "B2", cands'[j].ledger = "none"
      PROVE  j > 1 /\ cands'[cands'[j].par].tier = "B1"
  <2>1. CASE j = n
    BY <1>3, <1>4, <1>8, <2>1 DEF Follows
  <2>2. CASE j \in Ids
    <3>1. j > 1 /\ cands[cands[j].par].tier = "B1"
      BY <1>1, <1>3, <1>8, <2>2 DEF LineageOK
    <3>2. cands[j].par \in 1 .. j - 1
      BY <1>1, <2>2, <3>1 DEF LineageOK
    <3>3. cands[j].par \in Ids
      BY <1>3, <2>2, <3>2
    <3> QED BY <1>3, <2>2, <3>1, <3>3
  <2> QED BY <1>3, <2>1, <2>2
<1> QED BY <1>3, <1>5, <1>6, <1>7, <1>8 DEF LineageOK

\* The revision r is free, and nobody reserved it but for a B2.
FreshRevision(r, t) ==
  \A i \in Ids : /\ cands[i].rev # r
                 /\ cands[i].b2row /\ r = cands[i].rev + 1 => t = "B2"

LEMMA AppendStep ==
  ASSUME IInv, setting' = setting, revs' \in Nat, revs' >= revs, Len(cands) < MaxCands,
         w.pc # "promote", w'.pc # "promote", w'.todo \subseteq w.todo, w'.cur = w.cur,
         NEW x \in Candidates, cands' = Append(cands, x), RowOK(x, setting.auto),
         x.state = "PENDING_GENERATION", ~x.b2row, x.rev <= revs',
         FreshRevision(x.rev, x.tier), NEW p \in Ids, Follows(x, p)
  PROVE  /\ TableOK' /\ Ids' = Ids \cup {Len(cands) + 1}
         /\ cands'[Len(cands) + 1] = x /\ \A i \in Ids : cands'[i] = cands[i]
<1>1. RowsOK /\ LineageOK /\ RevisionsOK /\ SupersededOK /\ AliveOK /\ 0 \notin Ids
  BY CurOf DEF IInv, TableOK
<1>2. PICK n : n = Len(cands) + 1
  OBVIOUS
<1>3. /\ Ids = 1 .. Len(cands) /\ Len(cands) \in Nat /\ Len(cands') = n
      /\ n \notin Ids /\ n \in Nat /\ cands'[n] = x /\ Ids' = Ids \cup {n}
      /\ \A i \in Ids : cands'[i] = cands[i]
      /\ cands' \in Seq(Candidates)
  BY <1>1, <1>2, Appended, CurOf
<1>4. RowsOK'
  <2>1. Len(cands') <= MaxCands
    BY <1>2, <1>3, BoundAssumption
  <2>2. \A i \in Ids' : RowOK(cands'[i], setting.auto)
    BY <1>3, CurOf
  <2> QED BY <1>3, <2>1, <2>2 DEF RowsOK
<1>5. LineageOK'
  BY LineageGrows
<1>6. RevisionsOK'
  <2>1. revs \in Nat /\ x.rev \in Nat /\ \A i \in Ids : cands[i].rev \in Nat
    BY <1>3, CurOf, RevsTyped, RowTypes
  <2>2. \A i \in Ids' : cands'[i].rev <= revs' /\ (cands'[i].b2row => cands'[i].rev < revs')
    BY <1>1, <1>3, <2>1 DEF RevisionsOK
  <2>3. RevisionsDistinct'
    BY <1>1, <1>3 DEF RevisionsOK, RevisionsDistinct, FreshRevision
  <2>4. \A i, j \in Ids' : cands'[i].b2row /\ cands'[j].rev = cands'[i].rev + 1
                             => cands'[j].tier = "B2"
    <3> SUFFICES ASSUME NEW i \in Ids', NEW j \in Ids', cands'[i].b2row,
                        cands'[j].rev = cands'[i].rev + 1
                 PROVE  cands'[j].tier = "B2"
      OBVIOUS
    <3>1. i \in Ids /\ cands'[i] = cands[i]
      BY <1>3
    <3>2. CASE j \in Ids
      BY <1>1, <1>3, <3>1, <3>2 DEF RevisionsOK
    <3>3. CASE j = n
      BY <1>3, <3>1, <3>3 DEF FreshRevision
    <3> QED BY <1>3, <3>2, <3>3
  <2> QED BY <2>2, <2>3, <2>4 DEF RevisionsOK
<1>7. SupersededOK'
  <2>1. \A i \in Ids : ~Promoting(i) /\ ~Promoting(i)'
    BY DEF Promoting
  <2>2. Firm \subseteq Firm'
    BY <1>3, <2>1 DEF Firm
  <2>3. ASSUME NEW i \in Ids', cands'[i].state = "SUPERSEDED"
        PROVE  Firm' # {} \/ \E j \in Ids' : cands'[j].par = i /\ cands'[j].ledger # "none"
    <3>1. i \in Ids /\ cands[i].state = "SUPERSEDED"
      BY <1>3, <2>3
    <3> QED BY <1>1, <1>3, <2>2, <3>1 DEF SupersededOK
  <2>4. ASSUME NEW i \in Ids', cands'[i].state = "ACCEPTED", cands'[i].human # "APPROVE"
        PROVE  i \notin w'.todo /\ i # w'.cur
    <3>1. i \in Ids /\ cands[i].state = "ACCEPTED" /\ cands[i].human # "APPROVE"
      BY <1>3, <2>4
    <3> QED BY <1>1, <2>1, <3>1 DEF SupersededOK
  <2> QED BY <2>3, <2>4 DEF SupersededOK
<1>8. AliveOK'
  <2>1. ASSUME NEW j \in Ids PROVE cands[j].par # n
    <3>1. j = 1 \/ j > 1
      BY <1>3
    <3>2. cands[j].par \in 1 .. j - 1 \/ cands[j].par = 0
      BY <1>1, <3>1 DEF LineageOK
    <3> QED BY <1>2, <1>3, <3>2
  <2>2. x.par # n
    BY <1>3 DEF Follows
  <2>3. Leaf(n)'
    BY <1>3, <2>1, <2>2 DEF Leaf
  <2> QED BY <1>3, <2>3 DEF AliveOK
<1> QED BY <1>2, <1>3, <1>4, <1>5, <1>6, <1>7, <1>8 DEF TableOK

\* The next revision of the scene is free.
LEMMA NextRevision ==
  ASSUME IInv, NEW t
  PROVE  FreshRevision(revs + 1, t)
<1> SUFFICES ASSUME NEW i \in Ids
             PROVE  cands[i].rev # revs + 1 /\ (cands[i].b2row => revs + 1 # cands[i].rev + 1)
  BY DEF FreshRevision
<1>1. revs \in Nat /\ cands[i].rev \in Nat
  BY CurOf, RevsTyped, RowTypes
<1> QED BY <1>1 DEF IInv, TableOK, RevisionsOK


-----------------------------------------------------------------------------
(* The routing                                                                  *)

\* What the worker holds when it routes a candidate.
LEMMA Routing ==
  ASSUME IInv, w.pc \in RouteSteps \cup {"route", "promote"}
  PROVE  /\ WorkerOK /\ cands \in Seq(Candidates) /\ DOMAIN cands = Ids
         /\ w.cur \in Held /\ w.cur \in Ids /\ 0 \notin Ids /\ w.cur \in Nat
         /\ w.pc \notin RenderSteps /\ w.pc # "idle" /\ w.pc # "start"
         /\ RowOK(cands[w.cur], setting.auto) /\ cands[w.cur] \in Candidates
         /\ cands[w.cur].ev = "COMPLETE" /\ EvidenceOK /\ PlannerOK /\ ChildOK
<1>1. w.pc \in CurSteps /\ w.pc \notin RenderSteps
  BY DEF CurSteps, RouteSteps, PlannerSteps, RenderSteps, FinalSteps
<1>2. WorkerOK /\ cands \in Seq(Candidates) /\ w.cur \in Ids /\ 0 \notin Ids /\ w.cur \in Nat
  BY <1>1, CurOf
<1>3. EvidenceOK /\ PlannerOK /\ ChildOK
  BY DEF IInv, KnownOK
<1>4. cands[w.cur].ev = "COMPLETE"
  BY <1>3 DEF EvidenceOK
<1>5. w.pc # "idle" /\ w.pc # "start"
  BY DEF RouteSteps, PlannerSteps
<1>6. RowOK(cands[w.cur], setting.auto) /\ cands[w.cur] \in Candidates
  BY <1>2, CurOf
<1> QED BY <1>1, <1>2, <1>3, <1>4, <1>5, <1>6 DEF Held, Ids

\* The worker goes on with the routing, or with the next candidate.
LEMMA RouteTurn ==
  ASSUME IInv, w.pc \in RouteSteps \cup {"route", "promote"},
         UNCHANGED <<setting, pstate, comfy, server, faults, ops>>, revs' \in 1 .. MaxRevs,
         Shape(w'), w'.pc \in RouteSteps \cup {"promote", "evaluate"},
         w'.todo \subseteq w.todo, w'.cur \in {0, w.cur}, w'.pc # "evaluate" => w'.cur = w.cur,
         w'.child \in Ids' \cup {0}, Ids \subseteq Ids', TableOK', KnownOK'
  PROVE  IInv'
<1>1. WorkerOK /\ w.cur \in Ids /\ w.pc \notin RenderSteps /\ w.pc # "idle"
  BY Routing
<1>2. w'.pc \in Steps /\ w'.pc # "register" /\ w'.pc # "start" /\ w'.pc \notin RenderSteps
  BY DEF Steps, CurSteps, RouteSteps, PlannerSteps, RenderSteps, FinalSteps
<1>3. WorkerOK'
  <2>1. w'.pc \in CurSteps => w'.pc # "evaluate"
    BY DEF CurSteps, RouteSteps, PlannerSteps, RenderSteps, FinalSteps
  <2> QED BY <1>1, <1>2, <2>1 DEF WorkerOK
<1>4. ScalarsOK' /\ DevicesOK' /\ SelectionOK'
  BY <1>1, <1>2, WorkerStep
<1> QED BY <1>3, <1>4 DEF IInv

\* The worker knows that the candidate it routes failed.
LEMMA RouteKnows ==
  ASSUME w'.pc \in RouteSteps, w'.decision # "PASS", Failed(cands'[w'.cur]),
         w'.decision = "FRAME" <=> cands'[w'.cur].verdict = "FRAME", PlannerOK', ChildOK'
  PROVE  KnownOK'
<1>1. EvidenceOK'
  BY DEF EvidenceOK, Failed, RouteSteps, PlannerSteps
<1>2. FinalOK'
  BY DEF FinalOK, FinalSteps, RouteSteps, PlannerSteps
<1> QED BY <1>1, <1>2 DEF KnownOK

\* The route is the tier of the heir.
LEMMA RouteIsHeir ==
  ASSUME IInv, w.pc \in RouteSteps, w.decision # "PASS"
  PROVE  /\ Escalation(cands[w.cur]) = Heir(cands[w.cur]) /\ Failed(cands[w.cur])
         /\ w.decision = "FRAME" <=> cands[w.cur].verdict = "FRAME"
<1>1. /\ Failed(cands[w.cur]) /\ cands[w.cur].tier \in Tiers
      /\ w.decision = "FRAME" <=> cands[w.cur].verdict = "FRAME"
  BY Routing, RowTypes DEF EvidenceOK
<1>2. PICK t : t = cands[w.cur].tier
  OBVIOUS
<1>3. t \in {"ORIGINAL", "A1", "A2", "B1", "B2", "C", "D"}
  BY <1>1, <1>2 DEF Tiers
<1>4. CASE w.decision = "FRAME" /\ t \in {"ORIGINAL", "A1", "A2", "B1"}
  BY <1>1, <1>2, <1>4 DEF Escalation, FrameRoute, Heir
<1>5. CASE w.decision # "FRAME" /\ t \in {"ORIGINAL", "A1", "A2", "B1"}
  <2>1. ~FrameRoute(cands[w.cur])
    BY <1>5 DEF FrameRoute
  <2>2. CASE t = "ORIGINAL"
    BY <1>1, <1>2, <1>5, <2>1, <2>2 DEF Escalation, Heir
  <2>3. CASE t = "A1"
    BY <1>1, <1>2, <1>5, <2>1, <2>3 DEF Escalation, Heir
  <2>4. CASE t = "A2"
    BY <1>1, <1>2, <1>5, <2>1, <2>4 DEF Escalation, Heir
  <2>5. CASE t = "B1"
    BY <1>1, <1>2, <1>5, <2>1, <2>5 DEF Escalation, Heir
  <2> QED BY <1>5, <2>2, <2>3, <2>4, <2>5
<1>6. CASE t = "B2"
  <2>1. ~FrameRoute(cands[w.cur])
    BY <1>2, <1>6 DEF FrameRoute
  <2> QED BY <1>1, <1>2, <1>6, <2>1 DEF Escalation, Heir
<1>7. CASE t \in {"C", "D"}
  <2>1. ~FrameRoute(cands[w.cur])
    BY <1>2, <1>7 DEF FrameRoute
  <2>2. Escalation(cands[w.cur]) = "D"
    BY <1>2, <1>7, <2>1 DEF Escalation
  <2>3. Heir(cands[w.cur]) = "D"
    BY <1>2, <1>7 DEF Heir
  <2> QED BY <1>1, <2>2, <2>3
<1> QED BY <1>1, <1>3, <1>4, <1>5, <1>6, <1>7

LEMMA RouteReadIInv == ASSUME IInv, RouteRead PROVE IInv'
<1>1. /\ w.pc = "route" /\ UNCHANGED <<setting, revs, pstate, comfy, server, faults, ops>>
      /\ cands' = UpdateAttempt(cands, w.cur, "QC_COMPLETE")
  BY DEF RouteRead
<1>2. /\ WorkerOK /\ cands \in Seq(Candidates) /\ DOMAIN cands = Ids /\ w.cur \in Ids
      /\ w.cur \in Held /\ cands[w.cur].ev = "COMPLETE" /\ 0 \notin Ids /\ w.out = "none"
  BY <1>1, Routing DEF PlannerOK, RouteSteps, PlannerSteps
<1>3. PICK decision :
        /\ w'.decision = decision
        /\ decision = "PASS" => cands[w.cur].verdict = "PASS"
        /\ decision # "PASS" => \/ cands[w.cur].verdict # "PASS"
                                \/ cands[w.cur].human \in {"REJECT", "HOLD"}
        /\ decision = "FRAME" <=> cands[w.cur].verdict = "FRAME"
  BY <1>2 DEF RouteRead, WorkerOK, Shape
<1>4. /\ Shape(w') /\ w'.pc = "routed" /\ w'.todo = w.todo /\ w'.cur = w.cur
      /\ w'.child = w.child /\ w'.out = "none"
  BY <1>2 DEF RouteRead, WorkerOK, Shape
<1>5. PICK i \in Ids : i = w.cur
  BY <1>2
<1>6. PICK l \in {"RECIPE_BOUND", "QC_COMPLETE"} : l = "QC_COMPLETE"
  OBVIOUS
<1>7. /\ One(cands, cands', i) /\ Kept(cands[i], cands'[i])
      /\ cands'[i].state = cands[i].state /\ cands'[i].human = cands[i].human
      /\ cands'[i].final = cands[i].final
  BY <1>1, <1>2, <1>5, <1>6, UpdateAttempt_OK
<1>8. Handover
  BY <1>1, <1>4 DEF Handover, Held
<1>9. MayEnter(cands[i], cands'[i].state, setting.auto, i \in Held)
  BY <1>7 DEF MayEnter
<1>10. TableOK' /\ Ids' = Ids
  BY <1>1, <1>7, <1>8, <1>9, KeptStep
<1>11. cands'[i].ev = "COMPLETE" /\ cands'[i].verdict = cands[i].verdict
  BY <1>2, <1>5, <1>7 DEF Kept, SameVerdict
<1>12. PlannerOK' /\ ChildOK' /\ FinalOK'
  BY <1>4 DEF PlannerOK, ChildOK, FinalOK, RouteSteps, PlannerSteps, FinalSteps
<1>13. EvidenceOK'
  BY <1>3, <1>4, <1>5, <1>7, <1>11 DEF EvidenceOK, Failed, RouteSteps, PlannerSteps
<1>14. KnownOK'
  BY <1>12, <1>13 DEF KnownOK
<1>15. w'.pc \in RouteSteps /\ w.pc \in RouteSteps \cup {"route", "promote"}
  BY <1>1, <1>4 DEF RouteSteps
<1> QED BY <1>1, <1>2, <1>4, <1>10, <1>14, <1>15, RouteTurn, RevsTyped DEF WorkerOK

\* A step that sets the state of the candidate in hand and leaves it.
LEMMA SetAndLeave ==
  ASSUME IInv, w.pc \in RouteSteps, UNCHANGED <<setting, revs, pstate, comfy, server, faults, ops>>,
         NEW s \in States, NEW n \in NextActions, cands' = SetState(cands, w.cur, s, n),
         s \in Plain \/ (s = "PASS_PENDING_HUMAN" /\ ~setting.auto), Next1("evaluate")
  PROVE  IInv'
<1>1. WorkerOK /\ w.cur \in Ids /\ w.cur \in Held /\ 0 \notin Ids /\ w.pc # "promote"
  BY Routing DEF RouteSteps, PlannerSteps
<1>2. /\ Shape(w') /\ w'.pc = "evaluate" /\ w'.todo = w.todo \ {w.cur} /\ w'.cur = 0
      /\ w'.child = 0 /\ w'.out = "none"
  BY <1>1, DoneTurn DEF Next1
<1>3. Handover
  BY <1>1, <1>2 DEF Handover, Held
<1>4. MayEnter(cands[w.cur], s, setting.auto, w.cur \in Held)
  BY <1>1 DEF MayEnter, Plain
<1>5. TableOK' /\ Ids' = Ids
  BY <1>1, <1>3, <1>4, SetStep
<1>6. KnownOK'
  BY <1>2, KnowsNothing DEF Blind, RouteSteps, PlannerSteps, FinalSteps
<1> QED BY <1>1, <1>2, <1>5, <1>6, RouteTurn, RevsTyped

LEMMA RouteDeferIInv == ASSUME IInv, RouteDefer PROVE IInv'
<1>1. w.pc \in RouteSteps
  BY DEF RouteDefer, RouteSteps
<1>2. "DEFERRED" \in States /\ "deferred_untried_strategy_required" \in NextActions
  BY StatesListed, NextsListed
<1>3. "DEFERRED" \in Plain
  BY DEF Plain
<1> QED BY <1>1, <1>2, <1>3, SetAndLeave DEF RouteDefer

LEMMA PlannerFailedIInv == ASSUME IInv, PlannerFailed PROVE IInv'
<1>1. w.pc \in RouteSteps
  BY DEF PlannerFailed, RouteSteps, PlannerSteps
<1>2. "HOLD_FOR_REVIEW" \in States /\ "planner_failure" \in NextActions
  BY StatesListed, NextsListed
<1>3. "HOLD_FOR_REVIEW" \in Plain
  BY DEF Plain
<1> QED BY <1>1, <1>2, <1>3, SetAndLeave DEF PlannerFailed

\* The rows go on, whatever becomes of their states.
LEMMA TableFrom ==
  ASSUME IInv, setting' = setting, Ids' = Ids, Len(cands') = Len(cands),
         cands' \in Seq(Candidates), revs' = revs,
         \A i \in Ids : /\ RowOK(cands'[i], setting.auto)
                        /\ Evolves(cands[i], cands'[i])
                        /\ cands'[i].b2row => cands[i].b2row,
         SupersededOK', AliveOK'
  PROVE  TableOK'
<1>1. RowsOK /\ LineageOK /\ RevisionsOK
  BY DEF IInv, TableOK
<1>2. RowsOK'
  BY <1>1 DEF RowsOK
<1>3. LineageOK'
  BY <1>1, LineageKept
<1>4. RevisionsOK'
  BY <1>1, RevsTyped, RevisionsKept
<1> QED BY <1>2, <1>3, <1>4 DEF TableOK

LEMMA RoutePassIInv == ASSUME IInv, RoutePass PROVE IInv'
<1>1. /\ w.pc = "routed" /\ w.decision = "PASS" /\ w.pc \in RouteSteps
      /\ UNCHANGED <<setting, revs, pstate, comfy, server, faults, ops>>
  BY DEF RoutePass, RouteSteps
<1>2. /\ WorkerOK /\ cands \in Seq(Candidates) /\ DOMAIN cands = Ids /\ w.cur \in Ids
      /\ w.cur \in Held /\ cands[w.cur].ev = "COMPLETE" /\ 0 \notin Ids
      /\ w.out = "none" /\ cands[w.cur].verdict = "PASS"
  BY <1>1, Routing DEF PlannerOK, EvidenceOK
<1>3. CASE ~setting.auto
  <2>1. "PASS_PENDING_HUMAN" \in States /\ "await_human" \in NextActions
    BY StatesListed, NextsListed
  <2> QED BY <1>1, <1>3, <2>1, SetAndLeave DEF RoutePass
<1>4. CASE setting.auto
  <2>1. cands' = SetState(cands, w.cur, "ACCEPTED", "none") /\ Goto("promote")
    BY <1>4 DEF RoutePass
  <2>2. PICK i \in Ids : i = w.cur
    BY <1>2
  <2>3. PICK s \in States, n \in NextActions : s = "ACCEPTED" /\ n = "none"
    BY StatesListed, NextsListed
  <2>4. /\ One(cands, cands', i) /\ Kept(cands[i], cands'[i]) /\ cands'[i].state = s
        /\ cands'[i].human = cands[i].human /\ cands'[i].final = cands[i].final
    BY <1>2, <2>1, <2>2, <2>3, Set_OK
  <2>5. /\ Shape(w') /\ w'.pc = "promote" /\ w'.todo = w.todo /\ w'.cur = w.cur
        /\ w'.child = w.child /\ w'.out = w.out
    BY <1>2, <2>1, GotoTurn
  <2>6. Ids' = Ids /\ Len(cands') = Len(cands) /\ cands' \in Seq(Candidates)
    BY <2>4 DEF One, Ids
  <2>7. \A j \in Ids : j # i => cands'[j] = cands[j]
    BY <2>4 DEF One, Ids
  <2>8. RowOK(cands'[i], setting.auto)
    <3>1. RowOK(cands[i], setting.auto)
      BY CurOf
    <3> QED BY <1>2, <1>4, <2>2, <2>3, <2>4, <3>1
            DEF RowOK, Kept, SameCandidate, SameVerdict, SamePlan
  <2>9. Evolves(cands[i], cands'[i]) /\ (cands'[i].b2row => cands[i].b2row)
    BY <2>4 DEF Evolves, Failed, Kept, SameCandidate, SameVerdict, SamePlan
  <2>10. \A j \in Ids : /\ RowOK(cands'[j], setting.auto) /\ Evolves(cands[j], cands'[j])
                        /\ cands'[j].b2row => cands[j].b2row
    BY <2>7, <2>8, <2>9, CurOf DEF Evolves
  <2>11. \A j \in Ids : ~Promoting(j) /\ (Promoting(j)' <=> j = i)
    BY <1>1, <2>2, <2>5 DEF Promoting
  <2>12. cands[i].state = "ACCEPTED" => cands[i].human = "APPROVE"
    BY <1>1, <1>2, <2>2, HandOpen
  <2>13. Firm \subseteq Firm'
    BY <2>4, <2>6, <2>7, <2>11, <2>12 DEF Firm
  <2>14. SupersededOK'
    <3>1. SupersededOK
      BY DEF IInv, TableOK
    <3>2. ASSUME NEW j \in Ids', cands'[j].state = "SUPERSEDED"
          PROVE  Firm' # {} \/ \E k \in Ids' : cands'[k].par = j /\ cands'[k].ledger # "none"
      <4>1. j \in Ids /\ cands[j].state = "SUPERSEDED"
        BY <2>3, <2>4, <2>6, <2>7, <3>2
      <4>2. Firm # {} \/ \E k \in Ids : cands[k].par = j /\ cands[k].ledger # "none"
        BY <3>1, <4>1 DEF SupersededOK
      <4> QED BY <2>6, <2>10, <2>13, <4>2 DEF Evolves
    <3>3. ASSUME NEW j \in Ids', cands'[j].state = "ACCEPTED", cands'[j].human # "APPROVE",
                 ~Promoting(j)'
          PROVE  j \notin w'.todo /\ j # w'.cur
      <4>1. j \in Ids /\ j # i
        BY <2>6, <2>11, <3>3
      <4>2. cands[j].state = "ACCEPTED" /\ cands[j].human # "APPROVE" /\ ~Promoting(j)
        BY <2>7, <2>11, <3>3, <4>1
      <4> QED BY <2>5, <3>1, <4>1, <4>2 DEF SupersededOK
    <3> QED BY <3>2, <3>3 DEF SupersededOK
  <2>15. AliveOK'
    <3>1. cands # <<>>
      BY <1>2
    <3>2. PICK k \in Ids : cands[k].state # "SUPERSEDED" /\ Leaf(k)
      BY <3>1 DEF IInv, TableOK, AliveOK
    <3>3. Leaf(k)' /\ cands'[k].state # "SUPERSEDED"
      BY <2>3, <2>4, <2>6, <2>7, <2>10, <3>2 DEF Leaf, Evolves
    <3> QED BY <2>6, <3>3 DEF AliveOK
  <2>16. TableOK'
    BY <1>1, <2>6, <2>10, <2>14, <2>15, TableFrom
  <2>17. KnownOK'
    <3>1. cands'[w'.cur].ev = "COMPLETE" /\ cands'[w'.cur].verdict = "PASS"
      BY <1>2, <2>2, <2>4, <2>5 DEF Kept, SameVerdict
    <3>2. EvidenceOK'
      BY <1>1, <1>4, <2>5, <3>1 DEF EvidenceOK, RouteSteps, PlannerSteps
    <3>3. PlannerOK' /\ ChildOK' /\ FinalOK'
      BY <1>2, <2>5 DEF PlannerOK, ChildOK, FinalOK, RouteSteps, PlannerSteps, FinalSteps
    <3> QED BY <3>2, <3>3 DEF KnownOK
  <2> QED BY <1>1, <1>2, <2>5, <2>6, <2>16, <2>17, RouteTurn, RevsTyped DEF WorkerOK
<1> QED BY <1>3, <1>4


-----------------------------------------------------------------------------
(* The schedulers                                                               *)

\* The routing goes on with the same candidate.
LEMMA RouteOn ==
  ASSUME IInv, w.pc \in RouteSteps, w.decision # "PASS",
         UNCHANGED <<setting, pstate, comfy, server, faults, ops>>, revs' \in 1 .. MaxRevs,
         Shape(w'), w'.pc \in RouteSteps, w'.todo = w.todo, w'.cur = w.cur,
         w'.decision = w.decision, w'.child \in Ids' \cup {0}, Ids \subseteq Ids',
         Handover => TableOK', Failed(cands'[w.cur]),
         cands'[w.cur].verdict = cands[w.cur].verdict, PlannerOK', ChildOK'
  PROVE  IInv'
<1>1. w.decision = "FRAME" <=> cands[w.cur].verdict = "FRAME"
  BY RouteIsHeir
<1>2. KnownOK'
  BY <1>1, RouteKnows
<1>3. w.pc # "promote" /\ w'.pc # "promote"
  BY DEF RouteSteps, PlannerSteps
<1>4. Handover
  BY <1>3 DEF Handover, Held
<1> QED BY <1>2, <1>4, RouteTurn

\* The scheduler finds the child it made before.
LEMMA Found ==
  ASSUME IInv, w.pc \in RouteSteps, w.decision # "PASS",
         UNCHANGED <<setting, cands, revs, pstate, comfy, server, faults, ops>>,
         NEW k \in Ids, cands[k].par = w.cur,
         Shape(w'), w'.todo = w.todo, w'.cur = w.cur, w'.decision = w.decision, w'.child = k,
         w'.out = w.out,
         \/ w'.pc = "ledger"
         \/ /\ w'.pc = "settle" /\ w.out = "ACCEPTED"
            /\ cands[w.cur].tier = "A2" /\ cands[w.cur].verdict # "FRAME"
  PROVE  IInv'
<1>1. Failed(cands[w.cur])
  BY RouteIsHeir
<1>2. Handover => TableOK'
  BY SameTable, RevsTyped
<1>3. Ids' = Ids
  BY DEF Ids
<1>4. PlannerOK'
  BY <1>3 DEF PlannerOK, RouteSteps, PlannerSteps, Answers
<1>5. ChildOK'
  BY <1>3 DEF ChildOK
<1>6. w'.pc \in RouteSteps
  BY DEF RouteSteps, PlannerSteps
<1> QED BY <1>1, <1>2, <1>3, <1>4, <1>5, <1>6, RouteOn, RevsTyped

\* The scheduler inserts the child.
LEMMA Inserted ==
  ASSUME IInv, w.pc \in RouteSteps, w.decision # "PASS",
         UNCHANGED <<setting, pstate, comfy, server, faults, ops>>,
         revs' \in 1 .. MaxRevs, revs' >= revs, Len(cands) < MaxCands,
         NEW t \in Tiers, NEW r \in Nat, NEW path \in Paths, NEW n \in NextActions,
         NEW l \in NewLedgers, NEW x, x = NewCandidate(t, w.cur, r, path, n, l),
         cands' = Append(cands, x), r <= revs', FreshRevision(r, t),
         t = Heir(cands[w.cur]), (t = "D" /\ cands[w.cur].tier = "D") \/ OfTier(t) = {},
         cands[w.cur].tier = "A2" /\ cands[w.cur].verdict # "FRAME"
           => cands[w.cur].repair # "none",
         t = "B2" /\ l = "none" => cands[w.cur].tier = "B1",
         Shape(w'), w'.todo = w.todo, w'.cur = w.cur, w'.decision = w.decision,
         w'.child = Len(cands) + 1, w'.out = w.out,
         \/ w'.pc = "ledger"
         \/ w'.pc = "supersede" /\ l # "none"
         \/ /\ w'.pc = "settle" /\ w.out = "ACCEPTED"
            /\ cands[w.cur].tier = "A2" /\ cands[w.cur].verdict # "FRAME"
  PROVE  IInv'
<1>1. /\ Failed(cands[w.cur]) /\ w.cur \in Ids /\ w.cur \in Nat /\ cands[w.cur] \in Candidates
  BY RouteIsHeir, Routing
<1>2. /\ RowOK(x, setting.auto) /\ x \in Candidates
      /\ x.tier = t /\ x.par = w.cur /\ x.rev = r /\ x.ledger = l /\ ~x.b2row
      /\ x.state = "PENDING_GENERATION"
  <2>1. PICK p \in Ids, auto \in {setting.auto} : p = w.cur /\ auto = setting.auto
    BY <1>1
  <2>2. cands[p] \in Candidates /\ p \in Nat /\ x = NewCandidate(t, p, r, path, n, l)
    BY <1>1, <2>1
  <2>3. /\ RowOK(x, auto) /\ x \in Candidates
        /\ x.tier = t /\ x.par = p /\ x.rev = r /\ x.ledger = l /\ ~x.b2row
        /\ x.state = "PENDING_GENERATION"
    BY <2>2, NewCandidate_Fields
  <2> QED BY <2>1, <2>3
<1>3. Follows(x, w.cur)
  <2>1. t # "ORIGINAL"
    BY <1>1, HeirPlace
  <2>2. CASE cands[w.cur].tier = "D"
    <3>1. t = "D"
      BY <1>1, <2>2, HeirPlace
    <3> QED BY <1>1, <1>2, <2>2, <3>1 DEF Follows
  <2>3. CASE cands[w.cur].tier # "D"
    <3>1. w.cur = Len(cands)
      BY <1>1, <2>3, HeirIsNext
    <3> QED BY <1>1, <1>2, <2>1, <2>3, <3>1 DEF Follows
  <2> QED BY <2>2, <2>3
<1>4. /\ w.pc # "promote" /\ w'.pc # "promote" /\ w'.pc \in RouteSteps
  BY DEF RouteSteps, PlannerSteps
<1>5. revs' \in Nat
  BY RevsTyped
<1>6. /\ TableOK' /\ Ids' = Ids \cup {Len(cands) + 1}
      /\ cands'[Len(cands) + 1] = x /\ \A i \in Ids : cands'[i] = cands[i]
  BY <1>1, <1>2, <1>3, <1>4, <1>5, AppendStep
<1>7. PlannerOK'
  BY <1>1, <1>2, <1>6, ZenonT(40) DEF PlannerOK, RouteSteps, PlannerSteps, Answers
<1>8. ChildOK'
  BY <1>2, <1>6 DEF ChildOK
<1> QED BY <1>1, <1>4, <1>6, <1>7, <1>8, RouteOn

\* What a scheduler reads of the rows when the worker has routed.
LEMMA AtRoute ==
  ASSUME IInv, w.pc \in RouteSteps, w.decision # "PASS"
  PROVE  /\ WorkerOK /\ w.cur \in Ids /\ w.cur \in Held /\ cands[w.cur].tier \in Tiers
         /\ cands[w.cur].path \in Paths /\ w.pc # "promote" /\ w.pc # "idle"
         /\ Escalation(cands[w.cur]) = Heir(cands[w.cur])
         /\ w.child \in Ids \cup {0}
<1>1. WorkerOK /\ w.cur \in Ids /\ w.cur \in Held /\ cands[w.cur] \in Candidates
  BY Routing
<1>2. w.pc # "promote" /\ w.pc # "idle"
  BY DEF RouteSteps, PlannerSteps
<1> QED BY <1>1, <1>2, RouteIsHeir, RowTypes DEF Candidates, WorkerOK, Paths

\* A tier of a route tells what the candidate is.
LEMMA HeirTells ==
  ASSUME NEW c \in Candidates
  PROVE  /\ Heir(c) = "A1" => c.tier = "ORIGINAL" /\ c.verdict # "FRAME"
         /\ Heir(c) = "A2" => c.tier = "A1" /\ c.verdict # "FRAME"
         /\ Heir(c) = "B1" => c.tier = "A2" /\ c.verdict # "FRAME" /\ c.repair # "REJECTED"
         /\ Heir(c) \in {"C", "D"} /\ c.tier = "A2" /\ c.verdict # "FRAME"
              => c.repair = "REJECTED"
         /\ c.verdict = "FRAME" /\ c.tier \in {"ORIGINAL", "A1", "A2", "B1"} <=> Heir(c) = "B2"
<1>1. c.tier \in {"ORIGINAL", "A1", "A2", "B1", "B2", "C", "D"}
  BY DEF Candidates, Tiers
<1>2. CASE c.verdict = "FRAME" /\ c.tier \in {"ORIGINAL", "A1", "A2", "B1"}
  <2>1. Heir(c) = "B2"
    BY <1>2 DEF Heir
  <2> QED BY <1>2, <2>1
<1>3. CASE c.verdict # "FRAME" /\ c.tier = "ORIGINAL"
  <2>1. Heir(c) = "A1"
    BY <1>3 DEF Heir
  <2> QED BY <1>3, <2>1
<1>4. CASE c.verdict # "FRAME" /\ c.tier = "A1"
  <2>1. Heir(c) = "A2"
    BY <1>4 DEF Heir
  <2> QED BY <1>4, <2>1
<1>5. CASE c.verdict # "FRAME" /\ c.tier = "A2"
  <2>1. Heir(c) = IF c.repair = "REJECTED" THEN "C" ELSE "B1"
    BY <1>5 DEF Heir
  <2> QED BY <1>5, <2>1
<1>6. CASE c.verdict # "FRAME" /\ c.tier = "B1"
  <2>1. Heir(c) = "C"
    BY <1>6 DEF Heir
  <2> QED BY <1>6, <2>1
<1>7. CASE c.tier = "B2"
  <2>1. Heir(c) = "C"
    BY <1>7 DEF Heir
  <2> QED BY <1>7, <2>1
<1>8. CASE c.tier \in {"C", "D"}
  <2>1. Heir(c) = "D"
    BY <1>8 DEF Heir
  <2> QED BY <1>8, <2>1
<1> QED BY <1>1, <1>2, <1>3, <1>4, <1>5, <1>6, <1>7, <1>8

LEMMA ScheduleA1IInv == ASSUME IInv, ScheduleA1 PROVE IInv'
<1>1. /\ w.pc = "routed" /\ w.decision # "PASS" /\ w.pc \in RouteSteps
      /\ Escalation(cands[w.cur]) = "A1"
      /\ UNCHANGED <<setting, pstate, comfy, server, faults, ops>>
  BY DEF ScheduleA1, RouteSteps
<1>2. /\ WorkerOK /\ w.cur \in Ids /\ cands[w.cur].path \in Paths
      /\ Heir(cands[w.cur]) = "A1" /\ cands[w.cur] \in Candidates
  BY <1>1, AtRoute, Routing
<1>3. cands[w.cur].tier = "ORIGINAL"
  BY <1>2, HeirTells
<1>4. CASE OfTier("A1") # {}
  <2>1. Least(OfTier("A1")) \in Ids /\ cands[Least(OfTier("A1"))].par = w.cur
    BY <1>2, <1>3, <1>4, HeirFound
  <2>2. /\ UNCHANGED <<cands, revs>>
        /\ Shape(w') /\ w'.pc = "ledger" /\ w'.todo = w.todo /\ w'.cur = w.cur
        /\ w'.decision = w.decision /\ w'.child = Least(OfTier("A1")) /\ w'.out = w.out
    BY <1>2, <1>4 DEF ScheduleA1, WorkerOK, Shape
  <2> QED BY <1>1, <2>1, <2>2, Found
<1>5. CASE OfTier("A1") = {}
  <2>1. PICK x : x = NewCandidate("A1", w.cur, revs + 1, cands[w.cur].path, "render_a1", "none")
    OBVIOUS
  <2>2. /\ Len(cands) < MaxCands /\ revs < MaxRevs /\ revs' = revs + 1
        /\ cands' = Append(cands, x)
        /\ Shape(w') /\ w'.pc = "ledger" /\ w'.todo = w.todo /\ w'.cur = w.cur
        /\ w'.decision = w.decision /\ w'.child = Len(cands) + 1 /\ w'.out = w.out
    BY <1>2, <1>5, <2>1 DEF ScheduleA1, WorkerOK, Shape
  <2>3. revs + 1 \in Nat /\ revs' \in 1 .. MaxRevs /\ revs' >= revs /\ revs + 1 <= revs'
    BY <2>2, RevsTyped
  <2>4. FreshRevision(revs + 1, "A1")
    BY NextRevision
  <2>5. "A1" \in Tiers /\ "render_a1" \in NextActions
    BY NextsListed DEF Tiers
  <2>6. PICK t \in Tiers, r \in Nat, p \in Paths, n \in NextActions,
             l \in NewLedgers :
          /\ t = "A1" /\ r = revs + 1 /\ p = cands[w.cur].path /\ n = "render_a1" /\ l = "none"
    BY <1>2, <2>3, <2>5 DEF NewLedgers
  <2> QED BY <1>1, <1>2, <1>3, <1>5, <2>1, <2>2, <2>3, <2>4, <2>6, Inserted
<1> QED BY <1>4, <1>5

\* A strategy of the escalation is inserted, or the one that is there is taken.
LEMMA CreateIInv ==
  ASSUME IInv, w.pc \in RouteSteps, w.decision # "PASS",
         UNCHANGED <<setting, pstate, comfy, server, faults, ops>>, NEW t \in Tiers,
         t = Heir(cands[w.cur]), t # "B2" => OfTier(t) = {} \/ (t = "D" /\ cands[w.cur].tier = "D"),
         t # "B1", t = "B2" => cands[w.cur].tier # "B1", CreateAdaptive(t)
  PROVE  IInv'
<1>1. /\ WorkerOK /\ w.cur \in Ids /\ w.cur \in Held /\ cands[w.cur] \in Candidates
      /\ w.pc # "promote" /\ w.pc # "idle"
  BY AtRoute, Routing
<1>2. CASE Charged(w.cur) /\ UNCHANGED revs
  BY <1>1, <1>2, ChargedIInv
<1>3. CASE t = "B2" /\ OfTier(t) # {} /\ Goto("supersede") /\ UNCHANGED <<cands, revs>>
  <2>1. cands[w.cur].tier # "D"
    BY <1>1, <1>3, HeirPlace
  <2>2. /\ w.cur + 1 \in Ids /\ cands[w.cur + 1].par = w.cur /\ cands[w.cur + 1].tier = "B2"
    BY <1>1, <1>3, <2>1, HeirFound
  <2>3. cands[w.cur + 1].ledger # "none"
    BY <1>3, <2>2 DEF IInv, TableOK, LineageOK
  <2>4. /\ Shape(w') /\ w'.pc = "supersede" /\ w'.todo = w.todo /\ w'.cur = w.cur
        /\ w'.decision = w.decision /\ w'.child = w.child /\ w'.out = w.out
    BY <1>1, <1>3, GotoTurn
  <2>5. Ids' = Ids /\ w'.pc \in RouteSteps
    BY <1>3, <2>4 DEF Ids, RouteSteps
  <2>6. PlannerOK'
    BY <2>4 DEF PlannerOK, RouteSteps, PlannerSteps
  <2>7. ChildOK'
    BY <1>3, <2>2, <2>3, <2>4, <2>5 DEF ChildOK
  <2>8. Handover => TableOK'
    BY <1>3, SameTable, RevsTyped
  <2>9. Failed(cands'[w.cur]) /\ cands'[w.cur].verdict = cands[w.cur].verdict
    BY <1>3, RouteIsHeir
  <2> QED BY <1>1, <1>3, <2>4, <2>5, <2>6, <2>7, <2>8, <2>9, RouteOn, RevsTyped DEF WorkerOK
<1>4. ASSUME ~(t = "B2" /\ OfTier(t) # {}), Len(cands) < MaxCands, revs < MaxRevs,
             NEW x, x = NewCandidate(t, w.cur, revs + 1, "draft", "render_adaptive_draft", "PLANNED"),
             cands' = Append(cands, x), revs' = revs + 1,
             w' = [w EXCEPT !.pc = "supersede", !.child = Len(cands) + 1]
      PROVE  IInv'
  <2>1. /\ Shape(w') /\ w'.pc = "supersede" /\ w'.todo = w.todo /\ w'.cur = w.cur
        /\ w'.decision = w.decision /\ w'.child = Len(cands) + 1 /\ w'.out = w.out
    BY <1>1, <1>4 DEF WorkerOK, Shape
  <2>2. revs + 1 \in Nat /\ revs' \in 1 .. MaxRevs /\ revs' >= revs /\ revs + 1 <= revs'
    BY <1>4, RevsTyped
  <2>3. FreshRevision(revs + 1, t)
    BY NextRevision
  <2>4. PICK r \in Nat, p \in Paths, n \in NextActions, l \in NewLedgers :
          r = revs + 1 /\ p = "draft" /\ n = "render_adaptive_draft" /\ l = "PLANNED"
    BY <2>2, NextsListed DEF Paths, NewLedgers
  <2>5. cands[w.cur].tier = "A2" /\ cands[w.cur].verdict # "FRAME"
          => cands[w.cur].repair # "none"
    <3>1. t \in {"ORIGINAL", "A1", "A2", "B2", "C", "D"}
      BY DEF Tiers
    <3>2. t # "ORIGINAL"
      BY <1>1, HeirPlace
    <3> QED BY <1>1, <3>1, <3>2, HeirTells
  <2>6. OfTier(t) = {} \/ (t = "D" /\ cands[w.cur].tier = "D")
    BY <1>4
  <2> QED BY <1>1, <1>4, <2>1, <2>2, <2>3, <2>4, <2>5, <2>6, Inserted
<1> QED BY <1>2, <1>3, <1>4 DEF CreateAdaptive

LEMMA ScheduleStrategyIInv == ASSUME IInv, ScheduleStrategy PROVE IInv'
<1>1. /\ w.pc = "routed" /\ w.decision # "PASS" /\ w.pc \in RouteSteps
      /\ Escalation(cands[w.cur]) \in {"A2", "C", "D"}
      /\ UNCHANGED <<setting, pstate, comfy, server, faults, ops>>
  BY DEF ScheduleStrategy, RouteSteps
<1>2. PICK t : t = Escalation(cands[w.cur])
  OBVIOUS
<1>3. /\ w.cur \in Ids /\ w.cur \in Held /\ t = Heir(cands[w.cur]) /\ t \in {"A2", "C", "D"}
      /\ t \in Tiers /\ w.pc # "promote" /\ w.pc # "idle"
  BY <1>1, <1>2, AtRoute DEF Tiers
<1>4. CASE Untried(t) /\ CreateAdaptive(t)
  BY <1>1, <1>3, <1>4, CreateIInv DEF Untried
<1>5. CASE Charged(w.cur) /\ UNCHANGED revs
  BY <1>1, <1>3, <1>5, ChargedIInv
<1> QED BY <1>2, <1>4, <1>5 DEF ScheduleStrategy

LEMMA RegenerateFrameIInv == ASSUME IInv, RegenerateFrame PROVE IInv'
<1>1. /\ w.pc = "routed" /\ w.decision # "PASS" /\ w.pc \in RouteSteps
      /\ FrameRoute(cands[w.cur]) /\ cands[w.cur].tier # "B1" /\ CreateAdaptive("B2")
      /\ UNCHANGED <<setting, pstate, comfy, server, faults, ops>>
  BY DEF RegenerateFrame, FrameRoute, RouteSteps
<1>2. Heir(cands[w.cur]) = "B2" /\ "B2" \in Tiers
  BY <1>1, AtRoute DEF Escalation, Tiers
<1> QED BY <1>1, <1>2, CreateIInv


SetB2(c, i) == [c EXCEPT ![i].b2row = TRUE]

LEMMA SetB2_OK ==
  ASSUME NEW c \in Seq(Candidates), NEW i \in DOMAIN c, NEW d, d = SetB2(c, i)
  PROVE  /\ One(c, d, i) /\ SameCandidate(c[i], d[i]) /\ SameVerdict(c[i], d[i])
         /\ SamePlan(c[i], d[i]) /\ d[i].b2row = TRUE /\ d[i].state = c[i].state
         /\ d[i].human = c[i].human /\ d[i].final = c[i].final
<1>1. c[i] \in Candidates
  OBVIOUS
<1>2. d = [c EXCEPT ![i] = RowB2(c[i])]
  BY <1>1 DEF SetB2, Candidates, RowB2
<1>3. RowB2(c[i]) \in Candidates
  BY <1>1, RowB2_Fields DEF SameCandidate
<1>4. One(c, d, i) /\ d[i] = RowB2(c[i])
  BY <1>2, <1>3, RowReplaced
<1> QED BY <1>1, <1>4, RowB2_Fields

LEMMA ReserveB2IInv == ASSUME IInv, ReserveB2 PROVE IInv'
<1>1. /\ w.pc = "routed" /\ w.decision = "FRAME" /\ w.pc \in RouteSteps
      /\ cands[w.cur].tier = "B1" /\ w.decision # "PASS"
      /\ UNCHANGED <<setting, pstate, comfy, server, faults, ops>>
  BY DEF ReserveB2, FrameRoute, RouteSteps
<1>2. /\ WorkerOK /\ w.cur \in Ids /\ w.cur \in Held /\ w.pc # "promote" /\ w.pc # "idle"
      /\ cands \in Seq(Candidates) /\ DOMAIN cands = Ids /\ w.child \in Ids \cup {0}
      /\ Failed(cands[w.cur]) /\ cands[w.cur].verdict = "FRAME" /\ 0 \notin Ids
  BY <1>1, AtRoute, Routing, RouteIsHeir
<1>3. CASE Charged(w.cur) /\ UNCHANGED revs
  BY <1>1, <1>2, <1>3, ChargedIInv
<1>4. ASSUME cands[w.cur].b2row \/ revs = cands[w.cur].rev, cands[w.cur].b2row \/ revs < MaxRevs,
             revs' = IF cands[w.cur].b2row THEN revs ELSE revs + 1,
             cands' = SetB2(cands, w.cur), Goto("b2")
      PROVE  IInv'
  <2>1. PICK i \in Ids : i = w.cur
    BY <1>2
  <2>2. /\ One(cands, cands', i) /\ SameCandidate(cands[i], cands'[i])
        /\ SameVerdict(cands[i], cands'[i]) /\ SamePlan(cands[i], cands'[i])
        /\ cands'[i].b2row /\ cands'[i].state = cands[i].state
        /\ cands'[i].human = cands[i].human /\ cands'[i].final = cands[i].final
    BY <1>2, <1>4, <2>1, SetB2_OK, ZenonT(40)
  <2>3. /\ Shape(w') /\ w'.pc = "b2" /\ w'.todo = w.todo /\ w'.cur = w.cur
        /\ w'.child = w.child /\ w'.decision = w.decision /\ w'.out = w.out
    BY <1>2, <1>4, GotoTurn
  <2>4. /\ Ids' = Ids /\ Len(cands') = Len(cands) /\ cands' \in Seq(Candidates)
        /\ \A j \in Ids : j # i => cands'[j] = cands[j]
    BY <2>2 DEF One, Ids
  <2>5. revs' \in 1 .. MaxRevs /\ revs' \in Nat /\ revs \in Nat /\ revs' >= revs
    BY <1>4, RevsTyped
  <2>6. RowOK(cands'[i], setting.auto)
    <3>1. RowOK(cands[i], setting.auto)
      BY CurOf
    <3> QED BY <1>1, <2>1, <2>2, <3>1 DEF RowOK, SameCandidate, SameVerdict, SamePlan
  <2>7. Evolves(cands[i], cands'[i]) /\ Steady(cands[i], cands'[i], i \in Held)
    BY <2>2 DEF Evolves, Steady, Failed, SameCandidate, SameVerdict, SamePlan
  <2>8. \A j \in Ids : /\ RowOK(cands'[j], setting.auto) /\ Evolves(cands[j], cands'[j])
                       /\ Steady(cands[j], cands'[j], j \in Held)
    BY <2>4, <2>6, <2>7, CurOf DEF Evolves, Steady
  <2>9. RowsOK /\ LineageOK /\ SupersededOK /\ AliveOK /\ RevisionsOK
    BY DEF IInv, TableOK
  <2>10. RowsOK'
    BY <1>1, <2>4, <2>8, <2>9 DEF RowsOK
  <2>11. LineageOK'
    BY <2>4, <2>8, <2>9, LineageKept
  <2>12. Handover
    BY <1>2, <2>3 DEF Handover, Held
  <2>13. SupersededOK'
    BY <1>2, <2>4, <2>8, <2>9, <2>12, SupersededKept
  <2>14. AliveOK'
    <3>1. cands # <<>>
      BY <1>2
    <3> QED BY <2>4, <2>8, <2>9, <3>1, AliveKept
  <2>15. RevisionsOK'
    <3>1. \A j \in Ids : cands'[j].rev = cands[j].rev /\ cands'[j].tier = cands[j].tier
      BY <2>8 DEF Evolves
    <3>2. \A j \in Ids : cands[j].rev \in Nat
      BY CurOf, RowTypes
    <3>3. \A j \in Ids : cands[j].rev <= revs
      BY <2>9 DEF RevisionsOK
    <3>4. \A j \in Ids : j # i => cands'[j].b2row = cands[j].b2row
      BY <2>4
    <3>5. \A j \in Ids : cands'[j].rev <= revs' /\ (cands'[j].b2row => cands'[j].rev < revs')
      BY <1>4, <2>1, <2>5, <2>9, <3>1, <3>2, <3>3, <3>4 DEF RevisionsOK
    <3>6. RevisionsDistinct'
      BY <2>4, <2>9, <3>1 DEF RevisionsOK, RevisionsDistinct
    <3>7. ASSUME NEW j \in Ids, NEW k \in Ids, cands'[j].b2row, cands'[k].rev = cands'[j].rev + 1
          PROVE  cands'[k].tier = "B2"
      <4>1. CASE cands[j].b2row
        BY <2>9, <3>1, <3>7, <4>1 DEF RevisionsOK
      <4>2. CASE ~cands[j].b2row
        <5>1. j = i /\ cands[j].rev = revs
          BY <1>4, <2>1, <3>4, <3>7, <4>2
        <5> QED BY <2>5, <3>1, <3>2, <3>3, <3>7, <5>1
      <4> QED BY <4>1, <4>2
    <3> QED BY <2>4, <3>5, <3>6, <3>7 DEF RevisionsOK
  <2>16. TableOK'
    BY <2>10, <2>11, <2>13, <2>14, <2>15 DEF TableOK
  <2>17. PlannerOK'
    BY <2>3 DEF PlannerOK, RouteSteps, PlannerSteps
  <2>18. Failed(cands'[w.cur]) /\ cands'[w.cur].verdict = cands[w.cur].verdict
    BY <1>2, <2>1, <2>2 DEF Failed, SameVerdict
  <2>19. ChildOK'
    BY <1>2, <2>1, <2>2, <2>3, <2>18 DEF ChildOK
  <2>20. w'.pc \in RouteSteps
    BY <2>3 DEF RouteSteps
  <2> QED BY <1>1, <1>2, <2>3, <2>4, <2>5, <2>16, <2>17, <2>18, <2>19, <2>20, RouteOn
<1> QED BY <1>3, <1>4 DEF ReserveB2, SetB2

LEMMA ScheduleB2IInv == ASSUME IInv, ScheduleB2 PROVE IInv'
<1>1. /\ w.pc = "b2" /\ w.pc \in RouteSteps /\ w.pc \in RouteSteps \ {"routed"}
      /\ UNCHANGED <<setting, revs, pstate, comfy, server, faults, ops>>
  BY DEF ScheduleB2, RouteSteps
<1>2. /\ w.decision # "PASS" /\ cands[w.cur].b2row /\ cands[w.cur].verdict = "FRAME"
  BY <1>1, Routing DEF EvidenceOK, ChildOK
<1>3. /\ WorkerOK /\ w.cur \in Ids /\ w.cur \in Held /\ w.pc # "promote" /\ w.pc # "idle"
      /\ cands[w.cur] \in Candidates
  BY <1>1, <1>2, AtRoute, Routing
<1>4. cands[w.cur].tier = "B1"
  BY <1>2, <1>3, CurOf DEF RowOK
<1>5. Heir(cands[w.cur]) = "B2"
  BY <1>2, <1>3, <1>4, HeirTells
<1>6. CASE Charged(w.cur)
  BY <1>1, <1>3, <1>6, ChargedIInv
<1>7. CASE OfTier("B2") # {} /\ UNCHANGED cands
             /\ w' = [w EXCEPT !.pc = "ledger", !.child = Least(OfTier("B2"))]
  <2>1. Least(OfTier("B2")) \in Ids /\ cands[Least(OfTier("B2"))].par = w.cur
    BY <1>3, <1>4, <1>5, <1>7, HeirFound
  <2>2. /\ Shape(w') /\ w'.pc = "ledger" /\ w'.todo = w.todo /\ w'.cur = w.cur
        /\ w'.decision = w.decision /\ w'.child = Least(OfTier("B2")) /\ w'.out = w.out
    BY <1>3, <1>7 DEF WorkerOK, Shape
  <2> QED BY <1>1, <1>2, <1>7, <2>1, <2>2, Found
<1>8. ASSUME OfTier("B2") = {}, Len(cands) < MaxCands, NEW x,
             x = NewCandidate("B2", w.cur, cands[w.cur].rev + 1, "draft", "render_b2", "none"),
             cands' = Append(cands, x),
             w' = [w EXCEPT !.pc = "ledger", !.child = Len(cands) + 1]
      PROVE  IInv'
  <2>1. /\ Shape(w') /\ w'.pc = "ledger" /\ w'.todo = w.todo /\ w'.cur = w.cur
        /\ w'.decision = w.decision /\ w'.child = Len(cands) + 1 /\ w'.out = w.out
    BY <1>3, <1>8 DEF WorkerOK, Shape
  <2>2. PICK r : r = cands[w.cur].rev + 1
    OBVIOUS
  <2>3. cands[w.cur].rev \in Nat /\ cands[w.cur].rev < revs
    BY <1>2, <1>3, RowTypes DEF IInv, TableOK, RevisionsOK
  <2>4. r \in Nat /\ revs' \in 1 .. MaxRevs /\ revs' >= revs /\ r <= revs'
    BY <1>1, <2>2, <2>3, RevsTyped
  <2>5. FreshRevision(r, "B2")
    <3>1. \A i \in Ids : cands[i].rev # r
      BY <1>2, <1>3, <1>8, <2>2 DEF IInv, TableOK, RevisionsOK, OfTier
    <3> QED BY <3>1 DEF FreshRevision
  <2>6. PICK t \in Tiers, p \in Paths, n \in NextActions, l \in NewLedgers :
          t = "B2" /\ p = "draft" /\ n = "render_b2" /\ l = "none"
    BY NextsListed DEF Tiers, Paths, NewLedgers
  <2> QED BY <1>1, <1>2, <1>3, <1>4, <1>5, <1>8, <2>1, <2>2, <2>4, <2>5, <2>6, Inserted
<1> QED BY <1>6, <1>7, <1>8 DEF ScheduleB2

LEMMA LedgerIInv == ASSUME IInv, Ledger PROVE IInv'
<1>1. /\ w.pc = "ledger" /\ w.pc \in RouteSteps /\ w.pc \in RouteSteps \ {"routed"}
      /\ UNCHANGED <<setting, revs, pstate, comfy, server, faults, ops>>
      /\ cands' = EnsureAttempt(cands, w.child) /\ Goto("supersede")
  BY DEF Ledger, RouteSteps
<1>2. /\ w.decision # "PASS" /\ w.child \in Ids /\ cands[w.child].par = w.cur
      /\ WorkerOK /\ w.cur \in Ids /\ cands \in Seq(Candidates) /\ DOMAIN cands = Ids
      /\ Failed(cands[w.cur]) /\ 0 \notin Ids
  BY <1>1, Routing DEF EvidenceOK, ChildOK
<1>3. PICK k \in Ids : k = w.child
  BY <1>2
<1>4. /\ One(cands, cands', k) /\ cands'[k] \in Candidates /\ cands'[k].tier = cands[k].tier
      /\ cands'[k].par = cands[k].par /\ cands'[k].rev = cands[k].rev
      /\ cands'[k].ledger # "none" /\ SameVerdict(cands[k], cands'[k])
      /\ SamePlan(cands[k], cands'[k]) /\ cands'[k].b2row = cands[k].b2row
      /\ cands'[k].state = cands[k].state /\ cands'[k].human = cands[k].human
      /\ cands'[k].final = cands[k].final
  BY <1>1, <1>2, <1>3, EnsureAttempt_OK
<1>5. /\ Shape(w') /\ w'.pc = "supersede" /\ w'.todo = w.todo /\ w'.cur = w.cur
      /\ w'.child = w.child /\ w'.decision = w.decision /\ w'.out = w.out
  BY <1>1, <1>2, GotoTurn
<1>6. RowOK(cands'[k], setting.auto)
  <2>1. RowOK(cands[k], setting.auto)
    BY CurOf
  <2> QED BY <1>4, <2>1 DEF RowOK, SameVerdict, SamePlan
<1>7. Evolves(cands[k], cands'[k]) /\ Steady(cands[k], cands'[k], k \in Held)
  BY <1>4 DEF Evolves, Steady, Failed, SameVerdict, SamePlan
<1>8. Handover => TableOK'
  BY <1>1, <1>4, <1>6, <1>7, RowStep
<1>9. Ids' = Ids
  BY <1>4 DEF One, Ids
<1>10. Failed(cands'[w.cur]) /\ cands'[w.cur].verdict = cands[w.cur].verdict
  <2>1. CASE w.cur = k
    BY <1>2, <1>4, <2>1 DEF Failed, SameVerdict
  <2>2. CASE w.cur # k
    BY <1>2, <1>4, <2>2 DEF One, Ids
  <2> QED BY <2>1, <2>2
<1>11. PlannerOK' /\ w'.pc \in RouteSteps
  BY <1>5 DEF PlannerOK, RouteSteps, PlannerSteps
<1>12. ChildOK'
  BY <1>2, <1>3, <1>4, <1>5, <1>9 DEF ChildOK
<1> QED BY <1>1, <1>2, <1>5, <1>8, <1>9, <1>10, <1>11, <1>12, RouteOn, RevsTyped DEF WorkerOK


-----------------------------------------------------------------------------
(* Candidates give way                                                          *)

LEMMA Supersede_OK ==
  ASSUME NEW c \in Seq(Candidates), NEW S, NEW d, d = Supersede(c, S)
  PROVE  /\ d \in Seq(Candidates) /\ Len(d) = Len(c) /\ DOMAIN d = DOMAIN c
         /\ \A j \in DOMAIN c : j \notin S => d[j] = c[j]
         /\ \A j \in DOMAIN c : j \in S =>
              /\ Kept(c[j], d[j]) /\ d[j].state = "SUPERSEDED"
              /\ d[j].human = c[j].human /\ d[j].final = c[j].final
<1>1. d = [j \in DOMAIN c |-> IF j \in S THEN [c[j] EXCEPT !.state = "SUPERSEDED", !.next = "none"]
                                         ELSE c[j]]
  BY DEF Supersede
<1>2. PICK s \in States, n \in NextActions : s = "SUPERSEDED" /\ n = "none"
  BY StatesListed, NextsListed
<1>3. \A j \in DOMAIN c : c[j] \in Candidates
  OBVIOUS
<1>4. \A j \in DOMAIN c : j \in S => d[j] = RowSet(c[j], s, n)
  BY <1>1, <1>2 DEF RowSet
<1>5. \A j \in DOMAIN c : j \notin S => d[j] = c[j]
  BY <1>1
<1>6. ASSUME NEW j \in DOMAIN c, j \in S
      PROVE  /\ Kept(c[j], d[j]) /\ d[j].state = "SUPERSEDED"
             /\ d[j].human = c[j].human /\ d[j].final = c[j].final
  BY <1>2, <1>3, <1>4, <1>6, RowSet_Fields
<1>7. DOMAIN d = 1 .. Len(c) /\ Len(c) \in Nat /\ DOMAIN d = DOMAIN c
  <2>1. DOMAIN c = 1 .. Len(c) /\ Len(c) \in Nat
    BY LenProperties
  <2>2. DOMAIN d = DOMAIN c
    BY <1>1, Zenon
  <2> QED BY <2>1, <2>2
<1>8. \A j \in DOMAIN c : d[j] \in Candidates
  BY <1>3, <1>5, <1>6 DEF Kept, SameCandidate
<1>9. d \in [1 .. Len(c) -> Candidates]
  BY <1>1, <1>7, <1>8
<1>10. d \in Seq(Candidates) /\ Len(d) = Len(c)
  BY <1>7, <1>9
<1> QED BY <1>5, <1>6, <1>7, <1>10

\* A row gives way.
LEMMA GivesWay ==
  ASSUME IInv, NEW j \in Ids, NEW d, Kept(cands[j], d), d.state = "SUPERSEDED",
         d.human = cands[j].human, d.final = cands[j].final
  PROVE  RowOK(d, setting.auto) /\ Evolves(cands[j], d) /\ (d.b2row => cands[j].b2row)
<1>1. RowOK(cands[j], setting.auto)
  BY CurOf
<1>2. RowOK(d, setting.auto)
  BY <1>1 DEF RowOK, Kept, SameCandidate, SameVerdict, SamePlan
<1> QED BY <1>2 DEF Evolves, Failed, Kept, SameCandidate, SameVerdict, SamePlan

LEMMA SupersedeParentIInv == ASSUME IInv, SupersedeParent PROVE IInv'
<1>1. /\ w.pc = "supersede" /\ w.pc \in RouteSteps /\ w.pc # "promote"
      /\ UNCHANGED <<setting, revs, pstate, comfy, server, faults, ops>>
      /\ cands' = Supersede(cands, {w.cur}) /\ Next1("evaluate")
  BY DEF SupersedeParent, RouteSteps
<1>2. /\ WorkerOK /\ w.cur \in Ids /\ cands \in Seq(Candidates) /\ DOMAIN cands = Ids
      /\ w.cur \in Held /\ 0 \notin Ids
      /\ \E j \in Ids : cands[j].par = w.cur /\ cands[j].ledger # "none"
  BY <1>1, Routing DEF ChildOK
<1>3. /\ cands' \in Seq(Candidates) /\ Len(cands') = Len(cands) /\ Ids' = Ids
      /\ \A j \in Ids : j # w.cur => cands'[j] = cands[j]
      /\ Kept(cands[w.cur], cands'[w.cur]) /\ cands'[w.cur].state = "SUPERSEDED"
      /\ cands'[w.cur].human = cands[w.cur].human /\ cands'[w.cur].final = cands[w.cur].final
  BY <1>1, <1>2, Supersede_OK DEF Ids
<1>4. /\ Shape(w') /\ w'.pc = "evaluate" /\ w'.todo = w.todo \ {w.cur} /\ w'.cur = 0
      /\ w'.child = 0 /\ w'.out = "none"
  BY <1>1, <1>2, DoneTurn DEF Next1
<1>5. \A j \in Ids : /\ RowOK(cands'[j], setting.auto) /\ Evolves(cands[j], cands'[j])
                     /\ cands'[j].b2row => cands[j].b2row
  <2>1. /\ RowOK(cands'[w.cur], setting.auto) /\ Evolves(cands[w.cur], cands'[w.cur])
        /\ cands'[w.cur].b2row => cands[w.cur].b2row
    BY <1>2, <1>3, GivesWay
  <2> QED BY <1>3, <2>1, CurOf DEF Evolves
<1>6. \A j \in Ids : ~Promoting(j) /\ ~Promoting(j)'
  BY <1>1, <1>4 DEF Promoting
<1>7. Firm \subseteq Firm'
  <2>1. cands[w.cur].state = "ACCEPTED" => cands[w.cur].human = "APPROVE"
    BY <1>1, <1>2, HandOpen
  <2> QED BY <1>3, <1>6, <2>1 DEF Firm
<1>8. SupersededOK /\ AliveOK /\ LineageOK
  BY DEF IInv, TableOK
<1>9. SupersededOK'
  <2>1. ASSUME NEW i \in Ids, cands'[i].state = "SUPERSEDED"
        PROVE  Firm' # {} \/ \E j \in Ids : cands'[j].par = i /\ cands'[j].ledger # "none"
    <3>1. Firm # {} \/ \E j \in Ids : cands[j].par = i /\ cands[j].ledger # "none"
      BY <1>2, <1>3, <1>8, <2>1 DEF SupersededOK
    <3> QED BY <1>5, <1>7, <3>1 DEF Evolves
  <2>2. ASSUME NEW i \in Ids, cands'[i].state = "ACCEPTED", cands'[i].human # "APPROVE"
        PROVE  i \notin w'.todo /\ i # w'.cur
    <3>1. i # w.cur
      BY <1>3, <2>2
    <3> QED BY <1>2, <1>3, <1>4, <1>6, <1>8, <2>2, <3>1 DEF SupersededOK
  <2> QED BY <1>3, <2>1, <2>2 DEF SupersededOK
<1>10. AliveOK'
  <2>1. PICK k \in Ids : cands[k].state # "SUPERSEDED" /\ Leaf(k)
    BY <1>2, <1>8 DEF AliveOK
  <2>2. k # w.cur
    BY <1>2, <2>1 DEF Leaf
  <2>3. Leaf(k)' /\ cands'[k].state # "SUPERSEDED"
    BY <1>3, <1>5, <2>1, <2>2 DEF Leaf, Evolves
  <2> QED BY <1>3, <2>3 DEF AliveOK
<1>11. TableOK'
  BY <1>1, <1>3, <1>5, <1>9, <1>10, TableFrom
<1>12. KnownOK'
  BY <1>4, KnowsNothing DEF Blind, RouteSteps, PlannerSteps, FinalSteps
<1> QED BY <1>1, <1>3, <1>4, <1>11, <1>12, RouteTurn, RevsTyped

\* One candidate is chosen, and others give way to it.
LEMMA ChosenTable ==
  ASSUME IInv, setting' = setting, revs' = revs, Ids' = Ids, Len(cands') = Len(cands),
         cands' \in Seq(Candidates), NEW i \in Ids, i \in Firm', cands'[i].state # "SUPERSEDED",
         ~Failed(cands[i]),
         \A j \in Ids : /\ RowOK(cands'[j], setting.auto) /\ Evolves(cands[j], cands'[j])
                        /\ cands'[j].b2row => cands[j].b2row,
         \A j \in Ids : cands'[j].state = "ACCEPTED" /\ cands'[j].human # "APPROVE"
                          /\ ~Promoting(j)' => j \notin w'.todo /\ j # w'.cur
  PROVE  TableOK'
<1>1. SupersededOK'
  BY DEF SupersededOK
<1>2. Leaf(i)
  BY NoRepairOf
<1>3. Leaf(i)'
  BY <1>2 DEF Leaf, Evolves
<1>4. AliveOK'
  BY <1>3 DEF AliveOK
<1> QED BY <1>1, <1>4, TableFrom

LEMMA PromoteIInv == ASSUME IInv, Promote PROVE IInv'
<1>1. /\ w.pc = "promote" /\ w.pc \in RouteSteps \cup {"route", "promote"} /\ w.pc # "idle"
      /\ UNCHANGED <<setting, revs, pstate, comfy, server, faults, ops>>
  BY DEF Promote
<1>2. /\ WorkerOK /\ w.cur \in Ids /\ cands \in Seq(Candidates) /\ DOMAIN cands = Ids
      /\ w.cur \in Held /\ 0 \notin Ids
      /\ setting.auto /\ cands[w.cur].verdict = "PASS" /\ RowOK(cands[w.cur], setting.auto)
  BY <1>1, Routing DEF EvidenceOK
<1>3. CASE Charged(w.cur)
  BY <1>1, <1>2, <1>3, ChargedIInv
<1>4. ASSUME NEW S, S = (Ids \ {w.cur}) \ InState({"ACCEPTED"}),
             cands' = Supersede(cands, S), cands[w.cur].state = "ACCEPTED", Next1("evaluate")
      PROVE  IInv'
  <2>1. /\ cands' \in Seq(Candidates) /\ Len(cands') = Len(cands) /\ Ids' = Ids
        /\ \A j \in Ids : j \notin S => cands'[j] = cands[j]
        /\ \A j \in Ids : j \in S =>
             /\ Kept(cands[j], cands'[j]) /\ cands'[j].state = "SUPERSEDED"
             /\ cands'[j].human = cands[j].human /\ cands'[j].final = cands[j].final
    BY <1>2, <1>4, Supersede_OK DEF Ids
  <2>2. /\ Shape(w') /\ w'.pc = "evaluate" /\ w'.todo = w.todo \ {w.cur} /\ w'.cur = 0
        /\ w'.child = 0 /\ w'.out = "none"
    BY <1>2, <1>4, DoneTurn DEF Next1
  <2>3. ASSUME NEW j \in Ids
        PROVE  /\ RowOK(cands'[j], setting.auto) /\ Evolves(cands[j], cands'[j])
               /\ cands'[j].b2row => cands[j].b2row
    <3>1. CASE j \in S
      BY <2>1, <3>1, GivesWay
    <3>2. CASE j \notin S
      BY <2>1, <3>2, CurOf DEF Evolves
    <3> QED BY <3>1, <3>2
  <2>4. w.cur \notin S /\ cands'[w.cur] = cands[w.cur]
    BY <1>2, <1>4, <2>1
  <2>5. w.cur \in Firm'
    BY <1>2, <1>4, <2>1, <2>2, <2>4 DEF Firm, Promoting
  <2>6. ~Failed(cands[w.cur])
    BY <1>2 DEF Failed, RowOK
  <2>7. ASSUME NEW j \in Ids, cands'[j].state = "ACCEPTED", cands'[j].human # "APPROVE"
        PROVE  j \notin w'.todo /\ j # w'.cur
    <3>1. CASE j = w.cur
      BY <1>2, <2>2, <3>1
    <3>2. CASE j # w.cur
      <4>1. cands[j].state = "ACCEPTED" /\ cands[j].human # "APPROVE" /\ ~Promoting(j)
        BY <2>1, <2>7, <3>2 DEF Promoting
      <4> QED BY <1>2, <2>2, <4>1 DEF IInv, TableOK, SupersededOK
    <3> QED BY <3>1, <3>2
  <2>8. cands'[w.cur].state # "SUPERSEDED"
    BY <1>4, <2>4
  <2>9. TableOK'
    BY <1>1, <1>2, <2>1, <2>3, <2>5, <2>6, <2>7, <2>8, ChosenTable
  <2>10. KnownOK'
    BY <2>2, KnowsNothing DEF Blind, RouteSteps, PlannerSteps, FinalSteps
  <2> QED BY <1>1, <2>1, <2>2, <2>9, <2>10, RouteTurn, RevsTyped
<1> QED BY <1>3, <1>4 DEF Promote


-----------------------------------------------------------------------------
(* The planner                                                                  *)

SetClaimed(c, i, x, k) == [c EXCEPT ![i].claim = x, ![i].calls = k]
SetPatched(c, i, x, n) == [c EXCEPT ![i].patch = x, ![i].planned = n]
SetRepaired(c, i, y) == [c EXCEPT ![i].repair = y]
Claims == {"none", "CLAIMED", "COMPLETED", "FAILED_CLOSED"}
Patches == {"none", "ACCEPTED", "REJECTED", "FAILED", "AMBIGUOUS"}
Repairs == {"none", "ACCEPTED", "REJECTED"}

LEMMA SetClaimed_OK ==
  ASSUME NEW c \in Seq(Candidates), NEW i \in DOMAIN c, NEW x \in Claims, NEW k \in Nat,
         NEW d, d = SetClaimed(c, i, x, k)
  PROVE  /\ One(c, d, i) /\ SameCandidate(c[i], d[i]) /\ SameVerdict(c[i], d[i])
         /\ d[i].repair = c[i].repair /\ d[i].b2row = c[i].b2row /\ d[i].claim = x
         /\ d[i].calls = k /\ d[i].state = c[i].state /\ d[i].human = c[i].human
         /\ d[i].final = c[i].final
<1>1. c[i] \in Candidates
  OBVIOUS
<1>2. d = [c EXCEPT ![i] = RowClaimed(c[i], x, k)]
  BY <1>1 DEF SetClaimed, Candidates, RowClaimed
<1>3. PICK r : r = RowClaimed(c[i], x, k)
  OBVIOUS
<1>4. /\ SameCandidate(c[i], r) /\ SameVerdict(c[i], r) /\ r.repair = c[i].repair
      /\ r.b2row = c[i].b2row /\ r.claim = x /\ r.calls = k /\ r.state = c[i].state
      /\ r.human = c[i].human /\ r.final = c[i].final
  BY <1>1, <1>3, RowClaimed_Fields DEF Claims
<1>5. r \in Candidates
  BY <1>4 DEF SameCandidate
<1>6. One(c, d, i) /\ d[i] = r
  BY <1>2, <1>3, <1>5, RowReplaced
<1> QED BY <1>4, <1>6

LEMMA SetPatched_OK ==
  ASSUME NEW c \in Seq(Candidates), NEW i \in DOMAIN c, NEW x \in Patches, NEW n \in Nat,
         NEW d, d = SetPatched(c, i, x, n)
  PROVE  /\ One(c, d, i) /\ Kept(c[i], d[i]) /\ d[i].state = c[i].state
         /\ d[i].human = c[i].human /\ d[i].final = c[i].final
<1>1. c[i] \in Candidates
  OBVIOUS
<1>2. d = [c EXCEPT ![i] = RowPatched(c[i], x, n)]
  BY <1>1 DEF SetPatched, Candidates, RowPatched
<1>3. PICK r : r = RowPatched(c[i], x, n)
  OBVIOUS
<1>4. Kept(c[i], r) /\ r.state = c[i].state /\ r.human = c[i].human /\ r.final = c[i].final
  BY <1>1, <1>3, RowPatched_Fields DEF Patches
<1>5. r \in Candidates
  BY <1>4 DEF Kept, SameCandidate
<1>6. One(c, d, i) /\ d[i] = r
  BY <1>2, <1>3, <1>5, RowReplaced
<1> QED BY <1>4, <1>6

LEMMA SetRepaired_OK ==
  ASSUME NEW c \in Seq(Candidates), NEW i \in DOMAIN c, NEW y \in Repairs,
         NEW d, d = SetRepaired(c, i, y)
  PROVE  /\ One(c, d, i) /\ SameCandidate(c[i], d[i]) /\ SameVerdict(c[i], d[i])
         /\ d[i].claim = c[i].claim /\ d[i].calls = c[i].calls /\ d[i].b2row = c[i].b2row
         /\ d[i].repair = y /\ d[i].state = c[i].state /\ d[i].human = c[i].human
         /\ d[i].final = c[i].final
<1>1. c[i] \in Candidates
  OBVIOUS
<1>2. d = [c EXCEPT ![i] = RowRepaired(c[i], y)]
  BY <1>1 DEF SetRepaired, Candidates, RowRepaired
<1>3. PICK r : r = RowRepaired(c[i], y)
  OBVIOUS
<1>4. /\ SameCandidate(c[i], r) /\ SameVerdict(c[i], r) /\ r.claim = c[i].claim
      /\ r.calls = c[i].calls /\ r.b2row = c[i].b2row /\ r.repair = y /\ r.state = c[i].state
      /\ r.human = c[i].human /\ r.final = c[i].final
  BY <1>1, <1>3, RowRepaired_Fields DEF Repairs
<1>5. r \in Candidates
  BY <1>4 DEF SameCandidate
<1>6. One(c, d, i) /\ d[i] = r
  BY <1>2, <1>3, <1>5, RowReplaced
<1> QED BY <1>4, <1>6

\* What the planner and its answers change of a row.
Planned(c, d) ==
  /\ SameCandidate(c, d) /\ SameVerdict(c, d) /\ d.b2row = c.b2row
  /\ d.human = c.human /\ d.final = c.final
  /\ d.calls <= 1 /\ (d.claim = "none" => d.calls = 0)
  /\ c.repair # "none" => d.repair = c.repair

\* The worker asks the planner, or settles its answer, and goes on with the same candidate.
LEMMA PlannedOn ==
  ASSUME IInv, w.pc \in RouteSteps, w.decision # "PASS",
         UNCHANGED <<setting, revs, pstate, comfy, server, ops>>, faults' = faults \/ Fault,
         One(cands, cands', w.cur), Planned(cands[w.cur], cands'[w.cur]),
         MayEnter(cands[w.cur], cands'[w.cur].state, setting.auto, TRUE),
         Shape(w'), w'.pc \in RouteSteps, w'.todo = w.todo, w'.cur = w.cur,
         w'.decision = w.decision, w'.child = w.child, PlannerOK', ChildOK'
  PROVE  IInv'
<1>1. /\ w.cur \in Ids /\ w.cur \in Held /\ WorkerOK /\ RowOK(cands[w.cur], setting.auto)
      /\ Failed(cands[w.cur]) /\ w.pc # "idle" /\ w.pc \notin RenderSteps
  BY AtRoute, RouteIsHeir, Routing
<1>2. RowOK(cands'[w.cur], setting.auto)
  BY <1>1 DEF RowOK, Planned, SameCandidate, SameVerdict, MayEnter, Plain
<1>3. Evolves(cands[w.cur], cands'[w.cur])
  BY DEF Planned, Evolves, Failed, SameCandidate, SameVerdict
<1>4. Steady(cands[w.cur], cands'[w.cur], w.cur \in Held)
  BY <1>1 DEF Steady, Planned, MayEnter, Plain
<1>5. w.pc # "promote" /\ w'.pc # "promote"
  BY DEF RouteSteps, PlannerSteps
<1>6. Handover
  BY <1>5 DEF Handover, Held
<1>7. TableOK' /\ Ids' = Ids
  BY <1>1, <1>2, <1>3, <1>4, <1>6, RowStep DEF Planned
<1>8. Failed(cands'[w.cur]) /\ cands'[w.cur].verdict = cands[w.cur].verdict
  BY <1>1 DEF Planned, Failed, SameVerdict
<1>9. w.decision = "FRAME" <=> cands[w.cur].verdict = "FRAME"
  BY RouteIsHeir
<1>10. KnownOK'
  BY <1>8, <1>9, RouteKnows
<1>11. w'.pc \in Steps /\ w'.pc # "register" /\ w'.pc # "start" /\ w'.pc \notin RenderSteps
  BY DEF Steps, CurSteps, RouteSteps, PlannerSteps, RenderSteps, FinalSteps
<1>12. WorkerOK'
  BY <1>1, <1>7, <1>11 DEF WorkerOK
<1>13. ScalarsOK' /\ DevicesOK' /\ SelectionOK'
  BY <1>1, <1>11, WorkerStep, RevsTyped
<1> QED BY <1>7, <1>10, <1>12, <1>13 DEF IInv

\* What the worker knows when it is about to ask, or has asked.
LEMMA AtPlan ==
  ASSUME IInv, w.pc \in PlannerSteps \/ AtPlanner
  PROVE  /\ w.pc \in RouteSteps /\ w.decision # "PASS" /\ WorkerOK /\ w.cur \in Ids
         /\ w.cur \in Held /\ cands \in Seq(Candidates) /\ DOMAIN cands = Ids
         /\ cands[w.cur].tier = "A2" /\ cands[w.cur].verdict # "FRAME"
         /\ RowOK(cands[w.cur], setting.auto) /\ PlannerOK
         /\ w.child \in Ids \cup {0} /\ w.pc # "promote" /\ w.pc # "idle"
         /\ cands[w.cur] \in Candidates
<1>1. w.pc \in RouteSteps
  BY DEF AtPlanner, RouteSteps
<1>2. w.decision # "PASS"
  BY <1>1, Routing DEF AtPlanner, EvidenceOK, RouteSteps, PlannerSteps
<1>3. /\ WorkerOK /\ w.cur \in Ids /\ w.cur \in Held /\ cands \in Seq(Candidates)
      /\ DOMAIN cands = Ids /\ RowOK(cands[w.cur], setting.auto) /\ PlannerOK
      /\ cands[w.cur] \in Candidates
  BY <1>1, Routing
<1>4. w.child \in Ids \cup {0} /\ w.pc # "promote" /\ w.pc # "idle"
  BY <1>1, <1>2, AtRoute
<1>5. cands[w.cur].tier = "A2" /\ cands[w.cur].verdict # "FRAME"
  <2>1. CASE w.pc \in PlannerSteps
    BY <1>3, <2>1 DEF PlannerOK
  <2>2. CASE AtPlanner
    <3>1. Heir(cands[w.cur]) = "B1"
      BY <1>1, <1>2, <2>2, AtRoute DEF AtPlanner
    <3> QED BY <1>3, <3>1, HeirTells
  <2> QED BY <2>1, <2>2
<1> QED BY <1>1, <1>2, <1>3, <1>4, <1>5

LEMMA ClaimIInv == ASSUME IInv, Claim PROVE IInv'
<1>1. /\ AtPlanner /\ cands[w.cur].repair = "none"
      /\ UNCHANGED <<setting, revs, pstate, comfy, server, faults, ops>>
  BY DEF Claim
<1>2. /\ w.pc \in RouteSteps /\ w.decision # "PASS" /\ WorkerOK /\ w.cur \in Ids
      /\ cands \in Seq(Candidates) /\ DOMAIN cands = Ids
      /\ cands[w.cur].tier = "A2" /\ cands[w.cur].verdict # "FRAME"
      /\ RowOK(cands[w.cur], setting.auto) /\ w.child \in Ids \cup {0}
      /\ cands[w.cur] \in Candidates
  BY <1>1, AtPlan
<1>3. ASSUME cands[w.cur].claim = "none", cands' = [cands EXCEPT ![w.cur].claim = "CLAIMED"],
             Goto("plan")
      PROVE  IInv'
  <2>1. cands[w.cur].calls = 0
    BY <1>2, <1>3 DEF RowOK
  <2>2. PICK i \in Ids, x \in Claims, k \in Nat : i = w.cur /\ x = "CLAIMED" /\ k = 0
    BY <1>2 DEF Claims
  <2>3. cands' = SetClaimed(cands, i, x, k)
    BY <1>2, <1>3, <2>1, <2>2 DEF SetClaimed, Candidates
  <2>4. /\ One(cands, cands', i) /\ SameCandidate(cands[i], cands'[i])
        /\ SameVerdict(cands[i], cands'[i]) /\ cands'[i].repair = cands[i].repair
        /\ cands'[i].b2row = cands[i].b2row /\ cands'[i].claim = x /\ cands'[i].calls = k
        /\ cands'[i].state = cands[i].state /\ cands'[i].human = cands[i].human
        /\ cands'[i].final = cands[i].final
    BY <1>2, <2>2, <2>3, SetClaimed_OK
  <2>5. /\ Shape(w') /\ w'.pc = "plan" /\ w'.todo = w.todo /\ w'.cur = w.cur
        /\ w'.child = w.child /\ w'.decision = w.decision /\ w'.out = w.out
    BY <1>2, <1>3, GotoTurn
  <2>6. Planned(cands[i], cands'[i]) /\ MayEnter(cands[i], cands'[i].state, setting.auto, TRUE)
    BY <2>2, <2>4 DEF Planned, MayEnter
  <2>7. PlannerOK'
    BY <1>1, <1>2, <2>2, <2>4, <2>5
    DEF PlannerOK, RouteSteps, PlannerSteps, SameCandidate, SameVerdict
  <2>8. ChildOK' /\ w'.pc \in RouteSteps
    BY <2>5 DEF ChildOK, RouteSteps, PlannerSteps
  <2> QED BY <1>1, <1>2, <2>2, <2>4, <2>5, <2>6, <2>7, <2>8, PlannedOn
<1>4. ASSUME UNCHANGED cands, w' = [w EXCEPT !.pc = "patch", !.out = "AMBIGUOUS"]
      PROVE  IInv'
  <2>1. /\ Shape(w') /\ w'.pc = "patch" /\ w'.todo = w.todo /\ w'.cur = w.cur
        /\ w'.child = w.child /\ w'.decision = w.decision /\ w'.out = "AMBIGUOUS"
    BY <1>2, <1>4 DEF WorkerOK, Shape
  <2>2. PlannerOK'
    BY <1>1, <1>2, <1>4, <2>1 DEF PlannerOK, RouteSteps, PlannerSteps, Answers
  <2>3. ChildOK' /\ w'.pc \in RouteSteps
    BY <2>1 DEF ChildOK, RouteSteps, PlannerSteps
  <2>4. One(cands, cands', w.cur) /\ Planned(cands[w.cur], cands'[w.cur])
    BY <1>2, <1>4 DEF One, Planned, SameCandidate, SameVerdict, RowOK
  <2>5. MayEnter(cands[w.cur], cands'[w.cur].state, setting.auto, TRUE)
    BY <1>4 DEF MayEnter
  <2> QED BY <1>1, <1>2, <2>1, <2>2, <2>3, <2>4, <2>5, PlannedOn
<1> QED BY <1>3, <1>4 DEF Claim

LEMMA PlanIInv == ASSUME IInv, Plan PROVE IInv'
<1>1. /\ w.pc = "plan" /\ w.pc \in PlannerSteps
      /\ UNCHANGED <<setting, revs, pstate, comfy, server, ops>>
      /\ cands' = [cands EXCEPT ![w.cur].calls = @ + 1]
  BY DEF Plan, PlannerSteps
<1>2. /\ w.pc \in RouteSteps /\ w.decision # "PASS" /\ WorkerOK /\ w.cur \in Ids
      /\ cands \in Seq(Candidates) /\ DOMAIN cands = Ids
      /\ cands[w.cur].tier = "A2" /\ cands[w.cur].verdict # "FRAME"
      /\ cands[w.cur].repair = "none" /\ cands[w.cur].claim = "CLAIMED"
      /\ cands[w.cur].calls = 0 /\ cands[w.cur] \in Candidates
  BY <1>1, AtPlan DEF PlannerOK
<1>3. PICK out \in Answers : /\ w' = [w EXCEPT !.pc = "patch", !.out = out]
                             /\ faults' = faults \/ Fault
  BY DEF Plan, Answers
<1>4. /\ Shape(w') /\ w'.pc = "patch" /\ w'.todo = w.todo /\ w'.cur = w.cur
      /\ w'.child = w.child /\ w'.decision = w.decision /\ w'.out = out
  BY <1>2, <1>3 DEF WorkerOK, Shape
<1>5. PICK i \in Ids, x \in Claims, k \in Nat : i = w.cur /\ x = "CLAIMED" /\ k = 1
  BY <1>2 DEF Claims
<1>6. cands' = SetClaimed(cands, i, x, k)
  <2>1. PICK c \in Candidates : c = cands[i] /\ c.claim = x /\ c.calls = 0
    BY <1>2, <1>5
  <2>2. [c EXCEPT !.calls = @ + 1] = [c EXCEPT !.claim = x, !.calls = k]
    <3>1. c.calls + 1 = k
      BY <1>5, <2>1
    <3>2. [c EXCEPT !.calls = @ + 1] = [c EXCEPT !.calls = k]
      BY <3>1
    <3>3. c = [c EXCEPT !.claim = x]
      BY <2>1 DEF Candidates
    <3> QED BY <3>2, <3>3
  <2>3. cands' = [cands EXCEPT ![i] = [c EXCEPT !.calls = @ + 1]]
    BY <1>1, <1>5, <2>1
  <2>4. SetClaimed(cands, i, x, k) = [cands EXCEPT ![i] = [c EXCEPT !.claim = x, !.calls = k]]
    BY <1>2, <2>1 DEF SetClaimed, Candidates
  <2> QED BY <2>2, <2>3, <2>4
<1>7. /\ One(cands, cands', i) /\ SameCandidate(cands[i], cands'[i])
      /\ SameVerdict(cands[i], cands'[i]) /\ cands'[i].repair = cands[i].repair
      /\ cands'[i].b2row = cands[i].b2row /\ cands'[i].claim = x /\ cands'[i].calls = k
      /\ cands'[i].state = cands[i].state /\ cands'[i].human = cands[i].human
      /\ cands'[i].final = cands[i].final
  BY <1>2, <1>5, <1>6, SetClaimed_OK
<1>8. Planned(cands[i], cands'[i]) /\ MayEnter(cands[i], cands'[i].state, setting.auto, TRUE)
  BY <1>5, <1>7 DEF Planned, MayEnter
<1>9. PlannerOK'
  BY <1>2, <1>4, <1>5, <1>7 DEF PlannerOK, RouteSteps, PlannerSteps, SameCandidate, SameVerdict
<1>10. ChildOK' /\ w'.pc \in RouteSteps
  BY <1>4 DEF ChildOK, RouteSteps, PlannerSteps
<1> QED BY <1>1, <1>2, <1>3, <1>4, <1>5, <1>7, <1>8, <1>9, <1>10, PlannedOn

LEMMA PatchIInv == ASSUME IInv, Patch PROVE IInv'
<1>1. /\ w.pc = "patch" /\ w.pc \in PlannerSteps
      /\ UNCHANGED <<setting, revs, pstate, comfy, server, faults, ops>>
  BY DEF Patch, PlannerSteps
<1>2. /\ w.pc \in RouteSteps /\ w.decision # "PASS" /\ WorkerOK /\ w.cur \in Ids
      /\ w.cur \in Held /\ w.pc # "promote" /\ w.pc # "idle"
      /\ cands \in Seq(Candidates) /\ DOMAIN cands = Ids
      /\ cands[w.cur].tier = "A2" /\ cands[w.cur].verdict # "FRAME"
      /\ cands[w.cur].repair = "none" /\ w.out \in Answers
      /\ RowOK(cands[w.cur], setting.auto)
  BY <1>1, AtPlan DEF PlannerOK
<1>3. CASE Charged(w.cur)
  BY <1>1, <1>2, <1>3, ChargedIInv
<1>4. ASSUME cands' = SetPatched(cands, w.cur, w.out, revs + 1), Goto("record")
      PROVE  IInv'
  <2>1. PICK i \in Ids, x \in Patches, n \in Nat : i = w.cur /\ x = w.out /\ n = revs + 1
    BY <1>2, RevsTyped DEF Answers, Patches
  <2>2. /\ One(cands, cands', i) /\ Kept(cands[i], cands'[i]) /\ cands'[i].state = cands[i].state
        /\ cands'[i].human = cands[i].human /\ cands'[i].final = cands[i].final
    BY <1>2, <1>4, <2>1, SetPatched_OK
  <2>3. /\ Shape(w') /\ w'.pc = "record" /\ w'.todo = w.todo /\ w'.cur = w.cur
        /\ w'.child = w.child /\ w'.decision = w.decision /\ w'.out = w.out
    BY <1>2, <1>4, GotoTurn
  <2>4. Planned(cands[i], cands'[i])
    BY <1>2, <2>1, <2>2 DEF Planned, Kept, SamePlan, RowOK
  <2>5. MayEnter(cands[i], cands'[i].state, setting.auto, TRUE)
    BY <2>2 DEF MayEnter
  <2>6. PlannerOK'
    BY <1>2, <2>1, <2>2, <2>3
    DEF PlannerOK, RouteSteps, PlannerSteps, Kept, SameCandidate, SameVerdict, SamePlan
  <2>7. ChildOK' /\ w'.pc \in RouteSteps
    BY <2>3 DEF ChildOK, RouteSteps, PlannerSteps
  <2> QED BY <1>1, <1>2, <2>1, <2>2, <2>3, <2>4, <2>5, <2>6, <2>7, PlannedOn
<1> QED BY <1>3, <1>4 DEF Patch, SetPatched

LEMMA RecordIInv == ASSUME IInv, Record PROVE IInv'
<1>1. /\ w.pc = "record" /\ w.pc \in PlannerSteps
      /\ UNCHANGED <<setting, revs, pstate, comfy, server, faults, ops>>
  BY DEF Record, PlannerSteps
<1>2. /\ w.pc \in RouteSteps /\ w.decision # "PASS" /\ WorkerOK /\ w.cur \in Ids
      /\ cands \in Seq(Candidates) /\ DOMAIN cands = Ids
      /\ cands[w.cur].tier = "A2" /\ cands[w.cur].verdict # "FRAME"
      /\ cands[w.cur].repair = "none" /\ w.out \in Answers
      /\ RowOK(cands[w.cur], setting.auto)
  BY <1>1, AtPlan DEF PlannerOK
<1>3. PICK i \in Ids, y \in Repairs, p \in {"b1", "reject"} :
        /\ i = w.cur
        /\ y = IF w.out = "ACCEPTED" THEN "ACCEPTED" ELSE "REJECTED"
        /\ p = IF w.out = "ACCEPTED" THEN "b1" ELSE "reject"
  BY <1>2 DEF Repairs
<1>4. cands' = SetRepaired(cands, i, y) /\ Goto(p)
  BY <1>3 DEF Record, SetRepaired
<1>5. /\ One(cands, cands', i) /\ SameCandidate(cands[i], cands'[i])
      /\ SameVerdict(cands[i], cands'[i]) /\ cands'[i].claim = cands[i].claim
      /\ cands'[i].calls = cands[i].calls /\ cands'[i].b2row = cands[i].b2row
      /\ cands'[i].repair = y /\ cands'[i].state = cands[i].state
      /\ cands'[i].human = cands[i].human /\ cands'[i].final = cands[i].final
  BY <1>2, <1>3, <1>4, SetRepaired_OK
<1>6. /\ Shape(w') /\ w'.pc = p /\ w'.todo = w.todo /\ w'.cur = w.cur
      /\ w'.child = w.child /\ w'.decision = w.decision /\ w'.out = w.out
  BY <1>2, <1>4, GotoTurn
<1>7. Planned(cands[i], cands'[i]) /\ MayEnter(cands[i], cands'[i].state, setting.auto, TRUE)
  BY <1>2, <1>3, <1>5 DEF Planned, MayEnter, RowOK
<1>8. PlannerOK'
  BY <1>2, <1>3, <1>5, <1>6
  DEF PlannerOK, RouteSteps, PlannerSteps, SameCandidate, SameVerdict, Answers
<1>9. ChildOK' /\ w'.pc \in RouteSteps
  BY <1>3, <1>6 DEF ChildOK, RouteSteps, PlannerSteps
<1> QED BY <1>1, <1>2, <1>3, <1>5, <1>6, <1>7, <1>8, <1>9, PlannedOn

LEMMA RejectIInv == ASSUME IInv, Reject PROVE IInv'
<1>1. /\ w.pc = "reject" /\ w.pc \in PlannerSteps
      /\ UNCHANGED <<setting, revs, pstate, comfy, server, faults, ops>>
      /\ cands' = SetState(cands, w.cur, "HOLD_FOR_REVIEW", "hold_for_review") /\ Goto("settle")
  BY DEF Reject, PlannerSteps
<1>2. /\ w.pc \in RouteSteps /\ w.decision # "PASS" /\ WorkerOK /\ w.cur \in Ids
      /\ cands \in Seq(Candidates) /\ DOMAIN cands = Ids
      /\ cands[w.cur].tier = "A2" /\ cands[w.cur].verdict # "FRAME"
      /\ cands[w.cur].repair = "REJECTED" /\ w.out \in Answers \ {"ACCEPTED"}
      /\ RowOK(cands[w.cur], setting.auto)
  BY <1>1, AtPlan DEF PlannerOK
<1>3. PICK i \in Ids, s \in States, n \in NextActions :
        i = w.cur /\ s = "HOLD_FOR_REVIEW" /\ n = "hold_for_review"
  BY <1>2, StatesListed, NextsListed
<1>4. /\ One(cands, cands', i) /\ Kept(cands[i], cands'[i]) /\ cands'[i].state = s
      /\ cands'[i].human = cands[i].human /\ cands'[i].final = cands[i].final
  BY <1>1, <1>2, <1>3, Set_OK
<1>5. /\ Shape(w') /\ w'.pc = "settle" /\ w'.todo = w.todo /\ w'.cur = w.cur
      /\ w'.child = w.child /\ w'.decision = w.decision /\ w'.out = w.out
  BY <1>1, <1>2, GotoTurn
<1>6. Planned(cands[i], cands'[i]) /\ MayEnter(cands[i], cands'[i].state, setting.auto, TRUE)
  BY <1>2, <1>3, <1>4 DEF Planned, MayEnter, Plain, RowOK, Kept, SamePlan
<1>7. PlannerOK'
  BY <1>2, <1>3, <1>4, <1>5
  DEF PlannerOK, RouteSteps, PlannerSteps, Kept, SameCandidate, SameVerdict, SamePlan, Answers
<1>8. ChildOK' /\ w'.pc \in RouteSteps
  BY <1>5 DEF ChildOK, RouteSteps, PlannerSteps
<1> QED BY <1>1, <1>2, <1>3, <1>4, <1>5, <1>6, <1>7, <1>8, PlannedOn


LEMMA ScheduleB1IInv == ASSUME IInv, ScheduleB1 PROVE IInv'
<1>1. /\ w.pc \in PlannerSteps \/ AtPlanner
      /\ w.pc = "b1" \/ (w.pc = "routed" /\ AtPlanner /\ cands[w.cur].repair = "ACCEPTED")
      /\ UNCHANGED <<setting, pstate, comfy, server, faults, ops>>
  BY DEF ScheduleB1, PlannerSteps, AtPlanner
<1>2. /\ w.pc \in RouteSteps /\ w.decision # "PASS" /\ WorkerOK /\ w.cur \in Ids
      /\ w.cur \in Held /\ cands \in Seq(Candidates) /\ DOMAIN cands = Ids
      /\ cands[w.cur].tier = "A2" /\ cands[w.cur].verdict # "FRAME"
      /\ RowOK(cands[w.cur], setting.auto) /\ PlannerOK
      /\ w.pc # "promote" /\ w.pc # "idle" /\ cands[w.cur] \in Candidates
  BY <1>1, AtPlan
<1>3. /\ cands[w.cur].repair = "ACCEPTED"
      /\ w.out = "none" \/ (w.pc = "b1" /\ w.out = "ACCEPTED")
  BY <1>1, <1>2 DEF PlannerOK
<1>4. Heir(cands[w.cur]) = "B1"
  BY <1>2, <1>3 DEF Heir
<1>5. PICK q : q = IF w.out = "none" THEN "ledger" ELSE "settle"
  OBVIOUS
<1>6. q = "ledger" \/ (q = "settle" /\ w.out = "ACCEPTED")
  BY <1>3, <1>5
<1>7. CASE OfTier("B1") # {}
  <2>1. Least(OfTier("B1")) \in Ids /\ cands[Least(OfTier("B1"))].par = w.cur
    BY <1>2, <1>4, <1>7, HeirFound
  <2>2. UNCHANGED <<cands, revs>> /\ w' = [w EXCEPT !.pc = q, !.child = Least(OfTier("B1"))]
    BY <1>5, <1>7 DEF ScheduleB1
  <2>3. /\ Shape(w') /\ w'.pc = q /\ w'.todo = w.todo /\ w'.cur = w.cur
        /\ w'.decision = w.decision /\ w'.child = Least(OfTier("B1")) /\ w'.out = w.out
    BY <1>2, <2>2 DEF WorkerOK, Shape
  <2> QED BY <1>1, <1>2, <1>6, <2>1, <2>2, <2>3, Found
<1>8. CASE OfTier("B1") = {} /\ revs + 1 # cands[w.cur].planned
  <2>1. /\ revs' = revs
        /\ \/ Charged(w.cur)
           \/ cands' = cands /\ w' = [w EXCEPT !.pc = "settle", !.out = "STALE"]
    BY <1>8 DEF ScheduleB1
  <2>2. CASE Charged(w.cur)
    BY <1>1, <1>2, <2>1, <2>2, ChargedIInv
  <2>3. CASE cands' = cands /\ w' = [w EXCEPT !.pc = "settle", !.out = "STALE"]
    <3>1. /\ Shape(w') /\ w'.pc = "settle" /\ w'.todo = w.todo /\ w'.cur = w.cur
          /\ w'.child = w.child /\ w'.decision = w.decision /\ w'.out = "STALE"
      BY <1>2, <2>3 DEF WorkerOK, Shape
    <3>2. PlannerOK'
      BY <1>2, <2>3, <3>1 DEF PlannerOK, RouteSteps, PlannerSteps, Answers
    <3>3. ChildOK' /\ w'.pc \in RouteSteps
      BY <3>1 DEF ChildOK, RouteSteps, PlannerSteps
    <3>4. One(cands, cands', w.cur) /\ Planned(cands[w.cur], cands'[w.cur])
      BY <1>2, <2>3 DEF One, Planned, SameCandidate, SameVerdict, RowOK
    <3>5. MayEnter(cands[w.cur], cands'[w.cur].state, setting.auto, TRUE)
      BY <2>3 DEF MayEnter
    <3> QED BY <1>1, <1>2, <2>1, <3>1, <3>2, <3>3, <3>4, <3>5, PlannedOn
  <2> QED BY <2>1, <2>2, <2>3
<1>9. CASE OfTier("B1") = {} /\ revs + 1 = cands[w.cur].planned
  <2>1. PICK x : x = NewCandidate("B1", w.cur, revs + 1, "draft", "render_b1", "none")
    OBVIOUS
  <2>2. /\ Len(cands) < MaxCands /\ revs < MaxRevs /\ revs' = revs + 1
        /\ cands' = Append(cands, x)
        /\ w' = [w EXCEPT !.pc = q, !.child = Len(cands) + 1]
    BY <1>5, <1>9, <2>1 DEF ScheduleB1
  <2>3. /\ Shape(w') /\ w'.pc = q /\ w'.todo = w.todo /\ w'.cur = w.cur
        /\ w'.decision = w.decision /\ w'.child = Len(cands) + 1 /\ w'.out = w.out
    BY <1>2, <2>2 DEF WorkerOK, Shape
  <2>4. revs + 1 \in Nat /\ revs' \in 1 .. MaxRevs /\ revs' >= revs /\ revs + 1 <= revs'
    BY <2>2, RevsTyped
  <2>5. FreshRevision(revs + 1, "B1")
    BY NextRevision
  <2>6. "B1" \in Tiers /\ "render_b1" \in NextActions
    BY NextsListed DEF Tiers
  <2>7. PICK t \in Tiers, r \in Nat, p \in Paths, n \in NextActions, l \in NewLedgers :
          t = "B1" /\ r = revs + 1 /\ p = "draft" /\ n = "render_b1" /\ l = "none"
    BY <2>4, <2>6 DEF NewLedgers, Paths
  <2>8. \/ w'.pc = "ledger"
        \/ /\ w'.pc = "settle" /\ w.out = "ACCEPTED"
           /\ cands[w.cur].tier = "A2" /\ cands[w.cur].verdict # "FRAME"
    BY <1>2, <1>6, <2>3
  <2> QED BY <1>1, <1>2, <1>3, <1>4, <1>9, <2>1, <2>2, <2>3, <2>4, <2>5, <2>7, <2>8, Inserted
<1> QED BY <1>7, <1>8, <1>9

LEMMA SettleIInv == ASSUME IInv, Settle PROVE IInv'
<1>1. /\ w.pc = "settle" /\ w.pc \in PlannerSteps
      /\ UNCHANGED <<setting, revs, pstate, comfy, server, faults, ops>>
  BY DEF Settle, PlannerSteps
<1>2. /\ w.pc \in RouteSteps /\ w.decision # "PASS" /\ WorkerOK /\ w.cur \in Ids
      /\ w.cur \in Held /\ cands \in Seq(Candidates) /\ DOMAIN cands = Ids
      /\ cands[w.cur].tier = "A2" /\ cands[w.cur].verdict # "FRAME"
      /\ RowOK(cands[w.cur], setting.auto) /\ cands[w.cur] \in Candidates
      /\ w.pc # "promote" /\ w.child \in Ids \cup {0}
      /\ w.out \in Answers \cup {"STALE"}
      /\ w.out = "REJECTED" => cands[w.cur].repair = "REJECTED"
      /\ w.out = "ACCEPTED" => w.child \in Ids /\ cands[w.child].par = w.cur
  BY <1>1, AtPlan DEF PlannerOK
<1>3. PICK i \in Ids, x \in Claims, k \in Nat :
        /\ i = w.cur /\ k = cands[i].calls
        /\ x = IF w.out \in {"FAILED", "AMBIGUOUS"} THEN "FAILED_CLOSED" ELSE "COMPLETED"
  BY <1>2, RowTypes DEF Claims
<1>4. cands' = SetClaimed(cands, i, x, k)
  <2>1. cands' = [cands EXCEPT ![i].claim = x]
    BY <1>3 DEF Settle
  <2> QED BY <1>2, <1>3, <2>1, ZenonT(40) DEF SetClaimed, Candidates
<1>5. /\ One(cands, cands', i) /\ SameCandidate(cands[i], cands'[i])
      /\ SameVerdict(cands[i], cands'[i]) /\ cands'[i].repair = cands[i].repair
      /\ cands'[i].b2row = cands[i].b2row /\ cands'[i].claim = x /\ cands'[i].calls = k
      /\ cands'[i].state = cands[i].state /\ cands'[i].human = cands[i].human
      /\ cands'[i].final = cands[i].final
  BY <1>2, <1>3, <1>4, SetClaimed_OK
<1>6. Planned(cands[i], cands'[i]) /\ MayEnter(cands[i], cands'[i].state, setting.auto, TRUE)
  BY <1>2, <1>3, <1>5 DEF Planned, MayEnter, RowOK
<1>7. ASSUME NEW p, Goto(p), PlannerOK', ChildOK', p \in RouteSteps PROVE IInv'
  <2>1. /\ Shape(w') /\ w'.pc = p /\ w'.todo = w.todo /\ w'.cur = w.cur
        /\ w'.child = w.child /\ w'.decision = w.decision /\ w'.out = w.out
    BY <1>2, <1>7, GotoTurn
  <2> QED BY <1>1, <1>2, <1>3, <1>5, <1>6, <1>7, <2>1, PlannedOn
<1>8. CASE w.out = "ACCEPTED"
  <2>1. Goto("ledger")
    BY <1>8 DEF Settle
  <2>2. /\ Shape(w') /\ w'.pc = "ledger" /\ w'.cur = w.cur /\ w'.child = w.child
    BY <1>2, <2>1, GotoTurn
  <2>3. cands'[w.child].par = w.cur /\ w.child \in Ids'
    BY <1>2, <1>5, <1>8 DEF One, Ids, SameCandidate
  <2>4. PlannerOK' /\ ChildOK'
    BY <2>2, <2>3 DEF PlannerOK, ChildOK, RouteSteps, PlannerSteps
  <2> QED BY <1>7, <2>1, <2>4 DEF RouteSteps
<1>9. CASE w.out = "REJECTED"
  <2>1. Goto("routed")
    BY <1>9 DEF Settle
  <2>2. /\ Shape(w') /\ w'.pc = "routed" /\ w'.cur = w.cur /\ w'.out = w.out
        /\ w'.decision = w.decision
    BY <1>2, <2>1, GotoTurn
  <2>3. PlannerOK' /\ ChildOK'
    BY <1>2, <1>3, <1>5, <1>9, <2>2 DEF PlannerOK, ChildOK, RouteSteps, PlannerSteps
  <2> QED BY <1>7, <2>1, <2>3 DEF RouteSteps
<1>10. CASE w.out \in {"FAILED", "STALE"}
  <2>1. Goto("failed")
    BY <1>10 DEF Settle
  <2>2. /\ Shape(w') /\ w'.pc = "failed" /\ w'.cur = w.cur
    BY <1>2, <2>1, GotoTurn
  <2>3. PlannerOK' /\ ChildOK'
    BY <1>2, <1>3, <1>5, <2>2
    DEF PlannerOK, ChildOK, RouteSteps, PlannerSteps, SameCandidate, SameVerdict
  <2> QED BY <1>7, <2>1, <2>3 DEF RouteSteps, PlannerSteps
<1>11. CASE w.out = "AMBIGUOUS"
  <2>1. Next1("evaluate")
    BY <1>11 DEF Settle
  <2>2. /\ Shape(w') /\ w'.pc = "evaluate" /\ w'.todo = w.todo \ {w.cur} /\ w'.cur = 0
        /\ w'.child = 0 /\ w'.out = "none"
    BY <1>2, <2>1, DoneTurn DEF Next1
  <2>3. 0 \notin Ids
    BY CurOf
  <2>4. Handover
    BY <1>2, <2>2 DEF Handover, Held
  <2>5. RowOK(cands'[i], setting.auto)
    BY <1>2, <1>3, <1>5, <1>6 DEF RowOK, Planned, SameCandidate, SameVerdict
  <2>6. Evolves(cands[i], cands'[i]) /\ Steady(cands[i], cands'[i], i \in Held)
    BY <1>5 DEF Evolves, Steady, Failed, SameCandidate, SameVerdict
  <2>7. TableOK' /\ Ids' = Ids
    BY <1>1, <1>5, <2>4, <2>5, <2>6, RowStep
  <2>8. KnownOK'
    BY <2>2, KnowsNothing DEF Blind, RouteSteps, PlannerSteps, FinalSteps
  <2> QED BY <1>1, <1>2, <2>2, <2>7, <2>8, RouteTurn, RevsTyped
<1> QED BY <1>2, <1>8, <1>9, <1>10, <1>11 DEF Answers

LEMMA RouteIInv == ASSUME IInv, Route PROVE IInv'
BY RouteReadIInv, RoutePassIInv, PromoteIInv, RouteDeferIInv, ScheduleA1IInv,
   ScheduleStrategyIInv, RegenerateFrameIInv, ReserveB2IInv, ScheduleB2IInv, LedgerIInv,
   SupersedeParentIInv, ClaimIInv, PlanIInv, PatchIInv, RecordIInv, RejectIInv, ScheduleB1IInv,
   SettleIInv, PlannerFailedIInv
DEF Route


-----------------------------------------------------------------------------
(* The operator                                                                 *)

\* What he changes of a row: its state, and the decision where there was none.
Decided(c, d) == Kept(c, d) /\ (d.human = c.human \/ c.human = "none")

LEMMA KnownStays ==
  ASSUME IInv, w' = w, setting' = setting, Ids' = Ids,
         \A i \in Ids : Decided(cands[i], cands'[i])
  PROVE  KnownOK'
<1>1. EvidenceOK /\ PlannerOK /\ ChildOK /\ FinalOK
  BY DEF IInv, KnownOK
<1>2. /\ w.pc \in CurSteps => w.cur \in Ids
      /\ w.todo \subseteq Ids
  BY CurOf
<1>3. /\ RouteSteps \cup {"judge", "judging", "manifest", "evidence", "route", "promote"}
           \subseteq CurSteps
      /\ {"final launch", "final wait"} \subseteq CurSteps
  BY DEF CurSteps, RenderSteps, FinalSteps
<1>4. \A i \in Ids : /\ cands'[i].ev = cands[i].ev /\ cands'[i].verdict = cands[i].verdict
                     /\ Failed(cands[i]) => Failed(cands'[i])
                     /\ cands[i].human = "APPROVE" => cands'[i].human = "APPROVE"
  BY DEF Decided, Kept, SameVerdict, Failed
<1>5. \A i \in Ids : /\ cands'[i].tier = cands[i].tier /\ cands'[i].par = cands[i].par
                     /\ (cands'[i].ledger = "none" <=> cands[i].ledger = "none")
                     /\ cands'[i].b2row = cands[i].b2row
                     /\ cands'[i].claim = cands[i].claim /\ cands'[i].calls = cands[i].calls
                     /\ cands'[i].repair = cands[i].repair
  BY DEF Decided, Kept, SameCandidate, SamePlan
<1>6. EvidenceOK'
  <2>1. CASE w.cur \in Ids
    BY <1>1, <1>4, <2>1 DEF EvidenceOK
  <2>2. CASE w.cur \notin Ids
    BY <1>2, <1>3, <2>2 DEF EvidenceOK, RouteSteps
  <2> QED BY <2>1, <2>2
<1>7. PlannerOK'
  <2>1. CASE w.cur \in Ids
    BY <1>1, <1>4, <1>5, <2>1 DEF PlannerOK
  <2>2. CASE w.cur \notin Ids
    BY <1>1, <1>2, <1>3, <2>2 DEF PlannerOK, RouteSteps, PlannerSteps
  <2> QED BY <2>1, <2>2
<1>8. ChildOK'
  <2>1. CASE w.cur \in Ids
    BY <1>1, <1>4, <1>5, <2>1 DEF ChildOK
  <2>2. CASE w.cur \notin Ids
    BY <1>2, <1>3, <2>2 DEF ChildOK, RouteSteps
  <2> QED BY <2>1, <2>2
<1>9. FinalOK'
  BY <1>1, <1>2, <1>3, <1>4 DEF FinalOK, FinalSteps
<1> QED BY <1>6, <1>7, <1>8, <1>9 DEF KnownOK

\* A step beside the worker.
LEMMA BesideStep ==
  ASSUME IInv, UNCHANGED <<setting, pstate, w, faults>>, ops' = ops \/ Op,
         revs' \in 1 .. MaxRevs, comfy' = comfy \/ comfy' = FALSE,
         server' = server \/ server' = "down",
         Ids' = Ids, cands = <<>> => cands' = <<>>,
         \A i \in Ids : Decided(cands[i], cands'[i]),
         Handover => TableOK', SelectionOK'
  PROVE  IInv'
<1>1. Handover
  BY DEF Handover, Held
<1>2. WorkerOK'
  BY DEF IInv, WorkerOK
<1>3. ScalarsOK'
  <2>1. ScalarsOK /\ FALSE \in BOOLEAN
    BY DEF IInv
  <2>2. ops' \in 0 .. MaxOps
    BY <2>1, BoundAssumption DEF ScalarsOK, Op
  <2>3. comfy' \in BOOLEAN /\ server' \in {"down", "owned", "orphan"}
    BY <2>1 DEF ScalarsOK
  <2> QED BY <2>1, <2>2, <2>3 DEF ScalarsOK
<1>4. DevicesOK'
  BY DEF IInv, DevicesOK, GpuExclusive
<1> QED BY <1>1, <1>2, <1>3, <1>4, KnownStays DEF IInv

\* Whoever is accepted is left alone.
LEMMA SelectionKept ==
  ASSUME IInv, UNCHANGED <<pstate, w>>, Ids' = Ids,
         \A i \in Ids : /\ cands[i].state = "ACCEPTED" => cands'[i] = cands[i]
                        /\ cands'[i].state = "ACCEPTED" => cands[i].state = "ACCEPTED"
  PROVE  SelectionOK'
<1> SUFFICES ASSUME pstate = "STITCHING" PROVE w.pc = "idle" /\ Selectable(cands')
  BY DEF SelectionOK
<1>1. w.pc = "idle" /\ Selectable(cands)
  BY DEF IInv, SelectionOK
<1>2. DOMAIN cands' = Ids /\ DOMAIN cands = Ids
  BY DEF Ids
<1>3. PICK A : A = {i \in Ids : cands[i].state = "ACCEPTED"}
  OBVIOUS
<1>4. A = {i \in DOMAIN cands : cands[i].state = "ACCEPTED"}
  BY <1>2, <1>3
<1>5. A = {i \in DOMAIN cands' : cands'[i].state = "ACCEPTED"}
  BY <1>2, <1>3
<1>6. /\ Cardinality(A) = 1
      /\ \A i \in A : /\ Intact(cands, i)
                      /\ \/ cands[i].stage = "FINAL" /\ cands[i].final = "COMPLETE"
                         \/ cands[i].stage = "LEGACY_FINAL"
  BY <1>1, <1>4 DEF Selectable
<1>7. \A i \in A : cands'[i] = cands[i]
  BY <1>3
<1>8. \A i \in A : Intact(cands', i)
  BY <1>6, <1>7 DEF Intact
<1>9. Selectable(cands')
  BY <1>5, <1>6, <1>7, <1>8 DEF Selectable
<1> QED BY <1>1, <1>9

\* No selection stands while the operator decides.
LEMMA NoSelection ==
  ASSUME pstate' = "AWAITING_QC_REVIEW" PROVE SelectionOK'
BY DEF SelectionOK

\* One row gets a state that is open to every candidate that is not accepted.
LEMMA PutBackIInv ==
  ASSUME IInv, Op, UNCHANGED <<setting, revs, pstate, w, comfy, server, faults>>, NEW i \in Ids,
         cands[i].state # "ACCEPTED", NEW s \in Plain, NEW n \in NextActions,
         cands' = SetState(cands, i, s, n)
  PROVE  IInv'
<1>1. cands \in Seq(Candidates) /\ DOMAIN cands = Ids /\ s \in States /\ s # "ACCEPTED"
  BY CurOf DEF Ids, Plain, States
<1>2. /\ One(cands, cands', i) /\ Kept(cands[i], cands'[i]) /\ cands'[i].state = s
      /\ cands'[i].human = cands[i].human /\ cands'[i].final = cands[i].final
  BY <1>1, Set_OK
<1>3. Ids' = Ids /\ cands # <<>>
  BY <1>1, <1>2 DEF One, Ids
<1>4. \A j \in Ids : j # i => cands'[j] = cands[j] /\ cands[j] \in Candidates
  BY <1>2, CurOf DEF One, Ids
<1>5. \A j \in Ids : Decided(cands[j], cands'[j])
  BY <1>2, <1>4 DEF Decided, Kept, SameCandidate, SameVerdict, SamePlan
<1>6. Handover => TableOK'
  <2>1. MayEnter(cands[i], cands'[i].state, setting.auto, i \in Held)
    BY <1>2 DEF MayEnter
  <2> QED BY <1>2, <2>1, KeptStep
<1>7. SelectionOK'
  BY <1>1, <1>2, <1>3, <1>4, SelectionKept
<1> QED BY <1>3, <1>5, <1>6, <1>7, BesideStep, RevsTyped

LEMMA PauseIInv == ASSUME IInv, NEW i \in Ids, Pause(i) PROVE IInv'
<1>1. "PAUSED" \in Plain /\ "operator_pause" \in NextActions
  BY NextsListed DEF Plain
<1> QED BY <1>1, PutBackIInv DEF Pause

LEMMA ResumeIInv == ASSUME IInv, NEW i \in Ids, Resume(i) PROVE IInv'
<1>1. "DEFERRED" \in Plain /\ "resume_adaptive" \in NextActions
  BY NextsListed DEF Plain
<1>2. cands[i].state # "ACCEPTED"
  BY DEF Resume
<1> QED BY <1>1, <1>2, PutBackIInv DEF Resume

LEMMA ResumeHoldsIInv == ASSUME IInv, ResumeHolds PROVE IInv'
<1>1. PICK S : S = {i \in InState({"HOLD_FOR_REVIEW"}) : cands[i].human \in {"none", "REJECT"}}
  OBVIOUS
<1>2. /\ Op /\ UNCHANGED <<setting, revs, pstate, w, comfy, server, faults>>
      /\ cands' = [i \in Ids |->
                     IF i \in S
                     THEN [cands[i] EXCEPT !.state = "DEFERRED", !.next = "resume_adaptive"]
                     ELSE cands[i]]
  BY <1>1 DEF ResumeHolds
<1>3. \A i \in S : i \in Ids /\ cands[i].state = "HOLD_FOR_REVIEW"
  BY <1>1 DEF InState
<1>4. PICK s \in States, n \in NextActions : s = "DEFERRED" /\ n = "resume_adaptive"
  BY StatesListed, NextsListed
<1>5. /\ Ids = 1 .. Len(cands) /\ Len(cands) \in Nat /\ \A i \in Ids : cands[i] \in Candidates
      /\ \A i \in Ids : RowOK(cands[i], setting.auto)
  BY CurOf
<1>6. \A i \in Ids : i \notin S => cands'[i] = cands[i]
  BY <1>2
<1>7. ASSUME NEW i \in S
      PROVE  /\ Kept(cands[i], cands'[i]) /\ cands'[i].state = "DEFERRED"
             /\ cands'[i].human = cands[i].human /\ cands'[i].final = cands[i].final
  <2>1. cands'[i] = RowSet(cands[i], s, n)
    BY <1>2, <1>3, <1>4 DEF RowSet
  <2> QED BY <1>3, <1>4, <1>5, <2>1, RowSet_Fields
<1>8. \A i \in Ids : cands'[i] \in Candidates
  BY <1>5, <1>6, <1>7 DEF Kept, SameCandidate
<1>9. cands' \in Seq(Candidates) /\ Len(cands') = Len(cands) /\ Ids' = Ids
  <2>1. DOMAIN cands' = Ids
    BY <1>2, Zenon
  <2>2. cands' \in [1 .. Len(cands) -> Candidates]
    BY <1>2, <1>5, <1>8
  <2> QED BY <1>5, <2>1, <2>2 DEF Ids
<1>10. \A i \in Ids : Decided(cands[i], cands'[i])
  BY <1>5, <1>6, <1>7 DEF Decided, Kept, SameCandidate, SameVerdict, SamePlan
<1>11. ASSUME NEW i \in Ids
       PROVE  /\ RowOK(cands'[i], setting.auto)
              /\ Evolves(cands[i], cands'[i])
              /\ Steady(cands[i], cands'[i], i \in Held)
              /\ cands'[i].b2row => cands[i].b2row
  <2>1. CASE i \notin S
    BY <1>5, <1>6, <2>1 DEF Evolves, Steady
  <2>2. CASE i \in S
    <3>1. RowOK(cands[i], setting.auto)
      BY <1>5
    <3>2. RowOK(cands'[i], setting.auto)
      BY <1>7, <2>2, <3>1 DEF RowOK, Kept, SameCandidate, SameVerdict, SamePlan
    <3> QED BY <1>3, <1>7, <2>2, <3>2
            DEF Evolves, Steady, Failed, Kept, SameCandidate, SameVerdict, SamePlan
  <2> QED BY <2>1, <2>2
<1>12. Handover => TableOK'
  <2>1. setting' = setting /\ revs' = revs
    BY DEF ResumeHolds
  <2>2. revs' \in Nat /\ revs' >= revs
    BY <2>1, RevsTyped
  <2> QED BY <1>9, <1>11, <2>1, <2>2, TableKept
<1>13. SelectionOK'
  BY <1>2, <1>3, <1>6, <1>7, <1>9, SelectionKept
<1>14. cands = <<>> => cands' = <<>>
  BY <1>9
<1> QED BY <1>2, <1>9, <1>10, <1>12, <1>13, <1>14, BesideStep, RevsTyped

LEMMA RemakeIInv == ASSUME IInv, Remake PROVE IInv'
<1>1. /\ Op /\ UNCHANGED <<setting, cands, pstate, w, comfy, server, faults>>
      /\ revs' \in 1 .. MaxRevs /\ revs' \in Nat /\ revs' >= revs
  BY RevsTyped DEF Remake
<1>2. Ids' = Ids /\ \A i \in Ids : Decided(cands[i], cands'[i])
  BY <1>1, CurOf DEF Ids, Decided, Kept, SameCandidate, SameVerdict, SamePlan
<1>3. Handover => TableOK'
  BY <1>1, SameTable
<1>4. SelectionOK'
  BY <1>1, <1>2, SelectionKept
<1> QED BY <1>1, <1>2, <1>3, <1>4, BesideStep

Decide(c, i, h, s, n) == SetState([c EXCEPT ![i].human = h], i, s, n)

LEMMA Decide_OK ==
  ASSUME NEW c \in Seq(Candidates), NEW i \in DOMAIN c, NEW h \in {"APPROVE", "REJECT", "HOLD"},
         NEW s \in States, NEW n \in NextActions, NEW d, d = Decide(c, i, h, s, n)
  PROVE  /\ One(c, d, i) /\ Kept(c[i], d[i])
         /\ d[i].state = s /\ d[i].human = h /\ d[i].final = c[i].final
<1>1. c[i] \in Candidates
  OBVIOUS
<1>2. d = [c EXCEPT ![i] = RowDecided(c[i], h, s, n)]
  BY <1>1 DEF Decide, SetState, Candidates, RowDecided
<1>3. RowDecided(c[i], h, s, n) \in Candidates
  BY <1>1, RowDecided_Fields DEF Kept, SameCandidate
<1>4. One(c, d, i) /\ d[i] = RowDecided(c[i], h, s, n)
  BY <1>2, <1>3, RowReplaced
<1> QED BY <1>1, <1>4, RowDecided_Fields

\* A decision on one candidate.
LEMMA DecisionStep ==
  ASSUME IInv, UNCHANGED <<setting, revs, pstate, w, comfy, server, faults, ops>>, NEW i \in Ids,
         Undecided(i), NEW h \in {"APPROVE", "REJECT", "HOLD"}, NEW s \in States,
         NEW n \in NextActions, cands' = Decide(cands, i, h, s, n),
         cands[i].state # "ACCEPTED", s # "SUPERSEDED",
         h # "APPROVE" => s \in {"DEFERRED", "PAUSED"} /\ ~setting.auto,
         s = "PASS_PENDING_HUMAN" => ~setting.auto
  PROVE  IInv'
<1>1. /\ cands \in Seq(Candidates) /\ DOMAIN cands = Ids /\ RowOK(cands[i], setting.auto)
      /\ pstate = "AWAITING_QC_REVIEW" /\ cands[i].human = "none"
  BY CurOf DEF Ids, Undecided
<1>2. /\ One(cands, cands', i) /\ Kept(cands[i], cands'[i]) /\ cands'[i].state = s
      /\ cands'[i].human = h /\ cands'[i].final = cands[i].final
  BY <1>1, Decide_OK
<1>3. Ids' = Ids /\ cands # <<>>
  BY <1>1, <1>2 DEF One, Ids
<1>4. \A j \in Ids : j # i => cands'[j] = cands[j] /\ cands[j] \in Candidates
  BY <1>2, CurOf DEF One, Ids
<1>5. \A j \in Ids : Decided(cands[j], cands'[j])
  BY <1>1, <1>2, <1>4 DEF Decided, Kept, SameCandidate, SameVerdict, SamePlan
<1>6. Handover => TableOK'
  <2>1. RowOK(cands'[i], setting.auto)
    BY <1>1, <1>2 DEF RowOK, Kept, SameCandidate, SameVerdict, SamePlan
  <2>2. Evolves(cands[i], cands'[i])
    BY <1>1, <1>2 DEF Evolves, Failed, Kept, SameCandidate, SameVerdict, SamePlan
  <2>3. Steady(cands[i], cands'[i], i \in Held)
    BY <1>1, <1>2 DEF Steady
  <2>4. cands'[i].b2row => cands[i].b2row
    BY <1>2 DEF Kept
  <2> QED BY <1>2, <2>1, <2>2, <2>3, <2>4, RowStep
<1>7. SelectionOK'
  BY <1>1, NoSelection
<1> QED BY <1>3, <1>5, <1>6, <1>7, BesideStep, RevsTyped

LEMMA DeclineIInv ==
  ASSUME IInv, NEW i \in Ids, NEW h \in {"REJECT", "HOLD"}, Decline(i, h)
  PROVE  IInv'
<1>1. /\ Undecided(i) /\ cands[i].state = "PASS_PENDING_HUMAN"
      /\ UNCHANGED <<setting, revs, pstate, w, comfy, server, faults, ops>>
  BY DEF Decline
<1>2. ~setting.auto
  BY <1>1, CurOf DEF RowOK
<1>3. PICK s \in States, n \in NextActions :
        /\ s = IF h = "REJECT" THEN "DEFERRED" ELSE "PAUSED"
        /\ n = IF h = "REJECT" THEN "resume_adaptive" ELSE "human_hold"
  BY StatesListed, NextsListed
<1>4. cands' = Decide(cands, i, h, s, n)
  BY <1>3 DEF Decline, Decide
<1>5. s \in {"DEFERRED", "PAUSED"} /\ s # "SUPERSEDED" /\ s # "PASS_PENDING_HUMAN"
  BY <1>3
<1> QED BY <1>1, <1>2, <1>4, <1>5, DecisionStep

LEMMA OverrideIInv == ASSUME IInv, NEW i \in Ids, Override(i) PROVE IInv'
<1>1. /\ Undecided(i) /\ cands[i].state = "HOLD_FOR_REVIEW"
      /\ UNCHANGED <<setting, revs, pstate, w, comfy, server, faults, ops>>
  BY DEF Override
<1>2. PICK s \in States, n \in NextActions :
        /\ s = IF cands[i].stage = "DRAFT" THEN "FINAL_PENDING" ELSE "ACCEPTED"
        /\ n = IF cands[i].stage = "DRAFT" THEN "render_final" ELSE "none"
  BY StatesListed, NextsListed
<1>3. PICK h \in {"APPROVE", "REJECT", "HOLD"} : h = "APPROVE"
  OBVIOUS
<1>4. cands' = Decide(cands, i, h, s, n)
  BY <1>2, <1>3 DEF Override, Decide
<1>5. s # "SUPERSEDED" /\ s # "PASS_PENDING_HUMAN"
  BY <1>2
<1> QED BY <1>1, <1>3, <1>4, <1>5, DecisionStep

LEMMA ApproveIInv == ASSUME IInv, NEW i \in Ids, Approve(i) PROVE IInv'
<1>1. /\ Undecided(i) /\ cands[i].state = "PASS_PENDING_HUMAN" /\ cands[i].verdict = "PASS"
      /\ UNCHANGED <<setting, revs, pstate, w, comfy, server, faults, ops>>
  BY DEF Approve
<1>2. PICK s \in States, n \in NextActions :
        /\ s = IF cands[i].stage = "DRAFT" THEN "FINAL_PENDING" ELSE "ACCEPTED"
        /\ n = IF cands[i].stage = "DRAFT" THEN "render_final" ELSE "none"
  BY StatesListed, NextsListed
<1>3. PICK h \in {"APPROVE", "REJECT", "HOLD"} : h = "APPROVE"
  OBVIOUS
<1>4. PICK c, S : /\ c = Decide(cands, i, h, s, n) /\ S = Ids \ {i}
                  /\ cands' = Supersede(c, S)
  BY <1>2, <1>3 DEF Approve, Decide
<1>5. /\ cands \in Seq(Candidates) /\ DOMAIN cands = Ids
      /\ pstate = "AWAITING_QC_REVIEW" /\ cands[i].human = "none"
      /\ \A j \in Ids : RowOK(cands[j], setting.auto)
  BY <1>1, CurOf DEF Ids, Undecided
<1>6. /\ One(cands, c, i) /\ Kept(cands[i], c[i]) /\ c[i].state = s
      /\ c[i].human = h /\ c[i].final = cands[i].final
  BY <1>4, <1>5, Decide_OK
<1>7. c \in Seq(Candidates) /\ Len(c) = Len(cands) /\ DOMAIN c = Ids
  BY <1>5, <1>6 DEF One
<1>8. /\ cands' \in Seq(Candidates) /\ Len(cands') = Len(c) /\ DOMAIN cands' = Ids
      /\ \A j \in Ids : j \notin S => cands'[j] = c[j]
      /\ \A j \in Ids : j \in S =>
           /\ Kept(c[j], cands'[j]) /\ cands'[j].state = "SUPERSEDED"
           /\ cands'[j].human = c[j].human /\ cands'[j].final = c[j].final
  BY <1>4, <1>7, Supersede_OK
<1>9. cands'[i] = c[i] /\ cands'[i].state # "SUPERSEDED" /\ cands'[i].human = "APPROVE"
  BY <1>2, <1>3, <1>4, <1>6, <1>8
<1>10. ASSUME NEW j \in Ids, j # i
       PROVE  /\ Kept(cands[j], cands'[j]) /\ cands'[j].state = "SUPERSEDED"
              /\ cands'[j].human = cands[j].human /\ cands'[j].final = cands[j].final
  <2>1. c[j] = cands[j]
    BY <1>5, <1>6, <1>10 DEF One
  <2> QED BY <1>4, <1>8, <1>10, <2>1
<1>11. Ids' = Ids /\ Len(cands') = Len(cands) /\ cands # <<>>
  BY <1>5, <1>7, <1>8 DEF Ids
<1>12. \A j \in Ids : Decided(cands[j], cands'[j])
  BY <1>5, <1>6, <1>9, <1>10 DEF Decided
<1>13. ASSUME NEW j \in Ids
       PROVE  /\ RowOK(cands'[j], setting.auto) /\ Evolves(cands[j], cands'[j])
              /\ cands'[j].b2row => cands[j].b2row
  <2>1. CASE j # i
    BY <1>10, <2>1, GivesWay
  <2>2. CASE j = i
    <3>1. RowOK(cands'[i], setting.auto)
      BY <1>2, <1>3, <1>5, <1>6, <1>9 DEF RowOK, Kept, SameCandidate, SameVerdict, SamePlan
    <3>2. Evolves(cands[i], cands'[i]) /\ (cands'[i].b2row => cands[i].b2row)
      BY <1>1, <1>3, <1>5, <1>6, <1>9
      DEF Evolves, Failed, Kept, SameCandidate, SameVerdict, SamePlan
    <3> QED BY <2>2, <3>1, <3>2
  <2> QED BY <2>1, <2>2
<1>14. TableOK'
  <2>1. i \in Firm'
    BY <1>9, <1>11 DEF Firm
  <2>2. ~Failed(cands[i])
    BY <1>1, <1>5 DEF Failed
  <2>3. \A j \in Ids : cands'[j].state = "ACCEPTED" => cands'[j].human = "APPROVE"
    BY <1>9, <1>10
  <2> QED BY <1>1, <1>8, <1>9, <1>11, <1>13, <2>1, <2>2, <2>3, ChosenTable
<1>15. SelectionOK'
  BY <1>1, <1>5, NoSelection
<1> QED BY <1>1, <1>11, <1>12, <1>14, <1>15, BesideStep, RevsTyped

LEMMA OperatorIInv == ASSUME IInv, Operator PROVE IInv'
BY ApproveIInv, OverrideIInv, PauseIInv, ResumeIInv, DeclineIInv, ResumeHoldsIInv, RemakeIInv
DEF Operator

-----------------------------------------------------------------------------
(* Crashes, and the devices by themselves                                       *)

LEMMA CrashIInv == ASSUME IInv, Crash PROVE IInv'
<1>1. w.pc # "idle" /\ WorkerOK' /\ TableOK' /\ KnownOK' /\ w'.pc = "idle"
  BY RaiseStep DEF Crash
<1>2. ScalarsOK'
  BY BoundAssumption DEF Crash, Fault, IInv, ScalarsOK
<1>3. DevicesOK'
  BY <1>1 DEF Crash, IInv, DevicesOK, GpuExclusive, RenderSteps, FinalSteps
<1>4. SelectionOK'
  BY <1>1 DEF Crash, IInv, SelectionOK
<1> QED BY <1>1, <1>2, <1>3, <1>4 DEF IInv

\* A step of the devices, or none.
LEMMA DeviceIInv ==
  ASSUME IInv, UNCHANGED <<setting, cands, revs, pstate, w, faults, ops>>,
         comfy' = comfy \/ comfy' = FALSE,
         server' = server \/ server' = "down"
  PROVE  IInv'
<1>1. Ids' = Ids /\ \A i \in Ids : Decided(cands[i], cands'[i])
  BY CurOf DEF Ids, Decided, Kept, SameCandidate, SameVerdict, SamePlan
<1>2. Handover => TableOK'
  BY SameTable, RevsTyped
<1>3. SelectionOK'
  BY <1>1, SelectionKept
<1> QED BY <1>1, <1>2, <1>3, BesideStep, RevsTyped

LEMMA FailuresIInv == ASSUME IInv, Failures PROVE IInv'
BY FinalFailsIInv, GenerateRefusedIInv, RenderFailsIInv, StartFailsIInv, JudgeFailsIInv,
   CloseFailsIInv, CrashIInv
DEF Failures

LEMMA NextIInv == ASSUME IInv, [Next]_vars PROVE IInv'
<1>1. CASE Worker
  BY <1>1, EpochIInv, RenderIInv, EvaluateIInv, RouteIInv DEF Worker
<1>2. CASE Failures
  BY <1>2, FailuresIInv
<1>3. CASE Operator
  BY <1>3, OperatorIInv
<1>4. CASE OrphanEnds
  BY <1>4, DeviceIInv DEF OrphanEnds
<1>5. CASE ComfyEnds
  BY <1>5, DeviceIInv DEF ComfyEnds
<1>6. CASE UNCHANGED vars
  BY <1>6, DeviceIInv DEF vars
<1> QED BY <1>1, <1>2, <1>3, <1>4, <1>5, <1>6 DEF Next


-----------------------------------------------------------------------------
(* What the invariant says of the scene                                         *)

LEMMA IInvRevisions == ASSUME IInv PROVE TypeOK /\ RevisionsDistinct
<1>1. TypeOK
  <2>1. \A i \in Ids : cands[i] \in Candidates
    BY CurOf
  <2>2. Len(cands) <= MaxCands
    BY DEF IInv, TableOK, RowsOK
  <2>3. w.todo \subseteq Ids /\ w.cur \in Ids \cup {0} /\ w.child \in Ids \cup {0}
    BY DEF IInv, WorkerOK
  <2> QED BY <2>1, <2>2, <2>3 DEF IInv, ScalarsOK, TypeOK
<1> QED BY <1>1 DEF IInv, TableOK, RevisionsOK

\* A superseded candidate has a repair in the ledger, behind it, or one was chosen.
LEMMA IInvLedger == ASSUME IInv PROVE LedgerComplete
<1> SUFFICES ASSUME NEW i \in InState({"SUPERSEDED"}), Chosen = {}
             PROVE  \E j \in Ids : j # i /\ cands[j].ledger # "none"
                                     /\ cands[j].tier # "ORIGINAL"
  BY DEF LedgerComplete
<1>1. i \in Ids /\ cands[i].state = "SUPERSEDED"
  BY DEF InState
<1>2. Firm = {}
  BY DEF Firm, Chosen, InState
<1>3. PICK j \in Ids : cands[j].par = i /\ cands[j].ledger # "none"
  BY <1>1, <1>2 DEF IInv, TableOK, SupersededOK
<1>4. Ids = 1 .. Len(cands) /\ Len(cands) \in Nat
  BY CurOf
<1>5. /\ cands[j].tier = "ORIGINAL" <=> j = 1
      /\ j = 1 => cands[j].par = 0
      /\ j > 1 => cands[j].par \in 1 .. j - 1
  BY DEF IInv, TableOK, LineageOK
<1>6. j # 1 /\ j > 1
  BY <1>1, <1>3, <1>4, <1>5
<1>7. j # i
  BY <1>3, <1>4, <1>5, <1>6
<1> QED BY <1>3, <1>5, <1>6, <1>7

LEMMA IInvNeverOrphaned == ASSUME IInv PROVE NeverOrphaned
<1> SUFFICES ASSUME cands # <<>> PROVE InState(States \ {"SUPERSEDED"}) # {}
  BY DEF NeverOrphaned
<1>1. PICK k \in Ids : cands[k].state # "SUPERSEDED"
  BY DEF IInv, TableOK, AliveOK
<1>2. cands[k].state \in States
  BY CurOf DEF Candidates
<1> QED BY <1>1, <1>2 DEF InState

\* Only a candidate that did not fail, or whose hold was overridden, is accepted; and a
\* candidate that did not fail is the last of its lineage, or a D.
LEMMA IInvAccepted == ASSUME IInv PROVE OneAccepted
<1> SUFFICES ASSUME NEW i \in InState({"ACCEPTED"}), NEW j \in InState({"ACCEPTED"}),
                    i # j, ~Overridden(i), ~Overridden(j)
             PROVE  cands[i].tier = "D" /\ cands[j].tier = "D"
  BY DEF OneAccepted
<1>1. ASSUME NEW k \in InState({"ACCEPTED"}), ~Overridden(k) PROVE k \in Ids /\ Leaf(k)
  <2>1. k \in Ids /\ cands[k].state = "ACCEPTED" /\ RowOK(cands[k], setting.auto)
    BY CurOf DEF InState
  <2>2. ~Failed(cands[k])
    BY <1>1, <2>1 DEF Overridden, Failed, RowOK
  <2> QED BY <2>1, <2>2, NoRepairOf
<1>2. Ids = 1 .. Len(cands) /\ Len(cands) \in Nat
  BY CurOf
<1>3. ASSUME NEW k \in Ids, Leaf(k), cands[k].tier # "D" PROVE k = Len(cands)
  BY <1>2, <1>3 DEF IInv, TableOK, LineageOK, Leaf
<1>4. ASSUME NEW k \in Ids, NEW n \in Ids, k < n, Leaf(k)
      PROVE  cands[k].tier = "D" /\ cands[n].tier = "D"
  <2>1. cands[k].tier = "D"
    BY <1>2, <1>3, <1>4
  <2>2. Place("D") = 6
    BY DEF Place
  <2>3. cands[n].tier \in Tiers
    BY CurOf, RowTypes
  <2>4. Place(cands[n].tier) \in 0 .. 6
    BY <2>3, Places
  <2>5. ~(6 < Place(cands[n].tier))
    BY <2>4
  <2> QED BY <1>4, <2>1, <2>2, <2>5 DEF IInv, TableOK, LineageOK
<1>5. i \in Ids /\ j \in Ids /\ Leaf(i) /\ Leaf(j)
  BY <1>1
<1>6. i < j \/ j < i
  BY <1>2, <1>5
<1> QED BY <1>4, <1>5, <1>6

-----------------------------------------------------------------------------
(* The theorems                                                                 *)

\* Whatever the worker, the operator, the devices and crashes do, in any order, the
\* invariant holds.
THEOREM Inductive == Spec => []IInv
<1>1. Init => IInv
  BY InitIInv
<1>2. IInv /\ [Next]_vars => IInv'
  BY NextIInv
<1> QED BY <1>1, <1>2, PTL DEF Spec

\* The lineage of the scene is whole: rows of their types, a revision for each, every
\* repair in the ledger, and always a candidate that is not superseded.  The schedulers
\* insert, enter in the ledger and supersede in transactions of their own, with the
\* operator, remakes and crashes between any two.
THEOREM LineageStaysWhole == Spec => []LineageWhole
<1>1. IInv => LineageWhole
  BY IInvRevisions, IInvLedger, IInvNeverOrphaned DEF LineageWhole
<1> QED BY <1>1, Inductive, PTL

\* The planner model is asked at most once for a candidate, whatever crashes, retries and
\* resumes come between the claim and the recorded repair.
THEOREM PlannerAskedOnce == Spec => []PlannerOnce
<1>1. IInv => PlannerOnce
  BY CurOf DEF RowOK, PlannerOnce
<1> QED BY <1>1, Inductive, PTL

\* The llama server and ComfyUI are never on the GPU together, orphans of a crash included.
THEOREM GpuStaysExclusive == Spec => []GpuExclusive
<1>1. IInv => GpuExclusive
  BY DEF IInv, DevicesOK
<1> QED BY <1>1, Inductive, PTL

\* The decision of the operator holds: FINALs of approved candidates only, one accepted
\* candidate but for the two cases OneAccepted names, and a selection that is not taken
\* back.
THEOREM DecisionStands == Spec => []DecisionHolds
<1>1. ASSUME IInv PROVE OnlyApprovedFinals
  BY <1>1, CurOf DEF RowOK, OnlyApprovedFinals
<1>2. ASSUME IInv PROVE SelectionStands
  BY <1>2 DEF IInv, SelectionOK, SelectionStands
<1>3. IInv => DecisionHolds
  BY <1>1, <1>2, IInvAccepted DEF DecisionHolds
<1> QED BY <1>3, Inductive, PTL

=============================================================================
