------------------------- MODULE ContinuationPlanProofs -------------------------
(***************************************************************************)
(* What a plan promises, for every step, window, duration and list of      *)
(* beats.                                                                  *)
(***************************************************************************)
EXTENDS ContinuationPlan, NaturalsInduction, WellFoundedInduction, SequenceTheorems, TLAPS

-----------------------------------------------------------------------------
(* Arithmetic *)

\* Division by the step, with its remainder.
LEMMA DivideByStep ==
    ASSUME NEW n \in Nat
    PROVE  /\ n \div Step \in Nat /\ n % Step \in 0 .. Step - 1
           /\ n = Step * (n \div Step) + (n % Step)
  <1>1. Step \in Nat \ {0} BY PlanAssumption
  <1>2. n \div Step \in Nat /\ n = Step * (n \div Step) + (n % Step) BY <1>1, Z3
  <1>3. n % Step \in Int /\ 0 <= n % Step /\ n % Step <= Step - 1 BY <1>1, Z3
  <1> QED BY <1>1, <1>2, <1>3

LEMMA MultipleOfStep == \A k \in Int : (Step * k) % Step = 0
  <1>1. Step \in Nat \ {0} BY PlanAssumption
  <1> QED BY <1>1, Z3

\* The rounded-up transitions reach from one frame to the timeline, by less than a step.
LEMMA TransitionsBound ==
    ASSUME NEW n \in Nat \ {0}
    PROVE  /\ Transitions(n) \in Nat
           /\ n - 1 <= Transitions(n) /\ Transitions(n) < n - 1 + Step
           /\ Transitions(n) % Step = 0
  <1>1. Step \in Nat \ {0} BY PlanAssumption
  <1> DEFINE m == n - 1 + Step - 1
             q == m \div Step
  <1>2. m \in Nat BY <1>1
  <1>3. q \in Nat /\ m % Step \in 0 .. Step - 1 /\ m = Step * q + (m % Step)
    BY <1>2, DivideByStep
  <1>4. Transitions(n) = Step * q BY DEF Transitions, Ceiling
  <1>5. Step * q \in Nat BY <1>1, <1>3
  <1>6. (Step * q) % Step = 0 BY <1>3, MultipleOfStep
  <1> QED BY <1>1, <1>3, <1>4, <1>5, <1>6

\* A difference of multiples of the step is one.
LEMMA AlignedDifference ==
    ASSUME NEW a \in Nat, NEW b \in Nat, b <= a, a % Step = 0, b % Step = 0
    PROVE  (a - b) % Step = 0
  <1>1. Step \in Nat \ {0} BY PlanAssumption
  <1> DEFINE i == a \div Step
             j == b \div Step
  <1>2. i \in Nat /\ a = Step * i BY <1>1, DivideByStep
  <1>3. j \in Nat /\ b = Step * j BY <1>1, DivideByStep
  <1> HIDE DEF i, j
  <1>5. a - b = Step * (i - j) BY <1>1, <1>2, <1>3
  <1>6. i - j \in Int BY <1>2, <1>3
  <1> QED BY <1>5, <1>6, MultipleOfStep

\* Aligned transitions exceed a window exactly when the timeline does.
LEMMA BorderOfWindow ==
    ASSUME NEW n \in Nat \ {0}, Transitions(n) > Window
    PROVE  n - 1 > Window
  <1>1. Step \in Nat \ {0} /\ Window \in Nat \ {0} /\ Window % Step = 0 BY PlanAssumption
  <1>2. Transitions(n) \in Nat /\ Transitions(n) % Step = 0 /\ Transitions(n) < n - 1 + Step
    BY TransitionsBound
  <1> DEFINE d == Transitions(n) - Window
  <1>3. d \in Nat /\ d > 0 /\ d % Step = 0 BY <1>1, <1>2, AlignedDifference
  <1> HIDE DEF d
  <1>4. d >= Step
    <2>1. d \div Step \in Nat /\ d = Step * (d \div Step) BY <1>1, <1>3, DivideByStep
    <2>2. d \div Step >= 1 BY <1>1, <1>3, <2>1
    <2> QED BY <1>1, <2>1, <2>2, Z3
  <1> QED BY <1>1, <1>2, <1>3, <1>4 DEF d

LEMMA AlignedSum ==
    ASSUME NEW a \in Nat, NEW b \in Nat, a % Step = 0, b % Step = 0
    PROVE  (a + b) % Step = 0
  <1>1. Step \in Nat \ {0} BY PlanAssumption
  <1> DEFINE i == a \div Step
             j == b \div Step
  <1>2. i \in Nat /\ a = Step * i BY <1>1, DivideByStep
  <1>3. j \in Nat /\ b = Step * j BY <1>1, DivideByStep
  <1> HIDE DEF i, j
  <1>4. a + b = Step * (i + j) BY <1>1, <1>2, <1>3
  <1> QED BY <1>2, <1>3, <1>4, MultipleOfStep

\* A timeline has at least one frame.
LEMMA TimelineNotEmpty ==
    ASSUME NEW t \in Nat
    PROVE  TimelineFrames(t) \in Nat \ {0}
  <1>1. Ticks \in Nat \ {0} BY PlanAssumption
  <1> DEFINE q == t \div Ticks
  <1>2. q \in Int /\ q % 2 \in Int /\ t % Ticks \in Int BY <1>1, Z3
  <1> HIDE DEF q
  <1>3. q + (q % 2) \in Int BY <1>2
  <1>4. Rounded(t) \in Int BY <1>2, <1>3 DEF Rounded, q
  <1> QED BY <1>4 DEF TimelineFrames, Most

-----------------------------------------------------------------------------
(* The inductive invariant *)
Beat == [start : Nat, end : Nat, asked : Nat]
Chunk == [start : Nat, end : Nat, frames : Nat, beats : SUBSET Nat]
Span == [from : Nat, to : Nat, first : Nat, last : Nat]

Types == /\ pc \in {"start", "beats", "chunks", "spans", "planned", "refused"}
         /\ request \in Requests /\ frames \in Nat /\ total \in Nat
         /\ beats \in Seq(Beat) /\ chunks \in Seq(Chunk) /\ spans \in Seq(Span)
         /\ refused \in {"", "step", "coverage", "collapse"}

BeatsOK == \A i \in 1 .. Len(beats) : beats[i].start < beats[i].end

\* how far the planner has come
Phases == /\ pc # "start" => frames > 0 /\ total = Transitions(frames)
          /\ pc \in {"start", "beats"} => chunks = <<>>
          /\ pc \in {"start", "beats", "chunks"} => spans = <<>>
          /\ pc \in {"spans", "planned"} => chunks # <<>> /\ Done = total
          /\ pc = "planned" => Len(spans) = Len(chunks)

\* every window is where its predecessors put it, and as long as it can be
ChunksOK == \A k \in 1 .. Len(chunks) :
    /\ k = 1 => chunks[k].start = 0
    /\ k > 1 => chunks[k].start = chunks[k - 1].end - 1 /\ chunks[k].start < total
    /\ chunks[k].start <= total
    /\ chunks[k].frames = Least(Window, total - chunks[k].start) + 1
    /\ chunks[k].end = chunks[k].start + chunks[k].frames
    /\ chunks[k].start % Step = 0 /\ (chunks[k].end - 1) % Step = 0

\* every span is the window without the frame it shares with its predecessor
SpansOK == /\ Len(spans) <= Len(chunks)
           /\ \A k \in 1 .. Len(spans) :
                /\ spans[k].from = LocalStart(k) /\ spans[k].to = chunks[k].frames
                /\ spans[k].first = chunks[k].start + spans[k].from
                /\ spans[k].last = chunks[k].end
                /\ spans[k].first < spans[k].last

Sorted == \A j, k \in 1 .. Len(spans) : j < k => spans[j].last <= spans[k].first
Covered == \A f \in 0 .. Master - 1 :
             \E k \in 1 .. Len(spans) : spans[k].first <= f /\ f < spans[k].last

IInv == Types /\ BeatsOK /\ Phases /\ ChunksOK /\ SpansOK /\ Sorted /\ Covered

LEMMA Empty == Len(<<>>) = 0 /\ \A S : <<>> \in Seq(S)
  OBVIOUS

\* Before there is a chunk nothing can be wrong with the chunks and the spans.
LEMMA NothingYet ==
    ASSUME chunks = <<>>, spans = <<>>
    PROVE  ChunksOK /\ SpansOK /\ Sorted /\ Covered
  <1>1. 1 .. Len(chunks) = {} /\ 1 .. Len(spans) = {} /\ Len(spans) = 0 /\ Len(chunks) = 0
    BY Empty
  <1>2. ChunksOK BY <1>1 DEF ChunksOK
  <1>3. SpansOK BY <1>1 DEF SpansOK
  <1>4. Sorted BY <1>1 DEF Sorted
  <1>5. Master = 0 BY DEF Master
  <1>6. Covered BY <1>5 DEF Covered
  <1> QED BY <1>2, <1>3, <1>4, <1>6

LEMMA InitInv == Init => IInv
  <1> SUFFICES ASSUME Init PROVE IInv OBVIOUS
  <1>1. Types BY Empty DEF Init, Types
  <1>2. BeatsOK
    <2>1. Len(beats) = 0 BY Empty DEF Init
    <2> QED BY <2>1 DEF BeatsOK
  <1>3. Phases BY DEF Init, Phases
  <1>4. ChunksOK /\ SpansOK /\ Sorted /\ Covered BY NothingYet DEF Init
  <1> QED BY <1>1, <1>2, <1>3, <1>4 DEF IInv

LEMMA StartStep == IInv /\ Start => IInv'
  <1> SUFFICES ASSUME IInv, Start PROVE IInv' OBVIOUS
  <1>1. request \in Nat BY PlanAssumption DEF IInv, Types
  <1>2. frames' \in Nat \ {0} BY <1>1, TimelineNotEmpty DEF Start
  <1>3. total' = Transitions(frames') /\ total' \in Nat BY <1>2, TransitionsBound DEF Start
  <1>4. chunks' = <<>> /\ spans' = <<>> BY DEF IInv, Phases, Start
  <1>5. Types' /\ BeatsOK' BY <1>2, <1>3 DEF IInv, Types, BeatsOK, Start
  <1>6. frames' > 0 /\ pc' = "beats" BY <1>2 DEF Start
  <1>7. Phases' BY <1>3, <1>4, <1>6 DEF Phases
  <1>8. (chunks = <<>> /\ spans = <<>> => ChunksOK /\ SpansOK /\ Sorted /\ Covered)'
    BY NothingYet, PTL
  <1> QED BY <1>4, <1>5, <1>7, <1>8 DEF IInv

\* The steps on the beats leave everything else alone.
LEMMA BeatsFrame ==
    ASSUME IInv, pc = "beats", Types', BeatsOK', pc' \in {"beats", "chunks", "refused"},
           UNCHANGED <<request, frames, total, chunks, spans>>
    PROVE  IInv'
  BY DEF IInv, Phases, ChunksOK, SpansOK, Sorted, Covered, Master

\* The last element of a sequence that has one.
LEMMA LastElement ==
    ASSUME NEW S, NEW q \in Seq(S), q # <<>>
    PROVE  Len(q) \in Nat \ {0} /\ q[Len(q)] \in S
  OBVIOUS

LEMMA CursorType == Types => Cursor \in Nat
  <1> SUFFICES ASSUME Types PROVE Cursor \in Nat OBVIOUS
  <1>1. CASE beats = <<>> BY <1>1 DEF Cursor
  <1>2. CASE beats # <<>>
    <2>1. beats[Len(beats)] \in Beat BY <1>2, LastElement DEF Types
    <2> QED BY <1>2, <2>1 DEF Cursor, Beat
  <1> QED BY <1>1, <1>2

LEMMA AddBeatStep == IInv /\ AddBeat => IInv'
  <1> SUFFICES ASSUME IInv, AddBeat PROVE IInv' OBVIOUS
  <1>1. Types BY DEF IInv
  <1>2. ASSUME NEW n \in Nat \ {0}, NEW a \in Nat, AppendBeat(n, a)
        PROVE  beats' \in Seq(Beat) /\ BeatsOK'
    <2> DEFINE new == [start |-> Cursor, end |-> Cursor + n, asked |-> a]
    <2>1. new \in Beat /\ new.start < new.end BY <1>1, CursorType DEF Beat
    <2>2. beats \in Seq(Beat) /\ beats' = Append(beats, new) BY <1>1, <1>2 DEF Types, AppendBeat
    <2> HIDE DEF new
    <2>3. Len(beats') = Len(beats) + 1 /\ beats' \in Seq(Beat) BY <2>1, <2>2
    <2>4. \A i \in 1 .. Len(beats') : beats'[i].start < beats'[i].end
      BY <2>1, <2>2, <2>3 DEF IInv, BeatsOK
    <2> QED BY <2>3, <2>4 DEF BeatsOK
  <1>3. CASE \E t \in Durations : /\ AppendBeat(TimelineFrames(t), t)
                                  /\ UNCHANGED <<pc, refused>>
    <2>1. PICK t \in Durations : AppendBeat(TimelineFrames(t), t) BY <1>3
    <2>2. t \in Nat BY PlanAssumption
    <2>3. beats' \in Seq(Beat) /\ BeatsOK' BY <1>2, <2>1, <2>2, TimelineNotEmpty
    <2> QED BY <1>1, <1>3, <2>3, BeatsFrame DEF AddBeat, Types
  <1>4. ASSUME NEW n \in Moves,
               IF n % Step = 0
               THEN AppendBeat(Most(1, n), n * Ticks) /\ UNCHANGED <<pc, refused>>
               ELSE Refuse("step") /\ UNCHANGED beats
        PROVE  IInv'
    <2>1. n \in Nat /\ Ticks \in Nat BY PlanAssumption
    <2>2. Most(1, n) \in Nat \ {0} /\ n * Ticks \in Nat BY <2>1 DEF Most
    <2>3. CASE n % Step = 0
      <3>1. beats' \in Seq(Beat) /\ BeatsOK' BY <1>2, <1>4, <2>2, <2>3
      <3> QED BY <1>1, <1>4, <2>3, <3>1, BeatsFrame DEF AddBeat, Types
    <2>4. CASE n % Step # 0
      <3>1. BeatsOK' BY <1>4, <2>4 DEF IInv, BeatsOK
      <3> QED BY <1>1, <1>4, <2>4, <3>1, BeatsFrame DEF AddBeat, Types, Refuse
    <2> QED BY <2>3, <2>4
  <1> QED BY <1>3, <1>4 DEF AddBeat

LEMMA FitBeatsStep == IInv /\ FitBeats => IInv'
  <1> SUFFICES ASSUME IInv, FitBeats PROVE IInv' OBVIOUS
  <1>1. Types /\ BeatsOK BY DEF IInv
  <1>2. CASE pc' = "refused"
    <2>1. beats' = beats /\ refused' \in {"coverage", "collapse"}
      BY <1>2 DEF FitBeats, Refuse
    <2>2. BeatsOK' BY <1>1, <2>1 DEF BeatsOK
    <2>3. Types' BY <1>1, <1>2, <2>1 DEF FitBeats, Types
    <2> QED BY <1>2, <2>2, <2>3, BeatsFrame DEF FitBeats
  <1>3. CASE beats = <<>>
    <2>1. beats' = beats /\ refused' = refused /\ pc' = "chunks" BY <1>3 DEF FitBeats
    <2>2. BeatsOK' BY <1>1, <2>1 DEF BeatsOK
    <2>3. Types' BY <1>1, <2>1 DEF FitBeats, Types
    <2> QED BY <2>1, <2>2, <2>3, BeatsFrame DEF FitBeats
  <1>4. CASE beats # <<>> /\ pc' # "refused"
    <2>1. /\ pc' = "chunks" /\ refused' = refused
          /\ beats' = [beats EXCEPT ![Len(beats)].end = @ + Drift]
          /\ ~(Drift # 0 /\ Collapses)
      BY <1>4 DEF FitBeats, Refuse
    <2> DEFINE n == Len(beats)
    <2>2. beats \in Seq(Beat) BY <1>1 DEF Types
    <2>3. n \in Nat \ {0} /\ beats[n] \in Beat /\ frames \in Nat
      BY <1>1, <1>4, <2>2, LastElement DEF Types
    <2>4. Cursor = beats[n].end BY <1>4 DEF Cursor
    <2>5. Drift = frames - beats[n].end /\ beats[n].end \in Nat BY <2>3, <2>4 DEF Drift, Beat
    <2> DEFINE fitted == [beats[n] EXCEPT !.end = beats[n].end + Drift]
    <2>6. fitted.end = frames /\ fitted.start = beats[n].start /\ fitted \in Beat
      BY <2>3, <2>5 DEF Beat
    <2>7. fitted.start < fitted.end
      <3>1. beats[n].start < beats[n].end BY <1>1, <2>3 DEF BeatsOK
      <3>2. CASE Drift = 0 BY <2>3, <2>5, <2>6, <3>1, <3>2 DEF Beat
      <3>3. CASE ~Collapses BY <2>3, <2>5, <2>6, <3>3 DEF Collapses, Last, Beat
      <3> QED BY <2>1, <3>2, <3>3
    <2>8. beats' = [beats EXCEPT ![n] = fitted] BY <2>1
    <2> HIDE DEF fitted
    <2>9. beats' \in Seq(Beat) /\ Len(beats') = n BY <2>2, <2>3, <2>6, <2>8, ExceptSeq
    <2>10. \A i \in 1 .. n : beats'[i] = IF i = n THEN fitted ELSE beats[i] BY <2>2, <2>8
    <2>11. BeatsOK' BY <1>1, <2>7, <2>9, <2>10 DEF BeatsOK
    <2> QED BY <1>1, <2>1, <2>9, <2>11, BeatsFrame DEF FitBeats, Types
  <1> QED BY <1>2, <1>3, <1>4

\* Where the next window begins.
LEMMA DoneBound ==
    ASSUME Types, Phases, ChunksOK, pc = "chunks"
    PROVE  /\ Done \in Nat /\ Done <= total /\ Done % Step = 0
           /\ total % Step = 0
           /\ chunks # <<>> => Done = chunks[Len(chunks)].end - 1
  <1>1. Step \in Nat \ {0} /\ Window \in Nat BY PlanAssumption
  <1>2. frames \in Nat \ {0} /\ total = Transitions(frames) /\ total \in Nat
    <2>1. frames \in Nat /\ total \in Nat BY DEF Types
    <2>2. frames > 0 /\ total = Transitions(frames) BY DEF Phases
    <2> QED BY <2>1, <2>2
  <1>3. total % Step = 0 BY <1>2, TransitionsBound
  <1>4. CASE chunks = <<>>
    <2>1. Done = 0 BY <1>4 DEF Done
    <2>2. 0 % Step = 0 BY <1>1, MultipleOfStep
    <2> QED BY <1>2, <1>3, <1>4, <2>1, <2>2
  <1>5. CASE chunks # <<>>
    <2> DEFINE n == Len(chunks)
    <2>1. n \in Nat \ {0} /\ chunks[n] \in Chunk BY <1>5, LastElement DEF Types
    <2>2. n \in 1 .. Len(chunks) BY <2>1
    <2> HIDE DEF n
    <2>3. /\ chunks[n].start <= total
          /\ chunks[n].frames = Least(Window, total - chunks[n].start) + 1
          /\ chunks[n].end = chunks[n].start + chunks[n].frames
          /\ (chunks[n].end - 1) % Step = 0
      BY <2>2 DEF ChunksOK
    <2>4. chunks[n].start \in Nat /\ chunks[n].end \in Nat BY <2>1 DEF Chunk
    <2>5. chunks[n].end - 1 \in Nat /\ chunks[n].end - 1 <= total
      BY <1>1, <1>2, <2>3, <2>4 DEF Least
    <2>6. Done = chunks[n].end - 1 BY <1>5 DEF Done, n
    <2> QED BY <1>3, <2>3, <2>5, <2>6 DEF n
  <1> QED BY <1>4, <1>5

LEMMA AddChunkStep == IInv /\ AddChunk => IInv'
  <1> SUFFICES ASSUME IInv, AddChunk PROVE IInv' OBVIOUS
  <1>1. Types /\ Phases /\ ChunksOK /\ pc = "chunks" BY DEF IInv, AddChunk
  <1>2. /\ Done \in Nat /\ Done <= total /\ Done % Step = 0 /\ total % Step = 0
        /\ chunks # <<>> => Done = chunks[Len(chunks)].end - 1
    BY <1>1, DoneBound
  <1>3. Window \in Nat \ {0} /\ Window % Step = 0 /\ total \in Nat
    BY <1>1, PlanAssumption DEF Types
  <1> DEFINE n == Len(chunks) + 1
             new == chunks'[n]
  <1>4. spans = <<>> BY <1>1 DEF Phases
  <1>5. PICK B \in SUBSET DOMAIN beats :
          chunks' = Append(chunks, [start |-> Done, end |-> Done + Contribution + 1,
                                    frames |-> Contribution + 1, beats |-> B])
    BY DEF AddChunk, WindowStart
  <1>6. Contribution \in Nat /\ Done + Contribution <= total
    BY <1>2, <1>3 DEF Contribution, Least
  <1>7. DOMAIN beats \subseteq Nat
    <2>1. beats \in Seq(Beat) BY <1>1 DEF Types
    <2>2. DOMAIN beats = 1 .. Len(beats) BY <2>1
    <2> QED BY <2>2
  <1>8. [start |-> Done, end |-> Done + Contribution + 1,
         frames |-> Contribution + 1, beats |-> B] \in Chunk
    BY <1>2, <1>6, <1>7 DEF Chunk
  <1>9. chunks \in Seq(Chunk) BY <1>1 DEF Types
  <1>10. /\ chunks' \in Seq(Chunk) /\ Len(chunks') = n /\ n \in Nat \ {0}
         /\ \A k \in 1 .. Len(chunks) : chunks'[k] = chunks[k]
         /\ new.start = Done /\ new.end = Done + Contribution + 1
         /\ new.frames = Contribution + 1
    BY <1>5, <1>8, <1>9
  <1> HIDE DEF new
  <1>11. Types' BY <1>1, <1>10 DEF Types, AddChunk
  <1>12. BeatsOK' BY DEF IInv, BeatsOK, AddChunk
  <1>13. Phases' BY <1>1, <1>4 DEF Phases, AddChunk
  <1>14. (Done + Contribution) % Step = 0
    <2>1. (Done + Window) % Step = 0 BY <1>2, <1>3, AlignedSum
    <2>2. Contribution = Window \/ Done + Contribution = total
      BY <1>2, <1>3 DEF Contribution, Least
    <2> QED BY <1>2, <2>1, <2>2
  <1>15. ASSUME NEW k \in 1 .. n
         PROVE  /\ k = 1 => chunks'[k].start = 0
                /\ k > 1 => chunks'[k].start = chunks'[k - 1].end - 1 /\ chunks'[k].start < total
                /\ chunks'[k].start <= total
                /\ chunks'[k].frames = Least(Window, total - chunks'[k].start) + 1
                /\ chunks'[k].end = chunks'[k].start + chunks'[k].frames
                /\ chunks'[k].start % Step = 0 /\ (chunks'[k].end - 1) % Step = 0
    <2>1. CASE k = n
      <3>1. n = 1 => Done = 0 BY <1>9 DEF Done
      <3>2. n > 1 => chunks # <<>> /\ n - 1 \in 1 .. Len(chunks) BY <1>9, Empty
      <3>3. n > 1 => chunks'[n - 1] = chunks[Len(chunks)] BY <1>9, <1>10, <3>2
      <3>4. n > 1 => Done = chunks'[n - 1].end - 1 /\ Done < total
        BY <1>2, <3>2, <3>3 DEF AddChunk, More
      <3>5. new.end - 1 = Done + Contribution BY <1>2, <1>6, <1>10
      <3>6. chunks'[k] = new BY <2>1 DEF new
      <3> HIDE DEF n
      <3> QED BY <1>2, <1>6, <1>10, <1>14, <2>1, <3>1, <3>4, <3>5, <3>6 DEF Contribution
    <2>2. CASE k # n
      <3>1. k \in 1 .. Len(chunks) BY <1>9, <2>2
      <3>2. k > 1 => k - 1 \in 1 .. Len(chunks) BY <1>9, <3>1
      <3>3. chunks'[k] = chunks[k] /\ (k > 1 => chunks'[k - 1] = chunks[k - 1])
        BY <1>10, <3>1, <3>2
      <3> QED BY <1>1, <3>1, <3>3 DEF ChunksOK
    <2> QED BY <2>1, <2>2
  <1>16. ChunksOK' BY <1>10, <1>15 DEF ChunksOK, AddChunk
  <1>17. spans' = <<>> /\ Len(spans') = 0 BY <1>4, Empty DEF AddChunk
  <1>18. SpansOK' BY <1>10, <1>17 DEF SpansOK
  <1>19. Sorted' /\ Covered' BY <1>17 DEF Sorted, Covered, Master
  <1> QED BY <1>11, <1>12, <1>13, <1>16, <1>18, <1>19 DEF IInv

LEMMA EndChunksStep == IInv /\ EndChunks => IInv'
  <1> SUFFICES ASSUME IInv, EndChunks PROVE IInv' OBVIOUS
  <1>1. Types /\ Phases /\ ChunksOK /\ pc = "chunks" BY DEF IInv, EndChunks
  <1>2. chunks # <<>> /\ Done \in Nat /\ total \in Nat /\ Done <= total /\ ~(Done < total)
    BY <1>1, DoneBound DEF EndChunks, More, Types
  <1>3. Done = total BY <1>2
  <1>4. UNCHANGED <<request, frames, total, beats, chunks, spans, refused>> /\ pc' = "spans"
    BY DEF EndChunks
  <1>5. Types' /\ BeatsOK' BY <1>1, <1>4 DEF IInv, Types, BeatsOK
  <1>6. Done' = Done BY <1>4 DEF Done
  <1>7. frames > 0 /\ total = Transitions(frames) BY <1>1 DEF Phases
  <1>8. Phases' BY <1>2, <1>3, <1>4, <1>6, <1>7 DEF Phases
  <1>9. ChunksOK' /\ SpansOK' /\ Sorted' BY <1>4 DEF IInv, ChunksOK, SpansOK, Sorted
  <1>10. Master' = Master BY <1>4 DEF Master
  <1>11. Covered' BY <1>4, <1>10 DEF IInv, Covered
  <1> QED BY <1>5, <1>8, <1>9, <1>11 DEF IInv

\* What has been committed so far.
LEMMA MasterValue ==
    ASSUME Types, SpansOK
    PROVE  /\ Master \in Nat
           /\ spans # <<>> => /\ Len(spans) \in 1 .. Len(spans)
                              /\ Master = chunks[Len(spans)].end
                              /\ Master = spans[Len(spans)].last
  <1>1. CASE spans = <<>> BY <1>1 DEF Master
  <1>2. CASE spans # <<>>
    <2>1. Len(spans) \in Nat \ {0} /\ spans[Len(spans)] \in Span
      BY <1>2, LastElement DEF Types
    <2>2. Master = spans[Len(spans)].last BY <1>2 DEF Master
    <2>3. Len(spans) \in 1 .. Len(spans) BY <2>1
    <2>4. spans[Len(spans)].last = chunks[Len(spans)].end BY <2>3 DEF SpansOK
    <2> QED BY <2>1, <2>2, <2>3, <2>4 DEF Span
  <1> QED BY <1>1, <1>2

\* The next window commits something, right after what is committed.
LEMMA NextSpan ==
    ASSUME IInv, pc = "spans", Len(spans) < Len(chunks), NEW k, k = Len(spans) + 1
    PROVE  /\ k \in 1 .. Len(chunks) /\ k \in Nat
           /\ chunks[k].start \in Nat /\ chunks[k].end \in Nat /\ chunks[k].frames \in Nat
           /\ LocalStart(k) \in Nat /\ LocalStart(k) < chunks[k].frames
           /\ Master = chunks[k].start + LocalStart(k)
           /\ chunks[k].end = chunks[k].start + chunks[k].frames
  <1>1. Types /\ ChunksOK /\ SpansOK BY DEF IInv
  <1>2. spans \in Seq(Span) /\ chunks \in Seq(Chunk) /\ total \in Nat BY <1>1 DEF Types
  <1>3. Len(spans) \in Nat /\ Len(chunks) \in Nat /\ k \in 1 .. Len(chunks) /\ k \in Nat
    BY <1>2
  <1>4. chunks[k] \in Chunk BY <1>2, <1>3
  <1>5. /\ k = 1 => chunks[k].start = 0
        /\ k > 1 => chunks[k].start = chunks[k - 1].end - 1 /\ chunks[k].start < total
        /\ chunks[k].start <= total
        /\ chunks[k].frames = Least(Window, total - chunks[k].start) + 1
        /\ chunks[k].end = chunks[k].start + chunks[k].frames
    BY <1>1, <1>3 DEF ChunksOK
  <1>6. Window \in Nat \ {0} BY PlanAssumption
  <1>7. chunks[k].start \in Nat /\ chunks[k].end \in Nat /\ chunks[k].frames \in Nat
    BY <1>4 DEF Chunk
  <1>8. LocalStart(k) \in Nat /\ LocalStart(k) < chunks[k].frames
    BY <1>2, <1>3, <1>5, <1>6, <1>7, SMTT(30) DEF LocalStart, Least
  <1>9. Master = chunks[k].start + LocalStart(k)
    <2>1. CASE k = 1
      <3>1. Len(spans) = 0 BY <1>3, <2>1
      <3>2. spans = <<>> BY <1>2, <3>1, EmptySeq
      <3> QED BY <1>5, <2>1, <3>2 DEF Master, LocalStart
    <2>2. CASE k # 1
      <3>1. spans # <<>> /\ k - 1 = Len(spans) /\ k > 1 BY <1>3, <2>2, Empty
      <3>2. Master = chunks[k - 1].end /\ Master \in Nat BY <1>1, <3>1, MasterValue
      <3> QED BY <1>5, <1>7, <2>2, <3>1, <3>2 DEF LocalStart
    <2> QED BY <2>1, <2>2
  <1> QED BY <1>3, <1>5, <1>7, <1>8, <1>9

LEMMA AddSpanStep == IInv /\ AddSpan => IInv'
  <1> SUFFICES ASSUME IInv, AddSpan PROVE IInv' OBVIOUS
  <1> DEFINE n == Len(spans)
             k == n + 1
             new == [from |-> LocalStart(k), to |-> chunks[k].frames, first |-> Master,
                     last |-> Master + chunks[k].frames - LocalStart(k)]
  <1>1. Types /\ Phases /\ ChunksOK /\ SpansOK /\ Sorted /\ Covered BY DEF IInv
  <1>2. pc = "spans" /\ Len(spans) < Len(chunks) BY DEF AddSpan
  <1>3. /\ k \in 1 .. Len(chunks) /\ k \in Nat
        /\ chunks[k].start \in Nat /\ chunks[k].end \in Nat /\ chunks[k].frames \in Nat
        /\ LocalStart(k) \in Nat /\ LocalStart(k) < chunks[k].frames
        /\ Master = chunks[k].start + LocalStart(k)
        /\ chunks[k].end = chunks[k].start + chunks[k].frames
    BY <1>2, NextSpan
  <1>4. Master \in Nat BY <1>3
  <1>5. spans' = Append(spans, new) /\ UNCHANGED <<pc, refused>> BY <1>3 DEF AddSpan
  <1>6. new \in Span BY <1>3, <1>4 DEF Span
  <1>7. spans \in Seq(Span) /\ n \in Nat
    <2>1. spans \in Seq(Span) BY <1>1 DEF Types
    <2> QED BY <2>1
  <1>8. /\ new.from = LocalStart(k) /\ new.to = chunks[k].frames /\ new.first = Master
        /\ new.last = chunks[k].end /\ new.last \in Nat /\ new.first < new.last
    BY <1>3, <1>4
  <1> HIDE DEF new
  <1>9. /\ spans' \in Seq(Span) /\ Len(spans') = k /\ spans'[k] = new
        /\ \A i \in 1 .. n : spans'[i] = spans[i]
    BY <1>5, <1>6, <1>7
  <1>10. UNCHANGED <<request, frames, total, beats, chunks>> BY DEF AddSpan
  <1>11. Types' /\ BeatsOK' /\ ChunksOK'
    BY <1>1, <1>5, <1>9, <1>10 DEF IInv, Types, BeatsOK, ChunksOK
  <1>12. Done' = Done BY <1>10 DEF Done
  <1>13. Phases' BY <1>1, <1>2, <1>5, <1>10, <1>12 DEF Phases
  <1>14. SpansOK'
    <2>1. Len(spans') <= Len(chunks') BY <1>3, <1>9, <1>10
    <2>2. ASSUME NEW i \in 1 .. k
          PROVE  /\ spans'[i].from = LocalStart(i) /\ spans'[i].to = chunks[i].frames
                 /\ spans'[i].first = chunks[i].start + spans'[i].from
                 /\ spans'[i].last = chunks[i].end
                 /\ spans'[i].first < spans'[i].last
      <3>1. CASE i = k BY <1>3, <1>8, <1>9, <3>1
      <3>2. CASE i # k
        <4>1. i \in 1 .. n BY <1>7, <3>2
        <4> QED BY <1>1, <1>9, <4>1 DEF SpansOK
      <3> QED BY <3>1, <3>2
    <2> QED BY <1>9, <1>10, <2>1, <2>2 DEF SpansOK, LocalStart
  <1>15. \A i \in 1 .. n : spans[i].last \in Nat /\ spans[i].first \in Nat /\ spans[i].last <= Master
    <2> SUFFICES ASSUME NEW i \in 1 .. n
                 PROVE spans[i].last \in Nat /\ spans[i].first \in Nat /\ spans[i].last <= Master
      OBVIOUS
    <2>1. spans[i] \in Span /\ spans[n] \in Span /\ n \in 1 .. n BY <1>7
    <2>2. spans # <<>> BY <1>7, <2>1, Empty
    <2>3. Master = spans[n].last BY <2>2 DEF Master
    <2>4. spans[n].first < spans[n].last BY <1>1, <2>1 DEF SpansOK
    <2>5. i # n => spans[i].last <= spans[n].first BY <1>1, <2>1 DEF Sorted
    <2> QED BY <2>1, <2>3, <2>4, <2>5 DEF Span
  <1>16. Sorted'
    <2> SUFFICES ASSUME NEW i \in 1 .. k, NEW j \in 1 .. k, i < j
                 PROVE  spans'[i].last <= spans'[j].first
      BY <1>9 DEF Sorted
    <2>1. i \in 1 .. n BY <1>7
    <2>2. CASE j = k BY <1>8, <1>9, <1>15, <2>1, <2>2
    <2>3. CASE j # k
      <3>1. j \in 1 .. n BY <1>7, <2>3
      <3> QED BY <1>1, <1>9, <2>1, <3>1 DEF Sorted
    <2> QED BY <2>2, <2>3
  <1>17. Master' = new.last
    <2>1. spans' # <<>> BY <1>7, <1>9, Empty
    <2> QED BY <1>9, <2>1 DEF Master
  <1>18. Covered'
    <2> SUFFICES ASSUME NEW f \in 0 .. new.last - 1
                 PROVE  \E i \in 1 .. k : spans'[i].first <= f /\ f < spans'[i].last
      BY <1>9, <1>17 DEF Covered
    <2>1. CASE f < Master
      <3>1. f \in 0 .. Master - 1 BY <1>4, <1>8, <2>1
      <3>2. PICK i \in 1 .. n : spans[i].first <= f /\ f < spans[i].last
        BY <1>1, <3>1 DEF Covered
      <3>3. i \in 1 .. k /\ spans'[i] = spans[i] BY <1>7, <1>9
      <3> QED BY <3>2, <3>3
    <2>2. CASE ~(f < Master)
      <3>1. k \in 1 .. k BY <1>7
      <3>2. spans'[k].first <= f /\ f < spans'[k].last BY <1>4, <1>8, <1>9, <2>2
      <3> QED BY <3>1, <3>2
    <2> QED BY <2>1, <2>2
  <1> QED BY <1>11, <1>13, <1>14, <1>16, <1>18 DEF IInv

LEMMA EndSpansStep == IInv /\ EndSpans => IInv'
  <1> SUFFICES ASSUME IInv, EndSpans PROVE IInv' OBVIOUS
  <1>1. Types /\ Phases /\ SpansOK /\ pc = "spans" /\ Len(spans) = Len(chunks)
    BY DEF IInv, EndSpans
  <1>2. chunks # <<>> /\ Done = total /\ frames > 0 /\ total = Transitions(frames)
    BY <1>1 DEF Phases
  <1>3. chunks \in Seq(Chunk) /\ spans \in Seq(Span) /\ total \in Nat BY <1>1 DEF Types
  <1>4. Len(chunks) \in Nat \ {0} /\ chunks[Len(chunks)] \in Chunk BY <1>2, <1>3, LastElement
  <1>5. spans # <<>> BY <1>1, <1>4, Empty
  <1>6. Master = chunks[Len(chunks)].end BY <1>1, <1>5, MasterValue
  <1>7. Done = chunks[Len(chunks)].end - 1 BY <1>2 DEF Done
  <1>8. Master = total + 1 BY <1>2, <1>3, <1>4, <1>6, <1>7 DEF Chunk
  <1>9. pc' = "planned" /\ UNCHANGED <<request, frames, total, beats, chunks, spans, refused>>
    BY <1>8 DEF EndSpans
  <1>10. Types' /\ BeatsOK' /\ ChunksOK'
    BY <1>1, <1>9 DEF IInv, Types, BeatsOK, ChunksOK
  <1>11. Done' = Done BY <1>9 DEF Done
  <1>12. Phases' BY <1>1, <1>2, <1>9, <1>11 DEF Phases
  <1>13. SpansOK' /\ Sorted' BY <1>9 DEF IInv, SpansOK, Sorted
  <1>14. Master' = Master BY <1>9 DEF Master
  <1>15. Covered' BY <1>9, <1>14 DEF IInv, Covered
  <1> QED BY <1>10, <1>12, <1>13, <1>15 DEF IInv

LEMMA Stutter == IInv /\ UNCHANGED vars => IInv'
  <1> SUFFICES ASSUME IInv, UNCHANGED vars PROVE IInv' OBVIOUS
  <1>1. UNCHANGED <<pc, request, frames, total, beats, chunks, spans, refused>> BY DEF vars
  <1>2. Done' = Done /\ Master' = Master BY <1>1 DEF Done, Master
  <1>3. Types' /\ BeatsOK' /\ Phases' BY <1>1, <1>2 DEF IInv, Types, BeatsOK, Phases
  <1>4. ChunksOK' /\ SpansOK' BY <1>1 DEF IInv, ChunksOK, SpansOK
  <1>5. Sorted' /\ Covered' BY <1>1, <1>2 DEF IInv, Sorted, Covered
  <1> QED BY <1>3, <1>4, <1>5 DEF IInv

\* Every reachable state of the planner, whatever the durations, satisfies the invariant.
THEOREM Inductive == Spec => []IInv
  <1>1. IInv /\ [Next]_vars => IInv'
    BY StartStep, AddBeatStep, FitBeatsStep, AddChunkStep, EndChunksStep, AddSpanStep,
       EndSpansStep, Stutter DEF Next
  <1> QED BY <1>1, InitInv, PTL DEF Spec

-----------------------------------------------------------------------------
(* The properties of the plan *)

LEMMA Indices ==
    ASSUME Types
    PROVE  /\ Len(beats) \in Nat /\ Len(chunks) \in Nat /\ Len(spans) \in Nat
           /\ DOMAIN beats = 1 .. Len(beats) /\ DOMAIN chunks = 1 .. Len(chunks)
           /\ DOMAIN spans = 1 .. Len(spans)
           /\ \A i \in 1 .. Len(beats) : beats[i] \in Beat
           /\ \A i \in 1 .. Len(chunks) : chunks[i] \in Chunk
           /\ \A i \in 1 .. Len(spans) : spans[i] \in Span
  <1>1. beats \in Seq(Beat) /\ chunks \in Seq(Chunk) /\ spans \in Seq(Span) BY DEF Types
  <1>2. ASSUME NEW S, NEW s \in Seq(S)
        PROVE  Len(s) \in Nat /\ DOMAIN s = 1 .. Len(s) /\ \A i \in 1 .. Len(s) : s[i] \in S
    BY <1>2
  <1> QED BY <1>1, <1>2

\* A window has at most Window + 1 frames, and its motion is a multiple of the step.
LEMMA WindowLength ==
    ASSUME Types, ChunksOK, NEW k \in 1 .. Len(chunks)
    PROVE  chunks[k].frames \in 1 .. Window + 1 /\ (chunks[k].frames - 1) % Step = 0
  <1>1. /\ chunks[k] \in Chunk /\ total \in Nat BY Indices DEF Types
  <1>2. /\ chunks[k].start \in Nat /\ chunks[k].end \in Nat /\ chunks[k].frames \in Nat
    BY <1>1 DEF Chunk
  <1>3. /\ chunks[k].start <= total
        /\ chunks[k].frames = Least(Window, total - chunks[k].start) + 1
        /\ chunks[k].end = chunks[k].start + chunks[k].frames
        /\ chunks[k].start % Step = 0 /\ (chunks[k].end - 1) % Step = 0
    BY DEF ChunksOK
  <1>4. Window \in Nat \ {0} BY PlanAssumption
  <1>5. chunks[k].frames \in 1 .. Window + 1 BY <1>1, <1>2, <1>3, <1>4 DEF Least
  <1> DEFINE a == chunks[k].end - 1
             b == chunks[k].start
  <1>6. a \in Nat /\ b \in Nat /\ b <= a /\ a - b = chunks[k].frames - 1 BY <1>2, <1>3, <1>5
  <1>7. (a - b) % Step = 0 BY <1>3, <1>6, AlignedDifference
  <1> QED BY <1>5, <1>6, <1>7

\* When the windows are planned, they reach the end of the motion.
LEMMA Reached ==
    ASSUME Types, Phases, pc \in {"spans", "planned"}
    PROVE  /\ chunks # <<>> /\ Done = total /\ frames \in Nat \ {0}
           /\ total = Transitions(frames)
  <1>1. frames \in Nat BY DEF Types
  <1>2. frames > 0 /\ total = Transitions(frames) BY DEF Phases
  <1>3. chunks # <<>> /\ Done = total BY DEF Phases
  <1> QED BY <1>1, <1>2, <1>3

\* The types of the plan, the length of its windows and the alignment of their motion.
THEOREM TypeCorrect == Spec => []TypeOK
  <1>1. IInv => TypeOK
    <2> SUFFICES ASSUME IInv PROVE TypeOK OBVIOUS
    <2>1. Types /\ BeatsOK /\ ChunksOK /\ SpansOK BY DEF IInv
    <2>2. DOMAIN beats = 1 .. Len(beats) /\ DOMAIN chunks = 1 .. Len(chunks) BY <2>1, Indices
    <2>3. /\ pc \in {"start", "beats", "chunks", "spans", "planned", "refused"}
          /\ request \in Requests /\ frames \in Nat /\ total \in Nat
          /\ refused \in {"", "step", "coverage", "collapse", "range", "master"}
      BY <2>1 DEF Types
    <2>4. \A i \in DOMAIN beats : /\ beats[i].start \in Nat /\ beats[i].end \in Nat
                                  /\ beats[i].start < beats[i].end
      BY <2>1, <2>2, Indices DEF BeatsOK, Beat
    <2>5. \A k \in DOMAIN chunks : chunks[k].frames \in 1 .. Window + 1
      BY <2>1, <2>2, WindowLength
    <2>6. \A k \in DOMAIN chunks : (chunks[k].frames - 1) % Step = 0
      BY <2>1, <2>2, WindowLength
    <2>7. Len(spans) <= Len(chunks) BY <2>1 DEF SpansOK
    <2> QED BY <2>3, <2>4, <2>5, <2>6, <2>7 DEF TypeOK
  <1> QED BY <1>1, Inductive, PTL

\* Every frame of the master is committed once, and the master reaches from the first frame
\* to the end of the timeline and less than a step beyond.
THEOREM PlanTiles == Spec => []Tiles
  <1>1. IInv => Tiles
    <2> SUFFICES ASSUME IInv PROVE Tiles OBVIOUS
    <2>1. Types /\ Phases /\ SpansOK /\ Sorted /\ Covered BY DEF IInv
    <2>2. DOMAIN spans = 1 .. Len(spans) BY <2>1, Indices
    <2>3. \A j, k \in DOMAIN spans : j < k => spans[j].last <= spans[k].first
      BY <2>1, <2>2 DEF Sorted
    <2>4. \A f \in 0 .. Master - 1 :
            \E k \in DOMAIN spans : spans[k].first <= f /\ f < spans[k].last
      BY <2>1, <2>2 DEF Covered
    <2>5. ASSUME pc = "planned"
          PROVE  Master = total + 1 /\ Master >= frames /\ Master < frames + Step
      <3>1. /\ chunks # <<>> /\ Done = total /\ frames \in Nat \ {0}
            /\ total = Transitions(frames)
        BY <2>1, <2>5, Reached
      <3>10. Len(spans) = Len(chunks) BY <2>1, <2>5 DEF Phases
      <3>2. chunks \in Seq(Chunk) /\ spans \in Seq(Span) /\ total \in Nat BY <2>1 DEF Types
      <3>3. Len(chunks) \in Nat \ {0} /\ chunks[Len(chunks)] \in Chunk
        BY <3>1, <3>2, LastElement
      <3>4. spans # <<>> BY <3>10, <3>3, Empty
      <3>5. Master = chunks[Len(chunks)].end BY <2>1, <3>10, <3>4, MasterValue
      <3>6. Done = chunks[Len(chunks)].end - 1 BY <3>1 DEF Done
      <3>7. Master = total + 1 BY <3>1, <3>2, <3>3, <3>5, <3>6 DEF Chunk
      <3>8. frames - 1 <= total /\ total < frames - 1 + Step BY <3>1, TransitionsBound
      <3>9. Step \in Nat BY PlanAssumption
      <3> QED BY <3>1, <3>2, <3>7, <3>8, <3>9
    <2> QED BY <2>3, <2>4, <2>5 DEF Tiles
  <1> QED BY <1>1, Inductive, PTL

\* What a window commits stands where the window was rendered for.
LEMMA WindowsInPlace == IInv => InPlace
  <1> SUFFICES ASSUME IInv, NEW k \in DOMAIN spans
               PROVE  /\ spans[k].first = chunks[k].start + spans[k].from
                      /\ spans[k].last = chunks[k].start + spans[k].to
                      /\ spans[k].last = chunks[k].end
    BY DEF InPlace
  <1>1. Types /\ ChunksOK /\ SpansOK BY DEF IInv
  <1>2. k \in 1 .. Len(spans) /\ Len(spans) \in Nat /\ Len(chunks) \in Nat BY <1>1, Indices
  <1>3. Len(spans) <= Len(chunks) BY <1>1 DEF SpansOK
  <1>4. k \in 1 .. Len(chunks) BY <1>2, <1>3
  <1>5. chunks[k].end = chunks[k].start + chunks[k].frames BY <1>1, <1>4 DEF ChunksOK
  <1>6. /\ spans[k].to = chunks[k].frames /\ spans[k].last = chunks[k].end
        /\ spans[k].first = chunks[k].start + spans[k].from
    BY <1>1, <1>2 DEF SpansOK
  <1> QED BY <1>5, <1>6

\* A window starts from the last frame of the window before it and adds a frame.
LEMMA WindowsHandOver == IInv => HandsOver
  <1> SUFFICES ASSUME IInv, NEW k \in DOMAIN chunks, k > 1
               PROVE  chunks[k].start = chunks[k - 1].end - 1 /\ chunks[k].frames > 1
    BY DEF HandsOver
  <1>1. Types /\ ChunksOK BY DEF IInv
  <1>2. k \in 1 .. Len(chunks) /\ chunks[k] \in Chunk /\ total \in Nat
    BY <1>1, Indices DEF Types
  <1>3. /\ chunks[k].start = chunks[k - 1].end - 1 /\ chunks[k].start < total
        /\ chunks[k].frames = Least(Window, total - chunks[k].start) + 1
    BY <1>1, <1>2 DEF ChunksOK
  <1>4. Window \in Nat \ {0} /\ chunks[k].start \in Nat BY <1>2, PlanAssumption DEF Chunk
  <1>5. chunks[k].frames > 1 BY <1>2, <1>3, <1>4 DEF Least
  <1> QED BY <1>3, <1>5

\* Every window stands in its place and hands over to the next, and the checks "range" and
\* "master" of the planner on its own plan are unreachable.
THEOREM PlanPlaced == Spec => []Placed
  <1>1. IInv => NeverInconsistent BY DEF IInv, Types, NeverInconsistent
  <1>2. IInv => Placed BY <1>1, WindowsInPlace, WindowsHandOver DEF Placed
  <1> QED BY <1>2, Inductive, PTL

\* The scenes that may continue are exactly those whose timeline needs a second window.
THEOREM PlanRoute == Spec => []RouteMatchesPlan
  <1>1. IInv => RouteMatchesPlan
    <2> SUFFICES ASSUME IInv, pc \in {"spans", "planned"}
                 PROVE  LongEnough(frames) <=> Len(chunks) > 1
      BY DEF RouteMatchesPlan, Enabled
    <2>1. Types /\ ChunksOK /\ Phases BY DEF IInv
    <2>2. /\ chunks # <<>> /\ Done = total /\ frames \in Nat \ {0}
          /\ total = Transitions(frames)
      BY <2>1, Reached
    <2>3. chunks \in Seq(Chunk) /\ total \in Nat BY <2>1 DEF Types
    <2>4. Len(chunks) \in Nat \ {0} BY <2>2, <2>3, LastElement
    <2>5. Window \in Nat \ {0} BY PlanAssumption
    <2>6. 1 \in 1 .. Len(chunks) BY <2>4
    <2>7. chunks[1] \in Chunk BY <2>1, <2>6, Indices
    <2>8. /\ chunks[1].start = 0 /\ chunks[1].frames = Least(Window, total - chunks[1].start) + 1
          /\ chunks[1].end = chunks[1].start + chunks[1].frames
      BY <2>1, <2>6 DEF ChunksOK
    <2>9. chunks[1].end = Least(Window, total) + 1 /\ Least(Window, total) \in Nat
      BY <2>3, <2>5, <2>8 DEF Least
    <2>10. ASSUME LongEnough(frames) PROVE Len(chunks) > 1
      <3>1. total > Window BY <2>2, <2>3, <2>5, <2>10, TransitionsBound DEF LongEnough
      <3> SUFFICES ASSUME Len(chunks) = 1 PROVE FALSE BY <2>4
      <3>2. Done = Least(Window, total) BY <2>2, <2>9 DEF Done
      <3> QED BY <2>2, <2>3, <2>5, <3>1, <3>2 DEF Least
    <2>11. ASSUME Len(chunks) > 1 PROVE LongEnough(frames)
      <3>1. 2 \in 1 .. Len(chunks) BY <2>4, <2>11
      <3>2. chunks[2].start = chunks[1].end - 1 /\ chunks[2].start < total
        <4>1. chunks[2].start = chunks[2 - 1].end - 1 /\ chunks[2].start < total
          BY <2>1, <3>1 DEF ChunksOK
        <4> QED BY <4>1
      <3>3. Least(Window, total) < total BY <2>9, <3>2
      <3>4. total > Window BY <2>3, <2>5, <3>3 DEF Least
      <3>5. frames - 1 > Window BY <2>2, <3>4, BorderOfWindow
      <3> QED BY <2>2, <2>5, <3>5 DEF LongEnough
    <2> QED BY <2>10, <2>11
  <1> QED BY <1>1, Inductive, PTL

-----------------------------------------------------------------------------
(* The sum of what the beats ask for *)

\* A set of naturals has a least element: what replaces an induction here.
LEMMA LeastNatural ==
    ASSUME NEW S \in SUBSET Nat, S # {}
    PROVE  \E n \in S : \A m \in S : n <= m
  <1>1. PICK n \in S : \A m \in S : ~(<<m, n>> \in OpToRel(<, Nat))
    BY NatLessThanWellFounded, WFMin
  <1>2. ASSUME NEW m \in S PROVE n <= m
    <2>1. ~(m < n) BY <1>1 DEF OpToRel
    <2> QED BY <2>1
  <1> QED BY <1>2

\* g sums up what the first n beats asked for.
IsSum(g, n) == /\ g = [k \in 0 .. n |-> g[k]] /\ g[0] = 0
               /\ \A k \in 1 .. n : g[k] = g[k - 1] + beats[k].asked

\* Two sums agree as far as both go.
LEMMA SumsAgree ==
    ASSUME NEW m \in Nat, NEW n \in Nat, m <= n, NEW g, NEW h, IsSum(g, m), IsSum(h, n)
    PROVE  \A k \in 0 .. m : g[k] = h[k]
  <1> DEFINE S == {k \in 0 .. m : g[k] # h[k]}
  <1> SUFFICES ASSUME S # {} PROVE FALSE OBVIOUS
  <1>1. S \in SUBSET Nat OBVIOUS
  <1>2. PICK k \in S : \A j \in S : k <= j BY <1>1, LeastNatural
  <1>3. k \in 0 .. m /\ g[k] # h[k] /\ k # 0 BY DEF IsSum
  <1>4. k \in 1 .. m /\ k \in 1 .. n /\ k - 1 \in 0 .. m BY <1>3
  <1>5. k - 1 \notin S BY <1>2, <1>3
  <1>6. g[k - 1] = h[k - 1] BY <1>4, <1>5
  <1> QED BY <1>3, <1>4, <1>6 DEF IsSum

\* There is a sum of any length: the least length without one leads to a contradiction.
LEMMA SumExists == \A n \in Nat : \E g : IsSum(g, n)
  <1> DEFINE S == {n \in Nat : ~\E g : IsSum(g, n)}
  <1> SUFFICES ASSUME S # {} PROVE FALSE OBVIOUS
  <1>1. S \in SUBSET Nat OBVIOUS
  <1>2. PICK n \in S : \A m \in S : n <= m BY <1>1, LeastNatural
  <1>3. n # 0
    <2> DEFINE z == [k \in 0 .. 0 |-> 0]
    <2>1. IsSum(z, 0) BY DEF IsSum
    <2> QED BY <2>1
  <1>4. n - 1 \in Nat /\ n - 1 \notin S BY <1>2, <1>3
  <1>5. PICK g : IsSum(g, n - 1) BY <1>4
  <1> DEFINE h == [k \in 0 .. n |-> IF k = n THEN g[n - 1] + beats[n].asked ELSE g[k]]
  <1>6. \A k \in 0 .. n : h[k] = IF k = n THEN g[n - 1] + beats[n].asked ELSE g[k] OBVIOUS
  <1>7. h = [k \in 0 .. n |-> h[k]] OBVIOUS
  <1> HIDE DEF h
  <1>8. h[0] = 0
    <2>1. g[0] = 0 BY <1>5 DEF IsSum
    <2>2. 0 \in 0 .. n BY <1>4
    <2> QED BY <1>3, <1>6, <2>1, <2>2
  <1>9. ASSUME NEW k \in 1 .. n PROVE h[k] = h[k - 1] + beats[k].asked
    <2>1. h[k - 1] = g[k - 1] BY <1>4, <1>6
    <2>2. CASE k = n BY <1>6, <2>1, <2>2
    <2>3. CASE k # n
      <3>1. k \in 1 .. n - 1 /\ h[k] = g[k] BY <1>4, <1>6, <2>3
      <3> QED BY <1>5, <2>1, <3>1 DEF IsSum
    <2> QED BY <2>2, <2>3
  <1>10. IsSum(h, n) BY <1>7, <1>8, <1>9 DEF IsSum
  <1> QED BY <1>10

\* What the recursive function Asked computes.
LEMMA AskedSums ==
    /\ Asked[0] = 0
    /\ \A n \in Nat \ {0} : Asked[n] = Asked[n - 1] + beats[n].asked
  <1> DEFINE sum(n) == CHOOSE g : IsSum(g, n)
             F == [n \in Nat |-> sum(n)[n]]
  <1>1. \A n \in Nat : IsSum(sum(n), n) BY SumExists
  <1>2. \A n \in Nat : F[n] = sum(n)[n] OBVIOUS
  <1> HIDE DEF sum
  <1>3. F = [n \in Nat |-> F[n]] OBVIOUS
  <1> HIDE DEF F
  <1>4. F[0] = 0 BY <1>1, <1>2 DEF IsSum
  <1>5. ASSUME NEW n \in Nat \ {0} PROVE F[n] = F[n - 1] + beats[n].asked
    <2>1. n - 1 \in Nat /\ n - 1 \in 0 .. n - 1 /\ n \in 1 .. n OBVIOUS
    <2>2. sum(n)[n] = sum(n)[n - 1] + beats[n].asked BY <1>1, <2>1 DEF IsSum
    <2>3. sum(n - 1)[n - 1] = sum(n)[n - 1] BY <1>1, <2>1, SumsAgree
    <2> QED BY <1>2, <2>1, <2>2, <2>3
  <1>6. F = [n \in Nat |-> IF n = 0 THEN 0 ELSE F[n - 1] + beats[n].asked]
    BY <1>3, <1>4, <1>5
  <1>7. Asked = [n \in Nat |-> IF n = 0 THEN 0 ELSE Asked[n - 1] + beats[n].asked]
    BY <1>6 DEF Asked
  <1> QED BY <1>7

-----------------------------------------------------------------------------
(* The invariant of the beats *)

\* l frames are within half a frame of t ticks, when t is more than a frame.
Near(l, t) == t > Ticks => 2 * (Ticks * l) - 2 * t \in -Ticks .. Ticks

\* the beats are laid end to end from the first frame
Laid == /\ beats # <<>> => beats[1].start = 0
        /\ \A i \in 2 .. Len(beats) : beats[i].start = beats[i - 1].end
        /\ \A i, j \in 1 .. Len(beats) : i < j => beats[i].end <= beats[j].start

\* until they are fitted, each is as long as it asked to be
AsAsked == pc = "beats" \/ refused \in {"coverage", "collapse"} =>
             \A i \in 1 .. Len(beats) : Near(beats[i].end - beats[i].start, beats[i].asked)

\* the timeline is the one of the request, and the fitted beats fill it
Fitted == /\ pc = "start" => beats = <<>>
          /\ pc # "start" => frames = TimelineFrames(request)
          /\ pc \in {"chunks", "spans", "planned"} /\ beats # <<>> => Last.end = frames

\* why a plan was refused is still true
Reasons == /\ pc # "refused" => refused = ""
           /\ refused = "coverage" => beats # <<>> /\ ~Covers
           /\ refused = "collapse" => beats # <<>> /\ Covers /\ Collapses

\* a window speaks of the beats it overlaps
Speaks == \A k \in 1 .. Len(chunks) :
            chunks[k].beats = {i \in 1 .. Len(beats) : Overlaps(beats[i], chunks[k].start,
                                                                chunks[k].end)}

BInv == Laid /\ AsAsked /\ Fitted /\ Reasons /\ Speaks

\* Rounding a duration moves it by half a frame at most.
LEMMA RoundedNear ==
    ASSUME NEW t \in Nat
    PROVE  Near(TimelineFrames(t), t)
  <1> SUFFICES ASSUME t > Ticks
               PROVE  2 * (Ticks * TimelineFrames(t)) - 2 * t \in -Ticks .. Ticks
    BY DEF Near
  <1>1. Ticks \in Nat \ {0} BY PlanAssumption
  <1> DEFINE q == t \div Ticks
             r == t % Ticks
  <1>2. q \in Nat /\ t = Ticks * q + r BY <1>1, Z3
  <1>3. r \in 0 .. Ticks - 1 BY <1>1, Z3
  <1>4. Rounded(t) = CASE 2 * r < Ticks -> q [] 2 * r > Ticks -> q + 1 [] OTHER -> q + (q % 2)
    BY DEF Rounded
  <1>5. q % 2 \in 0 .. 1 BY <1>2
  <1> HIDE DEF q, r
  <1>6. q >= 1
    <2> SUFFICES ASSUME q = 0 PROVE FALSE BY <1>2
    <2>1. Ticks * q = 0 BY <1>1
    <2> QED BY <1>1, <1>2, <1>3, <2>1
  <1>7. Ticks * (q + 1) = Ticks * q + Ticks /\ Ticks * q \in Nat BY <1>1, <1>2
  <1>8. \/ 2 * r <= Ticks /\ Rounded(t) = q
        \/ 2 * r >= Ticks /\ Rounded(t) = q + 1
    BY <1>1, <1>2, <1>3, <1>4, <1>5
  <1>9. TimelineFrames(t) = Rounded(t) BY <1>2, <1>6, <1>8 DEF TimelineFrames, Most
  <1> QED BY <1>1, <1>2, <1>3, <1>7, <1>8, <1>9

\* A beat given in frames is as long as it says.
LEMMA MovesNear ==
    ASSUME NEW n \in Nat
    PROVE  Near(Most(1, n), n * Ticks)
  <1>1. Ticks \in Nat \ {0} BY PlanAssumption
  <1>2. CASE n = 0
    <2>1. n * Ticks = 0 BY <1>1, <1>2
    <2> QED BY <1>1, <2>1 DEF Near
  <1>3. CASE n # 0
    <2>1. Most(1, n) = n BY <1>3 DEF Most
    <2>2. n * Ticks = Ticks * n /\ Ticks * n \in Nat BY <1>1
    <2> QED BY <1>1, <2>1, <2>2 DEF Near
  <1> QED BY <1>2, <1>3

LEMMA InitBeats == Init => BInv
  <1> SUFFICES ASSUME Init PROVE BInv OBVIOUS
  <1>1. 1 .. Len(beats) = {} /\ 2 .. Len(beats) = {} /\ 1 .. Len(chunks) = {}
    <2>1. Len(beats) = 0 /\ Len(chunks) = 0 BY Empty DEF Init
    <2> QED BY <2>1
  <1>2. beats = <<>> /\ pc = "start" /\ refused = "" BY DEF Init
  <1> QED BY <1>1, <1>2 DEF BInv, Laid, AsAsked, Fitted, Reasons, Speaks

LEMMA StartBeats == IInv /\ BInv /\ Start => BInv'
  <1> SUFFICES ASSUME IInv, BInv, Start PROVE BInv' OBVIOUS
  <1>1. beats = <<>> /\ beats' = <<>> /\ refused' = "" /\ chunks' = <<>> /\ pc' = "beats"
    BY DEF IInv, Phases, BInv, Fitted, Reasons, Start
  <1>2. 1 .. Len(beats') = {} /\ 2 .. Len(beats') = {} /\ 1 .. Len(chunks') = {}
    <2>1. Len(beats') = 0 /\ Len(chunks') = 0 BY <1>1, Empty
    <2> QED BY <2>1
  <1>3. frames' = TimelineFrames(request') BY DEF Start
  <1> QED BY <1>1, <1>2, <1>3 DEF BInv, Laid, AsAsked, Fitted, Reasons, Speaks

\* A beat is added at the end of the timeline.
LEMMA BeatLaid ==
    ASSUME Types, BeatsOK, Laid, NEW n \in Nat \ {0}, NEW a \in Nat, AppendBeat(n, a)
    PROVE  /\ beats' # <<>> /\ Len(beats') = Len(beats) + 1
           /\ \A i \in 1 .. Len(beats) : beats'[i] = beats[i]
           /\ beats'[Len(beats')].end - beats'[Len(beats')].start = n
           /\ beats'[Len(beats')].asked = a
           /\ Laid'
  <1> DEFINE m == Len(beats)
             new == [start |-> Cursor, end |-> Cursor + n, asked |-> a]
  <1>1. beats \in Seq(Beat) /\ m \in Nat BY Indices DEF Types
  <1>2. Cursor \in Nat /\ new \in Beat BY CursorType DEF Beat
  <1>3. new.start = Cursor /\ new.end - new.start = n /\ new.asked = a BY <1>2
  <1>4. beats' = Append(beats, new) BY DEF AppendBeat
  <1> HIDE DEF new
  <1>5. /\ beats' \in Seq(Beat) /\ Len(beats') = m + 1 /\ beats'[m + 1] = new
        /\ \A i \in 1 .. m : beats'[i] = beats[i]
    BY <1>1, <1>2, <1>4
  <1>6. beats' # <<>> BY <1>1, <1>5, Empty
  <1>7. m # 0 => beats # <<>> BY Empty
  <1>8. m = 0 => beats = <<>> BY <1>1, EmptySeq
  <1>9. Cursor = IF m = 0 THEN 0 ELSE beats[m].end BY <1>7, <1>8 DEF Cursor
  <1>10. beats'[1].start = 0
    <2>1. CASE m = 0 BY <1>3, <1>5, <1>9, <2>1
    <2>2. CASE m # 0
      <3>1. 1 \in 1 .. m /\ beats'[1] = beats[1] BY <1>1, <1>5, <2>2
      <3> QED BY <1>7, <2>2, <3>1 DEF Laid
    <2> QED BY <2>1, <2>2
  <1>11. ASSUME NEW i \in 2 .. m + 1 PROVE beats'[i].start = beats'[i - 1].end
    <2>1. i - 1 \in 1 .. m /\ beats'[i - 1] = beats[i - 1] BY <1>1, <1>5
    <2>2. CASE i = m + 1 BY <1>1, <1>3, <1>5, <1>9, <2>1, <2>2
    <2>3. CASE i # m + 1
      <3>1. i \in 2 .. m /\ beats'[i] = beats[i] BY <1>1, <1>5, <2>3
      <3> QED BY <2>1, <3>1 DEF Laid
    <2> QED BY <2>2, <2>3
  <1>12. ASSUME NEW i \in 1 .. m + 1, NEW j \in 1 .. m + 1, i < j
         PROVE  beats'[i].end <= beats'[j].start
    <2>1. i \in 1 .. m /\ beats'[i] = beats[i] BY <1>1, <1>5, <1>12
    <2>2. CASE j = m + 1
      <3>1. m \in 1 .. m /\ beats[i] \in Beat /\ beats[m] \in Beat BY <1>1, <2>1
      <3>2. beats'[j].start = beats[m].end BY <1>3, <1>5, <1>9, <2>2, <3>1
      <3>3. beats[m].start < beats[m].end BY <3>1 DEF BeatsOK
      <3>4. i # m => beats[i].end <= beats[m].start BY <1>12, <2>1, <3>1 DEF Laid
      <3> QED BY <2>1, <3>1, <3>2, <3>3, <3>4 DEF Beat
    <2>3. CASE j # m + 1
      <3>1. j \in 1 .. m /\ beats'[j] = beats[j] BY <1>1, <1>5, <2>3
      <3> QED BY <1>12, <2>1, <3>1 DEF Laid
    <2> QED BY <2>2, <2>3
  <1>13. Laid' BY <1>5, <1>10, <1>11, <1>12 DEF Laid
  <1> QED BY <1>1, <1>3, <1>5, <1>6, <1>13

LEMMA AddBeatBeats == IInv /\ BInv /\ AddBeat => BInv'
  <1> SUFFICES ASSUME IInv, BInv, AddBeat PROVE BInv' OBVIOUS
  <1>1. Types /\ BeatsOK /\ Laid BY DEF IInv, BInv
  <1>2. pc = "beats" /\ refused = "" /\ chunks' = <<>> /\ frames' = frames /\ request' = request
    BY DEF AddBeat, IInv, Phases, BInv, Reasons
  <1>3. frames' = TimelineFrames(request') BY <1>2 DEF BInv, Fitted
  <1>4. Speaks'
    <2>1. Len(chunks') = 0 BY <1>2, Empty
    <2> QED BY <2>1 DEF Speaks
  <1>5. ASSUME NEW n \in Nat \ {0}, NEW a \in Nat, AppendBeat(n, a), Near(n, a),
               UNCHANGED <<pc, refused>>
        PROVE  BInv'
    <2>1. /\ beats' # <<>> /\ Len(beats') = Len(beats) + 1
          /\ \A i \in 1 .. Len(beats) : beats'[i] = beats[i]
          /\ beats'[Len(beats')].end - beats'[Len(beats')].start = n
          /\ beats'[Len(beats')].asked = a
          /\ Laid'
      BY <1>1, <1>5, BeatLaid
    <2>2. Len(beats) \in Nat BY <1>1, Indices
    <2>3. \A i \in 1 .. Len(beats') : Near(beats'[i].end - beats'[i].start, beats'[i].asked)
      <3> SUFFICES ASSUME NEW i \in 1 .. Len(beats')
                   PROVE  Near(beats'[i].end - beats'[i].start, beats'[i].asked)
        OBVIOUS
      <3>1. CASE i = Len(beats') BY <1>5, <2>1, <3>1
      <3>2. CASE i # Len(beats')
        <4>1. i \in 1 .. Len(beats) /\ beats'[i] = beats[i] BY <2>1, <2>2, <3>2
        <4> QED BY <1>2, <4>1 DEF BInv, AsAsked
      <3> QED BY <3>1, <3>2
    <2>4. AsAsked' BY <2>3 DEF AsAsked
    <2>5. pc' = "beats" /\ refused' = "" BY <1>2, <1>5
    <2>6. Fitted' /\ Reasons' BY <1>3, <2>5 DEF Fitted, Reasons
    <2> QED BY <1>4, <2>1, <2>4, <2>6 DEF BInv
  <1>6. CASE \E t \in Durations : /\ AppendBeat(TimelineFrames(t), t)
                                  /\ UNCHANGED <<pc, refused>>
    <2>1. PICK t \in Durations : AppendBeat(TimelineFrames(t), t) BY <1>6
    <2>2. t \in Nat BY PlanAssumption
    <2> QED BY <1>5, <1>6, <2>1, <2>2, TimelineNotEmpty, RoundedNear
  <1>7. ASSUME NEW n \in Moves,
               IF n % Step = 0
               THEN AppendBeat(Most(1, n), n * Ticks) /\ UNCHANGED <<pc, refused>>
               ELSE Refuse("step") /\ UNCHANGED beats
        PROVE  BInv'
    <2>1. n \in Nat /\ Ticks \in Nat BY PlanAssumption
    <2>2. Most(1, n) \in Nat \ {0} /\ n * Ticks \in Nat BY <2>1 DEF Most
    <2>3. CASE n % Step = 0 BY <1>5, <1>7, <2>1, <2>2, <2>3, MovesNear
    <2>4. CASE n % Step # 0
      <3>1. beats' = beats /\ pc' = "refused" /\ refused' = "step" BY <1>7, <2>4 DEF Refuse
      <3>2. Laid' BY <1>1, <3>1 DEF Laid
      <3> QED BY <1>3, <1>4, <3>1, <3>2 DEF BInv, AsAsked, Fitted, Reasons
    <2> QED BY <2>3, <2>4
  <1> QED BY <1>6, <1>7 DEF AddBeat

LEMMA FitBeatsBeats == IInv /\ BInv /\ FitBeats => BInv'
  <1> SUFFICES ASSUME IInv, BInv, FitBeats PROVE BInv' OBVIOUS
  <1>1. Types /\ BeatsOK /\ Laid BY DEF IInv, BInv
  <1>2. pc = "beats" /\ refused = "" /\ chunks' = <<>> /\ frames' = frames /\ request' = request
    BY DEF FitBeats, IInv, Phases, BInv, Reasons
  <1>3. frames' = TimelineFrames(request') BY <1>2 DEF BInv, Fitted
  <1>4. Speaks'
    <2>1. Len(chunks') = 0 BY <1>2, Empty
    <2> QED BY <2>1 DEF Speaks
  <1>5. \A i \in 1 .. Len(beats) : Near(beats[i].end - beats[i].start, beats[i].asked)
    BY <1>2 DEF BInv, AsAsked
  <1>6. CASE beats' = beats
    <2>1. Laid' /\ AsAsked' BY <1>1, <1>5, <1>6 DEF Laid, AsAsked
    <2>2. Covers' = Covers /\ Collapses' = Collapses /\ Drift' = Drift
      BY <1>2, <1>6 DEF Covers, Collapses, Allowance, Drift, Cursor, Last
    <2>3. Last' = Last BY <1>6 DEF Last
    <2>4. CASE pc' = "refused"
      <3>1. \/ refused' = "coverage" /\ beats # <<>> /\ ~Covers
            \/ refused' = "collapse" /\ beats # <<>> /\ Covers /\ Collapses
        BY <2>4 DEF FitBeats, Refuse
      <3>2. Reasons' BY <1>6, <2>2, <2>4, <3>1 DEF Reasons
      <3> QED BY <1>3, <1>4, <2>1, <2>4, <3>2 DEF BInv, Fitted
    <2>5. CASE pc' # "refused"
      <3>1. pc' = "chunks" /\ refused' = "" BY <1>2, <2>5 DEF FitBeats, Refuse
      <3>2. ASSUME beats # <<>> PROVE Last.end = frames
        <4>1. beats' = [beats EXCEPT ![Len(beats)].end = @ + Drift]
          BY <2>5, <3>2 DEF FitBeats, Refuse
        <4>2. Len(beats) \in Nat \ {0} /\ beats[Len(beats)] \in Beat /\ frames \in Nat
          BY <1>1, <3>2, LastElement DEF Types
        <4>3. Len(beats) \in DOMAIN beats BY <1>1, <4>2, Indices
        <4>4. beats'[Len(beats)].end = beats[Len(beats)].end + Drift
          BY <4>1, <4>2, <4>3 DEF Beat
        <4>5. Cursor = beats[Len(beats)].end BY <3>2 DEF Cursor
        <4> QED BY <1>6, <4>2, <4>4, <4>5 DEF Drift, Last, Beat
      <3>3. Fitted' BY <1>2, <1>3, <1>6, <2>3, <3>1, <3>2 DEF Fitted
      <3> QED BY <1>4, <2>1, <3>1, <3>3 DEF BInv, Reasons
    <2> QED BY <2>4, <2>5
  <1>7. CASE beats' # beats
    <2>1. /\ pc' = "chunks" /\ refused' = "" /\ beats # <<>>
          /\ beats' = [beats EXCEPT ![Len(beats)].end = @ + Drift]
      BY <1>2, <1>7 DEF FitBeats, Refuse
    <2> DEFINE n == Len(beats)
               fitted == [beats[n] EXCEPT !.end = beats[n].end + Drift]
    <2>0. beats \in Seq(Beat) BY <1>1 DEF Types
    <2>2. n \in Nat \ {0} /\ beats[n] \in Beat /\ frames \in Nat
      BY <1>1, <2>1, <2>0, LastElement DEF Types
    <2>3. Cursor = beats[n].end BY <2>1 DEF Cursor
    <2>4. Drift = frames - beats[n].end /\ beats[n].end \in Nat BY <2>2, <2>3 DEF Drift, Beat
    <2>5. fitted.end = frames /\ fitted.start = beats[n].start /\ fitted \in Beat
      <3>1. \A b \in Beat, e \in Nat : /\ [b EXCEPT !.end = e].end = e
                                      /\ [b EXCEPT !.end = e].start = b.start
                                      /\ [b EXCEPT !.end = e] \in Beat
        BY DEF Beat
      <3>2. beats[n].end + Drift = frames BY <2>2, <2>4
      <3> QED BY <2>2, <3>1, <3>2
    <2>6. beats' = [beats EXCEPT ![n] = fitted] BY <2>1
    <2> HIDE DEF fitted
    <2>7. beats' \in Seq(Beat) /\ Len(beats') = n BY <2>2, <2>0, <2>5, <2>6, ExceptSeq
    <2>8. \A i \in 1 .. n : beats'[i] = IF i = n THEN fitted ELSE beats[i] BY <2>2, <2>0, <2>6
    <2>9. \A i \in 1 .. n : beats'[i].start = beats[i].start BY <2>5, <2>8
    <2>10. \A i \in 1 .. n : i # n => beats'[i].end = beats[i].end BY <2>8
    <2> HIDE DEF n
    <2>11. Laid'
      <3>1. beats'[1].start = 0
        <4>1. 1 \in 1 .. n BY <2>2
        <4> QED BY <1>1, <2>1, <2>9, <4>1 DEF Laid
      <3>2. \A i \in 2 .. n : beats'[i].start = beats'[i - 1].end
        <4> TAKE i \in 2 .. n
        <4>1. i \in 1 .. n /\ i - 1 \in 1 .. n /\ i - 1 # n BY <2>2
        <4>2. beats[i].start = beats[i - 1].end BY <1>1 DEF Laid, n
        <4> QED BY <2>9, <2>10, <4>1, <4>2
      <3>3. \A i, j \in 1 .. n : i < j => beats'[i].end <= beats'[j].start
        <4> TAKE i, j \in 1 .. n
        <4> HAVE i < j
        <4>1. i # n BY <2>2
        <4>2. beats[i].end <= beats[j].start BY <1>1 DEF Laid, n
        <4> QED BY <2>9, <2>10, <4>1, <4>2
      <3> QED BY <2>7, <3>1, <3>2, <3>3 DEF Laid
    <2>12. Last'.end = frames'
      <3>1. n \in 1 .. n BY <2>2
      <3> QED BY <1>2, <2>5, <2>7, <2>8, <3>1 DEF Last
    <2>13. AsAsked' /\ Reasons' BY <2>1 DEF AsAsked, Reasons
    <2>14. Fitted' BY <1>3, <2>1, <2>12 DEF Fitted
    <2> QED BY <1>4, <2>11, <2>13, <2>14 DEF BInv
  <1> QED BY <1>6, <1>7

\* The steps on the windows leave the beats alone.
LEMMA WindowsFrame ==
    ASSUME BInv, UNCHANGED <<request, frames, beats, refused>>, pc \notin {"start", "beats"},
           pc' \in {"chunks", "spans", "planned", "refused"}, pc \in {"chunks", "spans"},
           pc' # "refused", Speaks'
    PROVE  BInv'
  <1>1. Laid' /\ AsAsked' BY DEF BInv, Laid, AsAsked
  <1>2. Last' = Last BY DEF Last
  <1>3. refused = "" /\ refused' = "" BY DEF BInv, Reasons
  <1>4. Fitted' /\ Reasons' BY <1>2, <1>3 DEF BInv, Fitted, Reasons
  <1> QED BY <1>1, <1>4 DEF BInv

LEMMA AddChunkBeats == IInv /\ BInv /\ AddChunk => BInv'
  <1> SUFFICES ASSUME IInv, BInv, AddChunk PROVE BInv' OBVIOUS
  <1>1. Types /\ pc = "chunks" /\ pc' = "chunks" BY DEF IInv, AddChunk
  <1>2. UNCHANGED <<request, frames, beats, refused>> BY DEF AddChunk
  <1>3. DOMAIN beats = 1 .. Len(beats) /\ Len(chunks) \in Nat BY <1>1, Indices
  <1> DEFINE end == Done + Contribution + 1
             new == [start |-> Done, end |-> end, frames |-> Contribution + 1,
                     beats |-> {i \in 1 .. Len(beats) : Overlaps(beats[i], Done, end)}]
  <1>4. chunks' = Append(chunks, new) BY <1>3 DEF AddChunk, WindowStart
  <1>5. /\ new.start = Done /\ new.end = end
        /\ new.beats = {i \in 1 .. Len(beats) : Overlaps(beats[i], Done, end)}
    OBVIOUS
  <1> HIDE DEF end, new
  <1>6. chunks \in Seq(Chunk) BY <1>1 DEF Types
  <1>7. /\ Len(chunks') = Len(chunks) + 1 /\ chunks'[Len(chunks) + 1] = new
        /\ \A k \in 1 .. Len(chunks) : chunks'[k] = chunks[k]
    BY <1>4, <1>6
  <1>8. \A k \in 1 .. Len(chunks') :
          chunks'[k].beats = {i \in 1 .. Len(beats) : Overlaps(beats[i], chunks'[k].start,
                                                                chunks'[k].end)}
    <2> TAKE k \in 1 .. Len(chunks')
    <2>1. CASE k = Len(chunks) + 1 BY <1>5, <1>7, <2>1
    <2>2. CASE k # Len(chunks) + 1
      <3>1. k \in 1 .. Len(chunks) BY <1>3, <1>7, <2>2
      <3> QED BY <1>7, <3>1 DEF BInv, Speaks
    <2> QED BY <2>1, <2>2
  <1>9. Speaks' BY <1>2, <1>8 DEF Speaks, Overlaps
  <1> QED BY <1>1, <1>2, <1>9, WindowsFrame

LEMMA OtherBeats ==
    ASSUME IInv, BInv, EndChunks \/ AddSpan \/ EndSpans \/ UNCHANGED vars, IInv'
    PROVE  BInv'
  <1>1. UNCHANGED <<request, frames, beats, chunks>>
    BY DEF EndChunks, AddSpan, EndSpans, vars
  <1>2. Speaks' BY <1>1 DEF BInv, Speaks
  <1>3. CASE UNCHANGED vars
    <2>1. UNCHANGED <<pc, refused>> BY <1>3 DEF vars
    <2>2. Covers' = Covers /\ Collapses' = Collapses /\ Last' = Last
      BY <1>1 DEF Covers, Collapses, Allowance, Drift, Cursor, Last
    <2>3. Laid' /\ AsAsked' BY <1>1, <2>1 DEF BInv, Laid, AsAsked
    <2>4. Fitted' /\ Reasons' BY <1>1, <2>1, <2>2 DEF BInv, Fitted, Reasons
    <2> QED BY <1>2, <2>3, <2>4 DEF BInv
  <1>4. CASE EndChunks BY <1>1, <1>2, <1>4, WindowsFrame DEF EndChunks
  <1>5. CASE AddSpan
    <2>1. refused' \in {"", "step", "coverage", "collapse"} BY DEF IInv, Types
    <2>2. UNCHANGED <<pc, refused>> BY <1>5, <2>1 DEF AddSpan, Refuse
    <2> QED BY <1>1, <1>2, <1>5, <2>2, WindowsFrame DEF AddSpan
  <1>6. CASE EndSpans
    <2>1. refused' \in {"", "step", "coverage", "collapse"} BY DEF IInv, Types
    <2>2. pc' = "planned" /\ UNCHANGED refused BY <1>6, <2>1 DEF EndSpans, Refuse
    <2> QED BY <1>1, <1>2, <1>6, <2>2, WindowsFrame DEF EndSpans
  <1> QED BY <1>3, <1>4, <1>5, <1>6

LEMMA Kept == Spec => []BInv
  <1>1. IInv /\ BInv /\ [Next]_vars /\ IInv' => BInv'
    BY StartBeats, AddBeatBeats, FitBeatsBeats, AddChunkBeats, OtherBeats DEF Next
  <1> QED BY <1>1, InitBeats, Inductive, PTL DEF Spec

-----------------------------------------------------------------------------
(* Beats and windows *)

\* An aligned difference that is not zero is at least a step.
LEMMA AtLeastAStep ==
    ASSUME NEW d \in Nat \ {0}, d % Step = 0
    PROVE  d >= Step
  <1>1. Step \in Nat \ {0} BY PlanAssumption
  <1>2. d \div Step \in Nat /\ d = Step * (d \div Step) BY <1>1, DivideByStep
  <1>3. d \div Step >= 1 BY <1>1, <1>2
  <1> QED BY <1>1, <1>2, <1>3, Z3

\* What a window covers: it begins on the timeline and ends after it begins.
LEMMA WindowBounds ==
    ASSUME Types, Phases, ChunksOK, pc # "start", NEW k \in 1 .. Len(chunks)
    PROVE  /\ chunks[k].start \in Nat /\ chunks[k].end \in Nat
           /\ chunks[k].start < chunks[k].end /\ chunks[k].start < frames
  <1>1. Step \in Nat \ {0} /\ Window \in Nat \ {0} BY PlanAssumption
  <1>2. /\ chunks[k] \in Chunk /\ total \in Nat /\ frames \in Nat /\ frames > 0
        /\ total = Transitions(frames)
    BY Indices DEF Types, Phases
  <1>3. /\ k = 1 => chunks[k].start = 0
        /\ k > 1 => chunks[k].start < total
        /\ chunks[k].start <= total
        /\ chunks[k].frames = Least(Window, total - chunks[k].start) + 1
        /\ chunks[k].end = chunks[k].start + chunks[k].frames
        /\ chunks[k].start % Step = 0
    BY DEF ChunksOK
  <1> DEFINE s == chunks[k].start
  <1>4. s \in Nat /\ chunks[k].end \in Nat BY <1>2 DEF Chunk
  <1>5. s < chunks[k].end BY <1>1, <1>2, <1>3, <1>4 DEF Least
  <1>6. CASE k = 1 BY <1>2, <1>3, <1>4, <1>5, <1>6
  <1>7. CASE k # 1
    <2>1. total % Step = 0 /\ total < frames - 1 + Step BY <1>2, TransitionsBound
    <2>2. s < total BY <1>3, <1>7
    <2>3. (total - s) % Step = 0 BY <1>2, <1>3, <1>4, <2>1, AlignedDifference
    <2>4. total - s \in Nat \ {0} BY <1>2, <1>4, <2>2
    <2>5. total - s >= Step BY <2>3, <2>4, AtLeastAStep
    <2> QED BY <1>1, <1>2, <1>4, <1>5, <2>1, <2>5
  <1> QED BY <1>6, <1>7

\* The beats as numbers: each has a frame and none reaches beyond the last.
LEMMA BeatBounds ==
    ASSUME Types, BeatsOK, Laid, beats # <<>>, NEW i \in 1 .. Len(beats)
    PROVE  /\ beats[i].start \in Nat /\ beats[i].end \in Nat /\ beats[i].asked \in Nat
           /\ beats[i].start < beats[i].end /\ beats[i].end <= Last.end
           /\ Len(beats) \in 1 .. Len(beats) /\ Last.end \in Nat
  <1> DEFINE n == Len(beats)
  <1>1. n \in Nat BY Indices
  <1>2. n \in 1 .. n /\ i \in 1 .. n BY <1>1
  <1>3. beats[i] \in Beat /\ beats[n] \in Beat BY <1>2, Indices
  <1>4. beats[n].start < beats[n].end /\ beats[i].start < beats[i].end BY <1>2 DEF BeatsOK
  <1>5. i < n => beats[i].end <= beats[n].start BY <1>2 DEF Laid
  <1> QED BY <1>1, <1>2, <1>3, <1>4, <1>5 DEF Beat, Last

\* The frame a window begins with belongs to a beat.
LEMMA WindowSpeaks ==
    ASSUME IInv, BInv, pc \in {"chunks", "spans", "planned"}, beats # <<>>,
           NEW k \in 1 .. Len(chunks)
    PROVE  chunks[k].beats # {}
  <1>1. Types /\ Phases /\ ChunksOK /\ BeatsOK /\ Laid BY DEF IInv, BInv
  <1> DEFINE s == chunks[k].start
             n == Len(beats)
             S == {i \in 1 .. n : s < beats[i].end}
  <1>2. s \in Nat /\ chunks[k].end \in Nat /\ s < chunks[k].end /\ s < frames
    BY <1>1, WindowBounds
  <1>3. n \in 1 .. n
    <2>1. n \in Nat \ {0} BY <1>1, LastElement DEF Types
    <2> QED BY <2>1
  <1>4. beats[n].end = frames BY DEF BInv, Fitted, Last
  <1>5. S # {} /\ S \in SUBSET Nat BY <1>2, <1>3, <1>4
  <1>6. PICK i \in S : \A j \in S : i <= j BY <1>5, LeastNatural
  <1> HIDE DEF S
  <1>7. i \in 1 .. n /\ s < beats[i].end BY <1>6 DEF S
  <1>8. beats[i].start <= s
    <2>1. CASE i = 1 BY <1>1, <1>2, <2>1 DEF Laid
    <2>2. CASE i # 1
      <3>1. i - 1 \in 1 .. n /\ i \in 2 .. n /\ ~(i <= i - 1) BY <1>7, <2>2
      <3>2. i - 1 \notin S BY <1>6, <3>1
      <3>3. ~(s < beats[i - 1].end) BY <3>1, <3>2 DEF S
      <3>4. beats[i].start = beats[i - 1].end BY <1>1, <3>1 DEF Laid
      <3>5. beats[i - 1].end \in Nat BY <1>1, <3>1, BeatBounds
      <3> QED BY <1>2, <3>3, <3>4, <3>5
    <2> QED BY <2>1, <2>2
  <1>9. beats[i].start \in Nat BY <1>1, <1>7, BeatBounds
  <1>10. Overlaps(beats[i], s, chunks[k].end) BY <1>2, <1>7, <1>8, <1>9 DEF Overlaps
  <1> QED BY <1>7, <1>10 DEF BInv, Speaks

\* The frame a beat begins with belongs to a window.
LEMMA BeatSpoken ==
    ASSUME IInv, BInv, pc \in {"spans", "planned"}, beats # <<>>, NEW i \in 1 .. Len(beats)
    PROVE  \E k \in 1 .. Len(chunks) : i \in chunks[k].beats
  <1>1. Types /\ Phases /\ ChunksOK /\ BeatsOK /\ Laid BY DEF IInv, BInv
  <1> DEFINE b == beats[i].start
             n == Len(chunks)
             S == {k \in 1 .. n : b < chunks[k].end}
  <1>2. /\ b \in Nat /\ beats[i].end \in Nat /\ b < beats[i].end /\ beats[i].end <= Last.end
        /\ Last.end \in Nat
    BY <1>1, BeatBounds
  <1>3. Last.end = frames BY DEF BInv, Fitted
  <1>4. chunks # <<>> /\ Done = total /\ frames \in Nat \ {0} /\ total = Transitions(frames)
    BY <1>1, Reached
  <1>5. n \in 1 .. n
    <2>1. n \in Nat \ {0} BY <1>1, <1>4, LastElement DEF Types
    <2> QED BY <2>1
  <1>6. chunks[n].end \in Nat BY <1>1, <1>5, WindowBounds
  <1>7. chunks[n].end - 1 = total BY <1>4 DEF Done
  <1>8. total >= frames - 1 /\ total \in Nat BY <1>4, TransitionsBound
  <1>9. b < chunks[n].end BY <1>2, <1>3, <1>4, <1>6, <1>7, <1>8
  <1>10. S # {} /\ S \in SUBSET Nat BY <1>5, <1>9
  <1>11. PICK k \in S : \A j \in S : k <= j BY <1>10, LeastNatural
  <1> HIDE DEF S
  <1>12. k \in 1 .. n /\ b < chunks[k].end BY <1>11 DEF S
  <1>13. chunks[k].start < beats[i].end
    <2>1. CASE k = 1
      <3>1. chunks[k].start = 0 BY <1>1, <1>12, <2>1 DEF ChunksOK
      <3> QED BY <1>2, <3>1
    <2>2. CASE k # 1
      <3>1. k - 1 \in 1 .. n /\ k > 1 /\ ~(k <= k - 1) BY <1>12, <2>2
      <3>2. k - 1 \notin S BY <1>11, <3>1
      <3>3. ~(b < chunks[k - 1].end) BY <3>1, <3>2 DEF S
      <3>4. chunks[k].start = chunks[k - 1].end - 1 BY <1>1, <1>12, <3>1 DEF ChunksOK
      <3>5. chunks[k - 1].end \in Nat BY <1>1, <3>1, WindowBounds
      <3> QED BY <1>2, <3>3, <3>4, <3>5
    <2> QED BY <2>1, <2>2
  <1>14. Overlaps(beats[i], chunks[k].start, chunks[k].end) BY <1>12, <1>13 DEF Overlaps
  <1> QED BY <1>12, <1>14 DEF BInv, Speaks

\* Beats and windows are laid end to end, so that each begins inside one of the others.
LEMMA ServesBeats == IInv /\ BInv => BeatsServed
  <1> SUFFICES ASSUME IInv, BInv, pc \in {"chunks", "spans", "planned"}, beats # <<>>
               PROVE  /\ beats[1].start = 0 /\ Last.end = frames
                      /\ \A i \in 2 .. Len(beats) : beats[i].start = beats[i - 1].end
                      /\ \A k \in DOMAIN chunks : chunks[k].beats # {}
                      /\ pc # "chunks" =>
                           UNION {chunks[k].beats : k \in DOMAIN chunks} = DOMAIN beats
    BY DEF BeatsServed
  <1>1. DOMAIN chunks = 1 .. Len(chunks) /\ DOMAIN beats = 1 .. Len(beats)
    BY Indices DEF IInv
  <1>2. /\ beats[1].start = 0
        /\ \A i \in 2 .. Len(beats) : beats[i].start = beats[i - 1].end
    BY DEF BInv, Laid
  <1>3. Last.end = frames BY DEF BInv, Fitted
  <1>4. \A k \in DOMAIN chunks : chunks[k].beats # {} BY <1>1, WindowSpeaks
  <1>5. \A k \in DOMAIN chunks : chunks[k].beats \subseteq 1 .. Len(beats)
    BY <1>1 DEF BInv, Speaks
  <1>6. ASSUME pc # "chunks"
        PROVE  UNION {chunks[k].beats : k \in DOMAIN chunks} = DOMAIN beats
    <2>1. \A i \in 1 .. Len(beats) : \E k \in 1 .. Len(chunks) : i \in chunks[k].beats
      BY <1>6, BeatSpoken
    <2> QED BY <1>1, <1>5, <2>1
  <1> QED BY <1>2, <1>3, <1>4, <1>6

-----------------------------------------------------------------------------
(* The rounding of the beats adds up to less than the timeline may absorb. *)

\* How far the end of beat i is from where the durations put it, in half ticks.
Astray(i) == 2 * (Ticks * beats[i].end) - 2 * Asked[i]

\* A sum of durations is a natural number.
LEMMA AskedIsSum ==
    ASSUME Types
    PROVE  \A n \in 0 .. Len(beats) : Asked[n] \in Nat
  <1> DEFINE S == {n \in 0 .. Len(beats) : Asked[n] \notin Nat}
  <1> SUFFICES ASSUME S # {} PROVE FALSE OBVIOUS
  <1>1. Len(beats) \in Nat BY Indices
  <1>2. S \in SUBSET Nat BY <1>1
  <1>3. PICK n \in S : \A m \in S : n <= m BY <1>2, LeastNatural
  <1>4. n # 0 BY AskedSums
  <1>5. n \in Nat \ {0} /\ n - 1 \in 0 .. Len(beats) /\ n \in 1 .. Len(beats)
    BY <1>1, <1>3, <1>4
  <1>6. n - 1 \notin S BY <1>3, <1>5
  <1>7. Asked[n - 1] \in Nat BY <1>5, <1>6
  <1>8. beats[n].asked \in Nat BY <1>5, Indices DEF Beat
  <1>9. Asked[n] = Asked[n - 1] + beats[n].asked BY <1>5, AskedSums
  <1>10. Asked[n] \in Nat BY <1>7, <1>8, <1>9
  <1> QED BY <1>3, <1>10

\* The roundings of i beats add up to i half frames at most.
LEMMA RoundingAddsUp ==
    ASSUME Types, BeatsOK, Laid, beats # <<>>,
           \A i \in 1 .. Len(beats) : /\ Near(beats[i].end - beats[i].start, beats[i].asked)
                                      /\ beats[i].asked > Ticks
    PROVE  \A i \in 1 .. Len(beats) : Astray(i) \in -(Ticks * i) .. Ticks * i
  <1> DEFINE S == {i \in 1 .. Len(beats) : Astray(i) \notin -(Ticks * i) .. Ticks * i}
  <1> SUFFICES ASSUME S # {} PROVE FALSE OBVIOUS
  <1>1. Len(beats) \in Nat /\ Ticks \in Nat \ {0} BY Indices, PlanAssumption
  <1>2. S \in SUBSET Nat BY <1>1
  <1>3. PICK i \in S : \A j \in S : i <= j BY <1>2, LeastNatural
  <1>4. i \in 1 .. Len(beats) /\ i \in Nat \ {0} BY <1>1, <1>3
  <1> HIDE DEF S
  <1> DEFINE e == beats[i].end
             b == beats[i].start
             a == beats[i].asked
  <1>5. e \in Nat /\ b \in Nat /\ a \in Nat /\ b < e BY <1>4, BeatBounds
  <1>6. 2 * (Ticks * (e - b)) - 2 * a \in -Ticks .. Ticks BY <1>4 DEF Near
  <1>7. Asked[i] = Asked[i - 1] + a /\ i - 1 \in 0 .. Len(beats) BY <1>4, AskedSums
  <1>8. Asked[i - 1] \in Nat BY <1>7, AskedIsSum
  <1>9. 2 * (Ticks * b) - 2 * Asked[i - 1] \in -(Ticks * (i - 1)) .. Ticks * (i - 1)
    <2>1. CASE i = 1
      <3>1. b = 0 /\ Asked[i - 1] = 0 BY <2>1, AskedSums DEF Laid
      <3>2. Ticks * b = 0 /\ Ticks * (i - 1) = 0 BY <1>1, <2>1, <3>1
      <3> QED BY <3>1, <3>2
    <2>2. CASE i # 1
      <3>1. i - 1 \in 1 .. Len(beats) /\ i \in 2 .. Len(beats) /\ ~(i <= i - 1)
        BY <1>4, <2>2
      <3>2. i - 1 \notin S BY <1>3, <3>1
      <3>3. Astray(i - 1) \in -(Ticks * (i - 1)) .. Ticks * (i - 1) BY <3>1, <3>2 DEF S
      <3>4. b = beats[i - 1].end BY <3>1 DEF Laid
      <3> QED BY <3>3, <3>4 DEF Astray
    <2> QED BY <2>1, <2>2
  <1> HIDE DEF e, b, a
  <1>10. Ticks * (e - b) = Ticks * e - Ticks * b /\ Ticks * (i - 1) = Ticks * i - Ticks
    BY <1>1, <1>4, <1>5
  <1>11. Ticks * e \in Int /\ Ticks * b \in Int /\ Ticks * i \in Int BY <1>1, <1>4, <1>5
  <1>12. 2 * (Ticks * e) - 2 * Asked[i] \in -(Ticks * i) .. Ticks * i
    <2> DEFINE te == Ticks * e
               tb == Ticks * b
               ti == Ticks * i
               sum == Asked[i - 1]
    <2>1. 2 * (te - tb) - 2 * a \in -Ticks .. Ticks BY <1>6, <1>10 DEF e, b, a
    <2>2. 2 * tb - 2 * sum \in -(ti - Ticks) .. ti - Ticks BY <1>9, <1>10 DEF b
    <2>3. te \in Int /\ tb \in Int /\ ti \in Int /\ sum \in Int /\ Asked[i] = sum + a
      BY <1>7, <1>8, <1>11 DEF a
    <2> HIDE DEF te, tb, ti, sum
    <2>4. 2 * te - 2 * (sum + a) \in -ti .. ti BY <1>1, <1>5, <2>1, <2>2, <2>3
    <2> QED BY <2>3, <2>4 DEF te, ti
  <1>13. Astray(i) \in -(Ticks * i) .. Ticks * i BY <1>12 DEF Astray, e
  <1> QED BY <1>3, <1>13 DEF S

\* The allowance is one frame for two beats.
LEMMA AllowanceIsHalf ==
    ASSUME NEW d \in Int, Len(beats) \in Nat, 2 * d <= Len(beats) + 1
    PROVE  Allowance \in Nat \ {0} /\ d <= Allowance
  <1>1. Ceiling(Len(beats), 2) \in Int /\ d <= Ceiling(Len(beats), 2) BY DEF Ceiling
  <1> QED BY <1>1 DEF Allowance, Most

\* The total is then within the allowance, and no last beat is short enough to collapse.
LEMMA AcceptsConsistent == IInv /\ BInv => ConsistentAccepted
  <1> SUFFICES ASSUME IInv, BInv, Asked[Len(beats)] = request,
                      \A i \in DOMAIN beats : beats[i].asked > Ticks * (1 + Allowance),
                      refused \in {"coverage", "collapse"}
               PROVE  FALSE
    BY DEF ConsistentAccepted
  <1> DEFINE n == Len(beats)
             T == Ticks
  <1>1. Types /\ BeatsOK /\ Laid /\ beats # <<>> BY DEF IInv, BInv, Reasons
  <1>2. T \in Nat \ {0} /\ request \in Nat BY <1>1, PlanAssumption DEF Types
  <1>3. n \in Nat \ {0} /\ n \in 1 .. n
    <2>1. n \in Nat \ {0} BY <1>1, LastElement DEF Types
    <2> QED BY <2>1
  <1>4. Allowance \in Nat \ {0} BY <1>3, AllowanceIsHalf
  <1>5. T * (1 + Allowance) >= 2 * T /\ T * (1 + Allowance) \in Nat BY <1>2, <1>4
  <1>6. \A i \in 1 .. n : beats[i].asked > T * (1 + Allowance) /\ beats[i].asked \in Nat
    BY <1>1, Indices, BeatBounds
  <1>7. \A i \in 1 .. n : beats[i].asked > T BY <1>2, <1>5, <1>6
  <1>8. \A i \in 1 .. n : Near(beats[i].end - beats[i].start, beats[i].asked)
    BY DEF BInv, AsAsked
  <1>9. Astray(n) \in -(T * n) .. T * n BY <1>1, <1>3, <1>7, <1>8, RoundingAddsUp
  <1> DEFINE c == beats[n].end
             f == frames
  <1>10. c \in Nat /\ beats[n].start \in Nat /\ beats[n].start < c BY <1>1, <1>3, BeatBounds
  <1>11. f \in Nat /\ f = TimelineFrames(request)
    <2>1. pc # "start" BY <1>1 DEF BInv, Fitted
    <2> QED BY <1>1, <2>1 DEF BInv, Fitted, Types
  <1>12. request > T
    <2>1. Asked[n] = Asked[n - 1] + beats[n].asked /\ n - 1 \in 0 .. n BY <1>3, AskedSums
    <2>2. Asked[n - 1] \in Nat BY <1>1, <2>1, AskedIsSum
    <2> QED BY <1>2, <1>3, <1>6, <1>7, <2>1, <2>2
  <1>13. 2 * (T * f) - 2 * request \in -T .. T BY <1>2, <1>11, <1>12, RoundedNear DEF Near
  <1>14. 2 * (T * c) - 2 * request \in -(T * n) .. T * n BY <1>9 DEF Astray
  <1> HIDE DEF n, T, c, f
  <1>15. /\ T * f \in Int /\ T * c \in Int /\ T * n \in Int
         /\ T * (2 * (f - c)) = 2 * (T * f) - 2 * (T * c) /\ T * (n + 1) = T * n + T
         /\ T * (2 * (c - f)) = 2 * (T * c) - 2 * (T * f)
    BY <1>2, <1>3, <1>10, <1>11, SMTT(30)
  <1>16. T * (2 * (f - c)) <= T * (n + 1) /\ T * (2 * (c - f)) <= T * (n + 1)
    <2> DEFINE tf == T * f
               tc == T * c
               tn == T * n
    <2>1. 2 * tf - 2 * request \in -T .. T /\ 2 * tc - 2 * request \in -tn .. tn
      BY <1>13, <1>14
    <2>2. tf \in Int /\ tc \in Int /\ tn \in Int BY <1>15
    <2> HIDE DEF tf, tc, tn
    <2>3. 2 * tf - 2 * tc <= tn + T /\ 2 * tc - 2 * tf <= tn + T BY <1>2, <2>1, <2>2
    <2> QED BY <1>15, <2>3 DEF tf, tc, tn
  <1>17. \A x, y \in Int : T * x <= T * y => x <= y
    <2> TAKE x, y \in Int
    <2> HAVE T * x <= T * y
    <2> SUFFICES ASSUME x >= y + 1 PROVE FALSE OBVIOUS
    <2>1. T * x >= T * (y + 1) BY <1>2
    <2>2. T * (y + 1) = T * y + T /\ T * x \in Int /\ T * y \in Int BY <1>2
    <2> QED BY <1>2, <2>1, <2>2
  <1>18. 2 * (f - c) <= n + 1 /\ 2 * (c - f) <= n + 1
    BY <1>3, <1>10, <1>11, <1>16, <1>17
  <1>19. f - c <= Allowance /\ c - f <= Allowance
    BY <1>3, <1>10, <1>11, <1>18, AllowanceIsHalf DEF n
  <1>20. Cursor = c BY <1>1 DEF Cursor, c, n
  <1>21. Drift = f - c /\ -Drift = c - f BY <1>10, <1>11, <1>20 DEF Drift, f
  <1>22. Covers BY <1>19, <1>21 DEF Covers
  <1>23. Collapses BY <1>22 DEF BInv, Reasons
  <1> DEFINE b == beats[n].start
             a == beats[n].asked
  <1>24. c + (f - c) <= b BY <1>21, <1>23 DEF Collapses, Last, c, n
  <1>25. 2 * (T * (c - b)) - 2 * a \in -T .. T BY <1>3, <1>7, <1>8 DEF Near, c, T
  <1>26. a > T * (1 + Allowance) /\ a \in Nat /\ b \in Nat BY <1>3, <1>6, <1>10
  <1> HIDE DEF b, a
  <1>27. c - b <= Allowance BY <1>4, <1>10, <1>11, <1>19, <1>24, <1>26
  <1>28. T * (c - b) <= T * Allowance
    <2>1. \A x \in Nat : T * x \in Nat BY <1>2
    <2>2. Allowance - (c - b) \in Nat BY <1>4, <1>10, <1>26, <1>27
    <2>3. T * (Allowance - (c - b)) = T * Allowance - T * (c - b) BY <1>2, <1>4, <1>10, <1>26
    <2>4. T * Allowance \in Int /\ T * (c - b) \in Int BY <1>2, <1>4, <1>10, <1>26
    <2> QED BY <2>1, <2>2, <2>3, <2>4
  <1>29. T * (1 + Allowance) = T + T * Allowance /\ T * Allowance \in Int
         /\ T * (c - b) \in Int
    BY <1>2, <1>4, <1>10, <1>26
  <1> QED BY <1>2, <1>25, <1>26, <1>28, <1>29

\* The beats the author asked for partition the timeline and are all spoken, and a plan whose
\* beats add up to the duration of the scene is never refused for their rounding.
THEOREM PlanKeepsBeats == Spec => []BeatsKept
  <1>1. IInv /\ BInv => BeatsKept BY ServesBeats, AcceptsConsistent DEF BeatsKept
  <1> QED BY <1>1, Inductive, Kept, PTL
=============================================================================
