---------------------------- MODULE ContinuationPlan ----------------------------
(***************************************************************************)
(* The temporal plan of a continuation scene (continuation.py): how a      *)
(* requested duration becomes a timeline, the timeline a sequence of model *)
(* windows (chunks) and the beats of the author a partition of it, and     *)
(* which frames of each rendered window are committed to the master.       *)
(* One action per iteration of the loops of build_scene_frame_plan and     *)
(* assembly_spans.                                                         *)
(*                                                                         *)
(* Durations are counted in ticks, Ticks to a frame, so that the rounding  *)
(* of fractional frames is in the model; prompts and seeds are not.        *)
(***************************************************************************)
EXTENDS Integers, Sequences

CONSTANTS Step,       \* LTX_TEMPORAL_STEP
          Window,     \* BASE_WINDOW_TRANSITIONS
          Ticks,      \* the precision of a duration
          Requests,   \* the durations a scene may ask for, in ticks
          Durations,  \* the durations a beat may ask for, in ticks
          Moves,      \* or its new_transition_frames, in frames
          MaxBeats    \* bound: beats of a scene

ASSUME PlanAssumption == /\ Step \in Nat \ {0} /\ Window \in Nat \ {0} /\ Ticks \in Nat \ {0}
                         /\ Window % Step = 0
                         /\ Requests \subseteq Nat \ {0} /\ Durations \subseteq Nat \ {0}
                         /\ Moves \subseteq Nat /\ MaxBeats \in Nat

VARIABLES pc,      \* the loop the planner is in, or how it ended
          request, \* the duration asked for
          frames,  \* timeline_output_frames
          total,   \* generation_transition_frames
          beats,   \* the segments on the timeline: [start, end), and what they asked for
          chunks,  \* the windows planned: [start, end) on the master, frames, beats
          spans,   \* what is committed of each window: [from, to) goes to [first, last)
          refused  \* why there is no plan

vars == <<pc, request, frames, total, beats, chunks, spans, refused>>

-----------------------------------------------------------------------------
Least(a, b) == IF a < b THEN a ELSE b
Most(a, b) == IF a > b THEN a ELSE b
Ceiling(n, d) == (n + d - 1) \div d

\* Python's round: halves go to the even frame.
Rounded(t) == LET q == t \div Ticks
                  r == t % Ticks
              IN CASE 2 * r < Ticks -> q
                   [] 2 * r > Ticks -> q + 1
                   [] OTHER -> q + (q % 2)

TimelineFrames(t) == Most(1, Rounded(t))
Transitions_Floor(n) == Step * ((n - 1) \div Step)
Transitions(n) == Step * Ceiling(n - 1, Step)

Refuse(why) == pc' = "refused" /\ refused' = why

Start == /\ pc = "start"
         /\ frames' = TimelineFrames(request)
         /\ total' = Transitions(TimelineFrames(request))
         /\ pc' = "beats"
         /\ UNCHANGED <<request, beats, chunks, spans, refused>>

-----------------------------------------------------------------------------
(* materialize_segments *)
Cursor == IF beats = <<>> THEN 0 ELSE beats[Len(beats)].end

AppendBeat(length, asked) == beats' = Append(beats, [start |-> Cursor, end |-> Cursor + length,
                                                  asked |-> asked])

AddBeat == /\ pc = "beats" /\ Len(beats) < MaxBeats
           /\ \/ \E t \in Durations : /\ AppendBeat(TimelineFrames(t), t)
                                      /\ UNCHANGED <<pc, refused>>
              \/ \E n \in Moves :
                   IF n % Step = 0
                   THEN AppendBeat(Most(1, n), n * Ticks) /\ UNCHANGED <<pc, refused>>
                   ELSE Refuse("step") /\ UNCHANGED beats
           /\ UNCHANGED <<request, frames, total, chunks, spans>>

Drift == frames - Cursor
Allowance_One == 1
Allowance == Most(1, Ceiling(Len(beats), 2))
Last == beats[Len(beats)]

\* The last beat takes what the rounding of the others left over.
Collapses_Never == FALSE
Collapses == Last.end + Drift <= Last.start

Covers == Drift <= Allowance /\ -Drift <= Allowance
FitBeats ==
    /\ pc = "beats"
    /\ \/ /\ beats = <<>>
          /\ pc' = "chunks" /\ UNCHANGED <<beats, refused>>
       \/ /\ beats # <<>> /\ ~Covers
          /\ Refuse("coverage") /\ UNCHANGED beats
       \/ /\ beats # <<>> /\ Covers /\ Drift # 0 /\ Collapses
          /\ Refuse("collapse") /\ UNCHANGED beats
       \/ /\ beats # <<>> /\ Covers /\ ~(Drift # 0 /\ Collapses)
          /\ beats' = [beats EXCEPT ![Len(beats)].end = @ + Drift]
          /\ pc' = "chunks" /\ UNCHANGED refused
    /\ UNCHANGED <<request, frames, total, chunks, spans>>

-----------------------------------------------------------------------------
(* transition_contributions and the loop of build_scene_frame_plan *)
Done == IF chunks = <<>> THEN 0 ELSE chunks[Len(chunks)].end - 1
More == chunks = <<>> \/ Done < total
Contribution_Whole == total - Done
Contribution == Least(Window, total - Done)

\* A window begins with the last frame of the window before it.
WindowStart_Next == IF chunks = <<>> THEN 0 ELSE Done + 1
WindowStart == Done
Overlaps_End(b, start, end) == b.start < end /\ start > b.start /\ start < b.end
Overlaps(b, start, end) == b.start < end /\ start < b.end

AddChunk == /\ pc = "chunks" /\ More
            /\ LET end == Done + Contribution + 1
               IN chunks' = Append(chunks, [start |-> WindowStart, end |-> end,
                                            frames |-> Contribution + 1,
                                            beats |-> {i \in DOMAIN beats :
                                                  Overlaps(beats[i], WindowStart, end)}])
            /\ UNCHANGED <<pc, request, frames, total, beats, spans, refused>>

EndChunks == /\ pc = "chunks" /\ ~More
             /\ pc' = "spans"
             /\ UNCHANGED <<request, frames, total, beats, chunks, spans, refused>>

-----------------------------------------------------------------------------
(* assembly_spans, whose local ranges chunk_slices repeats for the sound *)
Master == IF spans = <<>> THEN 0 ELSE spans[Len(spans)].last
LocalStart_All(k) == 0
LocalStart(k) == IF k = 1 THEN 0 ELSE 1

AddSpan == /\ pc = "spans" /\ Len(spans) < Len(chunks)
           /\ LET k == Len(spans) + 1
                  from == LocalStart(k)
                  to == chunks[k].frames
              IN IF from < to
                 THEN /\ spans' = Append(spans, [from |-> from, to |-> to, first |-> Master,
                                                 last |-> Master + to - from])
                      /\ UNCHANGED <<pc, refused>>
                 ELSE Refuse("range") /\ UNCHANGED spans
           /\ UNCHANGED <<request, frames, total, beats, chunks>>

EndSpans == /\ pc = "spans" /\ Len(spans) = Len(chunks)
            /\ IF Master = total + 1 THEN pc' = "planned" /\ UNCHANGED refused
                                     ELSE Refuse("master")
            /\ UNCHANGED <<request, frames, total, beats, chunks, spans>>

\* continuation_is_enabled: "none" when the scene says nothing about continuation.
LongEnough_Fits(n) == n > Window
LongEnough(n) == n > Window + 1
Enabled(n, mode, explicit) == /\ LongEnough(n)
                              /\ mode # "disabled" /\ explicit # "no"
                              /\ mode = "explicit" => explicit = "yes"

Init == /\ pc = "start" /\ request \in Requests /\ frames = 0 /\ total = 0
        /\ beats = <<>> /\ chunks = <<>> /\ spans = <<>> /\ refused = ""

Next == Start \/ AddBeat \/ FitBeats \/ AddChunk \/ EndChunks \/ AddSpan \/ EndSpans

Spec == Init /\ [][Next]_vars

-----------------------------------------------------------------------------
(* Properties *)

\* The types; no window is longer than the model allows, every contribution is aligned, and
\* a beat has at least one frame.
TypeOK ==
    /\ pc \in {"start", "beats", "chunks", "spans", "planned", "refused"}
    /\ request \in Requests /\ frames \in Nat /\ total \in Nat
    /\ \A i \in DOMAIN beats : /\ beats[i].start \in Nat /\ beats[i].end \in Nat
                               /\ beats[i].start < beats[i].end
    /\ \A k \in DOMAIN chunks : chunks[k].frames \in 1 .. Window + 1
    /\ \A k \in DOMAIN chunks : (chunks[k].frames - 1) % Step = 0
    /\ Len(spans) <= Len(chunks)
    /\ refused \in {"", "step", "coverage", "collapse", "range", "master"}

\* Each frame of the master is committed by exactly one window: the spans cover it without a
\* gap and without a frame committed twice, and the whole plan commits Step-aligned motion
\* that is at least as long as the timeline and less than a step longer.
Tiles ==
    /\ \A j, k \in DOMAIN spans : j < k => spans[j].last <= spans[k].first
    /\ \A f \in 0 .. Master - 1 :
         \E k \in DOMAIN spans : spans[k].first <= f /\ f < spans[k].last
    /\ pc = "planned" => /\ Master = total + 1 /\ Master >= frames
                         /\ Master < frames + Step

\* A committed frame stands at the place of the timeline its window was rendered for: local
\* frame l of window k is frame start + l of the master.
InPlace == \A k \in DOMAIN spans :
    /\ spans[k].first = chunks[k].start + spans[k].from
    /\ spans[k].last = chunks[k].start + spans[k].to
    /\ spans[k].last = chunks[k].end

\* The hand-over: a later window starts from a frame that the window before it commits, its
\* last one, and commits something new.
HandsOver == \A k \in DOMAIN chunks : k > 1 =>
    /\ chunks[k].start = chunks[k - 1].end - 1
    /\ chunks[k].frames > 1

\* The consistency checks of the planner on its own plan never fire.
NeverInconsistent == refused \notin {"range", "master"}

\* Every window stands in its place and hands over to the next.
Placed == InPlace /\ HandsOver /\ NeverInconsistent

\* The beats are a partition of the timeline, and in a finished plan every beat is spoken
\* in some window and every window speaks of a beat.
BeatsServed ==
    pc \in {"chunks", "spans", "planned"} /\ beats # <<>> =>
      /\ beats[1].start = 0 /\ Last.end = frames
      /\ \A i \in 2 .. Len(beats) : beats[i].start = beats[i - 1].end
      /\ \A k \in DOMAIN chunks : chunks[k].beats # {}
      /\ pc # "chunks" => UNION {chunks[k].beats : k \in DOMAIN chunks} = DOMAIN beats

\* Beats whose durations add up to the duration of the scene are accepted, however the
\* frames of each are rounded, unless a beat is too short for the rounding it may absorb.
Asked[n \in Nat] == IF n = 0 THEN 0 ELSE Asked[n - 1] + beats[n].asked
ConsistentAccepted ==
    /\ Asked[Len(beats)] = request
    /\ \A i \in DOMAIN beats : beats[i].asked > Ticks * (1 + Allowance)
    => refused \notin {"coverage", "collapse"}

\* The beats the author asked for are kept: accepted when they fit, and all of them spoken.
BeatsKept == BeatsServed /\ ConsistentAccepted

\* The route and the plan agree: exactly the scenes that may take the continuation route
\* need more than one window.
RouteMatchesPlan ==
    pc \in {"spans", "planned"} =>
      /\ \A mode \in {"disabled", "explicit", "auto"}, explicit \in {"none", "yes", "no"} :
           Enabled(frames, mode, explicit) => Len(chunks) > 1
      /\ Len(chunks) > 1 => Enabled(frames, "auto", "none")
=============================================================================
