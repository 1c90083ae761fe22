----------------------------- MODULE FramePlan -----------------------------
(***************************************************************************)
(* From the frames of a source to the plans over its normalized output:    *)
(* the timeline (media/frame_probe.py, media/timeline.py), the filters     *)
(* that realise it (media/filters.py), the proxy scan (analysis/           *)
(* proxy_scan.py), scenes (analysis/scenes.py), preview samples (analysis/ *)
(* sampling.py), temporal windows (models/temporal/windows.py), the        *)
(* interpolation ticks (interpolation/timeline.py) and the chunks          *)
(* (ChunkPlan, which this module extends and drives).                      *)
(*                                                                         *)
(* Times are ticks of the source's time base.  A frame rate is the length  *)
(* of its frame in ticks, a fraction <<a, b>> for a / b, which is all that *)
(* fps and time base contribute to any plan.  The video may begin later    *)
(* than its container, by lead ticks, which no plan looks at and FFmpeg    *)
(* does.  Pixels are left out: a frame shows one of Pictures, and Scoring  *)
(* has the pairs of pictures whose comparison scores over the threshold.   *)
(***************************************************************************)
EXTENDS ChunkPlan, FiniteSetsExt

CONSTANTS Sources,    \* the frame timings ffprobe may report
          Leads,      \* ticks from the container's start to the first frame
          Periods,    \* output periods to plan for
          Cadences,   \* cadences of the proxy scan
          Pictures, Scoring,   \* what frames show, and which of it differs
          Policies,   \* window policies
          Steps,      \* input frames per interpolated frame, at most one
          MaxScanned  \* bound: longer timelines are not scanned

FrameTiming == [pts : Int, duration : Int, repeats : Int]
Rate == (Nat \ {0}) \X (Nat \ {0})
WindowPolicy == [core : Nat \ {0}, before : Nat, after : Nat]

\* Rates are positive (config.py), a cadence is at least one (_cadence), a
\* policy is valid (plan_windows), interpolation never lowers the rate.  A
\* container starts with the first of its streams.
ASSUME PlannerAssumption ==
  /\ Sources \subseteq Seq(FrameTiming) /\ Periods \subseteq Rate /\ Leads \subseteq Nat
  /\ Cadences \subseteq Nat \ {0} /\ Policies \subseteq WindowPolicy
  /\ Steps \subseteq Rate /\ \A r \in Steps : r[1] <= r[2]
  /\ Requests # {} /\ MaxScanned \in Nat

\* Equal pictures have neither motion nor a jump of luma (extract_features).
ASSUME PictureAssumption == \A shown \in Pictures : <<shown, shown>> \notin Scoring

VARIABLES stage,      \* the planning function that comes next
          source,     \* the source's frames
          lead,       \* how much later than its container it begins
          timing,     \* fps_policy and output period
          output,     \* output_frames of the timeline
          frames,     \* their number, all that the later plans use
          picture,    \* what each output frame shows
          scan,       \* the loops of scan_proxy and then of detect_scenes
          scenes, windows, ticks, samples

planning == <<source, lead, timing, output>>
results == <<windows, ticks, samples>>
chunking == <<request, start, chunks>>
planVars == <<stage, planning, frames, picture, scan, scenes, results, chunking>>

NoSamples == [count |-> 0, chosen |-> {}, bins |-> 0, bin |-> 0]
NoScan == [at |-> 0, previous |-> 0, cadence |-> 1, rows |-> <<>>, row |-> 0]

PlanInit ==
    /\ request = CHOOSE r \in Requests : TRUE
    /\ start = 0 /\ chunks = <<>>
    /\ stage = "probe" /\ frames = 0 /\ picture = <<>> /\ scan = NoScan
    /\ source \in Sources /\ lead \in Leads
    /\ timing = [policy |-> "source_cfr", period |-> <<1, 1>>]
    /\ output = <<>> /\ scenes = <<>> /\ windows = {} /\ ticks = <<>> /\ samples = NoSamples

---------------------------------------------------------------------------
(* The timeline.                                                           *)

Ceiling(n, d) == -((-n) \div d)
AtMostOneTick(n, d) == -d <= n /\ n <= d

\* parse_frame_lines, and again _validate_frames.
UsableTiming(src) ==
    /\ src # <<>>
    /\ \A i \in DOMAIN src : src[i].duration > 0
    /\ \A i \in DOMAIN src : i > 1 => src[i].pts > src[i - 1].pts

\* Slip: each frame is compared with the one before it.
IsCFRByGaps(src, p) ==
    \A i \in DOMAIN src :
      /\ i > 1 => AtMostOneTick((src[i].pts - src[i - 1].pts) * p[2] - p[1], p[2])
      /\ AtMostOneTick(src[i].duration * p[2] - p[1], p[2])

\* _require_cfr: every PTS within a tick of its ideal place, every duration
\* within a tick of the period.
IsCFR(src, p) ==
    \A i \in DOMAIN src :
      /\ AtMostOneTick((src[i].pts - src[1].pts) * p[2] - (i - 1) * p[1], p[2])
      /\ AtMostOneTick(src[i].duration * p[2] - p[1], p[2])

Duration(src) == src[Len(src)].pts + src[Len(src)].duration - src[1].pts

\* A position is a multiple of 1/p[2] ticks after the first frame.
Place(src, i, p) == (src[i].pts - src[1].pts) * p[2]

\* Slip: bisect_left instead of bisect_right.
ShownBefore(src, p, position) ==
    Max({1} \cup {i \in DOMAIN src : Place(src, i, p) < position})

\* bisect_right: the last source frame that has begun.
Shown(src, p, position) ==
    Max({1} \cup {i \in DOMAIN src : Place(src, i, p) <= position})

\* One pass of _normalized_frames: the source frame and, under rife, the one
\* to interpolate towards with the offset between them.
NormalizedFrame(src, policy, p, n) ==
    LET left == Shown(src, p, n * p[1])
        offset == n * p[1] - Place(src, left, p)
    IN IF policy = "rife" /\ offset # 0 /\ left < Len(src)
       THEN [left |-> left, right |-> left + 1, offset |-> offset,
             span |-> (src[left + 1].pts - src[left].pts) * p[2]]
       ELSE [left |-> left, right |-> left, offset |-> 0, span |-> 1]

OutputFrames(src, policy, p) ==
    IF policy = "source_cfr"
    THEN [i \in DOMAIN src |-> [left |-> i, right |-> i, offset |-> 0, span |-> 1]]
    ELSE [i \in 1 .. Ceiling(Duration(src) * p[2], p[1]) |->
            NormalizedFrame(src, policy, p, i - 1)]

\* plan_timeline; refused: unusable timing, telecine, not CFR.
PlanTimeline ==
    /\ stage = "probe"
    /\ \E policy \in {"source_cfr", "normalize_cfr", "rife"}, p \in Periods :
         /\ timing' = [policy |-> policy, period |-> p]
         /\ IF /\ UsableTiming(source)
               /\ \A i \in DOMAIN source : source[i].repeats <= 0
               /\ policy = "source_cfr" => IsCFR(source, p)
            THEN /\ output' = OutputFrames(source, policy, p)
                 /\ frames' = Len(output') /\ stage' = "timed"
            ELSE stage' = "refused" /\ UNCHANGED <<output, frames>>
    /\ UNCHANGED <<source, lead, picture, scan, scenes, results, chunking>>

(***************************************************************************)
(* The filter fps=fps=...:round=near:start_time=0 of build_timing_filter,  *)
(* as one decoder runs it.  External: FFmpeg counts time from the start of *)
(* the container (no -copyts), moves a frame to the output slot nearest to *)
(* it, and fills a slot with the last frame at or before it, those before  *)
(* the first frame with the first.  The trim to the planned frames cuts    *)
(* off what that pushes behind the end.                                    *)
(***************************************************************************)
Nearest(x, a) == (2 * x + a) \div (2 * a)
Slot(src, late, i, p) == Nearest(late * p[2] + Place(src, i, p), p[1])
Decoded(src, late, p, n) == Max({1} \cup {i \in DOMAIN src : Slot(src, late, i, p) <= n})

---------------------------------------------------------------------------
(* The proxy scan reads every output frame and keeps a row per cadence,    *)
(* and one for the last frame.                                             *)

BeginScan ==
    /\ stage = "timed" /\ frames <= MaxScanned
    /\ \E cadence \in Cadences : scan' = [NoScan EXCEPT !.cadence = cadence]
    /\ picture' \in [0 .. frames - 1 -> Pictures]
    /\ stage' = "scan"
    /\ source' = <<>> /\ lead' = 0 /\ timing' = <<>> /\ output' = <<>>  \* not used any more
    /\ UNCHANGED <<frames, scenes, results, chunking>>

\* Slip: compared with the frame before it.
NeighbourRow(at, previous) ==
    [index |-> at, cut |-> at > 0 /\ <<picture[at - 1], picture[at]>> \in Scoring]

\* A sampled picture against the previous sample: extract_features, and the
\* score that detect_scenes makes of it.  The first has nothing before it.
Row(at, previous) == [index |-> at, cut |-> <<picture[previous], picture[at]>> \in Scoring]

ScanFrame ==
    /\ stage = "scan" /\ scan.at < frames
    /\ LET sampled == scan.at % scan.cadence = 0
           last == scan.at = frames - 1
       IN /\ scan' = [scan EXCEPT !.at = @ + 1,
                       !.previous = IF sampled THEN scan.at ELSE @,
                       !.rows = IF sampled \/ last THEN Append(@, Row(scan.at, scan.previous))
                                                   ELSE @]
          /\ stage' = IF last THEN "scanned" ELSE stage
    /\ UNCHANGED <<planning, frames, picture, scenes, results, chunking>>

\* Scenes of which the last ends where the next begins.
Closed(parts, at) ==
    [i \in DOMAIN parts |-> IF i = Len(parts) THEN [parts[i] EXCEPT !.end = at] ELSE parts[i]]

\* One row of detect_scenes: the first, and each after it that scores, begins
\* a scene.
DetectScene ==
    /\ stage = "scanned" /\ scan.row < Len(scan.rows)
    /\ LET row == scan.rows[scan.row + 1] IN
         scenes' = IF scan.row = 0 \/ row.cut
                   THEN Append(Closed(scenes, row.index), [start |-> row.index, end |-> frames])
                   ELSE scenes
    /\ scan' = [scan EXCEPT !.row = @ + 1]
    /\ stage' = IF scan.row + 1 = Len(scan.rows) THEN "scenes" ELSE stage
    /\ UNCHANGED <<planning, frames, picture, results, chunking>>

\* Where a scene begins but the first.
Bounds == {scenes[i].start : i \in 2 .. Len(scenes)}

SceneOf(f) == CHOOSE i \in DOMAIN scenes : scenes[i].start <= f /\ f < scenes[i].end

---------------------------------------------------------------------------
(* What is planned over the scenes.                                        *)

\* plan_windows: cores of the policy's length inside each scene, with as
\* much context as the scene has.
Window(w, i, from) ==
    LET s == scenes[i]
        to == Smaller(from + w.core, s.end)
    IN [scene |-> i, from |-> from, to |-> to,
        inputFrom |-> Larger(s.start, from - w.before),
        inputTo |-> Smaller(s.end, to + w.after)]

Windows(w) ==
    UNION {{Window(w, i, f) : f \in {g \in scenes[i].start .. scenes[i].end - 1 :
                                      (g - scenes[i].start) % w.core = 0}} :
             i \in DOMAIN scenes}

PlanWindows ==
    /\ stage = "scenes"
    /\ \E w \in Policies : windows' = Windows(w)
    /\ stage' = "windows"
    /\ UNCHANGED <<planning, frames, picture, scan, scenes, ticks, samples, chunking>>

\* Slip: pairs of neighbours whatever their scenes.
TickOverCuts(n, r) ==
    LET left == Smaller((n * r[1]) \div r[2], frames - 1)
        offset == n * r[1] - left * r[2]
        alone == (n * r[1]) % r[2] = 0 \/ left + 1 >= frames
    IN [left |-> left, right |-> IF alone THEN left ELSE left + 1,
        offset |-> IF alone THEN 0 ELSE offset, over |-> r[2]]

\* plan_interpolation, tick n at n * r input frames: the frame before it
\* alone when it is exact, the last, or the next is of another scene.
Tick(n, r) ==
    LET left == Smaller((n * r[1]) \div r[2], frames - 1)
        offset == n * r[1] - left * r[2]
        alone == \/ (n * r[1]) % r[2] = 0
                 \/ left + 1 >= frames
                 \/ SceneOf(left) # SceneOf(left + 1)
    IN [left |-> left, right |-> IF alone THEN left ELSE left + 1,
        offset |-> IF alone THEN 0 ELSE offset, over |-> r[2]]

PlanInterpolation ==
    /\ stage = "scenes"
    /\ \E r \in Steps :
         ticks' = [i \in 1 .. Ceiling(frames * r[2], r[1]) |-> Tick(i - 1, r)]
    /\ stage' = "ticks"
    /\ UNCHANGED <<planning, frames, picture, scan, scenes, windows, samples, chunking>>

\* Slip: the frame behind a recorded cut stands for both of its sides.
MandatoryBehindCuts(extremes) ==
    {0, frames - 1} \cup extremes
      \cup {(scenes[i].start + scenes[i].end - 1) \div 2 : i \in DOMAIN scenes}
      \cup {scenes[i].start : i \in 2 .. Len(scenes)}

\* select_samples.  Extremes are the rows where some feature peaks; the rank
\* by source hash, which only breaks ties, is the index.
Mandatory(extremes) ==
    {0, frames - 1} \cup extremes
      \cup {(scenes[i].start + scenes[i].end - 1) \div 2 : i \in DOMAIN scenes}
      \cup UNION {{scenes[i].start - 1, scenes[i].start} : i \in 2 .. Len(scenes)}

\* The mandatory frames, or refused if there are more than asked for.
BeginSamples ==
    /\ stage = "scenes"
    /\ \E count \in 1 .. frames, peaks \in (SUBSET DOMAIN scan.rows) \ {{}} :
         LET mandatory == Mandatory({scan.rows[i].index : i \in peaks})
             bins == count - Cardinality(mandatory)
         IN IF bins < 0
            THEN stage' = "refused" /\ UNCHANGED samples
            ELSE /\ stage' = IF bins = 0 THEN "samples" ELSE "fill"
                 /\ samples' = [count |-> count, chosen |-> mandatory,
                                bins |-> bins, bin |-> 0]
    /\ UNCHANGED <<planning, frames, picture, scan, scenes, windows, ticks, chunking>>

Unselected(chosen) == (0 .. frames - 1) \ chosen

\* What is missing behind the last bin is taken in the order of the rank.
TopUp(chosen) ==
    {f \in Unselected(chosen) :
       Cardinality({g \in Unselected(chosen) : g < f}) < samples.count - Cardinality(chosen)}

\* One bin of the fill: the frame nearest to int((bin + 0.5) * frames / bins)
\* of those not selected yet.  Behind the last bin, or when no frame is left,
\* the sample is topped up.
FillBin ==
    /\ stage = "fill"
    /\ LET target == ((2 * samples.bin + 1) * frames) \div (2 * samples.bins)
           open == Unselected(samples.chosen)
           chosen == samples.chosen \cup (IF open = {} THEN {} ELSE {Closest(open, target)})
           last == open = {} \/ samples.bin + 1 = samples.bins
       IN /\ samples' = [samples EXCEPT !.chosen = IF last THEN chosen \cup TopUp(chosen)
                                                    ELSE chosen,
                                        !.bin = @ + 1]
          /\ stage' = IF last THEN "samples" ELSE stage
    /\ UNCHANGED <<planning, frames, picture, scan, scenes, windows, ticks, chunking>>

\* plan_chunks over the interior scene ends, then its loop.
BeginChunks ==
    /\ stage = "scenes"
    /\ \E r \in Requests :
         request' = [r EXCEPT !.frames = frames, !.sceneEnds = Bounds]
    /\ stage' = "chunks"
    /\ UNCHANGED <<planning, frames, picture, scan, scenes, results, start, chunks>>

NextChunk ==
    /\ stage = "chunks" /\ PlaceChunk
    /\ UNCHANGED <<stage, planning, frames, picture, scan, scenes, results>>

PlanNext == \/ PlanTimeline \/ BeginScan \/ ScanFrame \/ DetectScene
            \/ PlanWindows \/ PlanInterpolation
            \/ BeginSamples \/ FillBin \/ BeginChunks \/ NextChunk

PlanSpec == PlanInit /\ [][PlanNext]_planVars

---------------------------------------------------------------------------
(***************************************************************************)
(* A normalized timeline lasts as long as the source, to less than a       *)
(* frame; it shows each source frame from its time until the next one's,   *)
(* skips none that lasts a whole output frame, and interpolates strictly   *)
(* between two neighbours (_normalized_frames).                            *)
(***************************************************************************)
TimelineFollowsClock ==
    stage = "timed" /\ timing.policy # "source_cfr" =>
      LET p == timing.period
          lasts == Duration(source) * p[2]
          Begins(i) == IF i = Len(source) + 1 THEN lasts ELSE Place(source, i, p)
      IN /\ (frames - 1) * p[1] < lasts /\ lasts <= frames * p[1]
         /\ \A n \in DOMAIN output :
              /\ Begins(output[n].left) <= (n - 1) * p[1]
              /\ (n - 1) * p[1] < Begins(output[n].left + 1)
              /\ output[n].right # output[n].left =>
                   0 < output[n].offset /\ output[n].offset < output[n].span
         /\ \A i \in DOMAIN source : Begins(i + 1) - Begins(i) >= p[1] =>
              \E n \in DOMAIN output : output[n].left = i

(***************************************************************************)
(* A source accepted as CFR is decoded as planned, but delayed by the      *)
(* slots by which the video begins later than its container: its first     *)
(* frame is repeated that often and as many at its end are cut off.  The   *)
(* jitter of a tick that _require_cfr accepts moves no frame where a tick  *)
(* is too short to take it out of its slot, and never by more than one     *)
(* frame.  A video that begins with its container, at more than two ticks  *)
(* per frame, is so decoded exactly as planned.  In a normalized timeline  *)
(* the filter rounds where the plan takes the last frame that has begun:   *)
(* what is decoded is never behind the plan, and ahead of its moment by    *)
(* less than half an output frame.                                         *)
(***************************************************************************)
Delay(p) == Nearest(lead * p[2], p[1])
Steady(p) ==
    LET rest == lead * p[2] - Delay(p) * p[1]
    IN 2 * (rest + p[2]) < p[1] /\ 2 * (p[2] - rest) < p[1]

DecodedAsPlanned ==
    stage = "timed" =>
      LET p == timing.period
          decoded(n) == Decoded(source, lead, p, n - 1)
          delayed(n) == output[Larger(1, n - Delay(p))].left
      IN /\ timing.policy = "source_cfr" /\ p[1] >= p[2] =>
              \A n \in DOMAIN output :
                /\ delayed(n) - 1 <= decoded(n) /\ decoded(n) <= delayed(n) + 1
                /\ Steady(p) => decoded(n) = delayed(n)
         /\ timing.policy = "normalize_cfr" /\ lead = 0 =>
              \A n \in DOMAIN output :
                /\ output[n].left <= decoded(n)
                /\ 2 * Place(source, decoded(n), p) < (2 * n - 1) * p[1]

(***************************************************************************)
(* A recorded scene bound has a change of picture less than a cadence      *)
(* before it.  Not every change has a bound: sampled pictures are compared *)
(* and a shot that comes and goes between two of them is not seen.  But    *)
(* where two pictures that score meet and each is held for a cadence, or   *)
(* to the end of the video, a bound follows less than a cadence behind:    *)
(* plans that keep to the recorded scenes mix long shots only so far.      *)
(***************************************************************************)
Held(from, to) ==
    \A f, g \in DOMAIN picture : {f, g} \subseteq from .. to => picture[f] = picture[g]

CutsAreNear ==
    stage = "scenes" =>
      /\ \A b \in Bounds : \E c \in 1 .. b :
           b < c + scan.cadence /\ picture[c - 1] # picture[c]
      /\ \A c \in 1 .. frames - 1 :
           /\ <<picture[c - 1], picture[c]>> \in Scoring
           /\ Held(c - scan.cadence, c - 1) /\ Held(c, c + scan.cadence - 1)
           => \E b \in Bounds : c <= b /\ b < c + scan.cadence

(***************************************************************************)
(* Windows cover every frame by one core and interpolation reaches every   *)
(* frame, and neither a window's context nor an interpolated pair leaves   *)
(* the scene of its frame.                                                 *)
(***************************************************************************)
ScenesAreKept ==
    /\ stage = "windows" =>
         /\ \A f \in 0 .. frames - 1 :
              Cardinality({w \in windows : w.from <= f /\ f < w.to}) = 1
         /\ \A w \in windows :
              /\ w.inputFrom <= w.from /\ w.to <= w.inputTo
              /\ SceneOf(w.inputFrom) = w.scene /\ SceneOf(w.inputTo - 1) = w.scene
    /\ stage = "ticks" =>
         /\ \A f \in 0 .. frames - 1 : \E t \in DOMAIN ticks : ticks[t].left = f
         /\ \A t \in DOMAIN ticks :
              /\ SceneOf(ticks[t].left) = SceneOf(ticks[t].right)
              /\ ticks[t].right # ticks[t].left =>
                   0 < ticks[t].offset /\ ticks[t].offset < ticks[t].over
              /\ t > 1 => ticks[t - 1].left <= ticks[t].left

(***************************************************************************)
(* A sample has exactly the frames asked for, inside the video, and always *)
(* both sides of every recorded cut (select_samples).                      *)
(***************************************************************************)
SamplesCover ==
    stage = "samples" =>
      /\ Cardinality(samples.chosen) = samples.count
      /\ samples.chosen \subseteq 0 .. frames - 1
      /\ \A i \in 2 .. Len(scenes) :
           {scenes[i].start - 1, scenes[i].start} \subseteq samples.chosen
=============================================================================
