------------------------------ MODULE TilePlan ------------------------------
(***************************************************************************)
(* Tiled enhancement: calibrate_tiling picks the first tile size that fits *)
(* the device (tiling/calibrate.py), plan_layout places the tiles (tiling/ *)
(* layout.py), and enhance_tiled reads each with its context, and blends   *)
(* the cores under the weights of tiling/blend.py (tiling/runner.py).      *)
(*                                                                         *)
(* Positions, overlaps and weights are products of one axis and the other: *)
(* one axis is modelled.  Pixels are left out, the scale is one, and the   *)
(* cosine ramp stands as the linear one with the same symmetry.  The model *)
(* is external: it runs out of memory on a crop longer than memory.        *)
(***************************************************************************)
EXTENDS Integers, Sequences, SequencesExt, FiniteSets, FiniteSetsExt

CONSTANTS Settings  \* calibration and frame to enhance

TileSetting == [corpus : Nat \ {0}, candidates : Seq(Nat \ {0}), context : Nat,
                overlap : Nat, memory : Nat, broken : Nat, length : Nat \ {0}]

ASSUME SettingAssumption == Settings \subseteq TileSetting

VARIABLES phase,     \* calibrate, layout, enhance, done or refused
          setting,
          attempts,  \* CalibrationAttempts: the state of each size tried
          tile,      \* the selected tile size
          positions  \* x_positions

tileVars == <<phase, setting, attempts, tile, positions>>

TileInit == /\ phase = "calibrate" /\ setting \in Settings
            /\ attempts = <<>> /\ tile = 0 /\ positions = <<0>>

Least(a, b) == IF a <= b THEN a ELSE b
Most(a, b) == IF a >= b THEN a ELSE b

---------------------------------------------------------------------------
\* Slip: calibrates the core without the context it will be read with.
CoreCrop(size) == Least(setting.corpus, size)

\* _center_crop at the side the runner will read.
Crop(size) == Least(setting.corpus, size + 2 * setting.context)

\* What the model makes of a crop: broken is a side it fails on otherwise.
Outcome(side) == IF side = setting.broken THEN "error"
                 ELSE IF side > setting.memory THEN "oom" ELSE "passed"

\* One candidate.  Only out of memory leads to the next; no candidate left
\* is an error too.
Calibrate ==
    /\ phase = "calibrate" /\ Len(attempts) < Len(setting.candidates)
    /\ LET size == setting.candidates[Len(attempts) + 1]
           outcome == Outcome(Crop(size))
       IN IF size <= setting.overlap \/ outcome = "error"
          THEN phase' = "refused" /\ UNCHANGED <<attempts, tile>>
          ELSE /\ attempts' = Append(attempts, outcome)
               /\ IF outcome = "passed"
                  THEN phase' = "layout" /\ tile' = size
                  ELSE UNCHANGED <<phase, tile>>
    /\ UNCHANGED <<setting, positions>>

NoSizeLeft ==
    /\ phase = "calibrate" /\ Len(attempts) = Len(setting.candidates)
    /\ phase' = "refused"
    /\ UNCHANGED <<setting, attempts, tile, positions>>

\* The next of _positions: a step on, or anchored to the far edge.
NextPosition == Least(Last(positions) + tile - setting.overlap, setting.length - tile)

PlaceTile ==
    /\ phase = "layout"
    /\ IF setting.length > tile /\ Last(positions) + tile < setting.length
       THEN positions' = Append(positions, NextPosition) /\ UNCHANGED phase
       ELSE phase' = "enhance" /\ UNCHANGED positions
    /\ UNCHANGED <<setting, attempts, tile>>

\* Slip: overlaps as planned instead of as placed.
RegionAsPlanned(i) ==
    LET from == positions[i]
        to == Least(setting.length, from + tile)
    IN [from |-> from, to |-> to,
        readFrom |-> Most(0, from - setting.context),
        readTo |-> Least(setting.length, to + setting.context),
        before |-> IF i > 1 THEN setting.overlap ELSE 0,
        after |-> IF i < Len(positions) THEN setting.overlap ELSE 0]

\* plan_layout's region of tile i.
Region(i) ==
    LET from == positions[i]
        to == Least(setting.length, from + tile)
    IN [from |-> from, to |-> to,
        readFrom |-> Most(0, from - setting.context),
        readTo |-> Least(setting.length, to + setting.context),
        before |-> IF i > 1 THEN Most(0, positions[i - 1] + tile - from) ELSE 0,
        after |-> IF i < Len(positions) THEN Most(0, to - positions[i + 1]) ELSE 0]

Regions == [i \in DOMAIN positions |-> Region(i)]

\* _ramp, times twice its length: 1, 3, 5, ...
Ramp(k) == 2 * k + 1

\* build_blend_weights at pixel x, as a fraction <<above, below>>.
Weight(region, x) ==
    LET rising == x - region.from < region.before
        falling == region.to - 1 - x < region.after
    IN << (IF rising THEN Ramp(x - region.from) ELSE 1)
            * (IF falling THEN Ramp(region.to - 1 - x) ELSE 1),
          (IF rising THEN 2 * region.before ELSE 1)
            * (IF falling THEN 2 * region.after ELSE 1) >>

\* enhance_tiled reads every region; the model may run out of memory.
Enhance ==
    /\ phase = "enhance"
    /\ phase' = IF \E i \in DOMAIN positions :
                     Outcome(Region(i).readTo - Region(i).readFrom) # "passed"
                 THEN "refused" ELSE "done"
    /\ UNCHANGED <<setting, attempts, tile, positions>>

TileNext == Calibrate \/ NoSizeLeft \/ PlaceTile \/ Enhance
TileSpec == TileInit /\ [][TileNext]_tileVars

---------------------------------------------------------------------------
(***************************************************************************)
(* Every pixel lies in a tile and no two tiles are the same; and where     *)
(* just two neighbours meet, none of them overlapping by more than half,   *)
(* their weights sum to one: the seam is a cross-fade and not a step       *)
(* (plan_layout and build_blend_weights).                                  *)
(***************************************************************************)
PixelsAreBlended ==
    phase = "enhance" => \A x \in 0 .. setting.length - 1 :
      LET over == {i \in DOMAIN Regions : Regions[i].from <= x /\ x < Regions[i].to}
          Fades(r) == r.before + r.after <= r.to - r.from
      IN /\ over # {}
         /\ Cardinality({positions[i] : i \in over}) = Cardinality(over)
         /\ \A i, j \in over :
              over = {i, j} /\ i # j /\ Fades(Regions[i]) /\ Fades(Regions[j]) =>
                LET v == Weight(Regions[i], x)
                    w == Weight(Regions[j], x)
                IN v[1] * w[2] + w[1] * v[2] = v[2] * w[2]

(***************************************************************************)
(* A size that passed calibration on frames at least as long as the one to *)
(* enhance never makes the model run out of memory: no region that is read *)
(* is longer than the crop that was tried.  The size is the first one that *)
(* fits, every size before it having run out of memory.                    *)
(***************************************************************************)
CalibratedTilesFit ==
    phase \in {"layout", "enhance", "done"} =>
      /\ \A i \in DOMAIN attempts : (attempts[i] = "passed") <=> (i = Len(attempts))
      /\ setting.corpus >= setting.length => \A i \in DOMAIN positions :
           Region(i).readTo - Region(i).readFrom <= setting.memory
=============================================================================
