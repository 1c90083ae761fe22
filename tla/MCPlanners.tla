----------------------------- MODULE MCPlanners -----------------------------
(***************************************************************************)
(* The planners on every small input: FramePlan (with ChunkPlan) over all  *)
(* timings of up to three frames and regular ones of up to seven, or       *)
(* TilePlan over small frames.  The two share nothing; a behaviour plans   *)
(* one of them.                                                            *)
(***************************************************************************)
EXTENDS FramePlan, TilePlan

Frame(pts, duration, repeats) == [pts |-> pts, duration |-> duration, repeats |-> repeats]

Short(n) ==
    {[i \in 1 .. n |-> Frame(1 + FoldFunctionOnSet(LAMBDA g, sum : g + sum, 0, gap, 1 .. i - 1),
                             duration[i], 0)] :
       gap \in [1 .. n - 1 -> 1 .. 4], duration \in [1 .. n -> 1 .. 4]}
Regular == {[i \in 1 .. n |-> Frame(2 + (i - 1) * p, p, 0)] : n \in 1 .. 7, p \in 1 .. 2}
Odd == {<<>>, <<Frame(0, 1, 1)>>, <<Frame(1, 1, 0), Frame(1, 1, 0)>>, <<Frame(0, 0, 0)>>}

MCSources == UNION {Short(n) : n \in 1 .. 3} \cup Regular \cup Odd
MCPeriods == {<<1, 1>>, <<2, 1>>, <<3, 1>>, <<4, 1>>, <<3, 2>>, <<5, 2>>}
MCScoring == {<<a, b>> \in (1 .. 3) \X (1 .. 3) : a - b \in {-2, 2}}   \* 2 is between 1 and 3
MCPolicies == [core : 1 .. 3, before : 0 .. 2, after : 0 .. 2]
MCSteps == {<<1, 1>>, <<1, 2>>, <<2, 3>>, <<3, 4>>, <<2, 5>>}
MCRequests == [frames : {1}, target : 1 .. 3, extension : 0 .. 2, before : {0, 2},
               after : {0, 1}, sceneEnds : {{}}]
MCSettings == [corpus : 1 .. 7, candidates : {<<6, 4, 2>>, <<5, 3>>, <<3>>}, context : 0 .. 1,
               overlap : 0 .. 3, memory : 3 .. 6, broken : {0, 4}, length : 1 .. 8]

NoFrames == /\ stage = "tiles" /\ source = <<>> /\ lead = 0 /\ timing = <<>> /\ output = <<>>
            /\ frames = 0 /\ picture = <<>> /\ scan = NoScan /\ scenes = <<>>
            /\ windows = {} /\ ticks = <<>> /\ samples = NoSamples /\ chunks = <<>> /\ start = 0
            /\ request = CHOOSE r \in Requests : TRUE
NoTiles == /\ phase = "frames" /\ setting = <<>> /\ attempts = <<>>
           /\ tile = 0 /\ positions = <<0>>

MCInit == (PlanInit /\ NoTiles) \/ (TileInit /\ NoFrames)
MCNext == \/ PlanNext /\ UNCHANGED tileVars
          \/ TileNext /\ UNCHANGED planVars
MCSpec == MCInit /\ [][MCNext]_<<planVars, tileVars>>
=============================================================================
