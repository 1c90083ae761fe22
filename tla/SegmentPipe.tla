---------------------------- MODULE SegmentPipe ----------------------------
(***************************************************************************)
(* One pass of a job over its chunks at the level of the child processes:  *)
(* an FFmpeg decoder writes raw frames into a pipe, the worker reads them  *)
(* to the exact byte, and writes each into the pipe of an FFmpeg encoder,  *)
(* whose file is decoded again, published by a rename, and at the end      *)
(* assembled with the others (media/decode.py, media/encode.py,            *)
(* media/segments.py, media/concat.py, the loop of pipeline.py).           *)
(*                                                                         *)
(* The chunks are encoded in order by one worker; leases and commits are   *)
(* in Coordinator and JobRun.  A raw frame is FrameBlocks blocks, the unit *)
(* in which the decoder writes and the worker reads; blocks are numbered   *)
(* over the whole output.  A child decides when it starts how it will      *)
(* fail, if it does; failures are bounded by MaxFaults.                    *)
(***************************************************************************)
EXTENDS Integers, Sequences, SequencesExt, FiniteSets

CONSTANTS NChunks,      \* chunks of the job
          CoreFrames,   \* frames of a core: output_core_end - output_core_start
          FrameBlocks,  \* blocks of a raw frame
          RawPipe,      \* blocks the decoder's pipe holds
          EncPipe,      \* frames the encoder's pipe holds
          MaxFaults     \* bound on failures

ASSUME PipeAssumption ==
    /\ {NChunks, CoreFrames, FrameBlocks, RawPipe, EncPipe} \subseteq Nat \ {0}
    /\ MaxFaults \in Nat

VARIABLES worker,       \* what the worker does next
          chunk,        \* the chunk it is at
          payload,      \* blocks of the frame being read
          yielded,      \* frames the generator has yielded
          written,      \* observed_count of encode_segment
          decoder, encoder,   \* the child processes of the chunk
          encPipe,      \* frames written to the encoder and not yet read by it
          temporary,    \* the .partial file of the encoder or of the assembly
          segments,     \* the published segment files
          completions,  \* per chunk what the completion says of the segment
          video,        \* enhanced-video.mkv
          late,         \* history: segments changed after the assembly hashed them
          faults

vars == <<worker, chunk, payload, yielded, written, decoder, encoder, encPipe,
          temporary, segments, completions, video, late, faults>>
reading == <<payload, yielded, decoder>>
writing == <<written, encoder, encPipe>>
results == <<segments, completions, video, late>>

Chunks == 1 .. NChunks
None == <<>>
CoreBlocks == CoreFrames * FrameBlocks

\* The raw frame f of the whole output, counted from 0, and the core of c.
Frame(f) == [b \in 1 .. FrameBlocks |-> f * FrameBlocks + b]
Core(c) == [i \in 1 .. CoreFrames |-> Frame((c - 1) * CoreFrames + i - 1)]

\* What framehash tells of a file: its frames, their PTS, and whether time
\* base and durations are those of the configuration.
File(frames, pts, ticks) == <<[frames |-> frames, pts |-> pts, ticks |-> ticks]>>
Count(n) == [i \in 1 .. n |-> i - 1]

\* A file as FFmpeg writes it when nothing goes wrong.
Segment(frames) == File(frames, Count(Len(frames)), TRUE)

Fates == {"good", "dies", "drops", "shifts", "ticks"}
NoDecoder == [state |-> "absent", supply |-> 0, fails |-> FALSE, made |-> 0, taken |-> 0]
NoEncoder == [state |-> "absent", fate |-> "good", open |-> FALSE, got |-> <<>>]

Init == /\ worker = "start" /\ chunk = 1 /\ payload = <<>> /\ yielded = 0 /\ written = 0
        /\ decoder = NoDecoder /\ encoder = NoEncoder /\ encPipe = <<>>
        /\ temporary = None /\ late = {} /\ faults = 0 /\ video = None
        /\ segments = [c \in Chunks |-> None] /\ completions = [c \in Chunks |-> None]

Fault(happens) == /\ happens => faults < MaxFaults
                  /\ faults' = faults + (IF happens THEN 1 ELSE 0)

InRaw == decoder.made - decoder.taken
DecoderEOF == decoder.state # "running" /\ InRaw = 0

---------------------------------------------------------------------------
(* encode_segment and the generator it draws from.  An exception inside    *)
(* the generator runs its finally first, which kills and reaps the         *)
(* decoder; one outside leaves the generator suspended until it is         *)
(* collected, and the decoder running or blocked.                          *)

StartEncoder ==
    /\ worker = "start"
    /\ \E fate \in Fates :
         /\ Fault(fate # "good")
         /\ encoder' = [state |-> "running", fate |-> fate, open |-> TRUE, got |-> <<>>]
    /\ worker' = "next"
    /\ yielded' = 0 /\ written' = 0 /\ payload' = <<>> /\ encPipe' = <<>>
    /\ decoder' = NoDecoder
    /\ UNCHANGED <<chunk, temporary, results>>

\* The first draw starts the decoder: a healthy one supplies exactly the core.
StartDecoder ==
    /\ worker = "next" /\ yielded = 0
    /\ \E supply \in 0 .. CoreBlocks + RawPipe + 1, fails \in BOOLEAN :
         /\ Fault(supply # CoreBlocks \/ fails)
         /\ decoder' = [NoDecoder EXCEPT !.state = "running", !.supply = supply, !.fails = fails]
    /\ worker' = "read"
    /\ UNCHANGED <<chunk, payload, yielded, temporary, writing, results>>

NextDraw ==
    /\ worker = "next" /\ yielded > 0
    /\ worker' = IF yielded < CoreFrames THEN "read" ELSE "extra"
    /\ UNCHANGED <<chunk, temporary, faults, reading, writing, results>>

\* stream.read(remaining) returns what is there, at most what is missing.
ReadBlock ==
    /\ worker = "read" /\ InRaw > 0
    /\ \E n \in 1 .. InRaw :
         /\ n <= FrameBlocks - Len(payload)
         /\ payload' = payload \o
              [b \in 1 .. n |-> (chunk - 1) * CoreBlocks + decoder.taken + b]
         /\ decoder' = [decoder EXCEPT !.taken = @ + n]
    /\ IF Len(payload') = FrameBlocks
       THEN worker' = "frame" /\ yielded' = yielded + 1
       ELSE UNCHANGED <<worker, yielded>>
    /\ UNCHANGED <<chunk, temporary, faults, writing, results>>

\* The generator's finally: kill and wait, when the decoder still runs.
CloseGenerator ==
    decoder' = [decoder EXCEPT !.state = IF @ = "running" THEN "killed" ELSE @]

TruncatedFrame ==
    /\ worker = "read" /\ DecoderEOF
    /\ worker' = "reap" /\ CloseGenerator
    /\ UNCHANGED <<chunk, payload, yielded, temporary, faults, writing, results>>

\* Slip: waits for the decoder before it looks for a surplus.
WaitThenRead ==
    /\ worker = "extra" /\ decoder.state # "running"
    /\ worker' = IF decoder.state = "exited" /\ InRaw = 0 THEN "close" ELSE "reap"
    /\ UNCHANGED <<chunk, temporary, faults, reading, writing, results>>

\* read(1) finds a surplus, or the end of the stream; wait() and the exit
\* code follow.
AfterCore ==
    /\ worker = "extra"
    /\ \/ InRaw > 0 /\ worker' = "reap" /\ CloseGenerator
       \/ /\ DecoderEOF /\ UNCHANGED decoder
          /\ worker' = IF decoder.state = "exited" THEN "close" ELSE "reap"
    /\ UNCHANGED <<chunk, payload, yielded, temporary, faults, writing, results>>

WriteFrame ==
    /\ worker = "frame"
    /\ encoder.state = "running" /\ Len(encPipe) < EncPipe
    /\ encPipe' = Append(encPipe, payload) /\ written' = written + 1
    /\ payload' = <<>> /\ worker' = "next"
    /\ UNCHANGED <<chunk, yielded, decoder, encoder, temporary, faults, results>>

BrokenPipe ==
    /\ worker = "frame" /\ encoder.state # "running"
    /\ worker' = "reap"
    /\ UNCHANGED <<chunk, temporary, faults, reading, writing, results>>

\* The transform raises or returns another shape, or the run is interrupted.
Raise ==
    /\ Fault(TRUE)
    /\ \/ worker \in {"next", "frame", "close", "encwait"} /\ UNCHANGED decoder
       \/ worker \in {"read", "extra"} /\ CloseGenerator
    /\ worker' = "reap"
    /\ UNCHANGED <<chunk, payload, yielded, temporary, writing, results>>

CloseStdin ==
    /\ worker = "close"
    /\ encoder' = [encoder EXCEPT !.open = FALSE]
    /\ worker' = "encwait"
    /\ UNCHANGED <<chunk, written, encPipe, temporary, faults, reading, results>>

EncoderDone ==
    /\ worker = "encwait" /\ encoder.state # "running"
    /\ worker' = IF encoder.state = "exited" THEN "verify" ELSE "reap"
    /\ UNCHANGED <<chunk, temporary, faults, reading, writing, results>>

\* Slip: believes the count and the time base.
VerifiedCount == /\ written = CoreFrames
                 /\ temporary # None
                 /\ Len(temporary[1].frames) = CoreFrames
                 /\ temporary[1].ticks

\* The checks between the encoder's exit and the rename.
Verified == /\ written = CoreFrames
            /\ temporary # None
            /\ Len(temporary[1].frames) = CoreFrames
            /\ temporary[1].ticks
            /\ temporary[1].pts = Count(CoreFrames)

\* os.replace, and the completion read back from the published path.
Publish ==
    /\ worker = "verify" /\ Verified
    /\ segments' = [segments EXCEPT ![chunk] = temporary]
    /\ completions' = [completions EXCEPT ![chunk] = temporary]
    /\ temporary' = None
    /\ IF chunk < NChunks THEN worker' = "start" /\ chunk' = chunk + 1
                          ELSE worker' = "check" /\ chunk' = 1
    /\ UNCHANGED <<video, late, faults, reading, writing>>

Reject ==
    /\ worker = "verify"
    /\ \/ ~Verified /\ UNCHANGED faults
       \/ Fault(TRUE)                   \* the scan or the rename fails
    /\ worker' = "reap"
    /\ UNCHANGED <<chunk, temporary, reading, writing, results>>

\* Slip: the worker does not wait for the encoder to be gone.
LeaveEncoder ==
    /\ worker = "reap"
    /\ encoder' = [encoder EXCEPT !.open = FALSE]
    /\ worker' = "unlink"
    /\ UNCHANGED <<chunk, written, encPipe, temporary, faults, reading, results>>

\* The two finally blocks: first the child, then its file.
ReapEncoder ==
    /\ worker = "reap"
    /\ encoder' = [encoder EXCEPT !.state = IF @ = "running" THEN "killed" ELSE @,
                                  !.open = FALSE]
    /\ worker' = "unlink"
    /\ UNCHANGED <<chunk, written, encPipe, temporary, faults, reading, results>>

Unlink ==
    /\ worker = "unlink"
    /\ temporary' = None /\ worker' = "failed"
    /\ UNCHANGED <<chunk, faults, reading, writing, results>>

\* The suspended generator is collected once the exception is dropped.
Collect ==
    /\ worker = "failed" /\ decoder.state = "running"
    /\ CloseGenerator
    /\ UNCHANGED <<worker, chunk, payload, yielded, temporary, faults, writing, results>>

---------------------------------------------------------------------------
(* The children.  Their pipes close with the worker's end.                 *)

DecoderWrites ==
    /\ decoder.state = "running" /\ decoder.made < decoder.supply
    /\ worker # "dead" /\ InRaw < RawPipe
    /\ decoder' = [decoder EXCEPT !.made = @ + 1]
    /\ UNCHANGED <<worker, chunk, payload, yielded, temporary, faults, writing, results>>

DecoderExits ==
    /\ decoder.state = "running"
    /\ decoder.made = decoder.supply \/ worker = "dead"
    /\ decoder' = [decoder EXCEPT
         !.state = IF decoder.fails \/ decoder.made < decoder.supply THEN "failed" ELSE "exited"]
    /\ UNCHANGED <<worker, chunk, payload, yielded, temporary, faults, writing, results>>

EncoderReads ==
    /\ encoder.state = "running" /\ encPipe # <<>>
    /\ encoder' = [encoder EXCEPT !.got = Append(@, Head(encPipe))]
    /\ encPipe' = Tail(encPipe)
    /\ temporary' = Segment(encoder'.got)
    /\ UNCHANGED <<worker, chunk, written, faults, reading, results>>

\* What the encoder's fate makes of the frames it got.
Encoded(got, fate) ==
    LET n == Len(got) IN
    CASE fate = "drops"  -> Segment(IF n = 0 THEN got ELSE Front(got))
      [] fate = "shifts" -> File(got, [i \in 1 .. n |-> i], TRUE)
      [] fate = "ticks"  -> File(got, Count(n), FALSE)
      [] OTHER           -> Segment(got)

EncoderExits ==
    /\ encoder.state = "running"
    /\ \/ /\ encoder.fate = "dies"
          /\ encoder' = [encoder EXCEPT !.state = "failed"]
          /\ UNCHANGED temporary
       \/ /\ encoder.fate # "dies" /\ encPipe = <<>> /\ (~encoder.open \/ worker = "dead")
          /\ encoder' = [encoder EXCEPT !.state = "exited"]
          /\ temporary' = Encoded(encoder.got, encoder.fate)
    /\ UNCHANGED <<worker, chunk, written, encPipe, faults, reading, results>>

\* The worker is killed: nothing of its own runs any more.
Kill == /\ worker \notin {"dead", "failed", "done"}
        /\ Fault(TRUE)
        /\ worker' = "dead"
        /\ UNCHANGED <<chunk, temporary, reading, writing, results>>

---------------------------------------------------------------------------
(* validate_and_concat: hash every segment, copy them into one file, scan  *)
(* it, publish it.  A segment can change on disk at any moment.            *)

Joined == FlattenSeq([c \in Chunks |-> segments[c][1].frames])

\* Slip: compares the sizes only.
CheckSize ==
    /\ worker = "check"
    /\ IF Len(segments[chunk][1].frames) = Len(completions[chunk][1].frames)
       THEN IF chunk < NChunks THEN chunk' = chunk + 1 /\ UNCHANGED worker
                               ELSE worker' = "concat" /\ UNCHANGED chunk
       ELSE worker' = "failed" /\ UNCHANGED chunk
    /\ UNCHANGED <<temporary, faults, reading, writing, results>>

CheckSegment ==
    /\ worker = "check"
    /\ IF segments[chunk] = completions[chunk]
       THEN IF chunk < NChunks THEN chunk' = chunk + 1 /\ UNCHANGED worker
                               ELSE worker' = "concat" /\ UNCHANGED chunk
       ELSE worker' = "failed" /\ UNCHANGED chunk
    /\ UNCHANGED <<temporary, faults, reading, writing, results>>

Concat ==
    /\ worker = "concat"
    /\ \/ /\ UNCHANGED faults           \* the demuxer copies what it finds
          /\ temporary' = Segment(Joined)
          /\ worker' = "scan"
       \/ /\ Fault(TRUE)                \* it fails, or leaves a gap in the PTS
          /\ \/ temporary' = Segment(<<>>) /\ worker' = "unlink"
             \/ /\ temporary' = File(Joined, [i \in 1 .. Len(Joined) |-> i], TRUE)
                /\ worker' = "scan"
    /\ UNCHANGED <<chunk, reading, writing, results>>

PublishVideo ==
    /\ worker = "scan"
    /\ IF /\ Len(temporary[1].frames) = NChunks * CoreFrames
          /\ temporary[1].pts = Count(NChunks * CoreFrames)
       THEN /\ video' = temporary /\ temporary' = None /\ worker' = "done"
       ELSE /\ worker' = "unlink" /\ UNCHANGED <<video, temporary>>
    /\ UNCHANGED <<chunk, segments, completions, late, faults, reading, writing>>

\* A segment loses a frame, or its bytes are no longer those written.
Damage ==
    /\ worker # "dead" /\ Fault(TRUE)
    /\ \E c \in Chunks :
         /\ segments[c] # None
         /\ segments' = [segments EXCEPT ![c] =
              Segment(Front(@[1].frames))]
            \/ segments' = [segments EXCEPT ![c] =
              Segment([i \in DOMAIN @[1].frames |-> <<0>>])]
         /\ late' = IF worker = "concat" \/ (worker = "check" /\ c < chunk)
                    THEN late \cup {c} ELSE late
    /\ UNCHANGED <<worker, chunk, temporary, completions, video, reading, writing>>

---------------------------------------------------------------------------
Generator == \/ StartDecoder \/ NextDraw \/ ReadBlock \/ TruncatedFrame
             \/ AfterCore \/ Collect
Encode == \/ StartEncoder \/ WriteFrame \/ BrokenPipe \/ CloseStdin \/ EncoderDone
          \/ Publish \/ Reject \/ ReapEncoder \/ Unlink
Assemble == CheckSegment \/ Concat \/ PublishVideo
Decoding == DecoderWrites \/ DecoderExits
Encoding == EncoderReads \/ EncoderExits

Next == Generator \/ Encode \/ Assemble \/ Decoding \/ Encoding \/ Raise \/ Kill \/ Damage

(***************************************************************************)
(* The worker is one thread that goes on whenever it can; a child that has *)
(* something to read or room to write goes on too.  Nothing bounds how     *)
(* long a child may take: the code has no timeout.                         *)
(***************************************************************************)
Spec == Init /\ [][Next]_vars
FairSpec == /\ Spec
            /\ WF_vars(Generator \/ Encode \/ Assemble)
            /\ WF_vars(Decoding) /\ WF_vars(Encoding)
---------------------------------------------------------------------------
(***************************************************************************)
(* A segment is recorded only as exactly its core, in order, under PTS     *)
(* from zero, and only after its decoder supplied that core, no more, and  *)
(* exited cleanly: a short read, a surplus, a shifted PTS or a failed      *)
(* child never reaches the manifest (encode_segment, lines 147 to 190).    *)
(***************************************************************************)
OnlyExactSegments ==
    [][\A c \in Chunks : completions'[c] # completions[c] =>
         /\ completions'[c] = Segment(Core(c))
         /\ segments'[c] = completions'[c]
         /\ decoder.state = "exited" /\ decoder.made = CoreBlocks]_vars

(***************************************************************************)
(* A published video has every frame of the job once under contiguous PTS, *)
(* and every chunk's frames are its core's, except where the segment was   *)
(* changed on disk after validate_and_concat had hashed it.                *)
(***************************************************************************)
VideoIsWhole ==
    video # None =>
      /\ video[1].pts = Count(NChunks * CoreFrames)
      /\ \A c \in Chunks \ late : \A i \in 1 .. CoreFrames :
           video[1].frames[(c - 1) * CoreFrames + i] = Core(c)[i]

(***************************************************************************)
(* However encode_segment or validate_and_concat ends, short of the worker *)
(* being killed, the encoder is gone and no partial file is left, not even *)
(* one the encoder creates late.                                           *)
(***************************************************************************)
NothingLeftBehind ==
    worker \in {"failed", "done"} => temporary = None /\ encoder.state # "running"

(***************************************************************************)
(* The pass always ends, and no child outlives it for ever: three          *)
(* processes coupled by two bounded pipes never wait on one another in a   *)
(* circle, whatever the decoder supplies and whichever of them fails.      *)
(* Without a failure it ends with the video.                               *)
(***************************************************************************)
PassEnds ==
    <>[](/\ worker \in {"done", "failed", "dead"}
         /\ decoder.state # "running" /\ encoder.state # "running"
         /\ faults = 0 => worker = "done")
=============================================================================
