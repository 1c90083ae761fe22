------------------------- MODULE SegmentPipeProofs -------------------------
(***************************************************************************)
(* Theorems about SegmentPipe: for any number of chunks, frames and        *)
(* blocks, any capacity of the two pipes, and any number of failures.      *)
(***************************************************************************)
EXTENDS SegmentPipe, SequenceTheorems, WellFoundedInduction, TLAPS

\* The points of encode_segment between the start of the encoder and the
\* publication of the segment.
Working == {"next", "read", "frame", "extra", "close", "encwait", "verify"}

\* The points of validate_and_concat.
Assembling == {"check", "concat", "scan"}
Points == {"start"} \union Working \union Assembling
            \union {"reap", "unlink", "failed", "done", "dead"}

Frames == Seq(Seq(Nat))

FileOf(f) == f = None \/ \E n \in Frames, p \in Seq(Nat), t \in BOOLEAN : f = File(n, p, t)

TypeInv ==
  /\ worker \in Points /\ chunk \in Chunks
  /\ payload \in Seq(Nat) /\ written \in 0 .. CoreFrames
  /\ decoder \in [state : {"absent", "running", "killed", "failed", "exited"}, supply : Nat,
                  fails : BOOLEAN, made : Nat, taken : Nat]
  /\ encoder \in [state : {"absent", "running", "killed", "failed", "exited"}, fate : Fates,
                  open : BOOLEAN, got : Frames]
  /\ encPipe \in Frames /\ FileOf(temporary) /\ late \subseteq Chunks

\* The block that follows n blocks of the chunk.
BlockAt(n) == (chunk - 1) * CoreBlocks + n

\* The generator: the payload is what has been read of the frame after those
\* that were written, and nothing between them was lost.
Reading ==
  worker \in Working =>
    /\ decoder.taken = written * FrameBlocks + Len(payload) /\ decoder.taken <= decoder.made
    /\ \A b \in 1 .. Len(payload) : payload[b] = BlockAt(written * FrameBlocks + b)
    /\ yielded = written + (IF worker = "frame" THEN 1 ELSE 0)
    /\ worker = "next" => payload = <<>>
    /\ worker = "read" => Len(payload) < FrameBlocks /\ written < CoreFrames
    /\ worker = "frame" => Len(payload) = FrameBlocks /\ written < CoreFrames
    /\ worker \in {"extra", "close", "encwait", "verify"} =>
         payload = <<>> /\ written = CoreFrames
    /\ worker \in {"close", "encwait", "verify"} =>
         decoder.state = "exited" /\ decoder.made = decoder.taken

\* encode_segment: what the encoder has got and what is in its pipe are the
\* frames of the core as far as they were written.
Writing ==
  worker \in Working =>
    /\ encoder.state # "absent"
    /\ Len(encoder.got) + Len(encPipe) = written
    /\ \A i \in 1 .. Len(encoder.got) : encoder.got[i] = Core(chunk)[i]
    /\ \A i \in 1 .. Len(encPipe) : encPipe[i] = Core(chunk)[Len(encoder.got) + i]
    /\ encoder.state = "exited" =>
         encPipe = <<>> /\ temporary = Encoded(encoder.got, encoder.fate)
    /\ worker = "verify" => encoder.state = "exited"

\* Where no encoder is at work there is none, nor its file.
Quiet ==
  /\ worker \in {"start", "unlink", "failed", "done"} \union Assembling =>
       encoder.state # "running"
  /\ worker \in {"start", "check", "concat", "failed", "done"} => temporary = None

\* The chunks up to the present one are recorded, each as its core.
Recorded ==
  /\ segments \in [Chunks -> {None} \union
                               {Segment(f) : f \in {g \in Frames : Len(g) <= CoreFrames}}]
  /\ DOMAIN completions = Chunks
  /\ \A c \in Chunks : completions[c] \in {None, Segment(Core(c))}
  /\ \A c \in Chunks : completions[c] # None => segments[c] # None
  /\ worker \in Working \union {"start"} => \A c \in 1 .. chunk - 1 : completions[c] # None
  /\ worker \in Assembling => \A c \in Chunks : completions[c] # None

\* Every chunk's frames are its core's in the assembled frames.
Keeps(frames, cs) ==
  \A c \in cs : \A i \in 1 .. CoreFrames : frames[(c - 1) * CoreFrames + i] = Core(c)[i]

\* validate_and_concat: what was hashed is what was recorded, or late.
Assembled ==
  /\ worker = "check" => \A c \in 1 .. chunk - 1 : c \in late \/ segments[c] = completions[c]
  /\ worker = "concat" => \A c \in Chunks : c \in late \/ segments[c] = completions[c]
  /\ worker = "scan" =>
       /\ temporary # None
       /\ Len(temporary[1].frames) = NChunks * CoreFrames =>
            Keeps(temporary[1].frames, Chunks \ late)
  /\ video # None =>
       /\ worker = "done"
       /\ video[1].pts = Count(NChunks * CoreFrames)
       /\ Keeps(video[1].frames, Chunks \ late)

Inv == TypeInv /\ Reading /\ Writing /\ Quiet /\ Recorded /\ Assembled

-----------------------------------------------------------------------------
(***************************************************************************)
(* Induction, for want of a library theorem that the provers can use: a    *)
(* set of counterexamples has a least element.                             *)
(***************************************************************************)

\* A set of natural numbers that is not empty has a least element.
LEMMA LeastElement ==
  ASSUME NEW T, T \subseteq Nat, T # {}
  PROVE  \E n \in T : \A m \in T : n <= m
  <1> DEFINE R == OpToRel(<, Nat)
  <1>1. IsWellFoundedOn(R, Nat)
    BY NatLessThanWellFounded
  <1>2. \A x, y \in Nat : y < x => <<y, x>> \in R
    BY DEF OpToRel
  <1> HIDE DEF R
  <1>3. PICK x \in T : \A y \in T : <<y, x>> \notin R
    BY <1>1, WFMin
  <1>4. \A y \in T : ~(y < x)
    BY <1>2, <1>3
  <1>5. QED
    BY <1>4

-----------------------------------------------------------------------------
(***************************************************************************)
(* FlattenSeq, of which validate_and_concat is one.                        *)
(***************************************************************************)

\* FlattenSeq unfolds as it is written: the recursive function in it exists.
LEMMA Flatten ==
  ASSUME NEW n \in Nat \ {0}, NEW s, Len(s) = n
  PROVE  \E g : /\ g = [i \in 1 .. n |-> IF i = 1 THEN s[i] ELSE g[i-1] \o s[i]]
                /\ FlattenSeq(s) = g[n]
  <1> DEFINE Good(g, m) == g = [i \in 1 .. m |-> IF i = 1 THEN s[i] ELSE g[i-1] \o s[i]]
             Has(m) == \E g : Good(g, m)
             Bad == {m \in 1 .. n : ~Has(m)}
  <1> HIDE DEF Has
  <1>1. Bad = {}
    <2>1. SUFFICES ASSUME Bad # {} PROVE FALSE
      OBVIOUS
    <2>2. PICK m \in Bad : \A k \in Bad : m <= k
      <3>1. Bad \subseteq Nat
        OBVIOUS
      <3> HIDE DEF Bad
      <3>2. QED
        BY <2>1, <3>1, LeastElement
    <2>3. CASE m = 1
      <3> DEFINE g == [i \in 1 .. 1 |-> s[1]]
      <3>1. Good(g, 1)
        OBVIOUS
      <3>2. QED
        BY <2>3, <3>1 DEF Has
    <2>4. CASE m # 1
      <3>1. m \in 2 .. n /\ m - 1 \in 1 .. n /\ Has(m - 1)
        BY <2>2, <2>4
      <3>2. PICK g : Good(g, m - 1)
        BY <3>1 DEF Has
      <3> DEFINE h == [i \in 1 .. m |-> IF i = m THEN g[m - 1] \o s[m] ELSE g[i]]
      <3>3. Good(h, m)
        <4>1. \A i \in 1 .. m - 1 : g[i] = IF i = 1 THEN s[i] ELSE g[i - 1] \o s[i]
          BY <3>2
        <4>2. ASSUME NEW i \in 1 .. m PROVE h[i] = IF i = 1 THEN s[i] ELSE h[i - 1] \o s[i]
          <5>1. CASE i = m
            <6>1. h[m] = g[m - 1] \o s[m] /\ h[m - 1] = g[m - 1] /\ m # 1
              BY <3>1
            <6>2. QED
              BY <5>1, <6>1
          <5>2. CASE i \in 1 .. m - 1
            <6>1. h[i] = g[i] /\ (i # 1 => h[i - 1] = g[i - 1])
              BY <3>1, <5>2
            <6>2. QED
              BY <4>1, <5>2, <6>1
          <5>3. QED
            BY <3>1, <5>1, <5>2
        <4>3. h = [i \in 1 .. m |-> h[i]]
          OBVIOUS
        <4> HIDE DEF h
        <4>4. QED
          BY <4>2, <4>3
      <3>4. QED
        BY <3>3 DEF Has
    <2>5. QED
      BY <2>3, <2>4
  <1> DEFINE flatten == CHOOSE flatten : flatten =
                          [i \in 1 .. Len(s) |-> IF i = 1 THEN s[i] ELSE flatten[i-1] \o s[i]]
  <1>2. FlattenSeq(s) = flatten[n]
    BY DEF FlattenSeq
  <1>3. \E g : Good(g, n)
    <2>1. Has(n)
      BY <1>1
    <2>2. QED
      BY <2>1 DEF Has
  <1>4. Good(flatten, n)
    <2>1. \E g : g = [i \in 1 .. Len(s) |-> IF i = 1 THEN s[i] ELSE g[i-1] \o s[i]]
      BY <1>3
    <2>2. QED
      BY <2>1
  <1>5. QED
    BY <1>2, <1>4

\* Rows of L numbers follow each other.
LEMMA Rows ==
  ASSUME NEW L \in Nat, NEW m \in Nat, NEW c \in 1 .. m - 1
  PROVE  c * L <= (m - 1) * L /\ (c - 1) * L + L = c * L /\ (m - 1) * L + L = m * L
         /\ (c - 1) * L \in Nat /\ (m - 1) * L \in Nat /\ c * L \in Nat
  <1>1. \A a, b \in Nat : a * b \in Nat
    OBVIOUS
  <1>2. PICK d \in Nat : m - 1 = c + d
    OBVIOUS
  <1>3. (c + d) * L = c * L + d * L
    OBVIOUS
  <1>4. (c - 1) * L + L = c * L /\ (m - 1) * L + L = m * L
    OBVIOUS
  <1>5. QED
    BY <1>1, <1>2, <1>3, <1>4

\* The c-th sequence of s takes the c-th L places of the sequence flat.
Holds(flat, s, n, L) ==
  \A c \in 1 .. n, i \in 1 .. L : flat[(c - 1) * L + i] = s[c][i]

\* Sequences of at most L elements, put one after the other, fill n * L places
\* only when each of them has L; each is then found where it belongs.
LEMMA FlattenContent ==
  ASSUME NEW S, NEW n \in Nat \ {0}, NEW L \in Nat, NEW s \in [1 .. n -> Seq(S)],
         \A c \in 1 .. n : Len(s[c]) <= L
  PROVE  /\ FlattenSeq(s) \in Seq(S)
         /\ Len(FlattenSeq(s)) = n * L => Holds(FlattenSeq(s), s, n, L)
  <1>1. Len(s) = n
    OBVIOUS
  <1>2. PICK g : /\ g = [i \in 1 .. n |-> IF i = 1 THEN s[i] ELSE g[i-1] \o s[i]]
                 /\ FlattenSeq(s) = g[n]
    BY <1>1, Flatten
  <1>3. g[1] = s[1] /\ \A m \in 2 .. n : g[m] = g[m - 1] \o s[m]
    <2>1. \A m \in 1 .. n : g[m] = IF m = 1 THEN s[m] ELSE g[m-1] \o s[m]
      BY <1>2
    <2>2. g[1] = s[1]
      BY <2>1
    <2>3. ASSUME NEW m \in 2 .. n PROVE g[m] = g[m - 1] \o s[m]
      <3>1. m \in 1 .. n /\ m # 1
        OBVIOUS
      <3>2. QED
        BY <2>1, <3>1
    <2>4. QED
      BY <2>2, <2>3
  <1> DEFINE Fine(m) == /\ g[m] \in Seq(S) /\ Len(g[m]) <= m * L
                        /\ Len(g[m]) = m * L =>
                             \A c \in 1 .. m, i \in 1 .. L : g[m][(c - 1) * L + i] = s[c][i]
             Bad == {m \in 1 .. n : ~Fine(m)}
  <1>4. Fine(1)
    BY <1>3
  <1>5. ASSUME NEW m \in 2 .. n, Fine(m - 1)
        PROVE  Fine(m)
    <2> DEFINE a == g[m - 1]
               b == s[m]
    <2>1. /\ a \in Seq(S) /\ Len(a) <= (m - 1) * L
          /\ Len(a) = (m - 1) * L =>
                             \A c \in 1 .. m - 1, i \in 1 .. L : a[(c - 1) * L + i] = s[c][i]
      BY <1>5
    <2>2. b \in Seq(S) /\ Len(b) <= L /\ m - 1 \in Nat
      OBVIOUS
    <2>3. g[m] = a \o b
      BY <1>3
    <2>4a. 1 \in 1 .. m - 1
      OBVIOUS
    <2>4. (m - 1) * L + L = m * L /\ (m - 1) * L \in Nat /\ m * L \in Nat
      BY <2>4a, Rows
    <2> HIDE DEF a, b, Fine
    <2>5. g[m] \in Seq(S) /\ Len(g[m]) = Len(a) + Len(b)
          /\ (\A i \in 1 .. Len(a) : g[m][i] = a[i])
          /\ (\A i \in Len(a) + 1 .. Len(a) + Len(b) : g[m][i] = b[i - Len(a)])
      BY <2>1, <2>2, <2>3, ConcatProperties
    <2>6. Len(a) \in Nat /\ Len(b) \in Nat
      BY <2>1, <2>2
    <2>7. Len(g[m]) <= m * L
      BY <2>1, <2>2, <2>4, <2>5, <2>6
    <2>8. ASSUME Len(g[m]) = m * L, NEW c \in 1 .. m, NEW i \in 1 .. L
          PROVE  g[m][(c - 1) * L + i] = s[c][i]
      <3>1. Len(a) = (m - 1) * L /\ Len(b) = L
        BY <2>1, <2>2, <2>4, <2>5, <2>6, <2>8
      <3>2. CASE c = m
        <4>1. (m - 1) * L + i \in Len(a) + 1 .. Len(a) + Len(b)
          BY <2>4, <3>1
        <4>2. ((m - 1) * L + i) - Len(a) = i
          BY <2>4, <3>1
        <4>3. QED
          BY <2>5, <3>2, <4>1, <4>2 DEF b
      <3>3. CASE c \in 1 .. m - 1
        <4>1. (c - 1) * L + i \in 1 .. Len(a)
          <5> DEFINE x == (c - 1) * L
                     y == c * L
                     z == (m - 1) * L
          <5>1. y <= z /\ x + L = y /\ x \in Nat /\ y \in Nat /\ z \in Nat
            BY <3>3, Rows
          <5>2. Len(a) = z
            BY <3>1
          <5> HIDE DEF x, y, z
          <5>3. x + i \in 1 .. Len(a)
            BY <5>1, <5>2
          <5>4. QED
            BY <5>3 DEF x
        <4>2. QED
          BY <2>1, <2>5, <3>1, <3>3, <4>1
      <3>4. QED
        BY <3>2, <3>3
    <2>9. QED
      BY <2>5, <2>7, <2>8 DEF Fine
  <1> HIDE DEF Fine
  <1>6. Bad = {}
    <2>1. SUFFICES ASSUME Bad # {} PROVE FALSE
      OBVIOUS
    <2>2. PICK m \in Bad : \A k \in Bad : m <= k
      <3>1. Bad \subseteq Nat
        OBVIOUS
      <3> HIDE DEF Bad
      <3>2. QED
        BY <2>1, <3>1, LeastElement
    <2>3. m # 1
      BY <1>4
    <2>4. m \in 2 .. n /\ m - 1 \in 1 .. n /\ m - 1 \notin Bad
      BY <2>2, <2>3
    <2>5. QED
      BY <1>5, <2>4
  <1>7. Fine(n)
    <2>1. n \in 1 .. n /\ n \notin Bad
      BY <1>6
    <2>2. QED
      BY <2>1
  <1>8. g[n] \in Seq(S) /\ (Len(g[n]) = n * L => Holds(g[n], s, n, L))
    BY <1>7 DEF Fine, Holds
  <1>9. QED
    BY <1>2, <1>8
-----------------------------------------------------------------------------
(***************************************************************************)
(* The core of a chunk.                                                    *)
(***************************************************************************)

\* The constants one by one.
LEMMA Sizes ==
  /\ NChunks \in Nat \ {0} /\ CoreFrames \in Nat \ {0} /\ FrameBlocks \in Nat \ {0}
  /\ RawPipe \in Nat \ {0} /\ EncPipe \in Nat \ {0} /\ MaxFaults \in Nat /\ CoreBlocks \in Nat
  BY PipeAssumption DEF CoreBlocks

\* Blocks are numbered over the whole output.
LEMMA CoreFields ==
  ASSUME NEW c \in Chunks
  PROVE  /\ Core(c) \in Frames /\ Len(Core(c)) = CoreFrames
         /\ \A i \in 1 .. CoreFrames :
              /\ Core(c)[i] \in Seq(Nat) /\ Len(Core(c)[i]) = FrameBlocks
              /\ \A b \in 1 .. FrameBlocks :
                   Core(c)[i][b] = (c - 1) * CoreBlocks + (i - 1) * FrameBlocks + b
  <1>1. ASSUME NEW i \in 1 .. CoreFrames
        PROVE  /\ Core(c)[i] \in Seq(Nat) /\ Len(Core(c)[i]) = FrameBlocks
               /\ \A b \in 1 .. FrameBlocks :
                    Core(c)[i][b] = (c - 1) * CoreBlocks + (i - 1) * FrameBlocks + b
    <2> DEFINE f == (c - 1) * CoreFrames + i - 1
    <2>1. Core(c)[i] = Frame(f)
      BY DEF Core
    <2>2. f \in Nat /\ f * FrameBlocks \in Nat
      <3>1. c - 1 \in Nat /\ i - 1 \in Nat
        BY Sizes DEF Chunks
      <3>2. (c - 1) * CoreFrames \in Nat
        BY <3>1, Sizes
      <3>3. f \in Nat
        BY <3>1, <3>2
      <3> HIDE DEF f
      <3>4. QED
        BY <3>3, Sizes
    <2>3. f * FrameBlocks = (c - 1) * CoreBlocks + (i - 1) * FrameBlocks
      BY Sizes DEF CoreBlocks, Chunks
    <2> HIDE DEF f
    <2>4. Frame(f) \in [1 .. FrameBlocks -> Nat]
      BY <2>2, Sizes DEF Frame
    <2>5. Frame(f) \in Seq(Nat) /\ Len(Frame(f)) = FrameBlocks
      BY <2>4, Sizes
    <2>6. \A b \in 1 .. FrameBlocks : Frame(f)[b] = f * FrameBlocks + b
      BY DEF Frame
    <2>7. QED
      BY <2>1, <2>3, <2>5, <2>6
  <1>2. Core(c) = [i \in 1 .. CoreFrames |-> Core(c)[i]]
    BY DEF Core
  <1>3. Core(c) \in [1 .. CoreFrames -> Seq(Nat)]
    BY <1>1, <1>2
  <1>4. Core(c) \in Frames /\ Len(Core(c)) = CoreFrames
    BY <1>3, Sizes DEF Frames
  <1>5. QED
    BY <1>1, <1>4

\* A whole frame read from the right place is the frame of the core.
LEMMA WholeFrame ==
  ASSUME NEW c \in Chunks, NEW w \in 0 .. CoreFrames - 1, NEW p \in Seq(Nat),
         Len(p) = FrameBlocks,
         \A b \in 1 .. Len(p) : p[b] = (c - 1) * CoreBlocks + (w * FrameBlocks + b)
  PROVE  p = Core(c)[w + 1]
  <1> DEFINE q == Core(c)[w + 1]
  <1>1. w + 1 \in 1 .. CoreFrames /\ (w + 1) - 1 = w
    BY Sizes
  <1>2. /\ q \in Seq(Nat) /\ Len(q) = FrameBlocks
        /\ \A b \in 1 .. FrameBlocks : q[b] = (c - 1) * CoreBlocks + w * FrameBlocks + b
    BY <1>1, CoreFields
  <1>3. (c - 1) * CoreBlocks \in Int /\ w * FrameBlocks \in Int
    BY Sizes DEF Chunks
  <1> HIDE DEF q
  <1>4. \A b \in 1 .. FrameBlocks : p[b] = q[b]
    BY <1>2, <1>3
  <1>5. p = q
    BY <1>2, <1>4, SeqEqual
  <1>6. QED
    BY <1>5 DEF q

\* Frames that are the core's one by one, and as many, are the core.
LEMMA WholeCore ==
  ASSUME NEW c \in Chunks, NEW g \in Frames, Len(g) = CoreFrames,
         \A i \in 1 .. Len(g) : g[i] = Core(c)[i]
  PROVE  g = Core(c)
  <1> DEFINE q == Core(c)
  <1>1. q \in Frames /\ Len(q) = CoreFrames
    BY CoreFields
  <1>2. \A i \in 1 .. Len(g) : g[i] = q[i]
    OBVIOUS
  <1> HIDE DEF q
  <1>3. g = q
    BY <1>1, <1>2, SeqEqual DEF Frames
  <1>4. QED
    BY <1>3 DEF q

\* What is written down of frames is a file.
LEMMA FilesExist ==
  ASSUME NEW n \in Frames, NEW p \in Seq(Nat), NEW t \in BOOLEAN
  PROVE  FileOf(File(n, p, t))
  BY DEF FileOf

\* PTS are counted from zero.
LEMMA CountFields ==
  ASSUME NEW n \in Nat
  PROVE  Count(n) \in Seq(Nat) /\ Len(Count(n)) = n
  <1>1. Count(n) \in [1 .. n -> Nat]
    BY DEF Count
  <1>2. QED
    BY <1>1

\* A file of frames under PTS from zero.
LEMMA SegmentFields ==
  ASSUME NEW g \in Frames, NEW f, f = Segment(g)
  PROVE  FileOf(f) /\ f # None /\ f[1].frames = g /\ f[1].pts = Count(Len(g))
  <1> DEFINE p == Count(Len(g))
  <1>1. p \in Seq(Nat)
    BY CountFields DEF Frames
  <1>2. f = File(g, p, TRUE)
    BY DEF Segment
  <1> HIDE DEF p
  <1>3. FileOf(f)
    BY <1>1, <1>2, FilesExist
  <1>4. f # None /\ f[1].frames = g /\ f[1].pts = p
    BY <1>2 DEF File, None
  <1>5. QED
    BY <1>3, <1>4 DEF p

\* What the fates of an encoder make of the frames it got.
LEMMA EncodedCases ==
  ASSUME NEW g, NEW fate \in Fates, NEW f, f = Encoded(g, fate)
  PROVE  /\ fate = "drops" => f = Segment(IF Len(g) = 0 THEN g ELSE Front(g))
         /\ fate = "shifts" => f = File(g, [i \in 1 .. Len(g) |-> i], TRUE)
         /\ fate = "ticks" => f = File(g, Count(Len(g)), FALSE)
         /\ fate \in {"good", "dies"} => f = Segment(g)
  BY DEF Encoded

\* Of what an encoder can make of the frames it got, only their own file
\* passes for a segment of the chunk.
LEMMA EncodedWhole ==
  ASSUME NEW g \in Frames, NEW fate \in Fates, Len(g) = CoreFrames,
         NEW f, f = Encoded(g, fate),
         Len(f[1].frames) = CoreFrames, f[1].ticks, f[1].pts = Count(CoreFrames)
  PROVE  f = Segment(g)
  <1>1. CASE fate = "drops"
    <2> DEFINE h == Front(g)
    <2>1. Len(g) # 0
      BY Sizes
    <2>2. h \in Frames /\ Len(h) = CoreFrames - 1
      BY <2>1, Sizes DEF Front, Frames
    <2>3. f = Segment(h)
      BY <1>1, <2>1, EncodedCases
    <2> HIDE DEF h
    <2>4. f[1].frames = h
      BY <2>2, <2>3, SegmentFields
    <2>5. QED
      BY <2>2, <2>4, Sizes
  <1>2. CASE fate = "shifts"
    <2> DEFINE p == [i \in 1 .. Len(g) |-> i]
    <2>1. f = File(g, p, TRUE)
      BY <1>2, EncodedCases
    <2>2. p[1] = 1 /\ Count(CoreFrames)[1] = 0
      BY Sizes DEF Count
    <2> HIDE DEF p
    <2>3. f[1].pts = p
      BY <2>1 DEF File
    <2>4. QED
      BY <2>2, <2>3
  <1>3. CASE fate = "ticks"
    <2> DEFINE p == Count(Len(g))
    <2>1. f = File(g, p, FALSE)
      BY <1>3, EncodedCases
    <2> HIDE DEF p
    <2>2. f[1].ticks = FALSE
      BY <2>1 DEF File
    <2>3. QED
      BY <2>2
  <1>4. CASE fate \in {"good", "dies"}
    BY <1>4, EncodedCases
  <1>5. QED
    BY <1>1, <1>2, <1>3, <1>4 DEF Fates

\* An encoder makes a file.
LEMMA EncodedFile ==
  ASSUME NEW g \in Frames, NEW fate \in Fates
  PROVE  FileOf(Encoded(g, fate))
  <1> DEFINE f == Encoded(g, fate)
             p == Count(Len(g))
             q == [i \in 1 .. Len(g) |-> i]
             h == IF Len(g) = 0 THEN g ELSE Front(g)
  <1>1. p \in Seq(Nat) /\ q \in Seq(Nat) /\ h \in Frames
    <2>1. p \in Seq(Nat)
      BY CountFields DEF Frames
    <2>2. q \in [1 .. Len(g) -> Nat] /\ Len(g) \in Nat
      BY DEF Frames
    <2>3. Len(g) # 0 => Front(g) \in Frames
      BY DEF Front, Frames
    <2>4. QED
      BY <2>1, <2>2, <2>3
  <1>2. /\ fate = "drops" => f = Segment(h)
        /\ fate = "shifts" => f = File(g, q, TRUE)
        /\ fate = "ticks" => f = File(g, p, FALSE)
        /\ fate \in {"good", "dies"} => f = Segment(g)
    BY EncodedCases
  <1> HIDE DEF f, p, q, h
  <1>3. FileOf(File(g, q, TRUE)) /\ FileOf(File(g, p, FALSE))
    BY <1>1, FilesExist
  <1>4. FileOf(Segment(h)) /\ FileOf(Segment(g))
    BY <1>1, SegmentFields
  <1>5. FileOf(f)
    BY <1>2, <1>3, <1>4 DEF Fates
  <1>6. QED
    BY <1>5 DEF f

-----------------------------------------------------------------------------
(***************************************************************************)
(* The steps of encode_segment.                                            *)
(***************************************************************************)

\* A step that touches neither the results nor the chunk, nor enters or leaves
\* validate_and_concat.
LEMMA SameResults ==
  ASSUME Inv, UNCHANGED <<chunk, results>>,
         worker \notin Assembling \union {"done"}, worker' \notin Assembling,
         worker' \in Working \union {"start"} => worker \in Working \union {"start"}
  PROVE  Recorded' /\ Assembled'
  <1>1. /\ segments' = segments /\ completions' = completions /\ video' = video
        /\ late' = late /\ chunk' = chunk
    BY DEF results
  <1>2. video = None
    BY DEF Inv, Assembled
  <1>3. Recorded'
    BY <1>1 DEF Inv, Recorded
  <1>4. Assembled'
    BY <1>1, <1>2 DEF Assembled, Assembling
  <1>5. QED
    BY <1>3, <1>4

\* A step of the pass over a chunk, which touches only the generator.
LEMMA SameWriting ==
  ASSUME Inv, UNCHANGED <<writing, chunk, temporary>>, worker \in Working, worker' # "verify"
  PROVE  Writing'
  BY DEF Inv, Writing, writing

\* The encoder and then the decoder are started for a chunk.
LEMMA StartStep ==
  ASSUME Inv, StartEncoder \/ StartDecoder
  PROVE  Inv'
  <1>1. CASE StartEncoder
    <2>1. /\ worker = "start" /\ worker' = "next" /\ chunk' = chunk /\ temporary' = temporary
          /\ yielded' = 0 /\ written' = 0 /\ payload' = <<>> /\ encPipe' = <<>>
          /\ decoder' = NoDecoder /\ UNCHANGED results
      BY <1>1 DEF StartEncoder
    <2>2. PICK fate \in Fates :
            encoder' = [state |-> "running", fate |-> fate, open |-> TRUE, got |-> <<>>]
      BY <1>1 DEF StartEncoder
    <2>3. encoder'.state = "running" /\ encoder'.got = <<>>
      BY <2>2
    <2>4. TypeInv'
      BY <2>1, <2>2, Sizes DEF Inv, TypeInv, NoDecoder, Points, Working, results, Frames
    <2>5. Reading'
      BY <2>1, Sizes DEF Reading, NoDecoder
    <2>6. Writing'
      BY <2>1, <2>3 DEF Writing
    <2>7. Quiet'
      BY <2>1 DEF Quiet, Assembling
    <2>8. Recorded' /\ Assembled'
      BY <2>1, SameResults DEF Assembling, Working
    <2>9. QED
      BY <2>4, <2>5, <2>6, <2>7, <2>8 DEF Inv
  <1>2. CASE StartDecoder
    <2>1. /\ worker = "next" /\ yielded = 0 /\ worker' = "read"
          /\ UNCHANGED <<chunk, payload, yielded, temporary, writing, results>>
      BY <1>2 DEF StartDecoder
    <2>2. PICK supply \in 0 .. CoreBlocks + RawPipe + 1, fails \in BOOLEAN :
            decoder' = [NoDecoder EXCEPT !.state = "running", !.supply = supply, !.fails = fails]
      BY <1>2 DEF StartDecoder
    <2>3. decoder' = [state |-> "running", supply |-> supply, fails |-> fails,
                      made |-> 0, taken |-> 0]
      BY <2>2 DEF NoDecoder
    <2>3a. supply \in Nat
      BY Sizes
    <2>4. TypeInv'
      BY <2>1, <2>3, <2>3a DEF Inv, TypeInv, Points, Working, results, writing
    <2>5. Reading'
      <3>1. written' = written /\ written = 0 /\ payload' = payload /\ payload = <<>>
            /\ yielded' = yielded /\ yielded = 0
        BY <2>1, Sizes DEF Inv, TypeInv, Reading, Working, writing
      <3>2. decoder'.taken = 0 /\ decoder'.made = 0
        BY <2>3
      <3>3. QED
        BY <2>1, <3>1, <3>2, Sizes DEF Reading
    <2>6. Writing'
      BY <2>1, SameWriting DEF Working
    <2>7. Quiet'
      BY <2>1 DEF Quiet, Assembling
    <2>8. Recorded' /\ Assembled'
      BY <2>1, SameResults DEF Assembling, Working
    <2>9. QED
      BY <2>4, <2>5, <2>6, <2>7, <2>8 DEF Inv
  <1>3. QED
    BY <1>1, <1>2

\* Whoever leaves encode_segment early has only its files to answer for.
LEMMA Leaves ==
  ASSUME Inv, worker' \in {"reap", "dead"}, worker \notin Assembling \union {"done"},
         UNCHANGED <<chunk, results>>, TypeInv'
  PROVE  Inv'
  <1>1. Reading' /\ Writing' /\ Quiet'
    BY DEF Reading, Writing, Quiet, Working, Assembling
  <1>2. Recorded' /\ Assembled'
    BY SameResults DEF Working, Assembling
  <1>3. QED
    BY <1>1, <1>2 DEF Inv

\* The decoder is closed in the generator's finally.
LEMMA ClosedType ==
  ASSUME Inv, CloseGenerator
  PROVE  /\ decoder' \in [state : {"absent", "running", "killed", "failed", "exited"}, supply : Nat,
                          fails : BOOLEAN, made : Nat, taken : Nat]
         /\ decoder'.made = decoder.made /\ decoder'.taken = decoder.taken
  BY DEF Inv, TypeInv, CloseGenerator

\* The generator is asked for the next frame, or for what follows the last.
LEMMA NextDrawStep ==
  ASSUME Inv, NextDraw
  PROVE  Inv'
  <1>1. /\ worker = "next" /\ yielded > 0
        /\ worker' = IF yielded < CoreFrames THEN "read" ELSE "extra"
        /\ chunk' = chunk /\ temporary' = temporary /\ payload' = payload /\ yielded' = yielded
        /\ decoder' = decoder /\ UNCHANGED <<writing, results>>
    BY DEF NextDraw, reading
  <1>2. written' = written /\ encoder' = encoder /\ encPipe' = encPipe
    BY <1>1 DEF writing
  <1>3. TypeInv'
    BY <1>1, <1>2 DEF Inv, TypeInv, Points, Working, results
  <1>4. Reading'
    <2>1. written = yielded /\ payload = <<>> /\ written \in 0 .. CoreFrames
      BY <1>1 DEF Inv, TypeInv, Reading, Working
    <2>2. Len(payload) = 0 /\ FrameBlocks > 0
      BY <2>1, Sizes
    <2>3. worker \in Working /\ worker' \in {"read", "extra"}
      BY <1>1 DEF Working
    <2>4. QED
      BY <1>1, <1>2, <2>1, <2>2, <2>3, Sizes DEF Inv, Reading, Working, BlockAt
  <1>5. Writing'
    BY <1>1, SameWriting DEF Working
  <1>6. Quiet'
    BY <1>1 DEF Quiet, Assembling
  <1>7. Recorded' /\ Assembled'
    BY <1>1, SameResults DEF Assembling, Working
  <1>8. QED
    BY <1>3, <1>4, <1>5, <1>6, <1>7 DEF Inv

\* Blocks are read in their order, up to the end of the frame at most.
LEMMA ReadBlockStep ==
  ASSUME Inv, ReadBlock
  PROVE  Inv'
  <1>1. /\ worker = "read" /\ chunk' = chunk /\ temporary' = temporary
        /\ UNCHANGED <<writing, results>>
    BY DEF ReadBlock
  <1>2. written' = written /\ encoder' = encoder /\ encPipe' = encPipe
    BY <1>1 DEF writing
  <1>3. PICK n \in 1 .. InRaw :
          /\ n <= FrameBlocks - Len(payload)
          /\ payload' = payload \o [b \in 1 .. n |-> (chunk - 1) * CoreBlocks + decoder.taken + b]
          /\ decoder' = [decoder EXCEPT !.taken = @ + n]
    BY DEF ReadBlock
  <1>4. \/ Len(payload') = FrameBlocks /\ worker' = "frame" /\ yielded' = yielded + 1
        \/ Len(payload') # FrameBlocks /\ worker' = "read" /\ yielded' = yielded
    BY <1>1 DEF ReadBlock
  <1>5. /\ decoder.taken = written * FrameBlocks + Len(payload) /\ decoder.taken <= decoder.made
        /\ \A b \in 1 .. Len(payload) : payload[b] = BlockAt(written * FrameBlocks + b)
        /\ yielded = written /\ Len(payload) < FrameBlocks /\ written < CoreFrames
        /\ written \in Nat /\ payload \in Seq(Nat) /\ chunk \in Chunks
        /\ decoder.made \in Nat /\ decoder.taken \in Nat
    BY <1>1, Sizes DEF Inv, TypeInv, Reading, Working
  <1>6. n \in Nat \ {0} /\ decoder.taken + n <= decoder.made
    BY <1>5 DEF InRaw
  <1>7. decoder'.taken = decoder.taken + n /\ decoder'.made = decoder.made
        /\ decoder' \in [state : {"absent", "running", "killed", "failed", "exited"}, supply : Nat,
                          fails : BOOLEAN, made : Nat, taken : Nat]
    <2> DEFINE t == decoder.taken + n
    <2>1. t \in Nat
      BY <1>5, <1>6
    <2>2. decoder' = [decoder EXCEPT !.taken = t]
      BY <1>3
    <2> HIDE DEF t
    <2>3. decoder'.taken = t /\ decoder'.made = decoder.made
          /\ decoder' \in [state : {"absent", "running", "killed", "failed", "exited"}, supply : Nat,
                            fails : BOOLEAN, made : Nat, taken : Nat]
      BY <2>1, <2>2 DEF Inv, TypeInv
    <2>4. QED
      BY <2>3 DEF t
  <1> DEFINE more == [b \in 1 .. n |-> (chunk - 1) * CoreBlocks + decoder.taken + b]
             at == written * FrameBlocks
             base == (chunk - 1) * CoreBlocks
  <1>8. base \in Nat /\ at \in Nat
    <2>1. chunk - 1 \in Nat
      BY <1>5 DEF Chunks
    <2>2. QED
      BY <1>5, <2>1, Sizes
  <1>9. more \in Seq(Nat) /\ Len(more) = n
        /\ \A b \in 1 .. n : more[b] = base + (at + (Len(payload) + b))
    <2>1. \A b \in 1 .. n : base + decoder.taken + b = base + (at + (Len(payload) + b))
                            /\ base + decoder.taken + b \in Nat
      <3> HIDE DEF base, at
      <3>1. decoder.taken = at + Len(payload)
        BY <1>5 DEF at
      <3>2. QED
        BY <1>5, <1>6, <1>8, <3>1
    <2>2. more = [b \in 1 .. n |-> base + decoder.taken + b]
      OBVIOUS
    <2> HIDE DEF base, at, more
    <2>3. more \in [1 .. n -> Nat]
      BY <2>1, <2>2
    <2>4. QED
      BY <1>6, <2>1, <2>2, <2>3
  <1>10. payload' = payload \o more
    BY <1>3
  <1> HIDE DEF more
  <1>11. payload' \in Seq(Nat) /\ Len(payload') = Len(payload) + n
         /\ \A b \in 1 .. Len(payload') : payload'[b] = base + (at + b)
    <2>1. /\ payload' \in Seq(Nat) /\ Len(payload') = Len(payload) + n
          /\ \A b \in 1 .. Len(payload) : payload'[b] = payload[b]
          /\ \A b \in Len(payload) + 1 .. Len(payload) + n : payload'[b] = more[b - Len(payload)]
      <3>1. payload \in Seq(Nat) /\ more \in Seq(Nat) /\ Len(more) = n
        BY <1>5, <1>9
      <3> DEFINE old == payload
                 w == old \o more
      <3> HIDE DEF old
      <3>2. old \in Seq(Nat)
        BY <3>1 DEF old
      <3>3. /\ w \in Seq(Nat) /\ Len(w) = Len(old) + Len(more)
            /\ \A b \in 1 .. Len(w) : w[b] = IF b <= Len(old) THEN old[b] ELSE more[b - Len(old)]
        BY <3>1, <3>2, ConcatProperties
      <3>4. payload' = w
        BY <1>10 DEF old
      <3> HIDE DEF w
      <3>5. Len(old) \in Nat /\ n \in Nat
        BY <1>6, <3>2
      <3>6. payload' \in Seq(Nat) /\ Len(payload') = Len(old) + n
        BY <3>1, <3>3, <3>4
      <3>7. ASSUME NEW b \in 1 .. Len(old)
            PROVE  payload'[b] = old[b]
        <4>1. b \in 1 .. Len(w) /\ b <= Len(old)
          BY <3>1, <3>3, <3>5
        <4>2. QED
          BY <3>3, <3>4, <4>1
      <3>8. ASSUME NEW b \in Len(old) + 1 .. Len(old) + n
            PROVE  payload'[b] = more[b - Len(old)]
        <4>1. b \in 1 .. Len(w) /\ ~(b <= Len(old))
          BY <3>1, <3>3, <3>5
        <4>2. QED
          BY <3>3, <3>4, <4>1
      <3>9. QED
        BY <3>6, <3>7, <3>8 DEF old
    <2>2. \A b \in 1 .. Len(payload) : payload[b] = base + (at + b)
      BY <1>5 DEF BlockAt
    <2> HIDE DEF base, at
    <2>3. Len(payload) \in Nat
      BY <1>5
    <2>4. ASSUME NEW b \in Len(payload) + 1 .. Len(payload) + n
          PROVE  payload'[b] = base + (at + b)
      <3>1. b - Len(payload) \in 1 .. n /\ Len(payload) + (b - Len(payload)) = b
        BY <1>6, <2>3
      <3>2. QED
        BY <1>9, <2>1, <3>1
    <2>5. QED
      BY <1>6, <2>1, <2>2, <2>3, <2>4
  <1>12. \A b \in 1 .. Len(payload') : payload'[b] = BlockAt(written * FrameBlocks + b)'
    BY <1>1, <1>2, <1>11 DEF BlockAt, CoreBlocks
  <1>13. decoder'.taken = written * FrameBlocks + Len(payload')
    <2> HIDE DEF at, base
    <2>1. decoder.taken = at + Len(payload)
      BY <1>5 DEF at
    <2>2. decoder'.taken = at + Len(payload')
      BY <1>5, <1>6, <1>7, <1>8, <1>11, <2>1
    <2>3. QED
      BY <2>2 DEF at
  <1> HIDE DEF at, base
  <1>14. TypeInv'
    BY <1>1, <1>2, <1>4, <1>7, <1>11 DEF Inv, TypeInv, Points, Working, results
  <1>15. Reading'
    <2>1. Len(payload') <= FrameBlocks
      BY <1>3, <1>5, <1>6, <1>11, Sizes, SMTT(30)
    <2>2. worker' \in {"read", "frame"}
      BY <1>4
    <2>3. decoder'.taken <= decoder'.made
      BY <1>6, <1>7
    <2>4. yielded' = written' + (IF worker' = "frame" THEN 1 ELSE 0)
      BY <1>2, <1>4, <1>5
    <2>5. decoder'.taken = written' * FrameBlocks + Len(payload')
      BY <1>2, <1>13
    <2>6. worker' = "read" => Len(payload') < FrameBlocks /\ written' < CoreFrames
      <3>1. Len(payload') \in Nat /\ written < CoreFrames
        BY <1>5, <1>11
      <3>2. worker' = "read" => Len(payload') # FrameBlocks
        BY <1>4
      <3>3. QED
        BY <1>2, <2>1, <3>1, <3>2, Sizes
    <2>7. worker' = "frame" => Len(payload') = FrameBlocks /\ written' < CoreFrames
      BY <1>2, <1>4, <1>5
    <2>8. \A b \in 1 .. Len(payload') : payload'[b] = BlockAt(written * FrameBlocks + b)'
      BY <1>12
    <2>9. QED
      BY <2>2, <2>3, <2>4, <2>5, <2>6, <2>7, <2>8 DEF Reading
  <1>16. Writing'
    BY <1>1, <1>4, SameWriting DEF Working
  <1>17. Quiet'
    BY <1>4 DEF Quiet, Assembling
  <1>18. Recorded' /\ Assembled'
    BY <1>1, <1>4, SameResults DEF Assembling, Working
  <1>19. QED
    BY <1>14, <1>15, <1>16, <1>17, <1>18 DEF Inv

\* Every way in which encode_segment is left early: a short or a long stream, a
\* decoder that failed, a broken pipe, an exception.
LEMMA LeavingStep ==
  ASSUME Inv, TruncatedFrame \/ BrokenPipe \/ Raise
  PROVE  Inv'
  <1>1. /\ worker \in Working /\ worker' = "reap" /\ chunk' = chunk /\ payload' = payload
        /\ temporary' = temporary /\ (decoder' = decoder \/ CloseGenerator)
        /\ UNCHANGED <<writing, results>>
    BY DEF TruncatedFrame, BrokenPipe, Raise, Working, reading
  <1>2. TypeInv'
    <2>1. decoder' \in [state : {"absent", "running", "killed", "failed", "exited"}, supply : Nat,
                        fails : BOOLEAN, made : Nat, taken : Nat]
      BY <1>1, ClosedType DEF Inv, TypeInv
    <2>2. QED
      BY <1>1, <2>1 DEF Inv, TypeInv, Points, writing, results
  <1>3. worker \notin Assembling \union {"done"}
    BY <1>1 DEF Working, Assembling
  <1>4. QED
    BY <1>1, <1>2, <1>3, Leaves

\* After the core the generator looks for a surplus, and at the exit code.
LEMMA AfterCoreStep ==
  ASSUME Inv, AfterCore
  PROVE  Inv'
  <1>1. /\ worker = "extra" /\ chunk' = chunk /\ payload' = payload /\ yielded' = yielded
        /\ temporary' = temporary /\ UNCHANGED <<writing, results>>
    BY DEF AfterCore
  <1>2. \/ worker' = "reap" /\ (decoder' = decoder \/ CloseGenerator)
        \/ worker' = "close" /\ decoder' = decoder /\ InRaw = 0 /\ decoder.state = "exited"
    BY DEF AfterCore, DecoderEOF
  <1>3. TypeInv'
    <2>1. decoder' \in [state : {"absent", "running", "killed", "failed", "exited"}, supply : Nat,
                        fails : BOOLEAN, made : Nat, taken : Nat]
      BY <1>2, ClosedType DEF Inv, TypeInv
    <2>2. QED
      BY <1>1, <1>2, <2>1 DEF Inv, TypeInv, Points, Working, writing, results
  <1>4. CASE worker' = "reap"
    BY <1>1, <1>3, <1>4, Leaves DEF Assembling
  <1>5. CASE worker' = "close"
    <2>1. decoder' = decoder /\ decoder.made = decoder.taken /\ decoder.state = "exited"
      BY <1>2, <1>5 DEF Inv, TypeInv, InRaw
    <2>2. Reading'
      BY <1>1, <1>5, <2>1 DEF Inv, Reading, Working, BlockAt, writing
    <2>3. Writing'
      BY <1>1, <1>5, SameWriting DEF Working
    <2>4. Quiet'
      BY <1>5 DEF Quiet, Assembling
    <2>5. Recorded' /\ Assembled'
      BY <1>1, <1>5, SameResults DEF Working, Assembling
    <2>6. QED
      BY <1>3, <2>2, <2>3, <2>4, <2>5 DEF Inv
  <1>6. QED
    BY <1>2, <1>4, <1>5

\* A step of the decoder on its own: it writes a block, exits, or is closed
\* when the suspended generator is collected.
LEMMA DecoderStep ==
  ASSUME Inv, DecoderWrites \/ DecoderExits \/ Collect
  PROVE  Inv'
  <1>1. /\ worker' = worker /\ chunk' = chunk /\ payload' = payload /\ yielded' = yielded
        /\ temporary' = temporary /\ UNCHANGED <<writing, results>> /\ decoder.state = "running"
    BY DEF DecoderWrites, DecoderExits, Collect
  <1>2. written' = written /\ encoder' = encoder /\ encPipe' = encPipe
        /\ segments' = segments /\ completions' = completions /\ video' = video /\ late' = late
    BY <1>1 DEF writing, results
  <1>3. /\ decoder' \in [state : {"absent", "running", "killed", "failed", "exited"}, supply : Nat,
                         fails : BOOLEAN, made : Nat, taken : Nat]
        /\ decoder'.taken = decoder.taken /\ decoder'.made >= decoder.made
    <2>1. CASE DecoderWrites
      <3> DEFINE m == decoder.made + 1
      <3>1. m \in Nat /\ m >= decoder.made
        BY DEF Inv, TypeInv
      <3>2. decoder' = [decoder EXCEPT !.made = m]
        BY <2>1 DEF DecoderWrites
      <3> HIDE DEF m
      <3>3. QED
        BY <3>1, <3>2 DEF Inv, TypeInv
    <2>2. CASE DecoderExits
      <3> DEFINE s == IF decoder.fails \/ decoder.made < decoder.supply THEN "failed" ELSE "exited"
      <3>1. s \in {"failed", "exited"}
        OBVIOUS
      <3>2. decoder' = [decoder EXCEPT !.state = s]
        BY <2>2 DEF DecoderExits
      <3> HIDE DEF s
      <3>3. QED
        BY <3>1, <3>2 DEF Inv, TypeInv
    <2>3. CASE Collect
      BY <2>3, ClosedType DEF Collect, Inv, TypeInv
    <2>4. QED
      BY <2>1, <2>2, <2>3
  <1>4. TypeInv'
    BY <1>1, <1>2, <1>3 DEF Inv, TypeInv
  <1>5. Reading'
    <2>1. decoder.taken <= decoder.made => decoder'.taken <= decoder'.made
      BY <1>3 DEF Inv, TypeInv
    <2>2. worker \notin {"close", "encwait", "verify"} \/ worker \notin Working
      BY <1>1 DEF Inv, Reading
    <2>3. QED
      BY <1>1, <1>2, <1>3, <2>1, <2>2 DEF Inv, Reading, BlockAt, Working
  <1>6. Writing'
    BY <1>1, <1>2 DEF Inv, Writing
  <1>7. Quiet'
    BY <1>1, <1>2 DEF Inv, Quiet
  <1>8. Recorded' /\ Assembled'
    BY <1>1, <1>2 DEF Inv, Recorded, Assembled
  <1>9. QED
    BY <1>4, <1>5, <1>6, <1>7, <1>8 DEF Inv

\* A frame goes into the encoder's pipe: the next one of the core.
LEMMA WriteFrameStep ==
  ASSUME Inv, WriteFrame
  PROVE  Inv'
  <1>1. /\ worker = "frame" /\ worker' = "next" /\ encoder.state = "running"
        /\ encPipe' = Append(encPipe, payload) /\ written' = written + 1 /\ payload' = <<>>
        /\ chunk' = chunk /\ yielded' = yielded /\ decoder' = decoder /\ encoder' = encoder
        /\ temporary' = temporary /\ UNCHANGED results
    BY DEF WriteFrame
  <1>2. /\ decoder.taken = written * FrameBlocks + Len(payload) /\ decoder.taken <= decoder.made
        /\ \A b \in 1 .. Len(payload) : payload[b] = BlockAt(written * FrameBlocks + b)
        /\ yielded = written + 1 /\ Len(payload) = FrameBlocks /\ written < CoreFrames
        /\ written \in Nat /\ payload \in Seq(Nat) /\ chunk \in Chunks
        /\ encPipe \in Frames /\ encoder.got \in Frames
    BY <1>1, Sizes DEF Inv, TypeInv, Reading, Working
  <1>3. payload = Core(chunk)[written + 1]
    <2>1. written \in 0 .. CoreFrames - 1
      BY <1>2, Sizes
    <2>2. \A b \in 1 .. Len(payload) :
            payload[b] = (chunk - 1) * CoreBlocks + (written * FrameBlocks + b)
      BY <1>2 DEF BlockAt
    <2>3. QED
      BY <1>2, <2>1, <2>2, WholeFrame
  <1>4. /\ encPipe' \in Frames /\ Len(encPipe') = Len(encPipe) + 1
        /\ encPipe'[Len(encPipe) + 1] = payload
        /\ \A i \in 1 .. Len(encPipe) : encPipe'[i] = encPipe[i]
    BY <1>1, <1>2 DEF Frames
  <1>5. TypeInv'
    BY <1>1, <1>2, <1>4, Sizes DEF Inv, TypeInv, Points, Working, results
  <1>6. Reading'
    <2>1. (written + 1) * FrameBlocks = written * FrameBlocks + FrameBlocks
      BY <1>2, Sizes
    <2>2. decoder'.taken = written' * FrameBlocks + Len(payload') /\ decoder'.taken <= decoder'.made
      <3>1. Len(payload') = 0 /\ written' * FrameBlocks \in Nat
        BY <1>1, <1>2, Sizes
      <3>2. QED
        BY <1>1, <1>2, <2>1, <3>1
    <2>3. QED
      BY <1>1, <1>2, <2>2 DEF Reading
  <1>7. Writing'
    <2>1. /\ \A i \in 1 .. Len(encoder.got) : encoder.got[i] = Core(chunk)[i]
          /\ \A i \in 1 .. Len(encPipe) : encPipe[i] = Core(chunk)[Len(encoder.got) + i]
      BY <1>1 DEF Inv, Writing, Working
    <2>1a. Len(encoder.got) + Len(encPipe) = written
      BY <1>1 DEF Inv, Writing, Working
    <2>2. Len(encoder.got) \in Nat /\ Len(encPipe) \in Nat /\ written \in Nat
      BY <1>2 DEF Frames
    <2>3. /\ Len(encoder.got) + Len(encPipe') = written'
          /\ Len(encoder.got) + (Len(encPipe) + 1) = written + 1
      <3> DEFINE a == Len(encoder.got)
                 b == Len(encPipe)
      <3>1. a \in Nat /\ b \in Nat /\ a + b = written /\ written \in Nat
        BY <2>1a, <2>2
      <3>2. Len(encPipe') = b + 1
        BY <1>4
      <3> HIDE DEF a, b
      <3>3. a + Len(encPipe') = written' /\ a + (b + 1) = written + 1
        BY <1>1, <3>1, <3>2
      <3>4. QED
        BY <3>3 DEF a, b
    <2>4. \A i \in 1 .. Len(encPipe') : encPipe'[i] = Core(chunk)[Len(encoder.got) + i]
      <3> DEFINE k == Core(chunk)
      <3>1. payload = k[Len(encoder.got) + (Len(encPipe) + 1)]
        BY <1>3, <2>3
      <3>2. \A i \in 1 .. Len(encPipe) : encPipe[i] = k[Len(encoder.got) + i]
        BY <2>1
      <3> HIDE DEF k
      <3>3. \A i \in 1 .. Len(encPipe') : encPipe'[i] = k[Len(encoder.got) + i]
        <4>1. ASSUME NEW i \in 1 .. Len(encPipe')
              PROVE  encPipe'[i] = k[Len(encoder.got) + i]
          <5>1. CASE i = Len(encPipe) + 1
            BY <1>4, <3>1, <5>1
          <5>2. CASE i \in 1 .. Len(encPipe)
            BY <1>4, <3>2, <5>2
          <5>3. QED
            BY <1>4, <2>2, <5>1, <5>2
        <4>2. QED
          BY <4>1
      <3>4. QED
        BY <3>3 DEF k
    <2>5. QED
      BY <1>1, <2>1, <2>3, <2>4 DEF Writing, Working
  <1>8. Quiet'
    BY <1>1 DEF Quiet, Assembling
  <1>9. Recorded' /\ Assembled'
    BY <1>1, SameResults DEF Working, Assembling
  <1>10. QED
    BY <1>5, <1>6, <1>7, <1>8, <1>9 DEF Inv

\* The encoder's input is closed, and its exit awaited.
LEMMA AwaitStep ==
  ASSUME Inv, CloseStdin \/ EncoderDone
  PROVE  Inv'
  <1>1. /\ worker \in {"close", "encwait"} /\ worker' \in {"encwait", "verify", "reap"}
        /\ chunk' = chunk /\ temporary' = temporary /\ written' = written /\ encPipe' = encPipe
        /\ UNCHANGED <<reading, results>>
        /\ worker' = "verify" => encoder.state = "exited"
    BY DEF CloseStdin, EncoderDone, writing
  <1>2. payload' = payload /\ yielded' = yielded /\ decoder' = decoder
    BY <1>1 DEF reading
  <1>3. encoder' \in {encoder, [encoder EXCEPT !.open = FALSE]}
    BY DEF CloseStdin, EncoderDone, writing
  <1>4. /\ encoder' \in [state : {"absent", "running", "killed", "failed", "exited"}, fate : Fates,
                         open : BOOLEAN, got : Frames]
        /\ encoder'.state = encoder.state /\ encoder'.got = encoder.got
        /\ encoder'.fate = encoder.fate
    BY <1>3 DEF Inv, TypeInv
  <1>5. TypeInv'
    BY <1>1, <1>2, <1>4 DEF Inv, TypeInv, Points, Working, results
  <1>6. CASE worker' = "reap"
    BY <1>1, <1>5, <1>6, Leaves DEF Assembling
  <1>7. CASE worker' # "reap"
    <2>1. Reading'
      BY <1>1, <1>2, <1>7 DEF Inv, Reading, Working, BlockAt
    <2>2. Writing'
      BY <1>1, <1>4, <1>7 DEF Inv, Writing, Working
    <2>3. Quiet'
      BY <1>1, <1>7 DEF Quiet, Assembling
    <2>4. Recorded' /\ Assembled'
      BY <1>1, <1>7, SameResults DEF Working, Assembling
    <2>5. QED
      BY <1>5, <2>1, <2>2, <2>3, <2>4 DEF Inv
  <1>8. QED
    BY <1>6, <1>7

\* The segment that is published is the core of its chunk.
LEMMA PublishedIsCore ==
  ASSUME Inv, worker = "verify", Verified
  PROVE  temporary = Segment(Core(chunk))
  <1>1. /\ written = CoreFrames /\ Len(encoder.got) + Len(encPipe) = written
        /\ encPipe = <<>> /\ temporary = Encoded(encoder.got, encoder.fate)
    BY DEF Inv, Reading, Writing, Working
  <1>2. \A i \in 1 .. Len(encoder.got) : encoder.got[i] = Core(chunk)[i]
    BY DEF Inv, Writing, Working
  <1> DEFINE g == encoder.got
             fate == encoder.fate
  <1>3. g \in Frames /\ fate \in Fates /\ chunk \in Chunks
    BY DEF Inv, TypeInv
  <1>4. \A i \in 1 .. Len(g) : g[i] = Core(chunk)[i]
    BY <1>2
  <1>5. temporary = Encoded(g, fate)
    BY <1>1
  <1>6. Len(g) + Len(encPipe) = CoreFrames
    BY <1>1
  <1> HIDE DEF g, fate
  <1>7. Len(g) = CoreFrames
    <2>1. Len(encPipe) = 0 /\ Len(g) \in Nat
      BY <1>1, <1>3 DEF Frames
    <2>2. QED
      BY <1>6, <2>1
  <1>8. g = Core(chunk)
    BY <1>3, <1>4, <1>7, WholeCore
  <1>9. temporary = Segment(g)
    <2>1. /\ Len(temporary[1].frames) = CoreFrames /\ temporary[1].ticks
          /\ temporary[1].pts = Count(CoreFrames)
      BY DEF Verified
    <2>2. QED
      BY <1>3, <1>5, <1>7, <2>1, EncodedWhole
  <1>10. QED
    BY <1>8, <1>9

\* The segment is renamed, and recorded as it was read back.
LEMMA PublishStep ==
  ASSUME Inv, Publish
  PROVE  Inv'
  <1>1. /\ worker = "verify" /\ temporary' = None /\ video' = video /\ late' = late
        /\ segments' = [segments EXCEPT ![chunk] = temporary]
        /\ completions' = [completions EXCEPT ![chunk] = temporary]
        /\ UNCHANGED <<reading, writing>>
    BY DEF Publish
  <1>2. \/ chunk < NChunks /\ worker' = "start" /\ chunk' = chunk + 1
        \/ ~(chunk < NChunks) /\ worker' = "check" /\ chunk' = 1
    BY DEF Publish
  <1>3. temporary = Segment(Core(chunk))
    BY PublishedIsCore DEF Publish
  <1>4. chunk \in Chunks /\ NChunks \in Nat \ {0}
    BY Sizes DEF Inv, TypeInv
  <1>5. Core(chunk) \in Frames /\ Len(Core(chunk)) = CoreFrames
    BY <1>4, CoreFields
  <1>6. temporary # None
    BY <1>3, <1>5, SegmentFields
  <1>7. payload' = payload /\ written' = written /\ decoder' = decoder /\ encoder' = encoder
        /\ encPipe' = encPipe
    BY <1>1 DEF reading, writing
  <1>8. TypeInv'
    <2>1. chunk' \in Chunks /\ worker' \in Points
      BY <1>2, <1>4 DEF Chunks, Points, Assembling
    <2>2. FileOf(temporary')
      BY <1>1 DEF FileOf
    <2>3. QED
      BY <1>1, <1>7, <2>1, <2>2 DEF Inv, TypeInv
  <1>9. Reading' /\ Writing'
    BY <1>2 DEF Reading, Writing, Working
  <1>10. Quiet'
    <2>1. encoder.state = "exited"
      BY <1>1 DEF Inv, Writing, Working
    <2>2. QED
      BY <1>1, <1>7, <2>1 DEF Quiet
  <1>11. Recorded'
    <2>1. /\ segments \in [Chunks -> {None} \union
                               {Segment(f) : f \in {g \in Frames : Len(g) <= CoreFrames}}]
          /\ \A c \in Chunks : completions[c] \in {None, Segment(Core(c))}
          /\ \A c \in Chunks : completions[c] # None => segments[c] # None
          /\ \A c \in 1 .. chunk - 1 : completions[c] # None
          /\ DOMAIN completions = Chunks
      BY <1>1 DEF Inv, Recorded, Working
    <2>2. temporary \in {Segment(f) : f \in {g \in Frames : Len(g) <= CoreFrames}}
      BY <1>3, <1>5, Sizes
    <2>3. segments' \in [Chunks -> {None} \union
                               {Segment(f) : f \in {g \in Frames : Len(g) <= CoreFrames}}]
      BY <1>1, <1>4, <2>1, <2>2
    <2>4. completions'[chunk] = temporary /\ segments'[chunk] = temporary
      BY <1>1, <1>4, <2>1
    <2>5. \A c \in Chunks : c # chunk =>
            completions'[c] = completions[c] /\ segments'[c] = segments[c]
      BY <1>1, <1>4, <2>1
    <2>6. \A c \in Chunks : completions'[c] \in {None, Segment(Core(c))}
      BY <1>3, <2>1, <2>4, <2>5
    <2>7. \A c \in Chunks : completions'[c] # None => segments'[c] # None
      BY <1>6, <2>1, <2>4, <2>5
    <2>8. \A c \in 1 .. chunk : completions'[c] # None
      BY <1>4, <1>6, <2>1, <2>4, <2>5 DEF Chunks
    <2>9. DOMAIN completions' = Chunks
      BY <1>1, <2>1
    <2>10. CASE worker' = "start" /\ chunk' = chunk + 1
      <3>1. \A c \in 1 .. chunk' - 1 : completions'[c] # None
        BY <1>4, <2>8, <2>10 DEF Chunks
      <3>2. QED
        BY <2>3, <2>6, <2>7, <2>9, <2>10, <3>1 DEF Recorded, Assembling
    <2>11. CASE worker' = "check" /\ ~(chunk < NChunks)
      <3>1. \A c \in Chunks : completions'[c] # None
        BY <1>4, <2>8, <2>11 DEF Chunks
      <3>2. QED
        BY <2>3, <2>6, <2>7, <2>9, <2>11, <3>1 DEF Recorded, Working
    <2>12. QED
      BY <1>2, <2>10, <2>11
  <1>12. Assembled'
    <2>1. video = None
      BY <1>1 DEF Inv, Assembled
    <2>2. QED
      BY <1>1, <1>2, <2>1 DEF Assembled
  <1>13. QED
    BY <1>8, <1>9, <1>10, <1>11, <1>12 DEF Inv

\* A segment that does not pass, or cannot be renamed, is dropped.
LEMMA RejectStep ==
  ASSUME Inv, Reject
  PROVE  Inv'
  <1>1. /\ worker = "verify" /\ worker' = "reap" /\ chunk' = chunk /\ temporary' = temporary
        /\ UNCHANGED <<reading, writing, results>>
    BY DEF Reject
  <1>2. TypeInv'
    BY <1>1 DEF Inv, TypeInv, Points, reading, writing, results
  <1>3. QED
    BY <1>1, <1>2, Leaves DEF Assembling

\* The two finally blocks: the encoder is killed, and its file removed.
LEMMA CleanupStep ==
  ASSUME Inv, ReapEncoder \/ Unlink
  PROVE  Inv'
  <1>1. /\ chunk' = chunk /\ UNCHANGED <<reading, results>>
        /\ written' = written /\ encPipe' = encPipe
    BY DEF ReapEncoder, Unlink, writing
  <1>2. payload' = payload /\ decoder' = decoder /\ late' = late
    BY <1>1 DEF reading, results
  <1>3. CASE ReapEncoder
    <2>1. worker = "reap" /\ worker' = "unlink" /\ temporary' = temporary
      BY <1>3 DEF ReapEncoder
    <2> DEFINE s == IF encoder.state = "running" THEN "killed" ELSE encoder.state
    <2>2. encoder' = [encoder EXCEPT !.state = s, !.open = FALSE]
      BY <1>3 DEF ReapEncoder
    <2>3. s \in {"absent", "killed", "failed", "exited"}
      BY DEF Inv, TypeInv
    <2> HIDE DEF s
    <2>4. encoder' \in [state : {"absent", "running", "killed", "failed", "exited"}, fate : Fates,
                        open : BOOLEAN, got : Frames] /\ encoder'.state # "running"
      BY <2>2, <2>3 DEF Inv, TypeInv
    <2>5. TypeInv'
      BY <1>1, <1>2, <2>1, <2>4 DEF Inv, TypeInv, Points
    <2>6. Reading' /\ Writing' /\ Quiet'
      BY <2>1, <2>4 DEF Reading, Writing, Quiet, Working
    <2>7. Recorded' /\ Assembled'
      BY <1>1, <2>1, SameResults DEF Working, Assembling
    <2>8. QED
      BY <2>5, <2>6, <2>7 DEF Inv
  <1>4. CASE Unlink
    <2>1. worker = "unlink" /\ worker' = "failed" /\ temporary' = None /\ encoder' = encoder
      BY <1>4 DEF Unlink, writing
    <2>2. TypeInv'
      BY <1>1, <1>2, <2>1 DEF Inv, TypeInv, Points, FileOf
    <2>3. Reading' /\ Writing' /\ Quiet'
      BY <2>1 DEF Inv, Reading, Writing, Quiet, Working
    <2>4. Recorded' /\ Assembled'
      BY <1>1, <2>1, SameResults DEF Working, Assembling
    <2>5. QED
      BY <2>2, <2>3, <2>4 DEF Inv
  <1>5. QED
    BY <1>3, <1>4

-----------------------------------------------------------------------------
(***************************************************************************)
(* The encoder.                                                            *)
(***************************************************************************)

\* A frame leaves the pipe for the encoder: none is lost between them.
LEMMA EncoderReadsStep ==
  ASSUME Inv, EncoderReads
  PROVE  Inv'
  <1>1. /\ encoder.state = "running" /\ encPipe # <<>>
        /\ encoder' = [encoder EXCEPT !.got = Append(encoder.got, Head(encPipe))]
        /\ encPipe' = Tail(encPipe) /\ temporary' = Segment(encoder'.got)
        /\ worker' = worker /\ chunk' = chunk /\ written' = written
        /\ UNCHANGED <<reading, results>>
    BY DEF EncoderReads
  <1>2. /\ payload' = payload /\ decoder' = decoder /\ yielded' = yielded /\ late' = late
        /\ segments' = segments /\ completions' = completions /\ video' = video
    BY <1>1 DEF reading, results
  <1> DEFINE a == encoder.got
             h == Append(a, Head(encPipe))
  <1>3. a \in Frames /\ encPipe \in Frames
    BY DEF Inv, TypeInv
  <1>4. encoder' = [encoder EXCEPT !.got = h]
    BY <1>1
  <1> HIDE DEF a
  <1>5. /\ h \in Frames /\ Len(h) = Len(a) + 1 /\ h[Len(a) + 1] = encPipe[1]
        /\ \A i \in 1 .. Len(a) : h[i] = a[i]
    BY <1>1, <1>3 DEF Frames
  <1>6. /\ encPipe' \in Frames /\ Len(encPipe') = Len(encPipe) - 1 /\ Len(encPipe) # 0
        /\ \A i \in 1 .. Len(encPipe') : encPipe'[i] = encPipe[i + 1]
    BY <1>1, <1>3 DEF Frames
  <1> HIDE DEF h
  <1>7. /\ encoder' \in [state : {"absent", "running", "killed", "failed", "exited"}, fate : Fates,
                         open : BOOLEAN, got : Frames]
        /\ encoder'.got = h /\ encoder'.state = "running"
    BY <1>1, <1>4, <1>5 DEF Inv, TypeInv
  <1>8. FileOf(temporary')
    BY <1>1, <1>5, <1>7, SegmentFields
  <1>9. TypeInv'
    BY <1>1, <1>2, <1>6, <1>7, <1>8 DEF Inv, TypeInv
  <1>10. Reading'
    BY <1>1, <1>2 DEF Inv, Reading, BlockAt
  <1>11. Writing'
    <2>1. SUFFICES ASSUME worker \in Working
                   PROVE  Writing'
      BY <1>1 DEF Writing
    <2>2. \A i \in 1 .. Len(a) : a[i] = Core(chunk)[i]
      BY <2>1 DEF Inv, Writing, a
    <2>3. \A i \in 1 .. Len(encPipe) : encPipe[i] = Core(chunk)[Len(a) + i]
      BY <2>1 DEF Inv, Writing, a
    <2>4. Len(a) + Len(encPipe) = written
      BY <2>1 DEF Inv, Writing, a
    <2>5. Len(a) \in Nat /\ Len(encPipe) \in Nat
      BY <1>3 DEF Frames
    <2> DEFINE k == Core(chunk)
               n == Len(a)
               m == Len(encPipe)
    <2>6. \A i \in 1 .. n : a[i] = k[i]
      BY <2>2
    <2>7. \A i \in 1 .. m : encPipe[i] = k[n + i]
      BY <2>3
    <2> HIDE DEF k, n, m
    <2>8. n \in Nat /\ m \in Nat /\ m # 0 /\ n + m = written /\ Len(h) = n + 1
          /\ Len(encPipe') = m - 1 /\ h[n + 1] = encPipe[1]
      BY <1>5, <1>6, <2>4, <2>5 DEF n, m
    <2>9. ASSUME NEW i \in 1 .. Len(h)
          PROVE  h[i] = k[i]
      <3>1. CASE i = n + 1
        BY <2>7, <2>8, <3>1
      <3>2. CASE i \in 1 .. n
        BY <1>5, <2>6, <3>2 DEF n
      <3>3. QED
        BY <2>8, <3>1, <3>2
    <2>10. ASSUME NEW i \in 1 .. Len(encPipe')
           PROVE  encPipe'[i] = k[Len(h) + i]
      <3>1. i + 1 \in 1 .. m /\ n + (i + 1) = Len(h) + i
        BY <2>8
      <3>2. QED
        BY <1>6, <2>7, <3>1
    <2>11. Len(h) + Len(encPipe') = written
      BY <2>8
    <2>12. worker # "verify"
      BY <1>1 DEF Inv, Writing, Working
    <2>13. QED
      BY <1>1, <1>7, <2>9, <2>10, <2>11, <2>12 DEF Writing, k
  <1>12. worker \notin {"start", "unlink", "failed", "done"} \union Assembling
    BY <1>1 DEF Inv, Quiet
  <1>13. Quiet'
    BY <1>1, <1>12 DEF Quiet, Assembling
  <1>14. Recorded' /\ Assembled'
    BY <1>1, <1>12, SameResults
  <1>15. QED
    BY <1>9, <1>10, <1>11, <1>13, <1>14 DEF Inv

\* The encoder ends with what its fate makes of the frames.
LEMMA EncoderExitsStep ==
  ASSUME Inv, EncoderExits
  PROVE  Inv'
  <1>1. /\ encoder.state = "running" /\ worker' = worker /\ chunk' = chunk
        /\ written' = written /\ encPipe' = encPipe /\ UNCHANGED <<reading, results>>
    BY DEF EncoderExits
  <1>2. /\ payload' = payload /\ decoder' = decoder /\ yielded' = yielded /\ late' = late
    BY <1>1 DEF reading, results
  <1>3. \/ encoder' = [encoder EXCEPT !.state = "failed"] /\ temporary' = temporary
        \/ /\ encoder' = [encoder EXCEPT !.state = "exited"] /\ encPipe = <<>>
           /\ temporary' = Encoded(encoder.got, encoder.fate)
    BY DEF EncoderExits
  <1>4. /\ encoder' \in [state : {"absent", "running", "killed", "failed", "exited"}, fate : Fates,
                         open : BOOLEAN, got : Frames]
        /\ encoder'.got = encoder.got /\ encoder'.fate = encoder.fate
        /\ encoder'.state \in {"failed", "exited"}
        /\ encoder'.state = "exited" =>
             encPipe = <<>> /\ temporary' = Encoded(encoder.got, encoder.fate)
    BY <1>3 DEF Inv, TypeInv
  <1>5. FileOf(temporary')
    <2> DEFINE g == encoder.got
               fate == encoder.fate
    <2>1. g \in Frames /\ fate \in Fates /\ FileOf(temporary)
      BY DEF Inv, TypeInv
    <2>2. temporary' = temporary \/ temporary' = Encoded(g, fate)
      BY <1>3
    <2> HIDE DEF g, fate
    <2>3. QED
      BY <2>1, <2>2, EncodedFile
  <1>6. TypeInv'
    BY <1>1, <1>2, <1>4, <1>5 DEF Inv, TypeInv
  <1>7. Reading'
    BY <1>1, <1>2 DEF Inv, Reading, BlockAt
  <1>8. Writing'
    <2>1. worker # "verify"
      BY <1>1 DEF Inv, Writing, Working
    <2>2. QED
      BY <1>1, <1>4, <2>1 DEF Inv, Writing
  <1>9. worker \notin {"start", "unlink", "failed", "done"} \union Assembling
    BY <1>1 DEF Inv, Quiet
  <1>10. Quiet'
    BY <1>1, <1>9 DEF Quiet, Assembling
  <1>11. Recorded' /\ Assembled'
    BY <1>1, <1>9, SameResults
  <1>12. QED
    BY <1>6, <1>7, <1>8, <1>10, <1>11 DEF Inv
-----------------------------------------------------------------------------
(***************************************************************************)
(* The steps of validate_and_concat, and what can happen at any time.      *)
(***************************************************************************)

\* What a segment file holds.
LEMMA SegmentFrames ==
  ASSUME Recorded, NEW c \in Chunks, segments[c] # None
  PROVE  /\ segments[c][1].frames \in Frames
         /\ Len(segments[c][1].frames) <= CoreFrames
         /\ segments[c] = Segment(segments[c][1].frames)
         /\ segments[c] = Segment(Core(c)) => segments[c][1].frames = Core(c)
  <1>1. PICK f \in Frames : segments[c] = Segment(f) /\ Len(f) <= CoreFrames
    BY DEF Recorded
  <1>2. segments[c][1].frames = f
    BY <1>1, SegmentFields
  <1>3. segments[c] = Segment(Core(c)) => segments[c][1].frames = Core(c)
    BY CoreFields, SegmentFields
  <1>4. QED
    BY <1>1, <1>2, <1>3

\* Segments of at most CoreFrames frames that fill the video are each in their
\* place.
LEMMA JoinedFields ==
  ASSUME Recorded, NEW cs \in SUBSET Chunks,
         \A c \in Chunks : segments[c] # None,
         \A c \in cs : segments[c] = Segment(Core(c))
  PROVE  /\ Joined \in Frames
         /\ Len(Joined) = NChunks * CoreFrames => Keeps(Joined, cs)
  <1> DEFINE s == [c \in Chunks |-> segments[c][1].frames]
             j == FlattenSeq(s)
  <1>1. \A c \in Chunks : s[c] \in Seq(Seq(Nat)) /\ Len(s[c]) <= CoreFrames
    BY SegmentFrames DEF Frames
  <1>2. \A c \in cs : s[c] = Core(c)
    BY SegmentFrames
  <1>3. s = [c \in 1 .. NChunks |-> s[c]]
    BY DEF Chunks
  <1>4. Joined = j
    BY DEF Joined
  <1> HIDE DEF s
  <1>5. s \in [1 .. NChunks -> Seq(Seq(Nat))] /\ \A c \in 1 .. NChunks : Len(s[c]) <= CoreFrames
    BY <1>1, <1>3 DEF Chunks
  <1>6. NChunks \in Nat \ {0} /\ CoreFrames \in Nat
    BY Sizes
  <1>7. /\ j \in Seq(Seq(Nat))
        /\ Len(j) = NChunks * CoreFrames =>
             \A c \in 1 .. NChunks, i \in 1 .. CoreFrames : j[(c - 1) * CoreFrames + i] = s[c][i]
    <2> DEFINE S == Seq(Nat)
               n == NChunks
               L == CoreFrames
    <2>1. n \in Nat \ {0}
      BY <1>6
    <2>2. L \in Nat
      BY <1>6
    <2>3. s \in [1 .. n -> Seq(S)]
      BY <1>5
    <2>4. \A c \in 1 .. n : Len(s[c]) <= L
      BY <1>5
    <2> HIDE DEF S, n, L
    <2>5. FlattenSeq(s) \in Seq(S)
      BY <2>1, <2>2, <2>3, <2>4, FlattenContent
    <2>6. Len(FlattenSeq(s)) = n * L => Holds(FlattenSeq(s), s, n, L)
      BY <2>1, <2>2, <2>3, <2>4, FlattenContent
    <2>7. QED
      BY <2>5, <2>6 DEF S, n, L, Holds
  <1> HIDE DEF j
  <1>8. Len(j) = NChunks * CoreFrames => Keeps(j, cs)
    BY <1>2, <1>7 DEF Keeps, Chunks
  <1>9. QED
    BY <1>4, <1>7, <1>8 DEF Frames

\* The worker is killed.
LEMMA KillStep ==
  ASSUME Inv, Kill
  PROVE  Inv'
  <1>1. /\ worker \notin {"dead", "failed", "done"} /\ worker' = "dead" /\ chunk' = chunk
        /\ temporary' = temporary /\ UNCHANGED <<reading, writing, results>>
    BY DEF Kill
  <1>2. /\ segments' = segments /\ completions' = completions /\ video' = video /\ late' = late
    BY <1>1 DEF results
  <1>3. TypeInv'
    BY <1>1, <1>2 DEF Inv, TypeInv, Points, reading, writing
  <1>4. Reading' /\ Writing' /\ Quiet'
    BY <1>1 DEF Reading, Writing, Quiet, Working, Assembling
  <1>5. Recorded' /\ Assembled'
    BY <1>1, <1>2 DEF Inv, Recorded, Assembled, Working, Assembling
  <1>6. QED
    BY <1>3, <1>4, <1>5 DEF Inv

\* A segment is hashed and compared with what was recorded.
LEMMA CheckStep ==
  ASSUME Inv, CheckSegment
  PROVE  Inv'
  <1>1. /\ worker = "check" /\ temporary' = temporary /\ UNCHANGED <<reading, writing, results>>
    BY DEF CheckSegment
  <1>2. \/ /\ segments[chunk] = completions[chunk] /\ chunk < NChunks
           /\ chunk' = chunk + 1 /\ worker' = "check"
        \/ /\ segments[chunk] = completions[chunk] /\ ~(chunk < NChunks)
           /\ chunk' = chunk /\ worker' = "concat"
        \/ chunk' = chunk /\ worker' = "failed"
    BY <1>1 DEF CheckSegment
  <1>3. /\ payload' = payload /\ written' = written /\ decoder' = decoder /\ encoder' = encoder
        /\ encPipe' = encPipe /\ segments' = segments /\ completions' = completions
        /\ video' = video /\ late' = late
    BY <1>1 DEF reading, writing, results
  <1>4. chunk \in Chunks /\ NChunks \in Nat \ {0}
    BY Sizes DEF Inv, TypeInv
  <1>5. TypeInv'
    <2>1. chunk' \in Chunks /\ worker' \in Points
      BY <1>2, <1>4 DEF Chunks, Points, Assembling
    <2>2. QED
      BY <1>1, <1>3, <2>1 DEF Inv, TypeInv
  <1>6. Reading' /\ Writing'
    BY <1>2 DEF Reading, Writing, Working
  <1>7. Quiet'
    BY <1>1, <1>2, <1>3 DEF Inv, Quiet, Assembling
  <1>8. Recorded'
    BY <1>1, <1>2, <1>3 DEF Inv, Recorded, Working, Assembling
  <1>9. Assembled'
    <2>1. video = None
      BY <1>1 DEF Inv, Assembled
    <2>2. \A c \in 1 .. chunk - 1 : c \in late \/ segments[c] = completions[c]
      BY <1>1 DEF Inv, Assembled
    <2>3. segments[chunk] = completions[chunk] =>
            \A c \in 1 .. chunk : c \in late \/ segments[c] = completions[c]
      BY <1>4, <2>2 DEF Chunks
    <2>4. worker' = "check" => \A c \in 1 .. chunk' - 1 : c \in late \/ segments[c] = completions[c]
      BY <1>2, <1>4, <2>3 DEF Chunks
    <2>5. worker' = "concat" => \A c \in Chunks : c \in late \/ segments[c] = completions[c]
      BY <1>2, <1>4, <2>3 DEF Chunks
    <2>6. worker' # "scan"
      BY <1>2
    <2>7. QED
      BY <1>3, <2>1, <2>4, <2>5, <2>6 DEF Assembled
  <1>10. QED
    BY <1>5, <1>6, <1>7, <1>8, <1>9 DEF Inv

\* The segments are copied into one file.
LEMMA ConcatStep ==
  ASSUME Inv, Concat
  PROVE  Inv'
  <1>1. /\ worker = "concat" /\ chunk' = chunk /\ UNCHANGED <<reading, writing, results>>
    BY DEF Concat
  <1>2. \/ temporary' = Segment(Joined) /\ worker' = "scan"
        \/ temporary' = Segment(<<>>) /\ worker' = "unlink"
        \/ temporary' = File(Joined, [i \in 1 .. Len(Joined) |-> i], TRUE) /\ worker' = "scan"
    BY DEF Concat
  <1>3. /\ payload' = payload /\ written' = written /\ decoder' = decoder /\ encoder' = encoder
        /\ encPipe' = encPipe /\ segments' = segments /\ completions' = completions
        /\ video' = video /\ late' = late
    BY <1>1 DEF reading, writing, results
  <1>4. /\ Recorded /\ video = None /\ encoder.state # "running"
        /\ \A c \in Chunks : completions[c] # None
        /\ \A c \in Chunks : c \in late \/ segments[c] = completions[c]
    BY <1>1 DEF Inv, Recorded, Assembled, Quiet, Assembling
  <1>5. \A c \in Chunks \ late : segments[c] = Segment(Core(c))
    BY <1>4 DEF Recorded
  <1>6. \A c \in Chunks : segments[c] # None
    BY <1>4 DEF Recorded
  <1>7. /\ Joined \in Frames
        /\ Len(Joined) = NChunks * CoreFrames => Keeps(Joined, Chunks \ late)
    <2>1. (Chunks \ late) \in SUBSET Chunks
      OBVIOUS
    <2> DEFINE cs == Chunks \ late
    <2>2. cs \in SUBSET Chunks /\ \A c \in cs : segments[c] = Segment(Core(c))
      BY <1>5
    <2> HIDE DEF cs
    <2>3. Joined \in Frames /\ (Len(Joined) = NChunks * CoreFrames => Keeps(Joined, cs))
      BY <1>4, <1>6, <2>2, JoinedFields
    <2>4. QED
      BY <2>3 DEF cs
  <1> DEFINE j == Joined
             p == [i \in 1 .. Len(j) |-> i]
  <1>8. <<>> \in Frames /\ p \in Seq(Nat)
    <2>1. j \in Frames
      BY <1>7
    <2> HIDE DEF j
    <2>2. Len(j) \in Nat
      BY <2>1 DEF Frames
    <2>3. p \in [1 .. Len(j) -> Nat]
      OBVIOUS
    <2>4. QED
      BY <2>2, <2>3 DEF Frames
  <1>9. \/ temporary' = Segment(j) /\ worker' = "scan"
        \/ temporary' = Segment(<<>>) /\ worker' = "unlink"
        \/ temporary' = File(j, p, TRUE) /\ worker' = "scan"
    BY <1>2
  <1>10. j \in Frames /\ (Len(j) = NChunks * CoreFrames => Keeps(j, Chunks \ late))
    BY <1>7
  <1> HIDE DEF j, p
  <1>11. /\ FileOf(temporary')
         /\ worker' = "scan" => temporary' # None /\ temporary'[1].frames = j
    <2>1. CASE temporary' = Segment(j)
      BY <1>9, <1>10, <2>1, SegmentFields
    <2>2. CASE temporary' = Segment(<<>>) /\ worker' = "unlink"
      BY <1>8, <2>2, SegmentFields
    <2>3. CASE temporary' = File(j, p, TRUE)
      <3>1. FileOf(temporary')
        BY <1>8, <1>10, <2>3, FilesExist
      <3>2. temporary' # None /\ temporary'[1].frames = j
        BY <2>3 DEF File, None
      <3>3. QED
        BY <3>1, <3>2
    <2>4. QED
      BY <1>9, <2>1, <2>2, <2>3
  <1>12. worker' \in {"scan", "unlink"}
    BY <1>9
  <1>13. TypeInv'
    BY <1>1, <1>3, <1>11, <1>12 DEF Inv, TypeInv, Points, Assembling
  <1>14. Reading' /\ Writing' /\ Quiet'
    BY <1>3, <1>4, <1>12 DEF Reading, Writing, Quiet, Working
  <1>15. Recorded'
    BY <1>1, <1>3, <1>4, <1>12 DEF Recorded, Working
  <1>16. Assembled'
    BY <1>3, <1>4, <1>10, <1>11, <1>12 DEF Assembled
  <1>17. QED
    BY <1>13, <1>14, <1>15, <1>16 DEF Inv

\* The joined file is scanned, and becomes the video if its frames and PTS
\* are those of the job.
LEMMA PublishVideoStep ==
  ASSUME Inv, PublishVideo
  PROVE  Inv'
  <1>1. /\ worker = "scan" /\ chunk' = chunk /\ segments' = segments
        /\ completions' = completions /\ late' = late /\ UNCHANGED <<reading, writing>>
    BY DEF PublishVideo
  <1>2. \/ /\ Len(temporary[1].frames) = NChunks * CoreFrames
           /\ temporary[1].pts = Count(NChunks * CoreFrames)
           /\ video' = temporary /\ temporary' = None /\ worker' = "done"
        \/ worker' = "unlink" /\ video' = video /\ temporary' = temporary
    BY DEF PublishVideo
  <1>3. /\ payload' = payload /\ written' = written /\ decoder' = decoder /\ encoder' = encoder
        /\ encPipe' = encPipe
    BY <1>1 DEF reading, writing
  <1>4. /\ video = None /\ encoder.state # "running"
        /\ Len(temporary[1].frames) = NChunks * CoreFrames =>
             Keeps(temporary[1].frames, Chunks \ late)
    BY <1>1 DEF Inv, Assembled, Quiet, Assembling
  <1>5. TypeInv'
    BY <1>1, <1>2, <1>3 DEF Inv, TypeInv, Points, FileOf
  <1>6. Reading' /\ Writing' /\ Quiet'
    BY <1>2, <1>3, <1>4 DEF Reading, Writing, Quiet, Working
  <1>7. Recorded'
    BY <1>1, <1>2 DEF Inv, Recorded, Working, Assembling
  <1>8. Assembled'
    BY <1>1, <1>2, <1>4 DEF Assembled
  <1>9. QED
    BY <1>5, <1>6, <1>7, <1>8 DEF Inv

\* Front drops one frame, if there is one.
LEMMA FrontFields ==
  ASSUME NEW f \in Frames
  PROVE  Front(f) \in Frames /\ Len(Front(f)) <= Len(f)
  <1>1. CASE Len(f) = 0
    <2>1. f = <<>>
      BY <1>1 DEF Frames
    <2>2. Front(f) = f
      BY <2>1 DEF Front
    <2>3. QED
      BY <1>1, <2>2
  <1>2. CASE Len(f) # 0
    <2> DEFINE h == Front(f)
    <2>1. Len(f) \in Nat \ {0}
      BY <1>2 DEF Frames
    <2>2. h = SubSeq(f, 1, Len(f) - 1)
      BY DEF Front
    <2>3. \A i \in 1 .. Len(f) - 1 : f[i] \in Seq(Nat)
      BY <2>1 DEF Frames
    <2> HIDE DEF h
    <2>4. h \in Seq(Seq(Nat)) /\ Len(h) <= Len(f)
      BY <2>1, <2>2, <2>3, SubSeqProperties
    <2>5. QED
      BY <2>4 DEF Frames, h
  <1>3. QED
    BY <1>1, <1>2

\* A segment changes on disk, before it is hashed or late.
LEMMA DamageStep ==
  ASSUME Inv, Damage
  PROVE  Inv'
  <1>1. /\ worker' = worker /\ chunk' = chunk /\ temporary' = temporary
        /\ completions' = completions /\ video' = video /\ UNCHANGED <<reading, writing>>
    BY DEF Damage
  <1>2. PICK c \in Chunks :
          /\ segments[c] # None
          /\ \/ segments' = [segments EXCEPT ![c] = Segment(Front(segments[c][1].frames))]
             \/ segments' = [segments EXCEPT ![c] =
                  Segment([i \in DOMAIN segments[c][1].frames |-> <<0>>])]
          /\ late' = IF worker = "concat" \/ (worker = "check" /\ c < chunk)
                       THEN late \cup {c} ELSE late
    BY DEF Damage
  <1>3. /\ payload' = payload /\ written' = written /\ decoder' = decoder /\ encoder' = encoder
        /\ encPipe' = encPipe /\ yielded' = yielded
    BY <1>1 DEF reading, writing
  <1> DEFINE f == segments[c][1].frames
             g == [i \in DOMAIN f |-> <<0>>]
  <1>4. f \in Frames /\ Len(f) <= CoreFrames
    BY <1>2, SegmentFrames DEF Inv
  <1>5. PICK h \in Frames : Len(h) <= CoreFrames /\ segments' = [segments EXCEPT ![c] = Segment(h)]
    <2>1. \/ segments' = [segments EXCEPT ![c] = Segment(Front(f))]
          \/ segments' = [segments EXCEPT ![c] = Segment(g)]
      BY <1>2
    <2> HIDE DEF f
    <2>2. Front(f) \in Frames /\ Len(Front(f)) <= CoreFrames
      <3> DEFINE h == Front(f)
      <3>1. h \in Frames /\ Len(h) <= Len(f)
        BY <1>4, FrontFields
      <3> HIDE DEF h
      <3>2. Len(h) <= CoreFrames
        BY <1>4, <3>1, Sizes DEF Frames
      <3>3. QED
        BY <3>1, <3>2 DEF h
    <2>3. g \in Frames /\ Len(g) <= CoreFrames
      <3>1. DOMAIN f = 1 .. Len(f) /\ Len(f) \in Nat
        BY <1>4 DEF Frames
      <3>2. <<0>> \in Seq(Nat)
        OBVIOUS
      <3>3. g \in [1 .. Len(f) -> Seq(Nat)]
        BY <3>1, <3>2
      <3>4. g \in Frames /\ Len(g) = Len(f)
        BY <3>1, <3>3 DEF Frames
      <3>5. QED
        BY <1>4, <3>4
    <2>4. QED
      BY <2>1, <2>2, <2>3
  <1> HIDE DEF f, g
  <1>6. late' \subseteq Chunks
    BY <1>2 DEF Inv, TypeInv
  <1>7. TypeInv'
    BY <1>1, <1>3, <1>6 DEF Inv, TypeInv
  <1>8. Reading' /\ Writing' /\ Quiet'
    BY <1>1, <1>3 DEF Inv, Reading, Writing, Quiet, BlockAt
  <1> DEFINE kept == {None} \union {Segment(e) : e \in {d \in Frames : Len(d) <= CoreFrames}}
  <1>9. segments \in [Chunks -> kept] /\ Segment(h) \in kept /\ Segment(h) # None
    <2>1. Segment(h) # None
      BY SegmentFields
    <2>2. QED
      BY <1>5, <2>1 DEF Inv, Recorded
  <1>10. /\ segments' \in [Chunks -> kept] /\ segments'[c] # None
         /\ \A d \in Chunks : d # c => segments'[d] = segments[d]
    <2> DEFINE new == Segment(h)
    <2>1. new \in kept /\ new # None /\ segments' = [segments EXCEPT ![c] = new]
      BY <1>5, <1>9
    <2> HIDE DEF new, kept
    <2>2. QED
      BY <1>9, <2>1
  <1>11. Recorded'
    <2>1. \A d \in Chunks : completions[d] # None => segments'[d] # None
      BY <1>10 DEF Inv, Recorded
    <2>2. QED
      BY <1>1, <1>10, <2>1 DEF Inv, Recorded
  <1>12. Assembled'
    <2>1. worker = "check" => \A d \in 1 .. chunk - 1 : d \in late' \/ segments'[d] = completions[d]
      <3>1. SUFFICES ASSUME worker = "check", NEW d \in 1 .. chunk - 1
                     PROVE  d \in late' \/ segments'[d] = completions[d]
        OBVIOUS
      <3>2. d \in Chunks /\ d < chunk
        BY Sizes DEF Inv, TypeInv, Chunks
      <3>3. d \in late \/ segments[d] = completions[d]
        BY <3>1 DEF Inv, Assembled
      <3>4. QED
        BY <1>2, <1>10, <3>1, <3>2, <3>3
    <2>2. worker = "concat" => \A d \in Chunks : d \in late' \/ segments'[d] = completions[d]
      BY <1>2, <1>10 DEF Inv, Assembled
    <2>3. worker \in {"scan", "done"} => late' = late
      BY <1>2
    <2>4. QED
      BY <1>1, <2>1, <2>2, <2>3 DEF Inv, Assembled
  <1>13. QED
    BY <1>7, <1>8, <1>11, <1>12 DEF Inv

\* At the start nothing is read, written or recorded.
LEMMA SegmentPipeStart ==
  ASSUME Init
  PROVE  Inv
  <1>1. /\ worker = "start" /\ chunk = 1 /\ payload = <<>> /\ yielded = 0 /\ written = 0
        /\ decoder = NoDecoder /\ encoder = NoEncoder /\ encPipe = <<>>
        /\ temporary = None /\ late = {} /\ video = None
        /\ segments = [c \in Chunks |-> None] /\ completions = [c \in Chunks |-> None]
    BY DEF Init
  <1>2. chunk \in Chunks /\ written \in 0 .. CoreFrames /\ payload \in Seq(Nat)
    BY <1>1, Sizes DEF Chunks
  <1>3. encPipe \in Frames /\ <<>> \in Frames
    BY <1>1 DEF Frames
  <1>4. TypeInv
    BY <1>1, <1>2, <1>3 DEF TypeInv, Points, FileOf, NoDecoder, NoEncoder, Fates
  <1>5. Reading /\ Writing
    BY <1>1 DEF Reading, Writing, Working
  <1>6. Quiet
    BY <1>1 DEF Quiet, NoEncoder, Assembling
  <1>7. Recorded
    BY <1>1 DEF Recorded, Assembling
  <1>8. Assembled
    BY <1>1 DEF Assembled
  <1>9. QED
    BY <1>4, <1>5, <1>6, <1>7, <1>8 DEF Inv

\* Every step keeps the invariant.
LEMMA SegmentPipeStep ==
  ASSUME Inv, [Next]_vars
  PROVE  Inv'
  <1>1. CASE Generator
    BY <1>1, StartStep, NextDrawStep, ReadBlockStep, LeavingStep, AfterCoreStep, DecoderStep
    DEF Generator
  <1>2. CASE Encode
    BY <1>2, StartStep, WriteFrameStep, LeavingStep, AwaitStep, PublishStep, RejectStep,
       CleanupStep
    DEF Encode
  <1>3. CASE Assemble
    BY <1>3, CheckStep, ConcatStep, PublishVideoStep DEF Assemble
  <1>4. CASE Decoding \/ Encoding
    BY <1>4, DecoderStep, EncoderReadsStep, EncoderExitsStep DEF Decoding, Encoding
  <1>5. CASE Raise \/ Kill \/ Damage
    BY <1>5, LeavingStep, KillStep, DamageStep
  <1>6. CASE UNCHANGED vars
    BY <1>6
    DEF vars, Inv, TypeInv, Reading, BlockAt, Writing, Quiet, Recorded, Assembled
  <1>7. QED
    BY <1>1, <1>2, <1>3, <1>4, <1>5, <1>6 DEF Next

\* The invariant holds in every reachable state.
LEMMA SegmentPipeInvariant == Spec => []Inv
  <1>1. Init => Inv
    BY SegmentPipeStart
  <1>2. Inv /\ [Next]_vars => Inv'
    BY SegmentPipeStep
  <1>3. QED
    BY <1>1, <1>2, PTL DEF Spec

\* Only a publication changes what is recorded.
LEMMA RecordedBy ==
  ASSUME [Next]_vars, completions' # completions
  PROVE  Publish
  BY DEF Next, vars, Generator, Encode, Assemble, Decoding, Encoding, results,
         StartDecoder, NextDraw, ReadBlock, TruncatedFrame, AfterCore, Collect,
         StartEncoder, WriteFrame, BrokenPipe, CloseStdin, EncoderDone, Reject, ReapEncoder,
         Unlink, CheckSegment, Concat, PublishVideo, DecoderWrites, DecoderExits,
         EncoderReads, EncoderExits, Raise, Kill, Damage

-----------------------------------------------------------------------------
(***************************************************************************)
(* Theorems.                                                               *)
(***************************************************************************)

\* The variables keep their types: among them that the encoder's pipe, what it
\* got and every file are sequences of frames.
THEOREM TypeCorrect == Spec => []TypeInv
  BY SegmentPipeInvariant, PTL DEF Inv

\* A segment is recorded only as exactly its core, from a decoder that supplied
\* that core, no more, and ended well.
THEOREM ExactSegmentsOnly == Spec => OnlyExactSegments
  <1> DEFINE Exact == \A c \in Chunks : completions'[c] # completions[c] =>
                        /\ completions'[c] = Segment(Core(c))
                        /\ segments'[c] = completions'[c]
                        /\ decoder.state = "exited" /\ decoder.made = CoreBlocks
  <1>1. ASSUME Inv, [Next]_vars
        PROVE  Exact
    <2>1. SUFFICES ASSUME NEW c \in Chunks, completions'[c] # completions[c]
                   PROVE  /\ completions'[c] = Segment(Core(c))
                          /\ segments'[c] = completions'[c]
                          /\ decoder.state = "exited" /\ decoder.made = CoreBlocks
      OBVIOUS
    <2>2. Publish
      BY <1>1, <2>1, RecordedBy
    <2>3. /\ worker = "verify" /\ Verified
          /\ segments' = [segments EXCEPT ![chunk] = temporary]
          /\ completions' = [completions EXCEPT ![chunk] = temporary]
      BY <2>2 DEF Publish
    <2>4. temporary = Segment(Core(chunk))
      BY <1>1, <2>3, PublishedIsCore
    <2>5. DOMAIN segments = Chunks /\ DOMAIN completions = Chunks
      BY <1>1 DEF Inv, Recorded
    <2>6. c = chunk /\ completions'[c] = temporary /\ segments'[c] = temporary
      BY <2>1, <2>3, <2>5
    <2>7. /\ decoder.state = "exited" /\ decoder.made = decoder.taken
          /\ payload = <<>> /\ written = CoreFrames
          /\ decoder.taken = written * FrameBlocks + Len(payload)
      BY <1>1, <2>3 DEF Inv, Reading, Working
    <2>8. decoder.made = CoreBlocks
      <3>1. CoreFrames * FrameBlocks \in Nat
        BY Sizes
      <3>2. QED
        BY <2>7, <3>1 DEF CoreBlocks
    <2>9. QED
      BY <2>4, <2>6, <2>7, <2>8
  <1>2. Inv /\ [Next]_vars => Exact
    BY <1>1
  <1>3. Exact => [Exact]_vars
    OBVIOUS
  <1>4. QED
    BY <1>2, SegmentPipeInvariant, PTL DEF Spec, OnlyExactSegments

\* A published video has every frame of the job once, and every chunk's are its
\* core's, except where a segment changed on disk after it was hashed.
THEOREM VideosAreWhole == Spec => []VideoIsWhole
  <1>1. Inv => VideoIsWhole
    BY DEF Inv, Assembled, Keeps, VideoIsWhole
  <1>2. QED
    BY <1>1, SegmentPipeInvariant, PTL

\* However encode_segment or validate_and_concat ends, short of the worker
\* being killed, the encoder is gone and no partial file is left.
THEOREM NothingIsLeftBehind == Spec => []NothingLeftBehind
  <1>1. Inv => NothingLeftBehind
    BY DEF Inv, Quiet, NothingLeftBehind
  <1>2. QED
    BY <1>1, SegmentPipeInvariant, PTL
=============================================================================
