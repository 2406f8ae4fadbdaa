-------------------------- MODULE EncStreamProofs --------------------------
(***************************************************************************)
(* What EncStream keeps for any controls and faults, any number of         *)
(* buffers, sources, STREAMONs, requests and drains, in six layers.        *)
(*                                                                         *)
(* StreamInv is the types and what the places of a job say: whose sources  *)
(* the work has, where they are on the queue, and what the planner counts  *)
(* on.  It is inductive as it stands and nothing is assumed of STOP;       *)
(* NoLostWakeup follows from it step by step.                              *)
(*                                                                         *)
(* The others use it, and suppose that no STOP falls in a completion:      *)
(* enc_stop_race is the run that shows why.                                *)
(*                                                                         *)
(* CaptureInv is the CAPTURE buffers: those that the work counts on are on *)
(* the queue.  With StreamInv it gives BuffersConserved.                   *)
(*                                                                         *)
(* DrainInv is a drain: it waits for a source on the queue, or for a       *)
(* CAPTURE buffer with nothing else to wait for.                           *)
(*                                                                         *)
(* LastInv is its end, with B frames a drain without sources queued in it: *)
(* a stopped context does no work but to deliver LAST.  LastIsFinal        *)
(* follows.                                                                *)
(*                                                                         *)
(* OutInv is the results: none is of a source that has yet to be coded.    *)
(* ReorderBounded follows.                                                 *)
(*                                                                         *)
(* KeyInv is the IDRs among them: how many frames since the last are with  *)
(* the client, with the work and with the planner, and which is due next.  *)
(* KeysInPlace follows.                                                    *)
(***************************************************************************)
EXTENDS EncStream, TLAPS, FiniteSetTheorems, SequenceTheorems, WellFoundedInduction

-----------------------------------------------------------------------------
\* The first layer: shapes, jobs, sources and batches.

\* A CAPTURE buffer as it is done; the planner, started or not; a frame of a batch.
Results == [src : Nat, ok : BOOLEAN, key : BOOLEAN, last : BOOLEAN]
Plans   == [nb : 0 .. B_MAX, gop : Nat, n_held : Nat, dist : Nat, fn_anchor : Nat,
            started : BOOLEAN]
Frames  == [src : Nat, type : FrameType, fn : Nat]
\* The m2m core's drain state; as a drain's end leaves it, LAST done.
M2m == [draining : BOOLEAN, lastSrc : Nat, nextLast : BOOLEAN, stopped : BOOLEAN]
Ended(m) == m \in M2m /\ ~m.draining /\ m.lastSrc = 0 /\ ~m.nextLast /\ m.stopped

\* The types of all but the work.
Types ==
  /\ ctl \in [b_frames : BFrames, gop : GopSizes]
  /\ forceKey \in BOOLEAN /\ warned \in BOOLEAN
  /\ srcQ \in Seq(Nat) /\ Len(srcQ) <= NOut /\ capQ \in Seq(Caps)
  /\ capOwner \in [Caps -> {"client", "driver"}]
  /\ on \in [out : BOOLEAN, cap : BOOLEAN]
  /\ m2m \in M2m
  /\ job \in {"none", "queued", "running"}
  /\ ctx \in [session : BOOLEAN, nb : 0 .. B_MAX, plan : Plans, frame_n : Nat,
              pm_lost : BOOLEAN]
  /\ fault \in [hung : BOOLEAN, qerr : SUBSET {"out", "cap"}, paused : BOOLEAN]
  /\ out \in Seq(Results) /\ returned \in Seq(Nat)
  /\ cnt \in [src : Nat, start : Nat, forced : Nat, drain : Nat, sleep : Nat]
\* The work, by where it is.
WorkTypes ==
  \/ work = Idle
  \/ work \in [pc : {"encode"}, src : Nat, dst : Caps, idr : BOOLEAN]
  \/ work \in [pc : {"remove_src", "remove_dst"}, src : Nat, dst : Caps, result : Results]
  \/ work \in [pc : {"clear", "batch", "remove_batch"}, srcs : Seq(Nat), batches : Seq(Seq(Frames))]

\* A job runs only while both queues do, and is queued only with something on both.
JobPlace ==
  /\ job = "running" <=> work.pc # "idle"
  /\ job # "none" => on.out /\ on.cap
  /\ job = "queued" => srcQ # << >> /\ capQ # << >>
  /\ ctx.session => on.out /\ on.cap
  /\ ~on.out => srcQ = << >>
  /\ ~on.cap => capQ = << >>
\* The planner's numbers; what it holds is on the queue.
PlanPlace ==
  /\ ctx.plan.n_held <= ctx.nb
  /\ ctx.nb > 0 => ctx.plan.nb = ctx.nb
  /\ BPath => ctx.plan.n_held <= Len(srcQ)

\* Sources the work has taken off the queue.
Taken == Len(returned) + (IF work.pc = "remove_dst" THEN 1 ELSE 0)
\* Sources are given back, and queued, by their numbers.
SourcePlace ==
  /\ \A i \in DOMAIN returned : returned[i] = i
  /\ \A i \in DOMAIN srcQ : srcQ[i] = Taken + i
  /\ cnt.src = Taken + Len(srcQ)
\* The one frame's source; without a session or B frames.
FramePlace ==
  /\ work.pc \in {"encode", "remove_src"} => srcQ # << >> /\ work.src = Taken + 1
  /\ work.pc = "remove_dst" => work.src = Taken
  /\ work.pc \in {"remove_src", "remove_dst"} => work.result.src = work.src
  /\ work.pc \in {"encode", "remove_src", "remove_dst"} => ~BPath
\* The batches' sources: the head of the queue, each in its place.
BatchPlace ==
  work.pc \in {"clear", "batch", "remove_batch"} =>
    LET b == work.batches
    IN  /\ BPath /\ ctx.plan.n_held = 0
        /\ Len(b) \in 1 .. 2
        /\ Len(b[1]) \in 1 .. ctx.nb + 1
        /\ \A i \in DOMAIN b[1] :
             b[1][i].src + 1 \in DOMAIN work.srcs /\ Source(b[1][i]) = Taken + i
        /\ Len(b) = 2 =>
             /\ Len(b[2]) = 1
             /\ b[2][1].src + 1 \in DOMAIN work.srcs
             /\ Source(b[2][1]) = Taken + Len(b[1]) + 1
        /\ FramesLeft <= Len(srcQ)

\* The first layer.
StreamInv ==
  /\ Types /\ WorkTypes /\ JobPlace /\ PlanPlace
  /\ SourcePlace /\ FramePlace /\ BatchPlace

-----------------------------------------------------------------------------
\* The second layer: CAPTURE buffers.

\* The buffers the work counts on are on the queue, the one frame's at its head.
CapturePlace ==
  /\ work.pc \in {"encode", "remove_src", "remove_dst"} => capQ # << >> /\ work.dst = capQ[1]
  /\ work.pc \in {"clear", "batch"} => FramesLeft <= Len(capQ)
  /\ work.pc = "remove_batch" /\ Len(work.batches) = 2 => Len(work.batches[2]) <= Len(capQ)

\* The second layer.
CaptureInv == CapturesConserved /\ CapturePlace

-----------------------------------------------------------------------------
\* The third layer: drains.

\* A drain has its CAPTURE queue on; one that waits for a CAPTURE buffer has no source
\* to wait for, and no job runs.
NextLastPlace ==
  /\ m2m.draining => on.cap
  /\ m2m.nextLast => m2m.draining /\ m2m.lastSrc = NoSource /\ capQ = << >> /\ job = "none"

\* The third layer.
DrainInv == NextLastPlace /\ DrainHasLast

\* The fourth layer, when no source is queued in a drain of a stream with B frames:
\* the drain's last source is the last there is, and a stopped context does not run
\* but to deliver LAST.
LastInv ==
  /\ ctx.nb > 0 /\ m2m.draining /\ ~m2m.nextLast => m2m.lastSrc = cnt.src
  /\ m2m.stopped => job # "queued" /\ ~m2m.draining
  /\ m2m.stopped /\ work.pc # "idle" =>
       \/ LastInHand
       \/ work.pc = "remove_batch" /\ Len(work.batches) = 1

-----------------------------------------------------------------------------
\* The fifth layer: the order of the results.

\* Sources that have a result: those given back and those of a batch just coded.
Coded == Len(returned) + (IF work.pc = "remove_batch" THEN Len(work.batches[1]) ELSE 0)

\* The results before the j-th of a later source, and how many there may be.
Sooner(o, j) == {i \in 1 .. j - 1 : o[i].src >= o[j].src}
Ordered(o, nb) ==
  \A j \in DOMAIN o :
    o[j].src # NoSource =>
      /\ Cardinality(Sooner(o, j)) <= 1
      /\ \A i \in Sooner(o, j) : o[i].src - o[j].src \in 1 .. nb

\* The fifth layer.
OutInv == Ordered(out, ctx.nb) /\ \A j \in DOMAIN out : out[j].src <= Coded

-----------------------------------------------------------------------------
\* The sixth layer: the IDRs among the results.

\* A plain frame: delivered, and no IDR.  Those that end the results, with a more to
\* come, are l at most; nowhere are there g in a row.
Plain(c) == Delivered(c) /\ ~c.key
PlainFrom(o, j) == \A k \in j .. Len(o) : Plain(o[k])
RunBound(o, a, l) == \A j \in 1 .. Len(o) + 1 : PlainFrom(o, j) => Len(o) + 1 - j + a <= l
Runs(o, g) == \A i \in 1 .. Len(o) - g + 1 : \E k \in i .. i + g - 1 : ~Plain(o[k])
\* No frame is delivered; the first that is, is an IDR.
Silent(o) == \A j \in DOMAIN o : ~Delivered(o[j])
Opens(o) == \A j \in DOMAIN o :
              Delivered(o[j]) /\ (\A i \in 1 .. j - 1 : ~Delivered(o[i])) => o[j].key

\* The one-frame path: a frame that is coded and counted, on its way to the client; the
\* frames before it; those due as IDRs; the frames since the last that was due.
FrameInHand == work.pc \in {"remove_src", "remove_dst"} /\ work.result.ok
Number == IF FrameInHand THEN ctx.frame_n - 1 ELSE ctx.frame_n
Due(n) == n = 0 \/ (ctl.gop > 0 /\ n % ctl.gop = 0)
Since  == IF Number = 0 THEN 0 ELSE (Number - 1) % ctl.gop

FrameKeys ==
  /\ FrameInHand =>
       ctx.nb = 0 /\ ctx.frame_n > 0 /\ (Due(ctx.frame_n - 1) => work.result.key)
  /\ ctx.nb = 0 =>
       /\ work.pc = "encode" /\ Due(ctx.frame_n) => work.idr
       /\ Opens(out) /\ (Silent(out) => Number = 0)
       /\ ctl.gop > 0 => RunBound(out, 0, Since)

\* Mini-GOPs: an IDR is a batch of its own, a job's last.
IdrBatch(b) == Len(b) = 1 /\ b[1].type = "IDR"
BatchKinds ==
  work.pc \in {"clear", "batch", "remove_batch"} /\ Len(work.batches) = 2 => IdrBatch(work.batches[2])

\* The plain frames of the batch to be coded; the job has yet to code an IDR; the plain
\* frames sent since the planner's last IDR, which counts itself and those held.
Ahead == IF work.pc \in {"clear", "batch"} /\ ~IdrBatch(work.batches[1])
           THEN Len(work.batches[1]) ELSE 0
KeyAhead == \/ work.pc \in {"clear", "batch"} /\ (Len(work.batches) = 2 \/ IdrBatch(work.batches[1]))
            \/ work.pc = "remove_batch" /\ Len(work.batches) = 2
Sent == IF ctx.plan.started THEN ctx.plan.dist - 1 - ctx.plan.n_held ELSE 0

PlanKeys ==
  ctx.nb > 0 =>
    LET g == ctx.plan
    IN  /\ g.gop = ctl.gop
        /\ g.started => g.dist >= g.n_held + 1
        /\ ~g.started => g.n_held = 0
        /\ g.gop > 0 => g.dist <= g.gop
BatchKeys ==
  ctx.nb > 0 /\ ctl.gop > 0 =>
    /\ RunBound(out, Ahead, ctl.gop - 1)
    /\ ~KeyAhead => RunBound(out, Ahead, Sent)

\* The sixth layer.
KeyInv ==
  /\ FrameKeys /\ BatchKinds /\ PlanKeys /\ BatchKeys
  /\ ctl.gop > 0 => Runs(out, ctl.gop)

-----------------------------------------------------------------------------
\* Lemmas about the operators.

\* Scheduling queues a job or leaves it; what it leaves alone could not run.
LEMMA TryJob ==
  ASSUME TrySchedule
  PROVE  /\ job' = job \/ (job = "none" /\ job' = "queued" /\ Runnable')
         /\ job' = "none" => ~Runnable'
BY DEF TrySchedule

\* What can run has both queues on, with something on each.
LEMMA RunnableHas ==
  Runnable' => /\ on'.out /\ on'.cap /\ srcQ' # << >> /\ capQ' # << >>
               /\ ~m2m'.stopped /\ ave_job_ready'
BY DEF Runnable

\* The end of a job.
LEMMA FinishJob ==
  ASSUME JobFinish
  PROVE  /\ work' = Idle /\ job' \in {"none", "queued"}
         /\ job' = "queued" <=> Runnable'
BY DEF JobFinish

\* A place of the work says what it holds.
LEMMA WorkShape ==
  ASSUME WorkTypes
  PROVE  /\ work.pc \in {"idle", "encode", "remove_src", "remove_dst", "clear", "batch", "remove_batch"}
         /\ work.pc = "idle" <=> work = Idle
         /\ work.pc = "encode" =>
              work \in [pc : {"encode"}, src : Nat, dst : Caps, idr : BOOLEAN]
         /\ work.pc \in {"remove_src", "remove_dst"} =>
              work \in [pc : {"remove_src", "remove_dst"}, src : Nat, dst : Caps,
                        result : Results]
         /\ work.pc \in {"clear", "batch", "remove_batch"} =>
              work \in [pc : {"clear", "batch", "remove_batch"}, srcs : Seq(Nat),
                        batches : Seq(Seq(Frames))]
BY DEF WorkTypes, Idle

\* The least of some of the buffers is one of them.
LEMMA LeastBuffer == ASSUME NEW S, S \subseteq Caps, S # {} PROVE Min(S) \in S
<1>1. S \subseteq Nat BY BuffersAssumption DEF Caps
<1>2. PICK x \in S : \A y \in S : x <= y
  <2> DEFINE R == OpToRel(<, Nat)
  <2>1. IsWellFoundedOn(R, Nat) BY NatLessThanWellFounded
  <2>2. \A x, y \in Nat : x < y => <<x, y>> \in R BY DEF OpToRel
  <2> HIDE DEF R
  <2>3. PICK x \in S : \A y \in S : <<y, x>> \notin R BY <1>1, <2>1, WFMin
  <2>4. ASSUME NEW y \in S PROVE x <= y
    <3>1. x \in Nat /\ y \in Nat BY <1>1
    <3>2. ~ (y < x) BY <2>2, <2>3, <3>1
    <3> QED BY <3>1, <3>2
  <2> QED BY <2>4
<1> QED BY <1>2 DEF Min

\* The head and the tail of a queue.
LEMMA HeadTail ==
  ASSUME NEW S, NEW s \in Seq(S), s # << >>
  PROVE  /\ Len(s) \in Nat /\ Len(s) >= 1 /\ Head(s) = s[1] /\ s[1] \in S
         /\ DOMAIN s = 1 .. Len(s)
         /\ Tail(s) \in Seq(S) /\ Len(Tail(s)) = Len(s) - 1 /\ DOMAIN Tail(s) = 1 .. Len(s) - 1
         /\ \A i \in 1 .. Len(s) - 1 : Tail(s)[i] = s[i + 1]
OBVIOUS

\* Two queues one after the other.
LEMMA Joined ==
  ASSUME NEW S, NEW s \in Seq(S), NEW t \in Seq(S)
  PROVE  /\ s \o t \in Seq(S) /\ Len(s \o t) = Len(s) + Len(t)
         /\ DOMAIN (s \o t) = 1 .. Len(s) + Len(t)
         /\ DOMAIN s = 1 .. Len(s) /\ DOMAIN t = 1 .. Len(t) /\ Len(s) \in Nat /\ Len(t) \in Nat
         /\ \A i \in 1 .. Len(s) : (s \o t)[i] = s[i]
         /\ \A i \in 1 .. Len(t) : (s \o t)[Len(s) + i] = t[i]
<1>1. s \o t \in Seq(S) /\ Len(s \o t) = Len(s) + Len(t) OBVIOUS
<1>2. DOMAIN (s \o t) = 1 .. Len(s \o t) /\ DOMAIN s = 1 .. Len(s) /\ DOMAIN t = 1 .. Len(t)
      /\ Len(s) \in Nat /\ Len(t) \in Nat
  BY <1>1
<1>3. \A i \in 1 .. Len(s) : (s \o t)[i] = s[i] BY <1>2
<1>4. ASSUME NEW i \in 1 .. Len(t) PROVE (s \o t)[Len(s) + i] = t[i]
  <2>1. Len(s) + i \in 1 .. Len(s) + Len(t) /\ ~(Len(s) + i <= Len(s)) BY <1>2
  <2>2. (Len(s) + i) - Len(s) = i BY <1>2
  <2> QED BY <2>1, <2>2
<1> QED BY <1>1, <1>2, <1>3, <1>4

\* Removing the head of a queue, element by element.
LEMMA WithoutHead ==
  ASSUME NEW S, NEW q \in Seq(S), NEW m \in 0 .. Len(q), NEW gone,
         \A i \in DOMAIN q : q[i] \in Range(gone) <=> i <= m
  PROVE  /\ Without(q, gone) \in Seq(S) /\ Len(Without(q, gone)) = Len(q) - m
         /\ \A n \in 1 .. Len(q) - m : Without(q, gone)[n] = q[m + n]
<1> DEFINE kept == {i \in DOMAIN q : q[i] \notin Range(gone)}
<1>1. Len(q) \in Nat /\ DOMAIN q = 1 .. Len(q) /\ m \in Nat /\ m <= Len(q) OBVIOUS
<1>2. kept = m + 1 .. Len(q) BY <1>1
<1>3. \A n \in m .. Len(q) : Cardinality(m + 1 .. n) = n - m
  <2> SUFFICES ASSUME NEW n \in m .. Len(q) PROVE Cardinality(m + 1 .. n) = n - m
    OBVIOUS
  <2>1. m + 1 \in Int /\ n \in Int /\ n >= m BY <1>1
  <2>2. Cardinality(m + 1 .. n) = IF m + 1 > n THEN 0 ELSE n - (m + 1) + 1
    BY <2>1, FS_Interval
  <2> QED BY <1>1, <2>1, <2>2
<1>4. Cardinality(kept) = Len(q) - m
      /\ \A i \in kept : Cardinality({j \in kept : j <= i}) = i - m
  <2>1. Cardinality(kept) = Len(q) - m
    <3>1. Len(q) \in m .. Len(q) BY <1>1
    <3> HIDE DEF kept
    <3> QED BY <1>2, <1>3, <3>1
  <2>2. ASSUME NEW i \in kept PROVE Cardinality({j \in kept : j <= i}) = i - m
    <3>1. i \in m .. Len(q) BY <1>1, <1>2
    <3>2. {j \in kept : j <= i} = m + 1 .. i BY <1>1, <1>2, <3>1
    <3> HIDE DEF kept
    <3> QED BY <1>3, <3>1, <3>2
  <2> QED BY <2>1, <2>2
<1>5. ASSUME NEW n \in 1 .. Len(q) - m
      PROVE  (CHOOSE i \in kept : Cardinality({j \in kept : j <= i}) = n) = m + n
  <2>1. m + n \in kept /\ (m + n) - m = n BY <1>1, <1>2
  <2>2. Cardinality({j \in kept : j <= m + n}) = n BY <1>4, <2>1
  <2>3. ASSUME NEW i \in kept, Cardinality({j \in kept : j <= i}) = n PROVE i = m + n
    <3>1. i - m = n BY <1>4, <2>3
    <3>2. i \in Nat BY <1>1, <1>2
    <3> QED BY <1>1, <3>1, <3>2
  <2> HIDE DEF kept
  <2> QED BY <2>1, <2>2, <2>3
<1>6. Without(q, gone) = [n \in 1 .. Len(q) - m |-> q[m + n]]
  <2>1. Without(q, gone) = [n \in 1 .. Cardinality(kept) |->
          q[CHOOSE i \in kept : Cardinality({j \in kept : j <= i}) = n]]
    BY DEF Without
  <2> HIDE DEF kept
  <2> QED BY <1>4, <1>5, <2>1
<1>7. \A n \in 1 .. Len(q) - m : q[m + n] \in S
  <2>1. \A n \in 1 .. Len(q) - m : m + n \in 1 .. Len(q) BY <1>1
  <2> QED BY <1>1, <2>1
<1>8. Len(q) - m \in Nat BY <1>1
<1>9. [n \in 1 .. Len(q) - m |-> q[m + n]] \in Seq(S) BY <1>7, <1>8
<1> QED BY <1>6, <1>8, <1>9

\* How many B frames a stream has.
LEMMA LatchedFacts == ASSUME Types PROVE Latched \in 0 .. B_MAX
<1>1. ctl.gop \in Nat /\ ctl.b_frames \in 0 .. B_MAX
  BY GopSizesAssumption, BFramesAssumption DEF Types
<1> QED BY <1>1 DEF Latched, B_MAX

\* The m2m state when a drain is over.
LEMMA StoppedType ==
  ASSUME Types
  PROVE  Stopped \in M2m /\ Ended([Stopped EXCEPT !.lastSrc = NoSource])
<1>1. m2m.lastSrc \in Nat BY DEF Types, M2m
<1>2. Stopped \in M2m /\ ~Stopped.draining /\ ~Stopped.nextLast /\ Stopped.stopped
  BY <1>1 DEF Stopped, M2m
<1> QED BY <1>2 DEF Ended, NoSource, M2m

\* A buffer done with LAST.
LEMMA LastDone ==
  ASSUME Types, NEW d \in Caps, NEW c \in Results, LastBufferDone(d, c)
  PROVE  /\ capOwner' = [capOwner EXCEPT ![d] = "client"]
         /\ capOwner' \in [Caps -> {"client", "driver"}]
         /\ out' = Append(out, c) /\ out' \in Seq(Results)
         /\ Ended(m2m')
<1>1. Ended(m2m')
  BY StoppedType DEF LastBufferDone
<1>2. capOwner' = [capOwner EXCEPT ![d] = "client"] /\ out' = Append(out, c)
  BY DEF LastBufferDone
<1> QED BY <1>1, <1>2 DEF Types

\* An empty buffer is a result.
LEMMA EmptyIsResult == EmptyLast \in Results /\ EmptyLast.src = 0
BY DEF EmptyLast, Capture, Results, NoSource

\* STOP with nothing to code, and STREAMOFF in a drain: LAST goes on the head of the
\* CAPTURE queue or on the next buffer.
LEMMA LastNext ==
  ASSUME Types, WorkTypes, LastOnNextBuffer
  PROVE  \/ /\ capQ # << >> /\ capQ' = Tail(capQ) /\ capQ' \in Seq(Caps)
            /\ capOwner' = [capOwner EXCEPT ![capQ[1]] = "client"]
            /\ capOwner' \in [Caps -> {"client", "driver"}]
            /\ Ended(m2m')
            /\ out' \in Seq(Results)
            /\ work.pc # "remove_dst" => out' = Append(out, EmptyLast)
         \/ /\ capQ = << >>
            /\ m2m' = [m2m EXCEPT !.draining = TRUE, !.lastSrc = 0, !.nextLast = TRUE]
            /\ capQ' = capQ /\ capOwner' = capOwner /\ out' = out
<1>1. CASE capQ # << >>
  <2> DEFINE c == IF work.pc = "remove_dst" /\ Head(capQ) = work.dst
                    THEN [work.result EXCEPT !.last = TRUE] ELSE EmptyLast
  <2>1. capQ \in Seq(Caps) BY DEF Types
  <2>2. Head(capQ) = capQ[1] /\ capQ[1] \in Caps /\ Tail(capQ) \in Seq(Caps)
    BY <1>1, <2>1, HeadTail
  <2>3. c \in Results
    <3>1. CASE work.pc = "remove_dst"
      <4>1. work.result \in Results BY <3>1, WorkShape
      <4> QED BY <4>1, EmptyIsResult DEF Results
    <3> QED BY <3>1, EmptyIsResult
  <2>4. LastBufferDone(capQ[1], c) /\ capQ' = Tail(capQ)
    BY <1>1, <2>2 DEF LastOnNextBuffer
  <2>5. work.pc # "remove_dst" => c = EmptyLast OBVIOUS
  <2> HIDE DEF c
  <2>6. /\ capOwner' = [capOwner EXCEPT ![capQ[1]] = "client"]
        /\ capOwner' \in [Caps -> {"client", "driver"}]
        /\ out' = Append(out, c) /\ out' \in Seq(Results)
        /\ Ended(m2m')
    BY <2>2, <2>3, <2>4, LastDone
  <2> QED BY <1>1, <2>2, <2>4, <2>5, <2>6
<1>2. CASE capQ = << >>
  BY <1>2 DEF LastOnNextBuffer, NoSource
<1> QED BY <1>1, <1>2

\* What a step leaves of the places when it does not touch sources, planner and work.
LEMMA PlacesKept ==
  ASSUME StreamInv, srcQ' = srcQ, returned' = returned, work' = work, cnt'.src = cnt.src,
         ctx' = ctx
  PROVE  /\ PlanPlace' /\ SourcePlace' /\ FramePlace' /\ BatchPlace' /\ WorkTypes'
         /\ Taken' = Taken
<1>1. Taken' = Taken BY DEF Taken
<1>2. BPath' = BPath BY DEF BPath
<1>3. PlanPlace' BY <1>2 DEF StreamInv, PlanPlace
<1>4. SourcePlace' BY <1>1 DEF StreamInv, SourcePlace
<1>5. FramePlace' BY <1>1, <1>2 DEF StreamInv, FramePlace
<1>6. BatchPlace' BY <1>1, <1>2 DEF StreamInv, BatchPlace, Source, FramesLeft
<1>7. WorkTypes' BY DEF StreamInv, WorkTypes
<1> QED BY <1>1, <1>3, <1>4, <1>5, <1>6, <1>7

\* Where the job is, after a step that may schedule it.
LEMMA JobKept ==
  ASSUME StreamInv, work' = work, TrySchedule,
         job # "none" => on'.out /\ on'.cap,
         job = "queued" => srcQ' # << >> /\ capQ' # << >>,
         ctx'.session => on'.out /\ on'.cap,
         ~on'.out => srcQ' = << >>, ~on'.cap => capQ' = << >>
  PROVE  JobPlace' /\ job' \in {"none", "queued", "running"}
<1>1. job' = job \/ (job = "none" /\ job' = "queued" /\ Runnable') BY TryJob
<1>2. CASE job' = job BY <1>2 DEF StreamInv, JobPlace, Types
<1>3. CASE job = "none" /\ job' = "queued" /\ Runnable'
  BY <1>3, RunnableHas DEF StreamInv, JobPlace
<1> QED BY <1>1, <1>2, <1>3

-----------------------------------------------------------------------------
\* The first layer, the client's actions.

\* A source is queued.
LEMMA StreamQbufSource == ASSUME StreamInv, QbufSource PROVE StreamInv'
<1>1. /\ srcQ' = Append(srcQ, cnt.src + 1) /\ cnt' = [cnt EXCEPT !.src = cnt.src + 1]
      /\ Len(srcQ) < NOut /\ on.out /\ returned' = returned /\ work' = work /\ ctx' = ctx
      /\ on' = on /\ capQ' = capQ /\ TrySchedule
  BY DEF QbufSource
<1>2. srcQ \in Seq(Nat) /\ cnt.src \in Nat /\ NOut \in Nat
  BY BuffersAssumption DEF StreamInv, Types
<1>3. /\ srcQ' \in Seq(Nat) /\ Len(srcQ') = Len(srcQ) + 1 /\ Len(srcQ) \in Nat /\ srcQ' # << >>
      /\ DOMAIN srcQ' = 1 .. Len(srcQ) + 1 /\ DOMAIN srcQ = 1 .. Len(srcQ)
      /\ \A i \in 1 .. Len(srcQ) : srcQ'[i] = srcQ[i]
      /\ srcQ'[Len(srcQ) + 1] = cnt.src + 1
  BY <1>1, <1>2
<1>4. Taken' = Taken /\ Taken \in Nat
  BY <1>1 DEF Taken, StreamInv, Types
<1>5. cnt'.src = cnt.src + 1 BY <1>1 DEF StreamInv, Types
<1>6. SourcePlace'
  <2>2. SourcePlace BY DEF StreamInv
  <2>1. ASSUME NEW i \in DOMAIN srcQ' PROVE srcQ'[i] = Taken' + i
    <3>1. cnt.src = Taken + Len(srcQ) BY <2>2 DEF SourcePlace
    <3>2. CASE i \in 1 .. Len(srcQ) BY <1>3, <1>4, <2>2, <3>2 DEF SourcePlace
    <3>3. CASE i = Len(srcQ) + 1 BY <1>3, <1>4, <3>1, <3>3
    <3>4. i \in 1 .. Len(srcQ) \/ i = Len(srcQ) + 1 BY <1>3
    <3> QED BY <3>2, <3>3, <3>4
  <2>3. \A i \in DOMAIN returned' : returned'[i] = i BY <1>1, <2>2 DEF SourcePlace
  <2>4. cnt'.src = Taken' + Len(srcQ') BY <1>3, <1>4, <1>5, <2>2 DEF SourcePlace
  <2> QED BY <2>1, <2>3, <2>4 DEF SourcePlace
<1>7. BPath' = BPath BY <1>1 DEF BPath
<1>8. PlanPlace'
  <2>1. PlanPlace BY DEF StreamInv
  <2>2. ctx.plan.n_held \in Nat BY DEF StreamInv, Types, Plans
  <2> QED BY <1>1, <1>3, <1>7, <2>1, <2>2 DEF PlanPlace
<1>9. FramePlace' BY <1>1, <1>3, <1>4, <1>7 DEF StreamInv, FramePlace
<1>10. FramesLeft' = FramesLeft BY <1>1 DEF FramesLeft
<1>11. BatchPlace'
  <2>1. ASSUME work.pc \in {"clear", "batch", "remove_batch"} PROVE FramesLeft <= Len(srcQ')
    <3>1. Len(work.batches) \in 1 .. 2 /\ work.batches \in Seq(Seq(Frames))
      BY <2>1, WorkShape DEF StreamInv, BatchPlace
    <3>2. FramesLeft \in Int BY <3>1 DEF FramesLeft
    <3> QED BY <1>3, <2>1, <3>2 DEF StreamInv, BatchPlace
  <2> QED BY <1>1, <1>4, <1>7, <1>10, <2>1 DEF StreamInv, BatchPlace, Source
<1>12. JobPlace' /\ job' \in {"none", "queued", "running"}
  BY <1>1, <1>3, JobKept DEF StreamInv, JobPlace
<1>13. Types'
  <2>1. cnt' \in [src : Nat, start : Nat, forced : Nat, drain : Nat, sleep : Nat]
    <3> DEFINE k == cnt.src + 1
    <3>1. k \in Nat /\ cnt' = [cnt EXCEPT !.src = k] BY <1>1, <1>2
    <3> HIDE DEF k
    <3> QED BY <3>1 DEF StreamInv, Types
  <2>2. Len(srcQ') <= NOut BY <1>1, <1>2, <1>3
  <2> QED BY <1>3, <1>12, <2>1, <2>2 DEF QbufSource, StreamInv, Types
<1>14. WorkTypes' BY <1>1 DEF StreamInv, WorkTypes
<1> QED BY <1>6, <1>8, <1>9, <1>11, <1>12, <1>13, <1>14 DEF StreamInv

\* A CAPTURE buffer is queued, or is the LAST one.
LEMMA StreamQbufCapture == ASSUME StreamInv, QbufCapture PROVE StreamInv'
<1> DEFINE free == {d \in Caps : capOwner[d] = "client"}
           d == Min(free)
<1>1. /\ on.cap /\ free # {} /\ srcQ' = srcQ /\ on' = on /\ ctx' = ctx /\ work' = work
      /\ returned' = returned /\ cnt' = cnt /\ TrySchedule
  BY DEF QbufCapture
<1>2. d \in Caps BY <1>1, LeastBuffer
<1>3. /\ capQ' \in Seq(Caps) /\ capOwner' \in [Caps -> {"client", "driver"}]
      /\ out' \in Seq(Results)
      /\ m2m' \in M2m
      /\ capQ' = capQ \/ capQ' # << >>
  <2>1. CASE LastBufferDone(d, EmptyLast) /\ capQ' = capQ
    <3> HIDE DEF d
    <3>1. /\ capOwner' \in [Caps -> {"client", "driver"}] /\ out' \in Seq(Results)
          /\ Ended(m2m')
      BY <1>2, <2>1, EmptyIsResult, LastDone DEF StreamInv
    <3> QED BY <2>1, <3>1 DEF StreamInv, Types, Ended
  <2>2. CASE /\ capQ' = Append(capQ, d) /\ capOwner' = [capOwner EXCEPT ![d] = "driver"]
             /\ out' = out /\ m2m' = m2m
    <3> HIDE DEF d
    <3>1. capQ \in Seq(Caps) BY DEF StreamInv, Types
    <3>2. capQ' \in Seq(Caps) /\ capQ' # << >> BY <1>2, <2>2, <3>1
    <3> QED BY <1>2, <2>2, <3>2 DEF StreamInv, Types
  <2> QED BY <2>1, <2>2 DEF QbufCapture
<1> HIDE DEF free, d
<1>4. JobPlace' /\ job' \in {"none", "queued", "running"}
  BY <1>1, <1>3, JobKept DEF StreamInv, JobPlace
<1>5. PlanPlace' /\ SourcePlace' /\ FramePlace' /\ BatchPlace' /\ WorkTypes'
  BY <1>1, PlacesKept
<1>6. Types' BY <1>3, <1>4 DEF QbufCapture, StreamInv, Types
<1> QED BY <1>4, <1>5, <1>6 DEF StreamInv

\* A key frame is asked for.
LEMMA StreamForceKey == ASSUME StreamInv, ForceKey PROVE StreamInv'
<1>1. /\ cnt' = [cnt EXCEPT !.forced = cnt.forced + 1] /\ forceKey' = TRUE
      /\ ctl' = ctl /\ job' = job /\ ctx' = ctx /\ work' = work /\ fault' = fault
      /\ srcQ' = srcQ /\ capQ' = capQ /\ capOwner' = capOwner /\ on' = on /\ m2m' = m2m
      /\ out' = out /\ returned' = returned /\ warned' = warned
  BY DEF ForceKey, stream
<1>2. cnt'.src = cnt.src
      /\ cnt' \in [src : Nat, start : Nat, forced : Nat, drain : Nat, sleep : Nat]
  <2> DEFINE k == cnt.forced + 1
  <2>1. k \in Nat /\ cnt' = [cnt EXCEPT !.forced = k] BY <1>1 DEF StreamInv, Types
  <2> HIDE DEF k
  <2> QED BY <2>1 DEF StreamInv, Types
<1>3. PlanPlace' /\ SourcePlace' /\ FramePlace' /\ BatchPlace' /\ WorkTypes'
  BY <1>1, <1>2, PlacesKept
<1>4. Types' BY <1>1, <1>2 DEF StreamInv, Types
<1>5. JobPlace' BY <1>1 DEF StreamInv, JobPlace
<1> QED BY <1>3, <1>4, <1>5 DEF StreamInv

\* A drain begins.
LEMMA StreamEncoderStop == ASSUME StreamInv, EncoderStop PROVE StreamInv'
<1>1. /\ on.out /\ on.cap /\ srcQ' = srcQ /\ on' = on /\ ctx' = ctx /\ work' = work
      /\ returned' = returned /\ cnt' = [cnt EXCEPT !.drain = cnt.drain + 1] /\ Nudge
      /\ ctl' = ctl /\ forceKey' = forceKey /\ fault' = fault /\ warned' = warned
  BY DEF EncoderStop
<1>2. cnt'.src = cnt.src
      /\ cnt' \in [src : Nat, start : Nat, forced : Nat, drain : Nat, sleep : Nat]
  <2> DEFINE k == cnt.drain + 1
  <2>1. k \in Nat /\ cnt' = [cnt EXCEPT !.drain = k] BY <1>1 DEF StreamInv, Types
  <2> HIDE DEF k
  <2> QED BY <2>1 DEF StreamInv, Types
<1>3. /\ capQ' \in Seq(Caps) /\ capOwner' \in [Caps -> {"client", "driver"}]
      /\ out' \in Seq(Results)
      /\ m2m' \in M2m
      /\ srcQ # << >> => capQ' = capQ
  <2>1. CASE srcQ # << >>
    <3>1. m2m' = [m2m EXCEPT !.draining = TRUE, !.lastSrc = srcQ[Len(srcQ)]]
          /\ capQ' = capQ /\ capOwner' = capOwner /\ out' = out
      BY <2>1 DEF EncoderStop
    <3>2. srcQ[Len(srcQ)] \in Nat
      <4>1. srcQ \in Seq(Nat) BY DEF StreamInv, Types
      <4> QED BY <2>1, <4>1
    <3> QED BY <3>1, <3>2 DEF StreamInv, Types, M2m
  <2>2. CASE srcQ = << >>
    <3>1. LastOnNextBuffer BY <2>2 DEF EncoderStop
    <3>2. Types /\ WorkTypes BY DEF StreamInv
    <3>3. CASE capQ' \in Seq(Caps) /\ capOwner' \in [Caps -> {"client", "driver"}]
               /\ out' \in Seq(Results)
               /\ Ended(m2m')
      BY <2>2, <3>3 DEF Ended
    <3>4. CASE /\ m2m' = [m2m EXCEPT !.draining = TRUE, !.lastSrc = 0, !.nextLast = TRUE]
               /\ capQ' = capQ /\ capOwner' = capOwner /\ out' = out
      BY <2>2, <3>2, <3>4 DEF Types, M2m
    <3> QED BY <3>1, <3>2, <3>3, <3>4, LastNext
  <2> QED BY <2>1, <2>2
<1>4. JobPlace' /\ job' \in {"none", "queued", "running"}
  <2>1. CASE TrySchedule BY <1>1, <1>3, <2>1, JobKept DEF StreamInv, JobPlace
  <2>2. CASE job' = job BY <1>1, <1>3, <2>2 DEF StreamInv, JobPlace, Types
  <2> QED BY <1>1, <2>1, <2>2 DEF Nudge
<1>5. PlanPlace' /\ SourcePlace' /\ FramePlace' /\ BatchPlace' /\ WorkTypes'
  BY <1>1, <1>2, PlacesKept
<1>6. Types' BY <1>1, <1>2, <1>3, <1>4 DEF StreamInv, Types
<1> QED BY <1>4, <1>5, <1>6 DEF StreamInv

\* Coding again after a drain.
LEMMA StreamEncoderStart == ASSUME StreamInv, EncoderStart PROVE StreamInv'
<1>1. m2m' = [m2m EXCEPT !.stopped = FALSE]
      /\ ctl' = ctl /\ forceKey' = forceKey /\ srcQ' = srcQ /\ capQ' = capQ
      /\ capOwner' = capOwner /\ on' = on /\ job' = job /\ ctx' = ctx /\ work' = work
      /\ fault' = fault /\ out' = out /\ returned' = returned /\ warned' = warned /\ cnt' = cnt
  BY DEF EncoderStart
<1>2. PlanPlace' /\ SourcePlace' /\ FramePlace' /\ BatchPlace' /\ WorkTypes'
  BY <1>1, PlacesKept
<1>3. Types' BY <1>1 DEF StreamInv, Types, M2m
<1>4. JobPlace' BY <1>1 DEF StreamInv, JobPlace
<1> QED BY <1>2, <1>3, <1>4 DEF StreamInv

\* A step that finds the work idle leaves it so.
LEMMA IdlePlaces ==
  ASSUME StreamInv, work.pc = "idle", work' = work
  PROVE  /\ FramePlace' /\ BatchPlace' /\ WorkTypes'
         /\ Taken = Len(returned) /\ Taken' = Len(returned')
<1>1. FramePlace' BY DEF FramePlace
<1>2. BatchPlace' BY DEF BatchPlace
<1>3. WorkTypes' BY DEF StreamInv, WorkTypes
<1>4. Len(returned) \in Nat BY DEF StreamInv, Types
<1>5. Taken = Len(returned) /\ Taken' = Len(returned') BY <1>4 DEF Taken
<1> QED BY <1>1, <1>2, <1>3, <1>5

\* STREAMON.
LEMMA StreamStreamOn ==
  ASSUME StreamInv, NEW q \in {"out", "cap"}, StreamOn(q) PROVE StreamInv'
<1> DEFINE other == IF q = "out" THEN "cap" ELSE "out"
           opens == on[other] /\ ~ctx.session
<1>1. /\ ~on[q] /\ m2m' = StartedM2m(q) /\ out' = (IF ctx' # ctx THEN << >> ELSE out)
      /\ cnt' = [cnt EXCEPT !.start = cnt.start + 1] /\ TrySchedule
      /\ ctl' = ctl /\ forceKey' = forceKey /\ srcQ' = srcQ /\ capQ' = capQ
      /\ capOwner' = capOwner /\ work' = work /\ fault' = fault /\ returned' = returned
      /\ warned' = warned
  BY DEF StreamOn
<1>2. \/ on' = [on EXCEPT ![q] = TRUE] /\ ctx' = IF opens THEN NewSession ELSE ctx
      \/ on' = on /\ ctx' = ctx
  BY DEF StreamOn
<1>3. on \in [out : BOOLEAN, cap : BOOLEAN] BY DEF StreamInv, Types
<1>4. on.out = FALSE \/ on.cap = FALSE BY <1>1, <1>3
<1>5. job = "none" /\ work.pc = "idle" /\ ~ctx.session
  BY <1>4 DEF StreamInv, JobPlace, Types
<1>6. on' \in [out : BOOLEAN, cap : BOOLEAN] /\ (on.out => on'.out) /\ (on.cap => on'.cap)
  BY <1>2, <1>3
<1>7. ctx' = ctx \/ (on'.out /\ on'.cap /\ ctx' = NewSession)
  BY <1>2, <1>3
<1>8. /\ NewSession \in [session : BOOLEAN, nb : 0 .. B_MAX, plan : Plans, frame_n : Nat,
                         pm_lost : BOOLEAN]
      /\ NewSession.plan.n_held = 0 /\ NewSession.plan.nb = NewSession.nb
      /\ NewSession.session /\ NewSession.nb \in 0 .. B_MAX
  <2>1. Latched \in 0 .. B_MAX BY LatchedFacts DEF StreamInv
  <2>2. ctl.gop \in Nat BY GopSizesAssumption DEF StreamInv, Types
  <2>3. ave_gop_init(Latched, ctl.gop) \in Plans
        /\ ave_gop_init(Latched, ctl.gop).n_held = 0
        /\ ave_gop_init(Latched, ctl.gop).nb = Latched
    BY <2>1, <2>2 DEF ave_gop_init, Plans
  <2> QED BY <2>1, <2>3 DEF NewSession
<1>9. ctx' \in [session : BOOLEAN, nb : 0 .. B_MAX, plan : Plans, frame_n : Nat,
                pm_lost : BOOLEAN]
  BY <1>7, <1>8 DEF StreamInv, Types
<1>10. cnt'.src = cnt.src
      /\ cnt' \in [src : Nat, start : Nat, forced : Nat, drain : Nat, sleep : Nat]
  <2> DEFINE k == cnt.start + 1
  <2>1. k \in Nat /\ cnt' = [cnt EXCEPT !.start = k] BY <1>1 DEF StreamInv, Types
  <2> HIDE DEF k
  <2> QED BY <2>1 DEF StreamInv, Types
<1>11. m2m' \in M2m
  BY <1>1 DEF StartedM2m, NoSource, StreamInv, Types, M2m
<1>12. JobPlace' /\ job' \in {"none", "queued", "running"}
  <2>1. ctx'.session => on'.out /\ on'.cap BY <1>5, <1>7
  <2>2. (~on'.out => srcQ' = << >>) /\ (~on'.cap => capQ' = << >>)
    BY <1>1, <1>6 DEF StreamInv, JobPlace
  <2> QED BY <1>1, <1>5, <2>1, <2>2, JobKept
<1>13. Types'
  <2>1. out' \in Seq(Results)
    <3>1. << >> \in Seq(Results) OBVIOUS
    <3> QED BY <1>1, <3>1 DEF StreamInv, Types
  <2> QED BY <1>1, <1>6, <1>9, <1>10, <1>11, <1>12, <2>1 DEF StreamInv, Types
<1>14. FramePlace' /\ BatchPlace' /\ WorkTypes' /\ Taken' = Taken
  BY <1>1, <1>5, IdlePlaces
<1>15. SourcePlace' BY <1>1, <1>10, <1>14 DEF StreamInv, SourcePlace
<1>16. PlanPlace'
  <2>1. CASE ctx' = ctx BY <1>5, <2>1 DEF StreamInv, PlanPlace, BPath
  <2>2. CASE ctx' = NewSession
    <3>1. ctx'.plan.n_held = 0 /\ ctx'.plan.nb = ctx'.nb /\ ctx'.nb \in 0 .. B_MAX
      BY <1>8, <2>2
    <3>2. Len(srcQ') \in Nat BY <1>1 DEF StreamInv, Types
    <3> QED BY <3>1, <3>2 DEF PlanPlace, B_MAX
  <2> QED BY <1>7, <2>1, <2>2
<1> QED BY <1>12, <1>13, <1>14, <1>15, <1>16 DEF StreamInv

\* The stream's state at the start.
LEMMA StreamInit == ASSUME Init PROVE StreamInv
<1>1. PICK b \in BFrames, g \in GopSizes : ctl = [b_frames |-> b, gop |-> g] BY DEF Init
<1>2. /\ forceKey = FALSE /\ warned = FALSE /\ srcQ = << >> /\ capQ = << >> /\ out = << >>
      /\ returned = << >> /\ capOwner = [d \in Caps |-> "client"]
      /\ on = [out |-> FALSE, cap |-> FALSE]
      /\ m2m = [draining |-> FALSE, lastSrc |-> NoSource, nextLast |-> FALSE, stopped |-> FALSE]
      /\ job = "none" /\ work = Idle
      /\ ctx = [session |-> FALSE, nb |-> 0, plan |-> ave_gop_init(1, 0),
                frame_n |-> 0, pm_lost |-> FALSE]
      /\ fault = [hung |-> FALSE, qerr |-> {}, paused |-> FALSE]
      /\ cnt = [src |-> 0, start |-> 0, forced |-> 0, drain |-> 0, sleep |-> 0]
  BY DEF Init
<1>3. << >> \in Seq(Nat) /\ << >> \in Seq(Caps) /\ << >> \in Seq(Results) OBVIOUS
<1>4. Len(<< >>) = 0 /\ NOut \in Nat BY BuffersAssumption
<1>5. ave_gop_init(1, 0) \in Plans /\ ave_gop_init(1, 0).n_held = 0
  BY DEF ave_gop_init, Plans, B_MAX
<1>6. ctx \in [session : BOOLEAN, nb : 0 .. B_MAX, plan : Plans, frame_n : Nat,
               pm_lost : BOOLEAN]
      /\ ctx.nb = 0 /\ ctx.plan.n_held = 0 /\ ~ctx.session
  BY <1>2, <1>5 DEF B_MAX
<1>7. Types
  <2>1. ctl \in [b_frames : BFrames, gop : GopSizes] BY <1>1
  <2>2. capOwner \in [Caps -> {"client", "driver"}] BY <1>2
  <2>3. m2m \in M2m BY <1>2 DEF M2m, NoSource
  <2>4. fault \in [hung : BOOLEAN, qerr : SUBSET {"out", "cap"}, paused : BOOLEAN] BY <1>2
  <2>5. cnt \in [src : Nat, start : Nat, forced : Nat, drain : Nat, sleep : Nat] BY <1>2
  <2>6. on \in [out : BOOLEAN, cap : BOOLEAN] BY <1>2
  <2>7. srcQ \in Seq(Nat) /\ Len(srcQ) <= NOut /\ capQ \in Seq(Caps)
        /\ out \in Seq(Results) /\ returned \in Seq(Nat)
    BY <1>2, <1>3, <1>4
  <2>8. forceKey \in BOOLEAN /\ warned \in BOOLEAN /\ job \in {"none", "queued", "running"}
    BY <1>2
  <2> QED BY <1>6, <2>1, <2>2, <2>3, <2>4, <2>5, <2>6, <2>7, <2>8 DEF Types
<1>8. work.pc = "idle" BY <1>2 DEF Idle
<1>9. WorkTypes BY <1>2 DEF WorkTypes
<1>10. JobPlace BY <1>2, <1>6, <1>8 DEF JobPlace
<1>11. PlanPlace BY <1>6 DEF PlanPlace, BPath
<1>12. SourcePlace
  <2>1. Taken = 0 BY <1>2, <1>8 DEF Taken
  <2> QED BY <1>2, <2>1 DEF SourcePlace
<1>13. FramePlace /\ BatchPlace BY <1>8 DEF FramePlace, BatchPlace
<1> QED BY <1>7, <1>9, <1>10, <1>11, <1>12, <1>13 DEF StreamInv

\* STREAMOFF of OUTPUT: what is queued is given back.
LEMMA StreamStreamOffOut == ASSUME StreamInv, StreamOffOut PROVE StreamInv'
<1>1. /\ on.out /\ job # "running" /\ ctx' = [ctx EXCEPT !.session = FALSE]
      /\ returned' = returned \o srcQ /\ srcQ' = << >> /\ on' = [on EXCEPT !.out = FALSE]
      /\ job' = "none" /\ fault' = [fault EXCEPT !.qerr = fault.qerr \ {"out"}]
      /\ ctl' = ctl /\ forceKey' = forceKey /\ work' = work /\ warned' = warned /\ cnt' = cnt
  BY DEF StreamOffOut, EndSession
<1>2. Types /\ WorkTypes BY DEF StreamInv
<1>3. work.pc = "idle" BY <1>1 DEF StreamInv, JobPlace
<1>4. /\ capQ' \in Seq(Caps) /\ capOwner' \in [Caps -> {"client", "driver"}]
      /\ out' \in Seq(Results) /\ m2m' \in M2m
      /\ capQ = << >> => capQ' = << >>
  <2>1. CASE m2m.draining
    <3>1. LastOnNextBuffer BY <2>1 DEF StreamOffOut
    <3>2. CASE capQ # << >> /\ capQ' \in Seq(Caps) /\ capOwner' \in [Caps -> {"client", "driver"}]
               /\ out' \in Seq(Results) /\ Ended(m2m')
      BY <3>2 DEF Ended
    <3>3. CASE /\ m2m' = [m2m EXCEPT !.draining = TRUE, !.lastSrc = 0, !.nextLast = TRUE]
               /\ capQ' = capQ /\ capOwner' = capOwner /\ out' = out
      BY <1>2, <3>3 DEF Types, M2m
    <3> QED BY <1>2, <3>1, <3>2, <3>3, LastNext
  <2>2. CASE ~m2m.draining
    <3>1. m2m' = m2m /\ capQ' = capQ /\ capOwner' = capOwner /\ out' = out
      BY <2>2 DEF StreamOffOut
    <3> QED BY <1>2, <3>1 DEF Types
  <2> QED BY <2>1, <2>2
<1>5. /\ returned' \in Seq(Nat) /\ Len(returned') = Len(returned) + Len(srcQ)
      /\ DOMAIN returned' = 1 .. Len(returned) + Len(srcQ)
      /\ DOMAIN returned = 1 .. Len(returned) /\ DOMAIN srcQ = 1 .. Len(srcQ)
      /\ Len(returned) \in Nat /\ Len(srcQ) \in Nat
      /\ \A i \in 1 .. Len(returned) : returned'[i] = returned[i]
      /\ \A i \in 1 .. Len(srcQ) : returned'[Len(returned) + i] = srcQ[i]
  <2>1. returned \in Seq(Nat) /\ srcQ \in Seq(Nat) BY <1>2 DEF Types
  <2>2. returned' = returned \o srcQ BY <1>1
  <2> QED BY <2>1, <2>2, Joined
<1>6. FramePlace' /\ BatchPlace' /\ WorkTypes' /\ Taken = Len(returned) /\ Taken' = Len(returned')
  BY <1>1, <1>3, IdlePlaces
<1>7. SourcePlace'
  <2>1. ASSUME NEW i \in DOMAIN returned' PROVE returned'[i] = i
    <3>1. CASE i <= Len(returned) BY <1>5, <2>1, <3>1 DEF StreamInv, SourcePlace
    <3>2. CASE i > Len(returned)
      <4>1. i - Len(returned) \in 1 .. Len(srcQ) /\ Len(returned) + (i - Len(returned)) = i
        BY <1>5, <2>1, <3>2
      <4>2. srcQ[i - Len(returned)] = Len(returned) + (i - Len(returned))
        BY <1>5, <1>6, <4>1 DEF StreamInv, SourcePlace
      <4>3. returned'[Len(returned) + (i - Len(returned))] = srcQ[i - Len(returned)]
        BY <1>5, <4>1
      <4> QED BY <4>1, <4>2, <4>3
    <3> QED BY <1>5, <2>1, <3>1, <3>2
  <2>2. cnt'.src = Taken' + Len(srcQ') BY <1>1, <1>5, <1>6 DEF StreamInv, SourcePlace
  <2>3. DOMAIN srcQ' = {} BY <1>1
  <2> QED BY <2>1, <2>2, <2>3 DEF SourcePlace
<1>8. ctx' \in [session : BOOLEAN, nb : 0 .. B_MAX, plan : Plans, frame_n : Nat,
                pm_lost : BOOLEAN]
      /\ ctx'.nb = ctx.nb /\ ctx'.plan = ctx.plan /\ ~ctx'.session
  BY <1>1, <1>2 DEF Types
<1>9. PlanPlace' BY <1>8 DEF StreamInv, PlanPlace, BPath
<1>10. on' \in [out : BOOLEAN, cap : BOOLEAN] /\ ~on'.out /\ on'.cap = on.cap
  BY <1>1, <1>2 DEF Types
<1>11. JobPlace' BY <1>1, <1>3, <1>4, <1>8, <1>10 DEF StreamInv, JobPlace
<1>12. Types'
  <2>1. srcQ' \in Seq(Nat) /\ Len(srcQ') <= NOut BY <1>1, BuffersAssumption
  <2>2. fault' \in [hung : BOOLEAN, qerr : SUBSET {"out", "cap"}, paused : BOOLEAN]
    BY <1>1, <1>2 DEF Types
  <2> QED BY <1>1, <1>2, <1>4, <1>5, <1>8, <1>10, <2>1, <2>2 DEF Types
<1> QED BY <1>6, <1>7, <1>9, <1>11, <1>12 DEF StreamInv

\* STREAMOFF of CAPTURE.
LEMMA StreamStreamOffCap == ASSUME StreamInv, StreamOffCap PROVE StreamInv'
<1>1. /\ on.cap /\ job # "running" /\ ctx' = [ctx EXCEPT !.session = FALSE]
      /\ capQ' = << >> /\ capOwner' = [d \in Caps |-> "client"]
      /\ m2m' = [m2m EXCEPT !.draining = FALSE, !.nextLast = FALSE, !.stopped = FALSE]
      /\ on' = [on EXCEPT !.cap = FALSE]
      /\ job' = "none" /\ fault' = [fault EXCEPT !.qerr = fault.qerr \ {"cap"}]
      /\ ctl' = ctl /\ forceKey' = forceKey /\ srcQ' = srcQ /\ work' = work /\ out' = out
      /\ returned' = returned /\ warned' = warned /\ cnt' = cnt
  BY DEF StreamOffCap, EndSession
<1>2. Types BY DEF StreamInv
<1>3. work.pc = "idle" BY <1>1 DEF StreamInv, JobPlace
<1>4. FramePlace' /\ BatchPlace' /\ WorkTypes' /\ Taken' = Taken
  BY <1>1, <1>3, IdlePlaces
<1>5. SourcePlace' BY <1>1, <1>4 DEF StreamInv, SourcePlace
<1>6. ctx' \in [session : BOOLEAN, nb : 0 .. B_MAX, plan : Plans, frame_n : Nat,
                pm_lost : BOOLEAN]
      /\ ctx'.nb = ctx.nb /\ ctx'.plan = ctx.plan /\ ~ctx'.session
  BY <1>1, <1>2 DEF Types
<1>7. PlanPlace' BY <1>6 DEF StreamInv, PlanPlace, BPath
<1>8. on' \in [out : BOOLEAN, cap : BOOLEAN] /\ ~on'.cap /\ on'.out = on.out
  BY <1>1, <1>2 DEF Types
<1>9. JobPlace' BY <1>1, <1>3, <1>6, <1>8 DEF StreamInv, JobPlace
<1>10. Types'
  <2>1. capQ' \in Seq(Caps) /\ capOwner' \in [Caps -> {"client", "driver"}] BY <1>1
  <2>2. fault' \in [hung : BOOLEAN, qerr : SUBSET {"out", "cap"}, paused : BOOLEAN]
    BY <1>1, <1>2 DEF Types
  <2>3. m2m' \in M2m BY <1>1, <1>2 DEF Types, M2m
  <2> QED BY <1>1, <1>2, <1>6, <1>8, <2>1, <2>2, <2>3 DEF Types
<1> QED BY <1>4, <1>5, <1>7, <1>9, <1>10 DEF StreamInv

-----------------------------------------------------------------------------
\* The first layer, system sleep.

\* The system sleeps: the session ends.
LEMMA StreamSuspend == ASSUME StreamInv, Suspend PROVE StreamInv'
<1>1. /\ job # "running" /\ cnt' = [cnt EXCEPT !.sleep = 1]
      /\ ctl' = ctl /\ forceKey' = forceKey /\ job' = job /\ work' = work
      /\ srcQ' = srcQ /\ capQ' = capQ /\ capOwner' = capOwner /\ on' = on /\ m2m' = m2m
      /\ out' = out /\ returned' = returned /\ warned' = warned
  BY DEF Suspend, stream
<1>2. Types BY DEF StreamInv
<1>3. work.pc = "idle" BY <1>1 DEF StreamInv, JobPlace
<1>4. /\ ctx' \in [session : BOOLEAN, nb : 0 .. B_MAX, plan : Plans, frame_n : Nat,
                   pm_lost : BOOLEAN]
      /\ ctx'.nb = ctx.nb /\ ctx'.plan = ctx.plan /\ ~ctx'.session
      /\ fault' \in [hung : BOOLEAN, qerr : SUBSET {"out", "cap"}, paused : BOOLEAN]
  <2>1. CASE ctx.session
    <3>1. ctx' = [ctx EXCEPT !.session = FALSE, !.pm_lost = TRUE]
          /\ fault' = [fault EXCEPT !.paused = TRUE, !.qerr = {"out", "cap"}]
      BY <2>1 DEF Suspend
    <3> QED BY <1>2, <3>1 DEF Types
  <2>2. CASE ~ctx.session
    <3>1. ctx' = ctx /\ fault' = [fault EXCEPT !.paused = TRUE] BY <2>2 DEF Suspend
    <3> QED BY <1>2, <2>2, <3>1 DEF Types
  <2> QED BY <2>1, <2>2
<1>5. FramePlace' /\ BatchPlace' /\ WorkTypes' /\ Taken' = Taken
  BY <1>1, <1>3, IdlePlaces
<1>6. cnt'.src = cnt.src
      /\ cnt' \in [src : Nat, start : Nat, forced : Nat, drain : Nat, sleep : Nat]
  BY <1>1, <1>2 DEF Types
<1>7. SourcePlace' BY <1>1, <1>5, <1>6 DEF StreamInv, SourcePlace
<1>8. PlanPlace' BY <1>4 DEF StreamInv, PlanPlace, BPath
<1>9. JobPlace' BY <1>1, <1>4 DEF StreamInv, JobPlace
<1>10. Types' BY <1>1, <1>2, <1>4, <1>6 DEF Types
<1> QED BY <1>5, <1>7, <1>8, <1>9, <1>10 DEF StreamInv

\* It wakes.
LEMMA StreamResume == ASSUME StreamInv, Resume PROVE StreamInv'
<1>1. /\ fault' = [fault EXCEPT !.paused = FALSE] /\ cnt' = cnt /\ ctx' = ctx
      /\ ctl' = ctl /\ forceKey' = forceKey /\ job' = job /\ work' = work
      /\ srcQ' = srcQ /\ capQ' = capQ /\ capOwner' = capOwner /\ on' = on /\ m2m' = m2m
      /\ out' = out /\ returned' = returned /\ warned' = warned
  BY DEF Resume, stream
<1>2. PlanPlace' /\ SourcePlace' /\ FramePlace' /\ BatchPlace' /\ WorkTypes'
  BY <1>1, PlacesKept
<1>3. Types' BY <1>1 DEF StreamInv, Types
<1>4. JobPlace' BY <1>1 DEF StreamInv, JobPlace
<1> QED BY <1>2, <1>3, <1>4 DEF StreamInv

-----------------------------------------------------------------------------
\* The first layer, one frame per job.

\* Where the job is, once it has ended.
LEMMA JobDone ==
  ASSUME StreamInv, JobFinish, on' = on, ctx'.session => ctx.session,
         srcQ = << >> => srcQ' = << >>, capQ = << >> => capQ' = << >>
  PROVE  /\ JobPlace' /\ job' \in {"none", "queued", "running"}
         /\ work' = Idle /\ work'.pc = "idle" /\ FramePlace' /\ BatchPlace' /\ WorkTypes'
         /\ returned' \in Seq(Nat) => Taken' = Len(returned')
<1>1. work' = Idle /\ job' \in {"none", "queued"} /\ (job' = "queued" <=> Runnable')
  BY FinishJob
<1>2. work'.pc = "idle" BY <1>1 DEF Idle
<1>3. JobPlace' BY <1>1, <1>2, RunnableHas DEF StreamInv, JobPlace
<1>4. FramePlace' /\ BatchPlace' BY <1>2 DEF FramePlace, BatchPlace
<1>5. WorkTypes' BY <1>1 DEF WorkTypes
<1> QED BY <1>1, <1>2, <1>3, <1>4, <1>5 DEF Taken

\* The work takes its buffers' names.
LEMMA StreamStartFrame == ASSUME StreamInv, StartFrame PROVE StreamInv'
<1>1. /\ job = "queued" /\ ~BPath /\ job' = "running"
      /\ work' = [pc |-> "encode", src |-> Head(srcQ), dst |-> Head(capQ), idr |-> FrameIsKey]
      /\ ctl' = ctl /\ forceKey' = forceKey /\ fault' = fault /\ ctx' = ctx /\ cnt' = cnt
      /\ srcQ' = srcQ /\ capQ' = capQ /\ capOwner' = capOwner /\ on' = on /\ m2m' = m2m
      /\ out' = out /\ returned' = returned /\ warned' = warned
  BY DEF StartFrame, stream
<1>2. Types BY DEF StreamInv
<1>3. work.pc = "idle" /\ srcQ # << >> /\ capQ # << >> BY <1>1 DEF StreamInv, JobPlace
<1>4. Head(srcQ) = srcQ[1] /\ srcQ[1] \in Nat /\ 1 \in DOMAIN srcQ
      /\ Head(capQ) = capQ[1] /\ capQ[1] \in Caps
  <2>1. srcQ \in Seq(Nat) /\ capQ \in Seq(Caps) BY <1>2 DEF Types
  <2> QED BY <1>3, <2>1, HeadTail
<1>5. FrameIsKey \in BOOLEAN
  BY <1>2 DEF FrameIsKey, Types
<1>6. /\ work' \in [pc : {"encode"}, src : Nat, dst : Caps, idr : BOOLEAN]
      /\ work'.pc = "encode" /\ work'.src = srcQ[1]
  BY <1>1, <1>4, <1>5
<1>7. Taken = Len(returned) /\ Taken' = Taken
  BY <1>1, <1>2, <1>3, <1>6 DEF Taken, Types
<1>8. BPath' = BPath BY <1>1 DEF BPath
<1>9. FramePlace'
  <2>1. srcQ[1] = Taken + 1 BY <1>4 DEF StreamInv, SourcePlace
  <2> QED BY <1>1, <1>3, <1>6, <1>7, <1>8, <2>1 DEF FramePlace
<1>10. BatchPlace' BY <1>6 DEF BatchPlace
<1>11. SourcePlace' BY <1>1, <1>7 DEF StreamInv, SourcePlace
<1>12. PlanPlace' BY <1>1, <1>8 DEF StreamInv, PlanPlace
<1>13. JobPlace' BY <1>1, <1>6 DEF StreamInv, JobPlace
<1>14. Types' BY <1>1, <1>2 DEF Types
<1>15. WorkTypes' BY <1>6 DEF WorkTypes
<1> QED BY <1>9, <1>10, <1>11, <1>12, <1>13, <1>14, <1>15 DEF StreamInv

\* What the error bookkeeping leaves is a set of queues.
LEMMA QueueErrorType ==
  ASSUME Types, NEW f \in BOOLEAN, NEW h \in BOOLEAN
  PROVE  /\ QueueError(f, h) \in SUBSET {"out", "cap"}
         /\ fault.qerr \subseteq QueueError(f, h)
         /\ [fault EXCEPT !.hung = h, !.qerr = QueueError(f, h)]
              \in [hung : BOOLEAN, qerr : SUBSET {"out", "cap"}, paused : BOOLEAN]
<1>1. QueueError(f, h) \in SUBSET {"out", "cap"} /\ fault.qerr \subseteq QueueError(f, h)
  BY DEF QueueError, Types
<1> DEFINE q == QueueError(f, h)
<1> HIDE DEF q
<1>2. q \in SUBSET {"out", "cap"} BY <1>1 DEF q
<1>3. [fault EXCEPT !.hung = h, !.qerr = q]
         \in [hung : BOOLEAN, qerr : SUBSET {"out", "cap"}, paused : BOOLEAN]
  BY <1>2 DEF Types
<1> QED BY <1>1, <1>3 DEF q

\* What an encode leaves.
LEMMA FrameEncoded ==
  ASSUME StreamInv, EncodeFrame
  PROVE  /\ work.pc = "encode" /\ forceKey' \in {FALSE, forceKey}
         /\ forceKey' # forceKey => ctx.session
         /\ ctx' \in [session : BOOLEAN, nb : 0 .. B_MAX, plan : Plans, frame_n : Nat,
                      pm_lost : BOOLEAN]
         /\ ctx'.session = ctx.session /\ ctx'.nb = ctx.nb /\ ctx'.plan = ctx.plan
         /\ fault' \in [hung : BOOLEAN, qerr : SUBSET {"out", "cap"}, paused : BOOLEAN]
         /\ fault.qerr \subseteq fault'.qerr
         /\ m2m' = IF IsLastDraining(work.src) THEN Stopped ELSE m2m
         /\ work' \in [pc : {"remove_src", "remove_dst"}, src : Nat, dst : Caps,
                       result : Results]
         /\ work'.pc = "remove_src" /\ work'.src = work.src /\ work'.dst = work.dst
         /\ work'.result.src = work.src /\ work'.result.last = IsLastDraining(work.src)
         /\ ctl' = ctl /\ srcQ' = srcQ /\ capQ' = capQ /\ capOwner' = capOwner /\ on' = on
         /\ job' = job /\ out' = out /\ returned' = returned /\ warned' = warned /\ cnt' = cnt
<1>1. Types /\ WorkTypes BY DEF StreamInv
<1>2. PICK o \in EncodeOutcomes :
        LET ok   == o = "ok"
            hung == fault.hung \/ o = "hang"
            last == IsLastDraining(work.src)
        IN  /\ work.pc = "encode"
            /\ forceKey' = IF ok THEN FALSE ELSE forceKey
            /\ ctx' = [ctx EXCEPT !.frame_n = FrameCount(ok)]
            /\ fault' = [fault EXCEPT !.hung = hung, !.qerr = QueueError(~ok, hung)]
            /\ m2m' = IF last THEN Stopped ELSE m2m
            /\ work' = [pc |-> "remove_src", src |-> work.src, dst |-> work.dst,
                        result |-> Capture(work.src, ok, ok /\ work.idr, last)]
            /\ UNCHANGED << ctl, srcQ, capQ, capOwner, on, job, out, returned, warned, cnt >>
  BY DEF EncodeFrame
<1> DEFINE ok == o = "ok"
           hung == fault.hung \/ o = "hang"
<1>3. ok \in BOOLEAN /\ hung \in BOOLEAN /\ (~ok) \in BOOLEAN OBVIOUS
<1>4. work \in [pc : {"encode"}, src : Nat, dst : Caps, idr : BOOLEAN]
  BY <1>1, <1>2, WorkShape
<1>5. FrameCount(ok) \in Nat
  <2>1. ctx.frame_n \in Nat BY <1>1 DEF Types
  <2> QED BY <1>3, <2>1 DEF FrameCount
<1>6. IsLastDraining(work.src) \in BOOLEAN BY <1>1 DEF IsLastDraining, Types, M2m
<1>7. (ok /\ work.idr) \in BOOLEAN BY <1>3, <1>4
<1>8. Capture(work.src, ok, ok /\ work.idr, IsLastDraining(work.src)) \in Results
      /\ Capture(work.src, ok, ok /\ work.idr, IsLastDraining(work.src)).src = work.src
      /\ Capture(work.src, ok, ok /\ work.idr, IsLastDraining(work.src)).last
           = IsLastDraining(work.src)
  BY <1>3, <1>4, <1>6, <1>7 DEF Capture, Results
<1> HIDE DEF ok, hung
<1>9. /\ work.pc = "encode"
      /\ forceKey' = IF ok THEN FALSE ELSE forceKey
      /\ ctx' = [ctx EXCEPT !.frame_n = FrameCount(ok)]
      /\ fault' = [fault EXCEPT !.hung = hung, !.qerr = QueueError(~ok, hung)]
      /\ m2m' = IF IsLastDraining(work.src) THEN Stopped ELSE m2m
      /\ work' = [pc |-> "remove_src", src |-> work.src, dst |-> work.dst,
                  result |-> Capture(work.src, ok, ok /\ work.idr, IsLastDraining(work.src))]
      /\ UNCHANGED << ctl, srcQ, capQ, capOwner, on, job, out, returned, warned, cnt >>
  BY <1>2 DEF ok, hung
<1>10. /\ ctx' \in [session : BOOLEAN, nb : 0 .. B_MAX, plan : Plans, frame_n : Nat,
                    pm_lost : BOOLEAN]
       /\ ctx'.session = ctx.session /\ ctx'.nb = ctx.nb /\ ctx'.plan = ctx.plan
  BY <1>1, <1>5, <1>9 DEF Types
<1>11. /\ fault' \in [hung : BOOLEAN, qerr : SUBSET {"out", "cap"}, paused : BOOLEAN]
       /\ fault.qerr \subseteq fault'.qerr
  <2>1. fault'.qerr = QueueError(~ok, hung) BY <1>1, <1>9 DEF Types
  <2> QED BY <1>1, <1>3, <1>9, <2>1, QueueErrorType
<1>12. /\ work' \in [pc : {"remove_src", "remove_dst"}, src : Nat, dst : Caps,
                     result : Results]
       /\ work'.pc = "remove_src" /\ work'.src = work.src /\ work'.dst = work.dst
       /\ work'.result.src = work.src /\ work'.result.last = IsLastDraining(work.src)
  BY <1>4, <1>8, <1>9
<1>13. /\ ctl' = ctl /\ srcQ' = srcQ /\ capQ' = capQ /\ capOwner' = capOwner /\ on' = on
       /\ job' = job /\ out' = out /\ returned' = returned /\ warned' = warned /\ cnt' = cnt
  BY <1>9
<1>14. forceKey' \in {FALSE, forceKey} /\ (forceKey' # forceKey => ctx.session)
  <2>1. ~ctx.session => o = "error" BY DEF EncodeOutcomes
  <2>2. ok => o = "ok" BY DEF ok
  <2> QED BY <1>9, <2>1, <2>2
<1> QED BY <1>9, <1>10, <1>11, <1>12, <1>13, <1>14

\* A frame is encoded.
LEMMA StreamEncodeFrame == ASSUME StreamInv, EncodeFrame PROVE StreamInv'
<1>1. /\ work.pc = "encode" /\ forceKey' \in {FALSE, forceKey}
      /\ ctx' \in [session : BOOLEAN, nb : 0 .. B_MAX, plan : Plans, frame_n : Nat,
                   pm_lost : BOOLEAN]
      /\ ctx'.session = ctx.session /\ ctx'.nb = ctx.nb /\ ctx'.plan = ctx.plan
      /\ fault' \in [hung : BOOLEAN, qerr : SUBSET {"out", "cap"}, paused : BOOLEAN]
      /\ m2m' = IF IsLastDraining(work.src) THEN Stopped ELSE m2m
      /\ work' \in [pc : {"remove_src", "remove_dst"}, src : Nat, dst : Caps, result : Results]
      /\ work'.pc = "remove_src" /\ work'.src = work.src /\ work'.result.src = work.src
      /\ ctl' = ctl /\ srcQ' = srcQ /\ capQ' = capQ /\ capOwner' = capOwner /\ on' = on
      /\ job' = job /\ out' = out /\ returned' = returned /\ warned' = warned /\ cnt' = cnt
  BY FrameEncoded
<1>2. Types /\ WorkTypes BY DEF StreamInv
<1>3. Taken' = Taken BY <1>1 DEF Taken
<1>4. BPath' = BPath BY <1>1 DEF BPath
<1>5. FramePlace' BY <1>1, <1>3, <1>4 DEF StreamInv, FramePlace
<1>6. BatchPlace' BY <1>1 DEF BatchPlace
<1>7. SourcePlace' BY <1>1, <1>3 DEF StreamInv, SourcePlace
<1>8. PlanPlace' BY <1>1, <1>4 DEF StreamInv, PlanPlace
<1>9. JobPlace' BY <1>1 DEF StreamInv, JobPlace
<1>10. Types'
  <2>1. m2m' \in M2m BY <1>1, <1>2, StoppedType DEF Types
  <2>2. forceKey' \in BOOLEAN BY <1>1, <1>2 DEF Types
  <2> QED BY <1>1, <1>2, <2>1, <2>2 DEF Types
<1>11. WorkTypes' BY <1>1 DEF WorkTypes
<1> QED BY <1>5, <1>6, <1>7, <1>8, <1>9, <1>10, <1>11 DEF StreamInv

\* Its source leaves the queue.
LEMMA StreamRemoveSource == ASSUME StreamInv, RemoveSource PROVE StreamInv'
<1>1. /\ work.pc = "remove_src" /\ srcQ' = Tail(srcQ)
        /\ work' = [work EXCEPT !.pc = "remove_dst"]
      /\ ctl' = ctl /\ forceKey' = forceKey /\ fault' = fault /\ ctx' = ctx /\ cnt' = cnt
      /\ capQ' = capQ /\ capOwner' = capOwner /\ on' = on /\ m2m' = m2m
      /\ out' = out /\ returned' = returned /\ warned' = warned /\ job' = job
  BY DEF RemoveSource
<1>2. Types /\ WorkTypes BY DEF StreamInv
<1>3. work \in [pc : {"remove_src", "remove_dst"}, src : Nat, dst : Caps, result : Results]
  BY <1>1, <1>2, WorkShape
<1>4. /\ work' \in [pc : {"remove_src", "remove_dst"}, src : Nat, dst : Caps, result : Results]
      /\ work'.pc = "remove_dst" /\ work'.src = work.src /\ work'.result = work.result
  BY <1>1, <1>3
<1>5. srcQ # << >> /\ work.src = Taken + 1 /\ work.result.src = work.src
  BY <1>1 DEF StreamInv, FramePlace
<1>6. /\ Len(srcQ) \in Nat /\ Len(srcQ) >= 1 /\ DOMAIN srcQ = 1 .. Len(srcQ)
      /\ srcQ' \in Seq(Nat) /\ Len(srcQ') = Len(srcQ) - 1 /\ DOMAIN srcQ' = 1 .. Len(srcQ) - 1
      /\ \A i \in 1 .. Len(srcQ) - 1 : srcQ'[i] = srcQ[i + 1]
  <2>1. srcQ \in Seq(Nat) BY <1>2 DEF Types
  <2> QED BY <1>1, <1>5, <2>1, HeadTail
<1>7. Taken = Len(returned) /\ Taken' = Len(returned) + 1 /\ Taken \in Nat
  BY <1>1, <1>2, <1>4 DEF Taken, Types
<1>8. SourcePlace'
  <2>1. ASSUME NEW i \in DOMAIN srcQ' PROVE srcQ'[i] = Taken' + i
    <3>1. i + 1 \in DOMAIN srcQ /\ srcQ'[i] = srcQ[i + 1] BY <1>6, <2>1
    <3>2. srcQ[i + 1] = Taken + (i + 1) BY <3>1 DEF StreamInv, SourcePlace
    <3>3. i \in Nat BY <1>6, <2>1
    <3> HIDE DEF Taken
    <3> QED BY <1>7, <3>1, <3>2, <3>3
  <2>2. cnt'.src = Taken' + Len(srcQ') BY <1>1, <1>6, <1>7 DEF StreamInv, SourcePlace
  <2> QED BY <1>1, <2>1, <2>2 DEF StreamInv, SourcePlace
<1>9. ~BPath /\ BPath' = BPath BY <1>1 DEF StreamInv, FramePlace, BPath
<1>10. FramePlace' BY <1>4, <1>5, <1>7, <1>9 DEF FramePlace
<1>11. BatchPlace' BY <1>4 DEF BatchPlace
<1>12. PlanPlace' BY <1>1, <1>9 DEF StreamInv, PlanPlace
<1>13. JobPlace' BY <1>1, <1>4, <1>5, <1>6 DEF StreamInv, JobPlace
<1>14. Types'
  <2>1. Len(srcQ') <= NOut
    <3>1. NOut \in Nat BY BuffersAssumption
    <3> QED BY <1>2, <1>6, <3>1 DEF Types
  <2> QED BY <1>1, <1>2, <1>6, <2>1 DEF Types
<1>15. WorkTypes' BY <1>4 DEF WorkTypes
<1> QED BY <1>8, <1>10, <1>11, <1>12, <1>13, <1>14, <1>15 DEF StreamInv

\* Its CAPTURE buffer goes too, and the job ends.
LEMMA StreamRemoveCapture == ASSUME StreamInv, RemoveCapture PROVE StreamInv'
<1>1. /\ work.pc = "remove_dst" /\ returned' = Append(returned, work.src) /\ JobFinish
      /\ capQ' = (IF capQ = << >> THEN capQ ELSE Tail(capQ))
      /\ ctl' = ctl /\ forceKey' = forceKey /\ fault' = fault /\ ctx' = ctx /\ cnt' = cnt
      /\ srcQ' = srcQ /\ on' = on /\ m2m' = m2m
  BY DEF RemoveCapture
<1>2. Types /\ WorkTypes BY DEF StreamInv
<1>3. work \in [pc : {"remove_src", "remove_dst"}, src : Nat, dst : Caps, result : Results]
  BY <1>1, <1>2, WorkShape
<1>4. /\ capQ' \in Seq(Caps) /\ (capQ = << >> => capQ' = << >>)
  <2>1. capQ \in Seq(Caps) BY <1>2 DEF Types
  <2> QED BY <1>1, <2>1, HeadTail
<1>5. /\ capOwner' \in [Caps -> {"client", "driver"}] /\ out' \in Seq(Results)
      /\ warned' \in BOOLEAN
  <2>1. CASE capOwner[work.dst] = "driver"
    <3>1. capOwner' = [capOwner EXCEPT ![work.dst] = "client"] /\ out' = Append(out, work.result)
          /\ warned' = warned
      BY <2>1 DEF RemoveCapture
    <3>2. work.result \in Results /\ work.dst \in Caps BY <1>3
    <3>3. out' \in Seq(Results) BY <1>2, <3>1, <3>2 DEF Types
    <3> QED BY <1>2, <3>1, <3>2, <3>3 DEF Types
  <2>2. CASE capOwner[work.dst] # "driver"
    <3>1. capOwner' = capOwner /\ out' = out /\ warned' = TRUE BY <2>2 DEF RemoveCapture
    <3> QED BY <1>2, <3>1 DEF Types
  <2> QED BY <2>1, <2>2
<1>6. /\ JobPlace' /\ job' \in {"none", "queued", "running"}
      /\ FramePlace' /\ BatchPlace' /\ WorkTypes'
      /\ returned' \in Seq(Nat) => Taken' = Len(returned')
  BY <1>1, <1>4, JobDone
<1>7. work.src = Taken /\ Taken = Len(returned) + 1 /\ Len(returned) \in Nat
  BY <1>1, <1>2 DEF StreamInv, FramePlace, Taken, Types
<1>8. /\ returned' \in Seq(Nat) /\ Len(returned') = Len(returned) + 1
      /\ DOMAIN returned' = 1 .. Len(returned) + 1 /\ DOMAIN returned = 1 .. Len(returned)
      /\ \A i \in 1 .. Len(returned) : returned'[i] = returned[i]
      /\ returned'[Len(returned) + 1] = Len(returned) + 1
  <2>1. returned \in Seq(Nat) /\ work.src \in Nat BY <1>2, <1>3 DEF Types
  <2> QED BY <1>1, <1>7, <2>1
<1>9. SourcePlace'
  <2>1. Taken' = Taken BY <1>6, <1>7, <1>8
  <2>2. \A i \in DOMAIN returned' : returned'[i] = i
    BY <1>7, <1>8 DEF StreamInv, SourcePlace
  <2> QED BY <1>1, <2>1, <2>2 DEF StreamInv, SourcePlace
<1>10. PlanPlace' BY <1>1 DEF StreamInv, PlanPlace, BPath
<1>11. Types' BY <1>1, <1>2, <1>4, <1>5, <1>6, <1>8 DEF Types
<1> QED BY <1>6, <1>9, <1>10, <1>11 DEF StreamInv

-----------------------------------------------------------------------------
\* The first layer, mini-GOPs.

\* A job that finds nothing to plan.
LEMMA StreamPlanChanged == ASSUME StreamInv, PlanChanged PROVE StreamInv'
<1>1. /\ job = "queued" /\ JobFinish
      /\ ctl' = ctl /\ forceKey' = forceKey /\ fault' = fault /\ ctx' = ctx /\ cnt' = cnt
      /\ srcQ' = srcQ /\ capQ' = capQ /\ capOwner' = capOwner /\ on' = on /\ m2m' = m2m
      /\ out' = out /\ returned' = returned /\ warned' = warned
  BY DEF PlanChanged, stream
<1>2. Types BY DEF StreamInv
<1>3. work.pc = "idle" BY <1>1 DEF StreamInv, JobPlace
<1>4. /\ JobPlace' /\ job' \in {"none", "queued", "running"}
      /\ FramePlace' /\ BatchPlace' /\ WorkTypes'
      /\ returned' \in Seq(Nat) => Taken' = Len(returned')
  BY <1>1, JobDone
<1>5. Taken' = Taken BY <1>1, <1>2, <1>3, <1>4 DEF Taken, Types
<1>6. SourcePlace' BY <1>1, <1>5 DEF StreamInv, SourcePlace
<1>7. PlanPlace' BY <1>1 DEF StreamInv, PlanPlace, BPath
<1>8. Types' BY <1>1, <1>2, <1>4 DEF Types
<1> QED BY <1>4, <1>6, <1>7, <1>8 DEF StreamInv

\* What the planner decides has its sources on the queue.
LEMMA NextAct ==
  ASSUME Types, PlanPlace, BPath, ave_b_next # "NONE"
  PROVE  /\ ave_b_next \in {"HOLD", "ANCHOR", "KEY", "CLOSE"}
         /\ ctx.plan \in Plans /\ ctx.plan.n_held \in Nat /\ Len(srcQ) \in Nat
         /\ ctx.plan.n_held <= Len(srcQ)
         /\ ave_b_next # "CLOSE" => ctx.plan.n_held < Len(srcQ)
         /\ ave_b_next = "CLOSE" => ctx.plan.n_held > 0
         /\ ave_b_next = "HOLD" => ctx.plan.n_held < ctx.nb
         /\ ave_b_next = "HOLD" => ~forceKey
<1>1. /\ ctx.plan \in Plans /\ ctx.plan.n_held \in Nat /\ Len(srcQ) \in Nat
      /\ ctx.nb \in 0 .. B_MAX
      /\ ctx.plan.n_held <= Len(srcQ) /\ ctx.plan.nb = ctx.nb /\ ctx.plan.nb \in 0 .. B_MAX
  <2>1. ctx.plan \in Plans /\ srcQ \in Seq(Nat) /\ ctx.nb \in 0 .. B_MAX BY DEF Types
  <2>2. ctx.plan.nb = ctx.nb /\ ctx.plan.n_held <= Len(srcQ)
    BY <2>1 DEF PlanPlace, BPath, B_MAX
  <2> QED BY <2>1, <2>2 DEF Plans
<1>2. CASE HasNew
  <2> DEFINE l == IsLastDraining(srcQ[ctx.plan.n_held + 1])
  <2>1. ave_b_next = ave_gop_decide(ctx.plan, TRUE, forceKey, l)
    BY <1>2 DEF ave_b_next
  <2> HIDE DEF l
  <2>2. ave_b_next \in {"KEY", "ANCHOR", "HOLD"}
        /\ (ave_b_next = "HOLD" => ~(ctx.plan.n_held >= ctx.plan.nb) /\ ~forceKey)
    BY <2>1 DEF ave_gop_decide, KeyDue
  <2> QED BY <1>1, <1>2, <2>2 DEF HasNew, B_MAX
<1>3. CASE ~HasNew
  <2> DEFINE l == ctx.plan.n_held > 0 /\ IsLastDraining(srcQ[ctx.plan.n_held])
  <2>1. ave_b_next = ave_gop_decide(ctx.plan, FALSE, FALSE, l)
    BY <1>3 DEF ave_b_next
  <2> HIDE DEF l
  <2>2. ave_b_next = "CLOSE" /\ ctx.plan.n_held > 0
    BY <2>1 DEF ave_gop_decide
  <2> QED BY <1>1, <2>2
<1> QED BY <1>2, <1>3

\* The sources of a plan's batches, each in its place.
LEMMA BatchesOf ==
  ASSUME NEW g \in Plans, NEW act \in {"ANCHOR", "KEY", "CLOSE"},
         act = "CLOSE" => g.n_held > 0
  PROVE  LET b == GopBatches(g, act)
         IN  /\ b \in Seq(Seq(Frames)) /\ Len(b) \in 1 .. 2
             /\ Len(b[1]) \in 1 .. g.n_held + 1
             /\ \A i \in DOMAIN b[1] : b[1][i].src + 1 = i
             /\ Len(b) = 2 => Len(b[2]) = 1 /\ b[2][1].src = Len(b[1])
             /\ Len(b[1]) + (IF Len(b) = 2 THEN Len(b[2]) ELSE 0) = ave_gop_need(g, act)
             /\ act = "KEY" => b[Len(b)][1].type = "IDR"
<1> DEFINE n == g.n_held
<1>1. g.n_held \in Nat /\ g.fn_anchor \in Nat /\ g.nb \in Nat BY DEF Plans, B_MAX
<1>2. ASSUME NEW w \in BOOLEAN, w \/ n > 0
      PROVE  LET m == Minigop(g, w)
             IN  /\ m \in Seq(Frames) /\ Len(m) = (IF w THEN n + 1 ELSE n)
                 /\ \A i \in DOMAIN m : m[i].src + 1 = i
  <2> DEFINE nbs == MinigopBs(g, w)
             f(i) == IF i <= nbs THEN GopFrame(i - 1, "B", g.fn_anchor + i)
                     ELSE GopFrame(nbs, "P", g.fn_anchor + g.nb + 1)
  <2>1. nbs \in Nat /\ nbs + 1 = (IF w THEN n + 1 ELSE n) BY <1>1, <1>2 DEF MinigopBs
  <2>2. Minigop(g, w) = [i \in 1 .. nbs + 1 |-> f(i)] BY DEF Minigop
  <2>3. ASSUME NEW i \in 1 .. nbs + 1 PROVE f(i) \in Frames /\ f(i).src + 1 = i
    <3> HIDE DEF nbs
    <3> QED BY <1>1, <2>1, <2>3 DEF GopFrame, Frames, FrameType
  <2> HIDE DEF nbs, f
  <2>4. [i \in 1 .. nbs + 1 |-> f(i)] \in Seq(Frames)
        /\ Len([i \in 1 .. nbs + 1 |-> f(i)]) = nbs + 1
    BY <2>1, <2>3
  <2> QED BY <2>1, <2>2, <2>3, <2>4
<1>3. /\ KeyBatch(g) \in Seq(Frames) /\ Len(KeyBatch(g)) = 1
      /\ KeyBatch(g)[1].src = n /\ KeyBatch(g)[1].type = "IDR"
  <2>1. KeyFn(Closed(g)) \in Nat
    <3>1. Closed(g).fn_anchor \in Nat BY <1>1 DEF Closed, AfterMinigop, Plans
    <3> QED BY <3>1 DEF KeyFn
  <2> DEFINE f == GopFrame(g.n_held, "IDR", KeyFn(Closed(g)))
  <2>2. f \in Frames /\ f.src = n /\ f.type = "IDR"
    BY <1>1, <2>1 DEF GopFrame, Frames, FrameType
  <2>3. KeyBatch(g) = << f >> BY DEF KeyBatch
  <2> HIDE DEF f
  <2> QED BY <2>2, <2>3
<1> DEFINE b == GopBatches(g, act)
           Good(c) == /\ c \in Seq(Seq(Frames)) /\ Len(c) \in 1 .. 2
                      /\ Len(c[1]) \in 1 .. n + 1
                      /\ \A i \in DOMAIN c[1] : c[1][i].src + 1 = i
                      /\ Len(c) = 2 => Len(c[2]) = 1 /\ c[2][1].src = Len(c[1])
                      /\ act = "KEY" => c[Len(c)][1].type = "IDR"
           Total(c) == Len(c[1]) + (IF Len(c) = 2 THEN Len(c[2]) ELSE 0)
<1> SUFFICES Good(b) /\ Total(b) = ave_gop_need(g, act) OBVIOUS
<1>4. n \in Nat BY <1>1
<1>5. ASSUME NEW m \in Seq(Frames), Len(m) \in 1 .. n + 1,
             \A i \in DOMAIN m : m[i].src + 1 = i, act = "KEY" => m[1].type = "IDR"
      PROVE  Good(<< m >>) /\ Total(<< m >>) = Len(m)
  <2>1. << m >> \in Seq(Seq(Frames)) /\ Len(<< m >>) = 1 /\ << m >>[1] = m OBVIOUS
  <2>2. Len(m) \in Nat OBVIOUS
  <2> DEFINE c == << m >>
  <2> HIDE DEF c
  <2>3. c \in Seq(Seq(Frames)) /\ Len(c) = 1 /\ c[1] = m BY <2>1 DEF c
  <2>4. Good(c) /\ Total(c) = Len(m) BY <1>5, <2>2, <2>3
  <2> QED BY <2>4 DEF c
<1>6. CASE act = "ANCHOR"
  <2> DEFINE m == Minigop(g, TRUE)
  <2>1. m \in Seq(Frames) /\ Len(m) = n + 1 /\ \A i \in DOMAIN m : m[i].src + 1 = i
    BY <1>2
  <2>2. b = << m >> /\ ave_gop_need(g, act) = n + 1 BY <1>6 DEF GopBatches, ave_gop_need
  <2> HIDE DEF m, b, Good, Total, n
  <2> QED BY <1>4, <1>5, <1>6, <2>1, <2>2
<1>7. CASE act = "CLOSE"
  <2> DEFINE m == Minigop(g, FALSE)
  <2>1. m \in Seq(Frames) /\ Len(m) = n /\ \A i \in DOMAIN m : m[i].src + 1 = i
    BY <1>2, <1>7
  <2>2. b = << m >> /\ ave_gop_need(g, act) = n BY <1>7 DEF GopBatches, ave_gop_need
  <2>3. n > 0 BY <1>7
  <2> HIDE DEF m, b, Good, Total, n
  <2> QED BY <1>4, <1>5, <1>7, <2>1, <2>2, <2>3
<1>8. CASE act = "KEY" /\ n = 0
  <2> DEFINE m == KeyBatch(g)
  <2>1. m \in Seq(Frames) /\ Len(m) = 1 /\ m[1].src + 1 = 1 /\ m[1].type = "IDR"
    BY <1>3, <1>8
  <2>2. DOMAIN m = {1} BY <2>1
  <2>3. b = << m >> /\ ave_gop_need(g, act) = 1 BY <1>8 DEF GopBatches, ave_gop_need
  <2> HIDE DEF m, b, Good, Total, n
  <2>4. Len(m) \in 1 .. n + 1 /\ \A i \in DOMAIN m : m[i].src + 1 = i
    BY <1>4, <2>1, <2>2
  <2> QED BY <1>5, <2>1, <2>3, <2>4
<1>9. CASE act = "KEY" /\ n > 0
  <2> DEFINE m == Minigop(g, FALSE)
             k == KeyBatch(g)
  <2>1. m \in Seq(Frames) /\ Len(m) = n /\ \A i \in DOMAIN m : m[i].src + 1 = i
    BY <1>2, <1>9
  <2>2. k \in Seq(Frames) /\ Len(k) = 1 /\ k[1].src = n /\ k[1].type = "IDR" BY <1>3
  <2>3. ave_gop_need(g, act) = n + 1 BY <1>9 DEF ave_gop_need
  <2>4. b = << m, k >>
    <3>1. act = "KEY" /\ g.n_held > 0 /\ g.n_held # 0 BY <1>1, <1>9
    <3> QED BY <3>1 DEF GopBatches
  <2> HIDE DEF m, k, b, n
  <2>5. b \in Seq(Seq(Frames)) /\ Len(b) = 2 /\ b[1] = m /\ b[2] = k
    BY <2>1, <2>2, <2>4
  <2>6. Len(b[1]) \in 1 .. n + 1 BY <1>4, <1>9, <2>1, <2>5
  <2>7. \A i \in DOMAIN b[1] : b[1][i].src + 1 = i BY <2>1, <2>5
  <2>8. Len(b[2]) = 1 /\ b[2][1].src = Len(b[1]) /\ b[Len(b)][1].type = "IDR"
    BY <2>1, <2>2, <2>5
  <2>9. Total(b) = n + 1 BY <2>1, <2>5, <2>8
  <2>10. Len(b) \in 1 .. 2 BY <2>5
  <2>11. Good(b) BY <2>5, <2>6, <2>7, <2>8, <2>10
  <2> QED BY <2>3, <2>9, <2>11
<1>10. act \in {"ANCHOR", "CLOSE"} \/ (act = "KEY" /\ n = 0) \/ (act = "KEY" /\ n > 0)
  BY <1>4
<1> QED BY <1>6, <1>7, <1>8, <1>9, <1>10

\* The planner afterwards.
LEMMA PlannerNext ==
  ASSUME NEW g \in Plans, NEW act \in {"HOLD", "ANCHOR", "KEY", "CLOSE"}
  PROVE  /\ GopNext(g, act) \in Plans /\ GopNext(g, act).nb = g.nb
         /\ GopNext(g, act).n_held = IF act = "HOLD" THEN g.n_held + 1 ELSE 0
<1>1. g.n_held \in Nat /\ g.fn_anchor \in Nat /\ g.nb \in Nat /\ g.dist \in Nat
  BY DEF Plans, B_MAX
<1>2. AfterMinigop(g) \in Plans /\ AfterMinigop(g).nb = g.nb /\ AfterMinigop(g).n_held = 0
      /\ AfterMinigop(g).dist = g.dist
  <2> DEFINE k == g.fn_anchor + g.nb + 1
  <2>1. k \in Nat BY <1>1
  <2>2. AfterMinigop(g) = [g EXCEPT !.fn_anchor = k, !.n_held = 0] BY DEF AfterMinigop
  <2> HIDE DEF k
  <2>3. [g EXCEPT !.fn_anchor = k, !.n_held = 0] \in Plans BY <2>1 DEF Plans
  <2> QED BY <2>2, <2>3 DEF Plans
<1>3. Closed(g) \in Plans /\ Closed(g).nb = g.nb /\ Closed(g).n_held = 0
  BY <1>1, <1>2 DEF Closed
<1>4. CASE act = "HOLD"
  <2> DEFINE k == g.n_held + 1
             l == g.dist + 1
  <2>1. k \in Nat /\ l \in Nat BY <1>1
  <2>2. GopNext(g, act) = [g EXCEPT !.n_held = k, !.dist = l] BY <1>4 DEF GopNext
  <2> HIDE DEF l
  <2> QED BY <1>4, <2>1, <2>2 DEF Plans
<1>5. CASE act = "ANCHOR"
  <2> DEFINE l == g.dist + 1
  <2>1. l \in Nat BY <1>1
  <2>2. GopNext(g, act) = [AfterMinigop(g) EXCEPT !.dist = l] BY <1>5 DEF GopNext
  <2> HIDE DEF l
  <2> QED BY <1>2, <1>5, <2>1, <2>2 DEF Plans
<1>6. CASE act = "CLOSE" BY <1>3, <1>6 DEF GopNext
<1>7. CASE act = "KEY"
  <2>1. KeyFn(Closed(g)) \in Nat
    <3>1. Closed(g).fn_anchor \in Nat BY <1>3 DEF Plans
    <3> QED BY <3>1 DEF KeyFn
  <2> QED BY <1>3, <1>7, <2>1 DEF GopNext, Plans
<1> QED BY <1>4, <1>5, <1>6, <1>7

\* What StartBatches does.
LEMMA BatchesStarted ==
  ASSUME StreamInv, StartBatches
  PROVE  /\ job = "queued" /\ BPath /\ BReady /\ work.pc = "idle" /\ BPath' = BPath
         /\ ctx' \in [session : BOOLEAN, nb : 0 .. B_MAX, plan : Plans, frame_n : Nat,
                      pm_lost : BOOLEAN]
         /\ ctx'.session = ctx.session /\ ctx'.nb = ctx.nb
         /\ ctx'.plan = GopNext(ctx.plan, ave_b_next)
         /\ ave_b_next = "HOLD" => JobFinish
         /\ ave_b_next # "HOLD" =>
              /\ job' = "running"
              /\ work' = [pc |-> IF ave_b_next = "KEY" THEN "clear" ELSE "batch",
                          srcs |-> srcQ, batches |-> GopBatches(ctx.plan, ave_b_next)]
         /\ forceKey' = forceKey
         /\ ctl' = ctl /\ srcQ' = srcQ /\ capQ' = capQ /\ capOwner' = capOwner /\ on' = on
         /\ m2m' = m2m /\ out' = out /\ returned' = returned /\ warned' = warned
         /\ fault' = fault /\ cnt' = cnt
<1> DEFINE act == ave_b_next
<1>1. /\ job = "queued" /\ BPath /\ BReady
      /\ ctx' = [ctx EXCEPT !.plan = GopNext(ctx.plan, act),
                            !.frame_n = IF act = "CLOSE" THEN ctx.frame_n ELSE ctx.frame_n + 1]
      /\ ctl' = ctl /\ forceKey' = forceKey /\ srcQ' = srcQ /\ capQ' = capQ /\ capOwner' = capOwner /\ on' = on
      /\ m2m' = m2m /\ out' = out /\ returned' = returned /\ warned' = warned
      /\ fault' = fault /\ cnt' = cnt
      /\ act = "HOLD" => JobFinish
      /\ act # "HOLD" =>
           /\ job' = "running"
           /\ work' = [pc |-> IF act = "KEY" THEN "clear" ELSE "batch",
                       srcs |-> srcQ, batches |-> GopBatches(ctx.plan, act)]
  BY DEF StartBatches, stream
<1>2. Types /\ PlanPlace BY DEF StreamInv
<1>3. work.pc = "idle" BY <1>1 DEF StreamInv, JobPlace
<1>4. act \in {"HOLD", "ANCHOR", "KEY", "CLOSE"} BY <1>1, <1>2, NextAct DEF BReady
<1> HIDE DEF act
<1>5. GopNext(ctx.plan, act) \in Plans
  BY <1>2, <1>4, PlannerNext DEF Types
<1> DEFINE k == IF act = "CLOSE" THEN ctx.frame_n ELSE ctx.frame_n + 1
           p == GopNext(ctx.plan, act)
<1>6. k \in Nat BY <1>2 DEF Types
<1> HIDE DEF k, p
<1>7. ctx' = [ctx EXCEPT !.plan = p, !.frame_n = k] /\ p \in Plans BY <1>1, <1>5 DEF k, p
<1>8. /\ ctx' \in [session : BOOLEAN, nb : 0 .. B_MAX, plan : Plans, frame_n : Nat,
                   pm_lost : BOOLEAN]
      /\ ctx'.session = ctx.session /\ ctx'.nb = ctx.nb /\ ctx'.plan = p
  BY <1>2, <1>6, <1>7 DEF Types
<1>9. BPath' = BPath BY <1>8 DEF BPath
<1> QED BY <1>1, <1>3, <1>8, <1>9 DEF act, p

\* A source is held, or batches are planned.
LEMMA StreamStartBatches == ASSUME StreamInv, StartBatches PROVE StreamInv'
<1> DEFINE act == ave_b_next
           b == GopBatches(ctx.plan, act)
<1>1. /\ job = "queued" /\ BPath /\ BReady /\ work.pc = "idle" /\ BPath' = BPath
      /\ ctx' \in [session : BOOLEAN, nb : 0 .. B_MAX, plan : Plans, frame_n : Nat,
                   pm_lost : BOOLEAN]
      /\ ctx'.session = ctx.session /\ ctx'.nb = ctx.nb /\ ctx'.plan = GopNext(ctx.plan, act)
      /\ act = "HOLD" => JobFinish
      /\ act # "HOLD" =>
           /\ job' = "running"
           /\ work' = [pc |-> IF act = "KEY" THEN "clear" ELSE "batch",
                       srcs |-> srcQ, batches |-> b]
      /\ ctl' = ctl /\ forceKey' = forceKey /\ srcQ' = srcQ /\ capQ' = capQ /\ capOwner' = capOwner /\ on' = on
      /\ m2m' = m2m /\ out' = out /\ returned' = returned /\ warned' = warned
      /\ fault' = fault /\ cnt' = cnt
  BY BatchesStarted
<1>2. Types /\ PlanPlace BY DEF StreamInv
<1>3. /\ act \in {"HOLD", "ANCHOR", "KEY", "CLOSE"}
      /\ ctx.plan \in Plans /\ ctx.plan.n_held \in Nat /\ Len(srcQ) \in Nat
      /\ ctx.plan.n_held <= Len(srcQ)
      /\ act # "CLOSE" => ctx.plan.n_held < Len(srcQ)
      /\ act = "CLOSE" => ctx.plan.n_held > 0
      /\ act = "HOLD" => ctx.plan.n_held < ctx.nb
  BY <1>1, <1>2, NextAct DEF BReady
<1> HIDE DEF act
<1>4. /\ ctx'.plan \in Plans /\ ctx'.plan.nb = ctx.plan.nb
      /\ ctx'.plan.n_held = IF act = "HOLD" THEN ctx.plan.n_held + 1 ELSE 0
  BY <1>1, <1>3, PlannerNext
<1>5. ctx.nb \in Nat BY <1>2 DEF Types, B_MAX
<1>6. PlanPlace'
  <2>1. ctx'.plan.n_held <= ctx.nb /\ ctx'.plan.n_held <= Len(srcQ) BY <1>3, <1>4, <1>5
  <2> QED BY <1>1, <1>4, <2>1 DEF StreamInv, PlanPlace
<1>7. Taken = Len(returned) /\ Len(returned) \in Nat BY <1>1, <1>2 DEF Taken, Types
<1>8. forceKey' \in BOOLEAN BY <1>1, <1>2 DEF Types
<1>9. CASE act = "HOLD"
  <2>1. /\ JobPlace' /\ job' \in {"none", "queued", "running"}
        /\ FramePlace' /\ BatchPlace' /\ WorkTypes'
        /\ returned' \in Seq(Nat) => Taken' = Len(returned')
    BY <1>1, <1>9, JobDone
  <2>2. Taken' = Taken BY <1>1, <1>2, <1>7, <2>1 DEF Types
  <2>3. SourcePlace' BY <1>1, <2>2 DEF StreamInv, SourcePlace
  <2>4. Types' BY <1>1, <1>2, <1>8, <2>1 DEF Types
  <2> QED BY <1>6, <2>1, <2>3, <2>4 DEF StreamInv
<1>10. CASE act # "HOLD"
  <2>1. /\ b \in Seq(Seq(Frames)) /\ Len(b) \in 1 .. 2
        /\ Len(b[1]) \in 1 .. ctx.plan.n_held + 1
        /\ \A i \in DOMAIN b[1] : b[1][i].src + 1 = i
        /\ Len(b) = 2 => Len(b[2]) = 1 /\ b[2][1].src = Len(b[1])
        /\ Len(b[1]) + (IF Len(b) = 2 THEN Len(b[2]) ELSE 0) = ave_gop_need(ctx.plan, act)
    BY <1>3, <1>10, BatchesOf
  <2> HIDE DEF b
  <2>2. /\ job' = "running"
        /\ work' = [pc |-> IF act = "KEY" THEN "clear" ELSE "batch",
                    srcs |-> srcQ, batches |-> b]
    BY <1>1, <1>10
  <2>3. /\ work' \in [pc : {"clear", "batch", "remove_batch"}, srcs : Seq(Nat), batches : Seq(Seq(Frames))]
        /\ work'.pc \in {"clear", "batch"} /\ work'.srcs = srcQ /\ work'.batches = b
    BY <1>2, <2>1, <2>2 DEF Types
  <2>4. Taken' = Taken BY <1>1, <1>7, <2>3 DEF Taken
  <2>5. ave_gop_need(ctx.plan, act) <= Len(srcQ) BY <1>3, <1>10 DEF ave_gop_need
  <2>6. FramesLeft' = ave_gop_need(ctx.plan, act) BY <2>1, <2>3 DEF FramesLeft
  <2>7. b[1] \in Seq(Frames) /\ DOMAIN b[1] = 1 .. Len(b[1]) /\ Len(b[1]) \in Nat
    BY <2>1
  <2>8. Len(b[1]) <= Len(srcQ) /\ (Len(b) = 2 => Len(b[1]) + 1 <= Len(srcQ))
    <3>1. CASE Len(b) = 1
      <4>1. Len(b[1]) = ave_gop_need(ctx.plan, act) BY <2>1, <2>7, <3>1
      <4> QED BY <2>5, <3>1, <4>1
    <3>2. CASE Len(b) = 2
      <4>1. Len(b[1]) + 1 = ave_gop_need(ctx.plan, act) BY <2>1, <2>7, <3>2
      <4> QED BY <1>3, <2>5, <2>7, <4>1
    <3> QED BY <2>1, <3>1, <3>2
  <2>9. DOMAIN srcQ = 1 .. Len(srcQ) BY <1>2 DEF Types
  <2>10. \A i \in DOMAIN b[1] :
           b[1][i].src + 1 \in DOMAIN srcQ /\ srcQ[b[1][i].src + 1] = Taken + i
    <3> SUFFICES ASSUME NEW i \in DOMAIN b[1]
                 PROVE  b[1][i].src + 1 \in DOMAIN srcQ /\ srcQ[b[1][i].src + 1] = Taken + i
      OBVIOUS
    <3>1. b[1][i].src + 1 = i /\ i \in DOMAIN srcQ BY <1>3, <2>1, <2>7, <2>8, <2>9
    <3> QED BY <3>1 DEF StreamInv, SourcePlace
  <2>11. Len(b) = 2 => b[2][1].src + 1 \in DOMAIN srcQ
                       /\ srcQ[b[2][1].src + 1] = Taken + Len(b[1]) + 1
    <3> SUFFICES ASSUME Len(b) = 2
                 PROVE  b[2][1].src + 1 \in DOMAIN srcQ
                        /\ srcQ[b[2][1].src + 1] = Taken + Len(b[1]) + 1
      OBVIOUS
    <3> DEFINE j == Len(b[1]) + 1
    <3>1. b[2][1].src + 1 = j /\ j \in DOMAIN srcQ BY <1>3, <2>1, <2>7, <2>8, <2>9
    <3>2. srcQ[j] = Taken + j BY <3>1 DEF StreamInv, SourcePlace
    <3> QED BY <1>7, <2>7, <3>1, <3>2
  <2>12. Len(b[1]) \in 1 .. ctx.nb + 1
    <3>1. ctx.plan.n_held <= ctx.nb BY <1>2 DEF PlanPlace
    <3> QED BY <1>3, <1>5, <2>1, <3>1
  <2>13. BatchPlace'
    <3>1. ctx'.plan.n_held = 0 /\ BPath' /\ ctx'.nb = ctx.nb BY <1>1, <1>4, <1>10
    <3>2. FramesLeft' <= Len(srcQ') BY <1>1, <2>5, <2>6
    <3>3. \A f : Source(f)' = srcQ[f.src + 1] BY <2>3 DEF Source
    <3> QED
      BY <2>1, <2>3, <2>4, <2>10, <2>11, <2>12, <3>1, <3>2, <3>3 DEF BatchPlace, Source
  <2>14. FramePlace' BY <2>3 DEF FramePlace
  <2>15. SourcePlace' BY <1>1, <2>4 DEF StreamInv, SourcePlace
  <2>16. JobPlace' BY <1>1, <2>2, <2>3 DEF StreamInv, JobPlace
  <2>17. Types' BY <1>1, <1>2, <1>8, <2>2 DEF Types
  <2>18. WorkTypes' BY <2>3 DEF WorkTypes
  <2> QED BY <1>6, <2>13, <2>14, <2>15, <2>16, <2>17, <2>18 DEF StreamInv
<1> QED BY <1>9, <1>10

\* What ClearForceKey does: a step of the work that leaves it its batches.
LEMMA ForceKeyCleared ==
  ASSUME StreamInv, ClearForceKey
  PROVE  /\ work.pc = "clear" /\ work'.pc = "batch"
         /\ work' \in [pc : {"clear", "batch", "remove_batch"}, srcs : Seq(Nat),
                       batches : Seq(Seq(Frames))]
         /\ work'.srcs = work.srcs /\ work'.batches = work.batches
         /\ forceKey' = FALSE
         /\ ctl' = ctl /\ srcQ' = srcQ /\ capQ' = capQ /\ capOwner' = capOwner
         /\ on' = on /\ m2m' = m2m /\ job' = job /\ ctx' = ctx /\ fault' = fault
         /\ out' = out /\ returned' = returned /\ warned' = warned /\ cnt' = cnt
<1>1. /\ work.pc = "clear" /\ work' = [work EXCEPT !.pc = "batch"] /\ forceKey' = FALSE
      /\ ctl' = ctl /\ srcQ' = srcQ /\ capQ' = capQ /\ capOwner' = capOwner
      /\ on' = on /\ m2m' = m2m /\ job' = job /\ ctx' = ctx /\ fault' = fault
      /\ out' = out /\ returned' = returned /\ warned' = warned /\ cnt' = cnt
  BY DEF ClearForceKey, stream
<1>2. work \in [pc : {"clear", "batch", "remove_batch"}, srcs : Seq(Nat),
                batches : Seq(Seq(Frames))]
  BY <1>1, WorkShape DEF StreamInv
<1> QED BY <1>1, <1>2

\* The request is taken.
LEMMA StreamClearForceKey == ASSUME StreamInv, ClearForceKey PROVE StreamInv'
<1>1. /\ work.pc = "clear" /\ work'.pc = "batch"
      /\ work' \in [pc : {"clear", "batch", "remove_batch"}, srcs : Seq(Nat),
                    batches : Seq(Seq(Frames))]
      /\ work'.srcs = work.srcs /\ work'.batches = work.batches
      /\ forceKey' = FALSE
      /\ ctl' = ctl /\ srcQ' = srcQ /\ capQ' = capQ /\ capOwner' = capOwner
      /\ on' = on /\ m2m' = m2m /\ job' = job /\ ctx' = ctx /\ fault' = fault
      /\ out' = out /\ returned' = returned /\ warned' = warned /\ cnt' = cnt
  BY ForceKeyCleared
<1>2. Types' BY <1>1 DEF StreamInv, Types
<1>3. WorkTypes' BY <1>1 DEF WorkTypes
<1>4. JobPlace' BY <1>1 DEF StreamInv, JobPlace
<1>5. BPath' = BPath /\ Taken' = Taken BY <1>1 DEF BPath, Taken
<1>6. PlanPlace' BY <1>1, <1>5 DEF StreamInv, PlanPlace
<1>7. SourcePlace' BY <1>1, <1>5 DEF StreamInv, SourcePlace
<1>8. FramePlace' BY <1>1 DEF FramePlace
<1>9. FramesLeft' = FramesLeft BY <1>1 DEF FramesLeft
<1>10. BatchPlace'
  <2>1. BatchPlace BY DEF StreamInv
  <2> QED BY <1>1, <1>5, <1>9, <2>1 DEF BatchPlace, Source
<1> QED BY <1>2, <1>3, <1>4, <1>6, <1>7, <1>8, <1>10 DEF StreamInv

\* A batch's sources are the head of the queue.
LEMMA SourcesOfBatch ==
  ASSUME StreamInv, work.pc \in {"clear", "batch", "remove_batch"}
  PROVE  /\ work \in [pc : {"clear", "batch", "remove_batch"}, srcs : Seq(Nat),
                      batches : Seq(Seq(Frames))]
         /\ Head(work.batches) = work.batches[1] /\ work.batches[1] \in Seq(Frames)
         /\ Len(work.batches) \in 1 .. 2 /\ Len(work.batches[1]) \in 1 .. ctx.nb + 1
         /\ Len(work.batches[1]) \in Nat /\ Len(work.batches[1]) >= 1
         /\ DOMAIN work.batches[1] = 1 .. Len(work.batches[1])
         /\ Taken = Len(returned) /\ Taken \in Nat
         /\ \A i \in 1 .. Len(work.batches[1]) :
              Source(work.batches[1][i]) = Taken + i /\ Source(work.batches[1][i]) \in Nat
         /\ BatchSources \in Seq(Nat) /\ Len(BatchSources) = Len(work.batches[1])
         /\ \A i \in 1 .. Len(work.batches[1]) : BatchSources[i] = Taken + i
         /\ Range(BatchSources) = Taken + 1 .. Taken + Len(work.batches[1])
         /\ Len(work.batches[1]) <= Len(srcQ) /\ Len(srcQ) \in Nat
         /\ FramesLeft \in Nat /\ FramesLeft <= Len(srcQ)
         /\ Len(work.batches) = 1 => FramesLeft = Len(work.batches[1])
         /\ Len(work.batches) = 2 =>
              FramesLeft = Len(work.batches[1]) + 1 /\ Len(work.batches[2]) = 1
<1> DEFINE b == work.batches
           n == Len(b[1])
<1>1. Types /\ WorkTypes BY DEF StreamInv
<1>2. work \in [pc : {"clear", "batch", "remove_batch"}, srcs : Seq(Nat), batches : Seq(Seq(Frames))]
  BY <1>1, WorkShape
<1>3. /\ BPath /\ Len(b) \in 1 .. 2 /\ Len(b[1]) \in 1 .. ctx.nb + 1
      /\ \A i \in DOMAIN b[1] :
           b[1][i].src + 1 \in DOMAIN work.srcs /\ Source(b[1][i]) = Taken + i
      /\ Len(b) = 2 => Len(b[2]) = 1
      /\ FramesLeft <= Len(srcQ)
  BY DEF StreamInv, BatchPlace
<1>4. b \in Seq(Seq(Frames)) /\ b # << >> BY <1>2, <1>3
<1>5. Head(b) = b[1] /\ b[1] \in Seq(Frames) BY <1>4, HeadTail
<1>6. n \in Nat /\ n >= 1 /\ DOMAIN b[1] = 1 .. n /\ Len(srcQ) \in Nat
  <2>1. ctx.nb \in Nat BY <1>1 DEF Types, B_MAX
  <2> QED BY <1>1, <1>3, <1>5, <2>1 DEF Types
<1>7. Taken = Len(returned) /\ Taken \in Nat BY <1>1 DEF Taken, Types
<1>8. FramesLeft \in Nat /\ n <= Len(srcQ)
      /\ (Len(b) = 1 => FramesLeft = n) /\ (Len(b) = 2 => FramesLeft = n + 1 /\ Len(b[2]) = 1)
  <2>1. CASE Len(b) = 1
    <3>1. FramesLeft = n BY <1>6, <2>1 DEF FramesLeft
    <3> QED BY <1>3, <1>6, <2>1, <3>1
  <2>2. CASE Len(b) = 2
    <3>1. FramesLeft = n + 1 /\ Len(b[2]) = 1 BY <1>3, <1>6, <2>2 DEF FramesLeft
    <3> QED BY <1>3, <1>6, <2>2, <3>1
  <2> QED BY <1>3, <2>1, <2>2
<1>9. \A i \in 1 .. n : Source(b[1][i]) = Taken + i /\ Taken + i \in Nat
  <2> HIDE DEF b, n, Taken
  <2>1. \A i \in 1 .. n : i \in Nat BY <1>6
  <2>2. \A i \in 1 .. n : Taken + i \in Nat BY <1>7, <2>1
  <2> QED BY <1>3, <1>6, <2>2
<1>10. BatchSources = [i \in 1 .. n |-> Taken + i]
  BY <1>5, <1>6, <1>9 DEF BatchSources
<1> HIDE DEF b, n
<1>11. BatchSources \in Seq(Nat) /\ Len(BatchSources) = n
       /\ \A i \in 1 .. n : BatchSources[i] = Taken + i
  <2>1. [i \in 1 .. n |-> Taken + i] \in Seq(Nat) BY <1>6, <1>7
  <2> QED BY <1>6, <1>10, <2>1
<1>12. Range(BatchSources) = Taken + 1 .. Taken + n
  <2>1. DOMAIN BatchSources = 1 .. n BY <1>10
  <2>2. ASSUME NEW x \in Range(BatchSources) PROVE x \in Taken + 1 .. Taken + n
    <3>1. PICK i \in 1 .. n : x = BatchSources[i] BY <2>1, <2>2 DEF Range
    <3> QED BY <1>6, <1>7, <1>11, <3>1
  <2>3. ASSUME NEW x \in Taken + 1 .. Taken + n PROVE x \in Range(BatchSources)
    <3>1. x - Taken \in 1 .. n /\ Taken + (x - Taken) = x BY <1>6, <1>7, <2>3
    <3>2. BatchSources[x - Taken] = x BY <1>11, <3>1
    <3> QED BY <2>1, <3>1, <3>2 DEF Range
  <2> QED BY <2>2, <2>3
<1> QED BY <1>2, <1>3, <1>5, <1>6, <1>7, <1>8, <1>9, <1>11, <1>12 DEF b, n

\* What is left of a queue without its first n.
LEMMA Rest ==
  ASSUME NEW S, NEW s \in Seq(S), NEW n \in Nat
  PROVE  /\ SubSeq(s, n + 1, Len(s)) \in Seq(S)
         /\ n <= Len(s) => Len(SubSeq(s, n + 1, Len(s))) = Len(s) - n
         /\ n >= Len(s) => SubSeq(s, n + 1, Len(s)) = << >>
         /\ \A i \in 1 .. Len(s) - n : SubSeq(s, n + 1, Len(s))[i] = s[n + i]
<1>1. Len(s) \in Nat /\ DOMAIN s = 1 .. Len(s) OBVIOUS
<1>2. \A i \in n + 1 .. Len(s) : s[i] \in S BY <1>1
<1>3. n + 1 \in Int /\ Len(s) \in Int BY <1>1
<1> DEFINE t == SubSeq(s, n + 1, Len(s))
<1>4. /\ t \in Seq(S) /\ Len(t) = IF n + 1 <= Len(s) THEN Len(s) - (n + 1) + 1 ELSE 0
      /\ \A i \in 1 .. Len(s) - (n + 1) + 1 : t[i] = s[(n + 1) + i - 1]
  BY <1>2, <1>3, SubSeqProperties
<1> HIDE DEF t
<1> DEFINE l == Len(s)
<1>5. l \in Nat /\ Len(t) = (IF n + 1 <= l THEN l - (n + 1) + 1 ELSE 0)
      /\ \A i \in 1 .. l - (n + 1) + 1 : t[i] = s[(n + 1) + i - 1]
  BY <1>1, <1>4
<1> HIDE DEF l
<1>6. ASSUME NEW i \in 1 .. l - n PROVE t[i] = s[n + i]
  <2>1. i \in 1 .. l - (n + 1) + 1 /\ (n + 1) + i - 1 = n + i BY <1>5
  <2> QED BY <1>5, <2>1
<1>7. n <= l => Len(t) = l - n BY <1>5
<1>8. n >= l => t = << >>
  <2>1. n >= l => Len(t) = 0 BY <1>5
  <2> QED BY <1>4, <2>1
<1> QED BY <1>4, <1>6, <1>7, <1>8 DEF t, l

\* The order in which a batch's frames are done takes each once: those of a whole
\* batch anchor first.
LEMMA DoneOrderFacts ==
  ASSUME NEW b \in Seq(Frames), b # << >>, NEW n \in Nat, NEW k \in 1 .. Len(b)
  PROVE  /\ n = 0 => DoneOrder(b, n)[k] = k
         /\ n # 0 => DoneOrder(b, n)[k] = IF k = 1 THEN Len(b) ELSE k - 1
         /\ DoneOrder(b, n)[k] \in 1 .. Len(b)
<1>1. Len(b) \in Nat /\ Len(b) >= 1 /\ DOMAIN b = 1 .. Len(b) BY HeadTail
<1>2. CASE n = 0 BY <1>1, <1>2 DEF DoneOrder
<1>3. CASE n # 0
  <2> DEFINE t == [i \in 1 .. Len(b) - 1 |-> i]
  <2>1. << Len(b) >> \in Seq(Nat) /\ Len(<< Len(b) >>) = 1 /\ << Len(b) >>[1] = Len(b)
    BY <1>1
  <2>2. t \in Seq(Nat) /\ Len(t) = Len(b) - 1 BY <1>1
  <2>3. \A i \in 1 .. Len(b) - 1 : t[i] = i OBVIOUS
  <2>4. DoneOrder(b, n) = << Len(b) >> \o t BY <1>3 DEF DoneOrder, DecodeOrder
  <2> HIDE DEF t
  <2>5. /\ (<< Len(b) >> \o t)[1] = Len(b)
        /\ \A i \in 1 .. Len(b) - 1 : (<< Len(b) >> \o t)[1 + i] = t[i]
    <3> DEFINE s == << Len(b) >>
    <3>1. s \in Seq(Nat) /\ Len(s) = 1 /\ s[1] = Len(b) BY <2>1
    <3> HIDE DEF s
    <3>2. /\ \A i \in 1 .. Len(s) : (s \o t)[i] = s[i]
          /\ \A i \in 1 .. Len(t) : (s \o t)[Len(s) + i] = t[i]
      <4>1. t \in Seq(Nat) /\ s \in Seq(Nat) BY <2>2, <3>1
      <4> QED BY <4>1, Joined
    <3>3. (s \o t)[1] = Len(b) /\ \A i \in 1 .. Len(b) - 1 : (s \o t)[1 + i] = t[i]
      <4>1. 1 \in 1 .. Len(s) /\ \A i \in 1 .. Len(b) - 1 : i \in 1 .. Len(t) BY <2>2, <3>1
      <4> QED BY <3>1, <3>2, <4>1
    <3> QED BY <3>3 DEF s
  <2>6. CASE k = 1 BY <1>1, <1>3, <2>4, <2>5, <2>6
  <2>7. CASE k # 1
    <3>1. k - 1 \in 1 .. Len(b) - 1 /\ 1 + (k - 1) = k BY <1>1, <2>7
    <3>2. (<< Len(b) >> \o t)[1 + (k - 1)] = k - 1 BY <2>3, <2>5, <3>1
    <3>3. DoneOrder(b, n)[k] = k - 1 BY <2>4, <3>1, <3>2
    <3> QED BY <1>1, <1>3, <2>7, <3>1, <3>3
  <2> QED BY <2>6, <2>7
<1> QED BY <1>2, <1>3

\* What an encoded batch leaves.
LEMMA BatchEncoded ==
  ASSUME StreamInv, EncodeBatch
  PROVE  LET b    == Head(work.batches)
             last == \E i \in DOMAIN b : IsLastDraining(Source(b[i]))
         IN  /\ work.pc = "batch"
             /\ fault' \in [hung : BOOLEAN, qerr : SUBSET {"out", "cap"}, paused : BOOLEAN]
             /\ fault.qerr \subseteq fault'.qerr
             /\ capOwner' = [d \in Caps |->
                               IF \E k \in 1 .. Len(b) : capQ[k] = d
                                 THEN "client" ELSE capOwner[d]]
             /\ capQ' = SubSeq(capQ, Len(b) + 1, Len(capQ))
             /\ m2m' = IF last THEN Stopped ELSE m2m
             /\ work' = [work EXCEPT !.pc = "remove_batch"]
             /\ \E res \in Seq(Results), n \in 0 .. Len(b) :
                  /\ Len(res) = Len(b) /\ out' = out \o res
                  /\ \A k \in 1 .. Len(b) :
                       /\ n = 0 => res[k].src = Taken + k
                       /\ n # 0 => res[k].src = Taken + (IF k = 1 THEN Len(b) ELSE k - 1)
             /\ ctl' = ctl /\ forceKey' = forceKey /\ srcQ' = srcQ /\ on' = on /\ job' = job
             /\ ctx' = ctx /\ returned' = returned /\ warned' = warned /\ cnt' = cnt
<1> DEFINE b == Head(work.batches)
           last == \E i \in DOMAIN b : IsLastDraining(Source(b[i]))
           done(n, k) == LET f == b[DoneOrder(b, n)[k]]
                         IN  Capture(Source(f), k <= n, k <= n /\ f.type = "IDR",
                                     last /\ k = Len(b))
<1>1. Types BY DEF StreamInv
<1>2. work.pc = "batch" BY DEF EncodeBatch
<1>3. /\ b \in Seq(Frames)
      /\ Len(b) \in Nat /\ Len(b) >= 1 /\ DOMAIN b = 1 .. Len(b)
      /\ \A i \in 1 .. Len(b) : Source(b[i]) = Taken + i /\ Source(b[i]) \in Nat
      /\ Taken \in Nat
  BY <1>2, SourcesOfBatch
<1>4. PICK o \in EncodeOutcomes, n \in 0 .. Len(b) :
        /\ fault' = [fault EXCEPT !.hung = fault.hung \/ o = "hang",
                                  !.qerr = QueueError(o # "ok", fault.hung \/ o = "hang")]
        /\ out' = out \o [k \in 1 .. Len(b) |-> done(n, k)]
  BY DEF EncodeBatch
<1>5. /\ capOwner' = [d \in Caps |->
                        IF \E k \in 1 .. Len(b) : capQ[k] = d
                                 THEN "client" ELSE capOwner[d]]
      /\ capQ' = SubSeq(capQ, Len(b) + 1, Len(capQ))
      /\ m2m' = IF last THEN Stopped ELSE m2m
      /\ work' = [work EXCEPT !.pc = "remove_batch"]
      /\ ctl' = ctl /\ forceKey' = forceKey /\ srcQ' = srcQ /\ on' = on /\ job' = job
      /\ ctx' = ctx /\ returned' = returned /\ warned' = warned /\ cnt' = cnt
  BY DEF EncodeBatch, CapturesAfter
<1>6. /\ fault' \in [hung : BOOLEAN, qerr : SUBSET {"out", "cap"}, paused : BOOLEAN]
      /\ fault.qerr \subseteq fault'.qerr
  <2> DEFINE h == fault.hung \/ o = "hang"
             f == o # "ok"
  <2>1. h \in BOOLEAN /\ f \in BOOLEAN OBVIOUS
  <2>2. fault' = [fault EXCEPT !.hung = h, !.qerr = QueueError(f, h)] BY <1>4
  <2> HIDE DEF h, f
  <2>3. fault'.qerr = QueueError(f, h) BY <1>1, <2>2 DEF Types
  <2> QED BY <1>1, <2>1, <2>2, <2>3, QueueErrorType
<1>7. ASSUME NEW k \in 1 .. Len(b)
      PROVE  /\ done(n, k) \in Results
             /\ n = 0 => done(n, k).src = Taken + k
             /\ n # 0 => done(n, k).src = Taken + (IF k = 1 THEN Len(b) ELSE k - 1)
  <2> DEFINE j == DoneOrder(b, n)[k]
  <2>1. b # << >> /\ n \in Nat BY <1>3
  <2>2. /\ n = 0 => j = k
        /\ n # 0 => j = IF k = 1 THEN Len(b) ELSE k - 1
        /\ j \in 1 .. Len(b)
    BY <1>3, <2>1, DoneOrderFacts
  <2>3. Source(b[j]) = Taken + j /\ Source(b[j]) \in Nat BY <1>3, <2>2
  <2>4. (k <= n) \in BOOLEAN /\ (k <= n /\ b[j].type = "IDR") \in BOOLEAN
        /\ (last /\ k = Len(b)) \in BOOLEAN
    OBVIOUS
  <2>5. done(n, k) = Capture(Source(b[j]), k <= n, k <= n /\ b[j].type = "IDR",
                             last /\ k = Len(b))
    OBVIOUS
  <2>6. done(n, k) \in Results /\ done(n, k).src = Source(b[j])
    <3> HIDE DEF done, last, j
    <3> QED BY <2>3, <2>4, <2>5 DEF Capture, Results
  <2> HIDE DEF done, j
  <2> QED BY <2>2, <2>3, <2>6
<1> HIDE DEF done
<1> DEFINE res == [k \in 1 .. Len(b) |-> done(n, k)]
<1>8. /\ res \in Seq(Results) /\ Len(res) = Len(b) /\ out' = out \o res
      /\ \A k \in 1 .. Len(b) :
           /\ n = 0 => res[k].src = Taken + k
           /\ n # 0 => res[k].src = Taken + (IF k = 1 THEN Len(b) ELSE k - 1)
  <2>1. res \in Seq(Results) /\ Len(res) = Len(b) BY <1>3, <1>7
  <2>2. \A k \in 1 .. Len(b) : res[k] = done(n, k) OBVIOUS
  <2>3. out' = out \o res BY <1>4
  <2> HIDE DEF res
  <2> QED BY <1>7, <2>1, <2>2, <2>3
<1> HIDE DEF res
<1>9. \E r \in Seq(Results), m \in 0 .. Len(b) :
        /\ Len(r) = Len(b) /\ out' = out \o r
        /\ \A k \in 1 .. Len(b) :
             /\ m = 0 => r[k].src = Taken + k
             /\ m # 0 => r[k].src = Taken + (IF k = 1 THEN Len(b) ELSE k - 1)
  BY <1>8
<1> QED BY <1>2, <1>5, <1>6, <1>9

\* A batch is encoded.
LEMMA StreamEncodeBatch == ASSUME StreamInv, EncodeBatch PROVE StreamInv'
<1> DEFINE b == Head(work.batches)
           last == \E i \in DOMAIN b : IsLastDraining(Source(b[i]))
<1>1. /\ work.pc = "batch"
      /\ fault' \in [hung : BOOLEAN, qerr : SUBSET {"out", "cap"}, paused : BOOLEAN]
      /\ capOwner' = [d \in Caps |->
                        IF \E k \in 1 .. Len(b) : capQ[k] = d
                                 THEN "client" ELSE capOwner[d]]
      /\ capQ' = SubSeq(capQ, Len(b) + 1, Len(capQ))
      /\ m2m' = IF last THEN Stopped ELSE m2m
      /\ work' = [work EXCEPT !.pc = "remove_batch"]
      /\ \E res \in Seq(Results) : out' = out \o res
      /\ ctl' = ctl /\ forceKey' = forceKey /\ srcQ' = srcQ /\ on' = on /\ job' = job
      /\ ctx' = ctx /\ returned' = returned /\ warned' = warned /\ cnt' = cnt
  BY BatchEncoded
<1>2. Types BY DEF StreamInv
<1>3. /\ work \in [pc : {"clear", "batch", "remove_batch"}, srcs : Seq(Nat), batches : Seq(Seq(Frames))]
      /\ Len(b) \in Nat
  BY <1>1, SourcesOfBatch
<1> HIDE DEF b, last
<1>4. /\ work' \in [pc : {"clear", "batch", "remove_batch"}, srcs : Seq(Nat), batches : Seq(Seq(Frames))]
      /\ work'.pc = "remove_batch" /\ work'.srcs = work.srcs /\ work'.batches = work.batches
  BY <1>1, <1>3
<1>5. capQ' \in Seq(Caps) /\ (capQ = << >> => capQ' = << >>)
  <2>1. capQ \in Seq(Caps) /\ Len(capQ) \in Nat BY <1>2 DEF Types
  <2>2. capQ = << >> => Len(b) >= Len(capQ) BY <1>3
  <2> QED BY <1>1, <1>3, <2>1, <2>2, Rest
<1>6. out' \in Seq(Results)
  <2>1. out \in Seq(Results) BY <1>2 DEF Types
  <2> QED BY <1>1, <2>1
<1>7. Taken' = Taken BY <1>1, <1>4 DEF Taken
<1>8. BPath' = BPath BY <1>1 DEF BPath
<1>9. BatchPlace'
  <2>1. /\ \A f : Source(f)' = Source(f)
        /\ FramesLeft' = FramesLeft
    BY <1>4 DEF Source, FramesLeft
  <2> QED BY <1>1, <1>4, <1>7, <1>8, <2>1 DEF StreamInv, BatchPlace, Source
<1>10. FramePlace' BY <1>4 DEF FramePlace
<1>11. SourcePlace' BY <1>1, <1>7 DEF StreamInv, SourcePlace
<1>12. PlanPlace' BY <1>1, <1>8 DEF StreamInv, PlanPlace
<1>13. JobPlace' BY <1>1, <1>4, <1>5 DEF StreamInv, JobPlace
<1>14. m2m' \in M2m BY <1>1, <1>2, StoppedType DEF Types
<1>15. capOwner' \in [Caps -> {"client", "driver"}] BY <1>1, <1>2 DEF Types
<1>16. Types' BY <1>1, <1>2, <1>5, <1>6, <1>14, <1>15 DEF Types
<1>17. WorkTypes' BY <1>4 DEF WorkTypes
<1> QED BY <1>9, <1>10, <1>11, <1>12, <1>13, <1>16, <1>17 DEF StreamInv

\* A batch's sources leave the queue.
LEMMA BatchRemoved ==
  ASSUME StreamInv, RemoveBatch
  PROVE  LET n == Len(work.batches[1])
         IN  /\ work.pc = "remove_batch" /\ n \in Nat /\ n >= 1 /\ n <= Len(srcQ)
             /\ srcQ' \in Seq(Nat) /\ Len(srcQ') = Len(srcQ) - n
             /\ \A i \in 1 .. Len(srcQ) - n : srcQ'[i] = srcQ[n + i]
             /\ returned' \in Seq(Nat) /\ Len(returned') = Len(returned) + n
             /\ SourcePlace'
             /\ Taken' = Taken + n
             /\ Len(work.batches) = 1 => JobFinish
             /\ Len(work.batches) = 2 =>
                  /\ job' = job /\ work'.pc = "batch" /\ work'.srcs = work.srcs
                  /\ work' \in [pc : {"clear", "batch", "remove_batch"}, srcs : Seq(Nat),
                                batches : Seq(Seq(Frames))]
                  /\ Len(work'.batches) = 1 /\ work'.batches[1] = work.batches[2]
             /\ ctl' = ctl /\ forceKey' = forceKey /\ capQ' = capQ /\ capOwner' = capOwner
             /\ on' = on /\ m2m' = m2m /\ ctx' = ctx /\ fault' = fault /\ out' = out
             /\ warned' = warned /\ cnt' = cnt
<1> DEFINE n == Len(work.batches[1])
           gone == BatchSources
<1>1. /\ work.pc = "remove_batch" /\ srcQ' = Without(srcQ, gone) /\ returned' = returned \o gone
      /\ ctl' = ctl /\ forceKey' = forceKey /\ capQ' = capQ /\ capOwner' = capOwner
      /\ on' = on /\ m2m' = m2m /\ ctx' = ctx /\ fault' = fault /\ out' = out
      /\ warned' = warned /\ cnt' = cnt
      /\ Len(work.batches) > 1 =>
           work' = [work EXCEPT !.pc = "batch", !.batches = Tail(work.batches)] /\ job' = job
      /\ ~(Len(work.batches) > 1) => JobFinish
  BY DEF RemoveBatch
<1>2. Types BY DEF StreamInv
<1>3. /\ work \in [pc : {"clear", "batch", "remove_batch"}, srcs : Seq(Nat), batches : Seq(Seq(Frames))]
      /\ Len(work.batches) \in 1 .. 2 /\ n \in Nat /\ n >= 1
      /\ Taken = Len(returned) /\ Taken \in Nat
      /\ gone \in Seq(Nat) /\ Len(gone) = n
      /\ \A i \in 1 .. n : gone[i] = Taken + i
      /\ Range(gone) = Taken + 1 .. Taken + n
      /\ n <= Len(srcQ) /\ Len(srcQ) \in Nat
  BY <1>1, SourcesOfBatch
<1> HIDE DEF n, gone
<1>4. srcQ \in Seq(Nat) /\ returned \in Seq(Nat) /\ DOMAIN srcQ = 1 .. Len(srcQ)
  BY <1>2 DEF Types
<1>5. /\ srcQ' \in Seq(Nat) /\ Len(srcQ') = Len(srcQ) - n
      /\ \A i \in 1 .. Len(srcQ) - n : srcQ'[i] = srcQ[n + i]
  <2>1. ASSUME NEW i \in DOMAIN srcQ PROVE srcQ[i] \in Range(gone) <=> i <= n
    <3>1. srcQ[i] = Taken + i /\ i \in Nat /\ i >= 1
      BY <1>4, <2>1 DEF StreamInv, SourcePlace
    <3> QED BY <1>3, <3>1
  <2>2. n \in 0 .. Len(srcQ) BY <1>3
  <2>3. srcQ \in Seq(Nat) /\ srcQ' = Without(srcQ, gone) BY <1>1, <1>4
  <2>4. /\ Without(srcQ, gone) \in Seq(Nat) /\ Len(Without(srcQ, gone)) = Len(srcQ) - n
        /\ \A i \in 1 .. Len(srcQ) - n : Without(srcQ, gone)[i] = srcQ[n + i]
    <3>1. \A i \in DOMAIN srcQ : srcQ[i] \in Range(gone) <=> i <= n BY <2>1
    <3>2. srcQ \in Seq(Nat) BY <2>3
    <3> QED BY <2>2, <3>1, <3>2, WithoutHead
  <2> QED BY <2>3, <2>4
<1>6. /\ returned' \in Seq(Nat) /\ Len(returned') = Len(returned) + n
      /\ DOMAIN returned' = 1 .. Len(returned) + n /\ DOMAIN returned = 1 .. Len(returned)
      /\ \A i \in 1 .. Len(returned) : returned'[i] = returned[i]
      /\ \A i \in 1 .. n : returned'[Len(returned) + i] = gone[i]
  <2>1. returned' = returned \o gone BY <1>1
  <2>2. returned \in Seq(Nat) /\ gone \in Seq(Nat) BY <1>3, <1>4
  <2>3. /\ returned \o gone \in Seq(Nat) /\ Len(returned \o gone) = Len(returned) + Len(gone)
        /\ DOMAIN (returned \o gone) = 1 .. Len(returned) + Len(gone)
        /\ DOMAIN returned = 1 .. Len(returned)
        /\ \A i \in 1 .. Len(returned) : (returned \o gone)[i] = returned[i]
        /\ \A i \in 1 .. Len(gone) : (returned \o gone)[Len(returned) + i] = gone[i]
    BY <2>2, Joined
  <2> QED BY <1>3, <2>1, <2>3
<1>7. Len(work.batches) = 1 => JobFinish BY <1>1
<1>8. Len(work.batches) = 2 =>
        /\ job' = job /\ work'.pc = "batch" /\ work'.srcs = work.srcs
        /\ work' \in [pc : {"clear", "batch", "remove_batch"}, srcs : Seq(Nat),
                      batches : Seq(Seq(Frames))]
        /\ Len(work'.batches) = 1 /\ work'.batches[1] = work.batches[2]
  <2> SUFFICES ASSUME Len(work.batches) = 2
      PROVE  /\ job' = job /\ work'.pc = "batch" /\ work'.srcs = work.srcs
             /\ work' \in [pc : {"clear", "batch", "remove_batch"}, srcs : Seq(Nat),
                           batches : Seq(Seq(Frames))]
             /\ Len(work'.batches) = 1 /\ work'.batches[1] = work.batches[2]
    OBVIOUS
  <2> DEFINE t == Tail(work.batches)
  <2>1. work.batches \in Seq(Seq(Frames)) /\ work.batches # << >>
    <3>1. work.batches \in Seq(Seq(Frames)) BY <1>3
    <3> QED BY <3>1
  <2>2. t \in Seq(Seq(Frames)) /\ Len(t) = 1 /\ t[1] = work.batches[2]
    BY <2>1, HeadTail
  <2>3. work' = [work EXCEPT !.pc = "batch", !.batches = t] /\ job' = job BY <1>1
  <2> HIDE DEF t
  <2> QED BY <1>3, <2>2, <2>3
<1>9. Taken' = Taken + n
  <2> DEFINE r == Len(returned')
  <2> HIDE DEF r
  <2>1. r \in Nat /\ r = Taken + n /\ Taken' = r + (IF work'.pc = "remove_dst" THEN 1 ELSE 0)
    <3>1. Taken' = r + (IF work'.pc = "remove_dst" THEN 1 ELSE 0) BY DEF Taken, r
    <3>2. r \in Nat /\ r = Taken + n BY <1>3, <1>6 DEF r
    <3> QED BY <3>1, <3>2
  <2>2. CASE Len(work.batches) = 1
    <3>1. work'.pc = "idle" BY <1>7, <2>2, FinishJob DEF Idle
    <3> QED BY <2>1, <3>1
  <2>3. CASE Len(work.batches) = 2
    <3>1. work'.pc = "batch" BY <1>8, <2>3
    <3> QED BY <2>1, <3>1
  <2> QED BY <1>3, <2>2, <2>3
<1>10. SourcePlace'
  <2>1. ASSUME NEW i \in DOMAIN returned' PROVE returned'[i] = i
    <3>1. CASE i <= Len(returned) BY <1>3, <1>6, <2>1, <3>1 DEF StreamInv, SourcePlace
    <3>2. CASE i > Len(returned)
      <4>1. i - Len(returned) \in 1 .. n /\ Len(returned) + (i - Len(returned)) = i
        BY <1>3, <1>6, <2>1, <3>2
      <4>2. gone[i - Len(returned)] = i BY <1>3, <4>1
      <4>3. returned'[Len(returned) + (i - Len(returned))] = gone[i - Len(returned)]
        BY <1>6, <4>1
      <4> QED BY <4>1, <4>2, <4>3
    <3> QED BY <1>3, <1>6, <2>1, <3>1, <3>2
  <2>2. DOMAIN srcQ' = 1 .. Len(srcQ) - n BY <1>3, <1>5
  <2>3. ASSUME NEW i \in DOMAIN srcQ' PROVE srcQ'[i] = Taken' + i
    <3>1. i \in 1 .. Len(srcQ) - n BY <2>2, <2>3
    <3>2. n + i \in 1 .. Len(srcQ) /\ i \in Nat BY <1>3, <3>1
    <3>3. srcQ'[i] = srcQ[n + i] BY <1>5, <3>1
    <3>4. srcQ[n + i] = Taken + (n + i) BY <1>4, <3>2 DEF StreamInv, SourcePlace
    <3>5. Taken \in Nat /\ n \in Nat /\ Taken' = Taken + n BY <1>3, <1>9
    <3> HIDE DEF Taken
    <3> QED BY <3>2, <3>3, <3>4, <3>5
  <2>4. cnt'.src = Taken' + Len(srcQ')
    <3>1. cnt'.src = Taken + Len(srcQ) BY <1>1 DEF StreamInv, SourcePlace
    <3> QED BY <1>3, <1>5, <1>9, <3>1
  <2> QED BY <2>1, <2>3, <2>4 DEF SourcePlace
<1> QED BY <1>1, <1>3, <1>5, <1>6, <1>7, <1>8, <1>9, <1>10 DEF n

\* The next batch, or the end of the job.
LEMMA StreamRemoveBatch == ASSUME StreamInv, RemoveBatch PROVE StreamInv'
<1> DEFINE n == Len(work.batches[1])
<1>1. /\ work.pc = "remove_batch" /\ n \in Nat /\ n >= 1 /\ n <= Len(srcQ)
      /\ srcQ' \in Seq(Nat) /\ Len(srcQ') = Len(srcQ) - n
      /\ returned' \in Seq(Nat) /\ Len(returned') = Len(returned) + n
      /\ SourcePlace' /\ Taken' = Taken + n
      /\ Len(work.batches) = 1 => JobFinish
      /\ Len(work.batches) = 2 =>
           /\ job' = job /\ work'.pc = "batch" /\ work'.srcs = work.srcs
           /\ work' \in [pc : {"clear", "batch", "remove_batch"}, srcs : Seq(Nat),
                         batches : Seq(Seq(Frames))]
           /\ Len(work'.batches) = 1 /\ work'.batches[1] = work.batches[2]
      /\ ctl' = ctl /\ forceKey' = forceKey /\ capQ' = capQ /\ capOwner' = capOwner
      /\ on' = on /\ m2m' = m2m /\ ctx' = ctx /\ fault' = fault /\ out' = out
      /\ warned' = warned /\ cnt' = cnt
  BY BatchRemoved
<1>2. Types BY DEF StreamInv
<1>3. /\ Len(work.batches) \in 1 .. 2 /\ Taken \in Nat /\ Len(srcQ) \in Nat
      /\ FramesLeft \in Nat /\ FramesLeft <= Len(srcQ)
      /\ Len(work.batches) = 2 => FramesLeft = n + 1 /\ Len(work.batches[2]) = 1
      /\ work \in [pc : {"clear", "batch", "remove_batch"}, srcs : Seq(Nat), batches : Seq(Seq(Frames))]
  BY <1>1, SourcesOfBatch
<1>4. /\ BPath /\ ctx.plan.n_held = 0
      /\ Len(work.batches) = 2 =>
           /\ work.batches[2][1].src + 1 \in DOMAIN work.srcs
           /\ Source(work.batches[2][1]) = Taken + n + 1
  BY <1>1 DEF StreamInv, BatchPlace
<1> HIDE DEF n
<1>5. BPath' = BPath BY <1>1 DEF BPath
<1>6. PlanPlace'
  <2>1. Len(srcQ') \in Nat BY <1>1
  <2> QED BY <1>1, <1>4, <1>5, <2>1 DEF StreamInv, PlanPlace
<1>7. Len(srcQ') <= NOut
  <2>1. NOut \in Nat BY BuffersAssumption
  <2> QED BY <1>1, <1>2, <1>3, <2>1 DEF Types
<1>8. CASE Len(work.batches) = 1
  <2>1. srcQ = << >> => srcQ' = << >> BY <1>1
  <2>2. /\ JobPlace' /\ job' \in {"none", "queued", "running"}
        /\ FramePlace' /\ BatchPlace' /\ WorkTypes'
    BY <1>1, <1>8, <2>1, JobDone
  <2>3. Types' BY <1>1, <1>2, <1>7, <2>2 DEF Types
  <2> QED BY <1>1, <1>6, <2>2, <2>3 DEF StreamInv
<1>9. CASE Len(work.batches) = 2
  <2>1. /\ job' = job /\ work'.pc = "batch" /\ work'.srcs = work.srcs
        /\ work' \in [pc : {"clear", "batch", "remove_batch"}, srcs : Seq(Nat),
                      batches : Seq(Seq(Frames))]
        /\ Len(work'.batches) = 1 /\ work'.batches[1] = work.batches[2]
    BY <1>1, <1>9
  <2>2. FramesLeft' = 1 BY <1>3, <1>9, <2>1 DEF FramesLeft
  <2>3. Len(srcQ') >= 1 BY <1>1, <1>3, <1>9
  <2>4. work.batches[2] \in Seq(Frames) /\ DOMAIN work.batches[2] = {1}
    BY <1>3, <1>9
  <2>5. work'.srcs[work'.batches[1][1].src + 1] = Taken + n + 1
    <3>1. work.srcs[work.batches[2][1].src + 1] = Taken + n + 1 BY <1>4, <1>9 DEF Source
    <3> QED BY <2>1, <3>1
  <2>6. BatchPlace'
    <3>1. ctx.nb \in Nat BY <1>2 DEF Types, B_MAX
    <3>2. ctx'.plan.n_held = 0 /\ BPath' /\ ctx'.nb = ctx.nb BY <1>1, <1>4, <1>5
    <3>3. Len(work'.batches[1]) = 1 /\ 1 \in 1 .. ctx.nb + 1 BY <1>3, <1>9, <2>1, <3>1
    <3>4. \A i \in DOMAIN work'.batches[1] :
            /\ work'.batches[1][i].src + 1 \in DOMAIN work'.srcs
            /\ work'.srcs[work'.batches[1][i].src + 1] = Taken' + i
      BY <1>1, <1>4, <1>9, <2>1, <2>4, <2>5
    <3>5. 1 <= Len(srcQ') BY <2>3
    <3> QED BY <2>1, <2>2, <3>2, <3>3, <3>4, <3>5 DEF BatchPlace, Source
  <2>7. FramePlace' BY <2>1 DEF FramePlace
  <2>8. JobPlace'
    <3>1. srcQ # << >> BY <1>1
    <3>2. job = "running" BY <1>1 DEF StreamInv, JobPlace
    <3> QED BY <1>1, <2>1, <3>1, <3>2 DEF StreamInv, JobPlace
  <2>9. Types' BY <1>1, <1>2, <1>7, <2>1 DEF Types
  <2>10. WorkTypes' BY <2>1 DEF WorkTypes
  <2> QED BY <1>1, <1>6, <2>6, <2>7, <2>8, <2>9, <2>10 DEF StreamInv
<1> QED BY <1>3, <1>8, <1>9

\* Every step keeps the first layer.
LEMMA StreamNext == ASSUME StreamInv, [Next]_vars PROVE StreamInv'
<1>1. CASE QbufSource BY <1>1, StreamQbufSource
<1>2. CASE QbufCapture BY <1>2, StreamQbufCapture
<1>3. CASE ForceKey BY <1>3, StreamForceKey
<1>4. CASE EncoderStop BY <1>4, StreamEncoderStop
<1>5. CASE EncoderStart BY <1>5, StreamEncoderStart
<1>6. ASSUME NEW q \in {"out", "cap"}, StreamOn(q) PROVE StreamInv' BY <1>6, StreamStreamOn
<1>7. CASE StreamOffOut BY <1>7, StreamStreamOffOut
<1>8. CASE StreamOffCap BY <1>8, StreamStreamOffCap
<1>9. CASE StartFrame BY <1>9, StreamStartFrame
<1>10. CASE EncodeFrame BY <1>10, StreamEncodeFrame
<1>11. CASE RemoveSource BY <1>11, StreamRemoveSource
<1>12. CASE RemoveCapture BY <1>12, StreamRemoveCapture
<1>13. CASE PlanChanged BY <1>13, StreamPlanChanged
<1>14. CASE StartBatches BY <1>14, StreamStartBatches
<1>15. CASE EncodeBatch BY <1>15, StreamEncodeBatch
<1>16. CASE RemoveBatch BY <1>16, StreamRemoveBatch
<1>17. CASE Suspend BY <1>17, StreamSuspend
<1>18. CASE Resume BY <1>18, StreamResume
<1>19. CASE UNCHANGED vars
  <2>1. /\ ctl' = ctl /\ forceKey' = forceKey /\ srcQ' = srcQ /\ capQ' = capQ
        /\ capOwner' = capOwner /\ on' = on /\ m2m' = m2m /\ job' = job /\ ctx' = ctx
        /\ work' = work /\ fault' = fault /\ out' = out /\ returned' = returned
        /\ warned' = warned /\ cnt' = cnt
    BY <1>19 DEF vars
  <2>2. PlanPlace' /\ SourcePlace' /\ FramePlace' /\ BatchPlace' /\ WorkTypes'
    BY <2>1, PlacesKept
  <2>3. Types' /\ JobPlace' BY <2>1 DEF StreamInv, Types, JobPlace
  <2> QED BY <2>2, <2>3 DEF StreamInv
<1>20. CASE ClearForceKey BY <1>20, StreamClearForceKey
<1> QED BY <1>1, <1>2, <1>3, <1>4, <1>5, <1>6, <1>7, <1>8, <1>9, <1>10, <1>11, <1>12, <1>13,
            <1>14, <1>15, <1>16, <1>17, <1>18, <1>19, <1>20 DEF Next, RunWork, Client

\* The first layer is an invariant, whatever the client may do.
THEOREM StreamInvariant == Spec => []StreamInv
<1>1. Init => StreamInv BY StreamInit
<1>2. StreamInv /\ [Next]_vars => StreamInv' BY StreamNext
<1> QED BY <1>1, <1>2, PTL DEF Spec

-----------------------------------------------------------------------------
\* What the first layer says of the runs' properties.

\* Sources given back, in hand and queued are the first cnt.src, in order.
LEMMA SourcesInOrder == ASSUME StreamInv PROVE SourcesConserved
<1>1. Types /\ WorkTypes BY DEF StreamInv
<1>2. returned \in Seq(Nat) /\ srcQ \in Seq(Nat) /\ Len(returned) \in Nat /\ Len(srcQ) \in Nat
      /\ DOMAIN returned = 1 .. Len(returned) /\ DOMAIN srcQ = 1 .. Len(srcQ)
  BY <1>1 DEF Types
<1>3. InHand \in Seq(Nat) /\ Taken = Len(returned) + Len(InHand) /\ Len(InHand) \in Nat
      /\ \A i \in 1 .. Len(InHand) : InHand[i] = Len(returned) + i
  <2>1. CASE work.pc = "remove_dst"
    <3>1. work.src \in Nat BY <1>1, <2>1, WorkShape
    <3>2. work.src = Taken /\ Taken = Len(returned) + 1
      BY <1>2, <2>1 DEF StreamInv, FramePlace, Taken
    <3>3. InHand = << work.src >> BY <2>1 DEF InHand
    <3> HIDE DEF InHand
    <3> QED BY <3>1, <3>2, <3>3
  <2>2. CASE work.pc # "remove_dst"
    <3>1. InHand = << >> /\ Taken = Len(returned) BY <1>2, <2>2 DEF InHand, Taken
    <3> QED BY <1>2, <3>1
  <2> QED BY <2>1, <2>2
<1> DEFINE a == returned \o InHand
<1>4. /\ a \in Seq(Nat) /\ Len(a) = Taken
      /\ \A i \in 1 .. Taken : a[i] = i
  <2> HIDE DEF InHand
  <2>1. /\ a \in Seq(Nat) /\ Len(a) = Len(returned) + Len(InHand)
        /\ \A i \in 1 .. Len(returned) : a[i] = returned[i]
        /\ \A i \in 1 .. Len(InHand) : a[Len(returned) + i] = InHand[i]
    <3>1. returned \in Seq(Nat) /\ InHand \in Seq(Nat) BY <1>2, <1>3
    <3> QED BY <3>1, Joined
  <2> HIDE DEF a
  <2>2. ASSUME NEW i \in 1 .. Taken PROVE a[i] = i
    <3>1. CASE i <= Len(returned)
      <4>1. i \in 1 .. Len(returned) BY <1>2, <1>3, <3>1
      <4> QED BY <1>2, <2>1, <4>1 DEF StreamInv, SourcePlace
    <3>2. CASE i > Len(returned)
      <4>1. i - Len(returned) \in 1 .. Len(InHand) /\ Len(returned) + (i - Len(returned)) = i
        BY <1>2, <1>3, <3>2
      <4>2. a[Len(returned) + (i - Len(returned))] = InHand[i - Len(returned)]
            /\ InHand[i - Len(returned)] = i
        BY <1>3, <2>1, <4>1
      <4> QED BY <4>1, <4>2
    <3> QED BY <1>2, <1>3, <3>1, <3>2
  <2> QED BY <1>3, <2>1, <2>2
<1> DEFINE c == a \o srcQ
<1> HIDE DEF a
<1>5. /\ c \in Seq(Nat) /\ Len(c) = Len(a) + Len(srcQ) /\ DOMAIN c = 1 .. Len(a) + Len(srcQ)
      /\ \A i \in 1 .. Len(a) : c[i] = a[i]
      /\ \A i \in 1 .. Len(srcQ) : c[Len(a) + i] = srcQ[i]
  <2>1. a \in Seq(Nat) /\ srcQ \in Seq(Nat) BY <1>2, <1>4
  <2> QED BY <2>1, Joined
<1> HIDE DEF c
<1>6. Taken \in Nat /\ cnt.src = Taken + Len(srcQ)
  BY <1>2, <1>3 DEF StreamInv, SourcePlace
<1>7. DOMAIN c = 1 .. cnt.src BY <1>4, <1>5, <1>6
<1>8. ASSUME NEW i \in 1 .. cnt.src PROVE c[i] = i
  <2>1. CASE i <= Taken BY <1>4, <1>5, <1>6, <2>1
  <2>2. CASE i > Taken
    <3>1. i - Taken \in 1 .. Len(srcQ) /\ Taken + (i - Taken) = i BY <1>2, <1>6, <2>2
    <3>2. srcQ[i - Taken] = Taken + (i - Taken)
      BY <1>2, <3>1 DEF StreamInv, SourcePlace
    <3>3. c[Taken + (i - Taken)] = srcQ[i - Taken] BY <1>4, <1>5, <3>1
    <3> QED BY <3>1, <3>2, <3>3
  <2> QED BY <1>6, <2>1, <2>2
<1>9. c = [i \in 1 .. cnt.src |-> i]
  <2>1. c = [i \in DOMAIN c |-> c[i]] BY <1>5
  <2> QED BY <1>7, <1>8, <2>1
<1> QED BY <1>9 DEF SourcesConserved, c, a

\* The planner's sources are on the queue.
LEMMA HeldThere == ASSUME StreamInv PROVE HeldAreQueued
<1>1. BPath => ctx.plan.n_held <= Len(srcQ) BY DEF StreamInv, PlanPlace
<1>2. ctx.plan.n_held \in Nat /\ Len(srcQ) \in Nat
  <2>1. Types BY DEF StreamInv
  <2>2. ctx.plan \in Plans BY <2>1 DEF Types
  <2>3. srcQ \in Seq(Nat) BY <2>1 DEF Types
  <2> QED BY <2>2, <2>3 DEF Plans
<1> QED BY <1>1, <1>2 DEF HeldAreQueued, HeldMissing

\* The runs' type invariant.
LEMMA StreamTyped == ASSUME StreamInv PROVE TypeOK
<1>1. Types /\ WorkTypes BY DEF StreamInv
<1>2. work.pc \in {"idle", "encode", "remove_src", "remove_dst", "clear", "batch", "remove_batch"}
      /\ (work.pc = "idle" <=> work = Idle)
  BY <1>1, WorkShape
<1>3. (job = "running") = (work # Idle) BY <1>2 DEF StreamInv, JobPlace
<1>4. ctx.session \in BOOLEAN /\ ctx.nb \in 0 .. B_MAX /\ ctx.frame_n \in Nat
      /\ ctx.pm_lost \in BOOLEAN /\ fault.qerr \subseteq {"out", "cap"}
  BY <1>1 DEF Types
<1>5. ctx.plan.n_held <= ctx.nb BY DEF StreamInv, PlanPlace
<1> QED BY <1>1, <1>2, <1>3, <1>4, <1>5 DEF TypeOK, Types, M2m

\* Every source is given back once and in order, and the planner's are on the queue: for
\* any client, any number of drains and every fault.
THEOREM SourcesAlwaysConserved == Spec => [](TypeOK /\ SourcesConserved /\ HeldAreQueued)
BY StreamInvariant, StreamTyped, SourcesInOrder, HeldThere, PTL

-----------------------------------------------------------------------------
\* Wakeups.

\* A pending FORCE_KEY_FRAME makes no context runnable that was not.
LEMMA ForceKeyRuns == ASSUME StreamInv, ForceKey, Runnable' PROVE Runnable
<1>1. /\ forceKey' = TRUE /\ ctx' = ctx /\ srcQ' = srcQ /\ capQ' = capQ /\ on' = on /\ m2m' = m2m
  BY DEF ForceKey, stream
<1>2. Types BY DEF StreamInv
<1>3. /\ on.out /\ on.cap /\ srcQ # << >> /\ capQ # << >> /\ ~m2m.stopped /\ ave_job_ready'
      /\ BPath' = BPath
  BY <1>1 DEF Runnable, BPath
<1>4. SUFFICES ASSUME BPath PROVE BReady BY <1>3 DEF Runnable, ave_job_ready
<1>5. ave_b_next' # "NONE" /\ Len(capQ) >= CapNeeded'
  BY <1>1, <1>3, <1>4 DEF ave_job_ready, BReady
<1>6. Len(capQ) \in Nat /\ Len(capQ) >= 1 /\ ctx.plan.n_held \in Nat
  BY <1>2, <1>3, HeadTail DEF Types, Plans
<1>7. HasNew' = HasNew /\ HeldMissing' = HeldMissing BY <1>1 DEF HasNew, HeldMissing
<1>8. ~HeldMissing BY <1>5, <1>7 DEF ave_b_next
<1>9. CASE HasNew
  <2> DEFINE l == IsLastDraining(srcQ[ctx.plan.n_held + 1])
  <2>1. ave_b_next' = ave_gop_decide(ctx.plan, TRUE, TRUE, l)
    BY <1>1, <1>7, <1>8, <1>9 DEF ave_b_next, IsLastDraining
  <2>2. ave_b_next = ave_gop_decide(ctx.plan, TRUE, forceKey, l)
    BY <1>8, <1>9 DEF ave_b_next
  <2> HIDE DEF l
  <2>3. ave_b_next' = "KEY" BY <2>1 DEF ave_gop_decide, KeyDue
  <2>4. ave_b_next \in {"KEY", "ANCHOR", "HOLD"} BY <2>2 DEF ave_gop_decide
  <2>5. Len(capQ) >= ctx.plan.n_held + 1
    <3>1. CapNeeded' = ctx.plan.n_held + 1
      BY <1>1, <1>6, <2>3 DEF CapNeeded, ave_gop_need
    <3> QED BY <1>5, <3>1
  <2>6. CapNeeded <= ctx.plan.n_held + 1 /\ CapNeeded \in Nat
    BY <1>6, <2>4 DEF CapNeeded, ave_gop_need
  <2> QED BY <1>6, <2>4, <2>5, <2>6 DEF BReady
<1>10. CASE ~HasNew
  <2>1. ave_b_next' = ave_b_next
    BY <1>1, <1>7, <1>8, <1>10 DEF ave_b_next, IsLastDraining
  <2>2. CapNeeded' = CapNeeded BY <1>1, <2>1 DEF CapNeeded
  <2> QED BY <1>5, <2>1, <2>2 DEF BReady
<1> QED BY <1>9, <1>10

\* A step that changes nothing a job waits for does not make one runnable.
LEMMA RunnableKept ==
  ASSUME srcQ' = srcQ, capQ' = capQ, on' = on, m2m' = m2m, ctx' = ctx, forceKey' = forceKey
  PROVE  Runnable' <=> Runnable
BY DEF Runnable, ave_job_ready, BPath, BReady, CapNeeded, ave_b_next, HeldMissing, HasNew,
       IsLastDraining

\* No step leaves a context that has become runnable without a job.
LEMMA WakeupNext ==
  ASSUME StreamInv, [Next]_vars, Runnable', job' = "none", fault'.qerr = {}
  PROVE  (Runnable /\ job = "none") \/ (m2m.stopped /\ ~m2m'.stopped) \/ UNCHANGED vars
<1> DEFINE Kept == Runnable /\ job = "none"
<1> SUFFICES Kept \/ (m2m.stopped /\ ~m2m'.stopped) \/ UNCHANGED vars OBVIOUS
<1>1. Types BY DEF StreamInv
<1>2. on'.out /\ on'.cap /\ srcQ' # << >> /\ capQ' # << >> /\ ~m2m'.stopped BY RunnableHas
<1>3. CASE QbufSource BY <1>3, TryJob DEF QbufSource
<1>4. CASE QbufCapture BY <1>4, TryJob DEF QbufCapture
<1>5. CASE ForceKey
  <2>1. job' = job BY <1>5 DEF ForceKey
  <2> QED BY <1>5, <2>1, ForceKeyRuns
<1>6. CASE EncoderStop
  <2>1. CASE ctx.nb > 0 BY <1>6, <2>1, TryJob DEF EncoderStop, Nudge
  <2>2. CASE ~(ctx.nb > 0)
    <3>1. job' = job /\ srcQ' = srcQ /\ on' = on /\ ctx' = ctx /\ forceKey' = forceKey
          /\ ~m2m.stopped
      BY <1>6, <2>2 DEF EncoderStop, Nudge
    <3>2. capQ' = capQ BY <1>2, <1>6, <3>1 DEF EncoderStop
    <3>3. ~BPath BY <2>2 DEF BPath
    <3> QED BY <1>2, <3>1, <3>2, <3>3 DEF Runnable, ave_job_ready
  <2> QED BY <2>1, <2>2
<1>7. CASE EncoderStart BY <1>2, <1>7 DEF EncoderStart
<1>8. ASSUME NEW q \in {"out", "cap"}, StreamOn(q) PROVE FALSE
  BY <1>8, TryJob DEF StreamOn
<1>9. CASE StreamOffOut BY <1>1, <1>2, <1>9 DEF StreamOffOut, Types
<1>10. CASE StreamOffCap BY <1>1, <1>2, <1>10 DEF StreamOffCap, Types
<1>11. CASE StartFrame BY <1>11 DEF StartFrame
<1>12. CASE EncodeFrame
  <2>1. work.pc = "encode" /\ job' = job BY <1>12, FrameEncoded
  <2> QED BY <2>1 DEF StreamInv, JobPlace
<1>13. CASE RemoveSource BY <1>13 DEF RemoveSource, StreamInv, JobPlace
<1>14. CASE RemoveCapture BY <1>14, FinishJob DEF RemoveCapture
<1>15. CASE PlanChanged BY <1>15, FinishJob DEF PlanChanged
<1>16. CASE StartBatches BY <1>16, FinishJob DEF StartBatches
<1>17. CASE EncodeBatch
  <2>1. work.pc = "batch" /\ job' = job BY <1>17 DEF EncodeBatch
  <2> QED BY <2>1 DEF StreamInv, JobPlace
<1>18. CASE RemoveBatch
  <2>1. work.pc = "remove_batch" /\ (job' = job \/ JobFinish) BY <1>18 DEF RemoveBatch
  <2> QED BY <2>1, FinishJob DEF StreamInv, JobPlace
<1>19. CASE Suspend
  <2>1. CASE ctx.session
    <3>1. fault' = [fault EXCEPT !.paused = TRUE, !.qerr = {"out", "cap"}]
      BY <1>19, <2>1 DEF Suspend
    <3>2. fault'.qerr = {"out", "cap"} BY <1>1, <3>1 DEF Types
    <3> QED BY <3>2
  <2>2. CASE ~ctx.session
    <3>1. job' = job /\ ctx' = ctx /\ srcQ' = srcQ /\ capQ' = capQ /\ on' = on /\ m2m' = m2m
          /\ forceKey' = forceKey
      BY <1>19, <2>2 DEF Suspend, stream
    <3> QED BY <3>1, RunnableKept
  <2> QED BY <2>1, <2>2
<1>20. CASE Resume
  <2>1. job' = job /\ ctx' = ctx /\ srcQ' = srcQ /\ capQ' = capQ /\ on' = on /\ m2m' = m2m
        /\ forceKey' = forceKey
    BY <1>20 DEF Resume, stream
  <2> QED BY <2>1, RunnableKept
<1>21. CASE ClearForceKey
  <2>1. work.pc = "clear" /\ job' = job BY <1>21, ForceKeyCleared
  <2> QED BY <2>1 DEF StreamInv, JobPlace
<1> QED
  BY <1>3, <1>4, <1>5, <1>6, <1>7, <1>8, <1>9, <1>10, <1>11, <1>12, <1>13, <1>14, <1>15,
            <1>16, <1>17, <1>18, <1>19, <1>20, <1>21 DEF Next, RunWork, Client

\* Nothing that can run is left without a job, by any step but START.
THEOREM WakeupsNeverLost == Spec => NoLostWakeup
<1> DEFINE Step == Runnable' /\ job' = "none" /\ fault'.qerr = {} =>
                     (Runnable /\ job = "none") \/ (m2m.stopped /\ ~m2m'.stopped)
<1>1. StreamInv /\ [Next]_vars => Step \/ UNCHANGED vars BY WakeupNext
<1> HIDE DEF Step
<1>2. StreamInv /\ [Next]_vars => [Step]_vars BY <1>1
<1>3. Spec => [][Step]_vars BY <1>2, StreamInvariant, PTL DEF Spec
<1> QED BY <1>3 DEF Step, NoLostWakeup

\* What a plan puts in the work.
LEMMA Planned ==
  ASSUME StreamInv, StartBatches, ave_b_next # "HOLD"
  PROVE  /\ work'.pc \in {"clear", "batch"} /\ Len(work'.batches) \in 1 .. 2
         /\ FramesLeft' = ave_gop_need(ctx.plan, ave_b_next)
         /\ ave_gop_need(ctx.plan, ave_b_next) \in Nat
         /\ ave_gop_need(ctx.plan, ave_b_next) > 0
         /\ Len(capQ) >= ave_gop_need(ctx.plan, ave_b_next)
<1> DEFINE act == ave_b_next
           b == GopBatches(ctx.plan, act)
<1>1. /\ BPath /\ BReady
      /\ act # "HOLD" => work' = [pc |-> IF act = "KEY" THEN "clear" ELSE "batch",
                                  srcs |-> srcQ, batches |-> b]
  BY BatchesStarted
<1>2. Types /\ PlanPlace BY DEF StreamInv
<1>3. /\ act \in {"ANCHOR", "KEY", "CLOSE"} /\ ctx.plan \in Plans /\ ctx.plan.n_held \in Nat
      /\ act = "CLOSE" => ctx.plan.n_held > 0
  BY <1>1, <1>2, NextAct DEF BReady
<1>4. CapNeeded = LET n == ave_gop_need(ctx.plan, act) IN IF n = 0 THEN 1 ELSE n
  BY DEF CapNeeded
<1>5. Len(capQ) >= CapNeeded BY <1>1 DEF BReady
<1> HIDE DEF act
<1>6. /\ Len(b) \in 1 .. 2
      /\ Len(b[1]) + (IF Len(b) = 2 THEN Len(b[2]) ELSE 0) = ave_gop_need(ctx.plan, act)
  BY <1>3, BatchesOf
<1> HIDE DEF b
<1>7. work'.pc \in {"clear", "batch"} /\ work'.batches = b BY <1>1 DEF act
<1>8. FramesLeft' = ave_gop_need(ctx.plan, act) BY <1>6, <1>7 DEF FramesLeft
<1>9. ave_gop_need(ctx.plan, act) \in Nat /\ ave_gop_need(ctx.plan, act) > 0
  BY <1>3 DEF ave_gop_need
<1>10. Len(capQ) >= ave_gop_need(ctx.plan, act) BY <1>4, <1>5, <1>9
<1> QED BY <1>6, <1>7, <1>8, <1>9, <1>10 DEF act

-----------------------------------------------------------------------------
\* The second layer.

\* A buffer leaves the head of the CAPTURE queue for the client.
LEMMA HeadDone ==
  ASSUME Types, CapturesConserved, capQ # << >>, warned' = warned, capQ' = Tail(capQ),
         capOwner' = [capOwner EXCEPT ![capQ[1]] = "client"]
  PROVE  CapturesConserved'
<1>1. capQ \in Seq(Caps) /\ capOwner \in [Caps -> {"client", "driver"}] BY DEF Types
<1>2. /\ Len(capQ) \in Nat /\ Len(capQ) >= 1 /\ capQ[1] \in Caps /\ DOMAIN capQ = 1 .. Len(capQ)
      /\ DOMAIN capQ' = 1 .. Len(capQ) - 1
      /\ \A i \in 1 .. Len(capQ) - 1 : capQ'[i] = capQ[i + 1]
  BY <1>1, HeadTail
<1>3. \A i, j \in DOMAIN capQ : capQ[i] = capQ[j] => i = j
  BY DEF CapturesConserved, IsInjective
<1>4. \A d \in Caps : capOwner[d] = "driver" <=> \E i \in 1 .. Len(capQ) : capQ[i] = d
  BY <1>2 DEF CapturesConserved, Range
<1>5. ASSUME NEW i \in DOMAIN capQ', NEW j \in DOMAIN capQ', capQ'[i] = capQ'[j] PROVE i = j
  <2>1. i + 1 \in DOMAIN capQ /\ j + 1 \in DOMAIN capQ /\ capQ[i + 1] = capQ[j + 1]
    BY <1>2, <1>5
  <2>2. i + 1 = j + 1 BY <1>3, <2>1
  <2> QED BY <1>2, <2>2
<1>6. ASSUME NEW d \in Caps PROVE capOwner'[d] = "driver" <=> d \in Range(capQ')
  <2>1. CASE d = capQ[1]
    <3>1. capOwner'[d] = "client" BY <1>1, <2>1
    <3>2. ASSUME NEW i \in DOMAIN capQ', capQ'[i] = d PROVE FALSE
      <4>1. i + 1 \in DOMAIN capQ /\ 1 \in DOMAIN capQ /\ capQ[i + 1] = capQ[1] /\ i >= 1
        BY <1>2, <2>1, <3>2
      <4>2. i + 1 = 1 BY <1>3, <4>1
      <4> QED BY <1>2, <4>1, <4>2
    <3> QED BY <3>1, <3>2 DEF Range
  <2>2. CASE d # capQ[1]
    <3>1. capOwner'[d] = capOwner[d] BY <1>1, <2>2
    <3>2. ASSUME NEW i \in 1 .. Len(capQ), capQ[i] = d PROVE d \in Range(capQ')
      <4>1. i - 1 \in DOMAIN capQ' /\ (i - 1) + 1 = i BY <1>2, <2>2, <3>2
      <4>2. capQ'[i - 1] = d BY <1>2, <3>2, <4>1
      <4> QED BY <4>1, <4>2 DEF Range
    <3>3. ASSUME NEW i \in DOMAIN capQ', capQ'[i] = d PROVE \E j \in 1 .. Len(capQ) : capQ[j] = d
      <4>1. i + 1 \in 1 .. Len(capQ) /\ capQ[i + 1] = d BY <1>2, <3>3
      <4> QED BY <4>1
    <3> QED BY <1>4, <3>1, <3>2, <3>3 DEF Range
  <2> QED BY <2>1, <2>2
<1>7. {d \in Caps : capOwner'[d] = "driver"} = Range(capQ')
  <2>1. Range(capQ') \subseteq Caps
    <3>1. capQ' \in Seq(Caps) BY <1>1, <1>2, HeadTail
    <3> QED BY <3>1 DEF Range
  <2> QED BY <1>6, <2>1
<1>8. ~warned' BY DEF CapturesConserved
<1> QED BY <1>5, <1>7, <1>8 DEF CapturesConserved, IsInjective

\* A buffer joins the CAPTURE queue.
LEMMA OneQueued ==
  ASSUME Types, CapturesConserved, NEW d \in Caps, capOwner[d] = "client", warned' = warned,
         capQ' = Append(capQ, d), capOwner' = [capOwner EXCEPT ![d] = "driver"]
  PROVE  CapturesConserved'
<1>1. capQ \in Seq(Caps) /\ capOwner \in [Caps -> {"client", "driver"}] BY DEF Types
<1>2. /\ Len(capQ) \in Nat /\ DOMAIN capQ = 1 .. Len(capQ) /\ capQ' \in Seq(Caps)
      /\ DOMAIN capQ' = 1 .. Len(capQ) + 1
      /\ \A i \in 1 .. Len(capQ) : capQ'[i] = capQ[i]
      /\ capQ'[Len(capQ) + 1] = d
  BY <1>1
<1>3. \A i, j \in DOMAIN capQ : capQ[i] = capQ[j] => i = j
  BY DEF CapturesConserved, IsInjective
<1>4. \A c \in Caps : capOwner[c] = "driver" <=> \E i \in 1 .. Len(capQ) : capQ[i] = c
  BY <1>2 DEF CapturesConserved, Range
<1>5. \A i \in 1 .. Len(capQ) : capQ[i] # d BY <1>4
<1>6. ASSUME NEW i \in DOMAIN capQ', NEW j \in DOMAIN capQ', capQ'[i] = capQ'[j] PROVE i = j
  <2>1. i \in 1 .. Len(capQ) \/ i = Len(capQ) + 1 BY <1>2
  <2>2. j \in 1 .. Len(capQ) \/ j = Len(capQ) + 1 BY <1>2
  <2> QED BY <1>2, <1>3, <1>5, <1>6, <2>1, <2>2
<1>7. ASSUME NEW c \in Caps PROVE capOwner'[c] = "driver" <=> c \in Range(capQ')
  <2>1. c \in Range(capQ') <=> c = d \/ \E i \in 1 .. Len(capQ) : capQ[i] = c
    <3>1. \A i \in DOMAIN capQ' : i \in 1 .. Len(capQ) \/ i = Len(capQ) + 1 BY <1>2
    <3>2. \A i \in 1 .. Len(capQ) : i \in DOMAIN capQ' BY <1>2
    <3>3. Len(capQ) + 1 \in DOMAIN capQ' BY <1>2
    <3> QED BY <1>2, <3>1, <3>2, <3>3 DEF Range
  <2>2. capOwner'[c] = "driver" <=> c = d \/ capOwner[c] = "driver" BY <1>1
  <2> QED BY <1>4, <2>1, <2>2
<1>8. {c \in Caps : capOwner'[c] = "driver"} = Range(capQ')
  <2>1. Range(capQ') \subseteq Caps BY <1>2 DEF Range
  <2> QED BY <1>7, <2>1
<1>9. ~warned' BY DEF CapturesConserved
<1> QED BY <1>6, <1>8, <1>9 DEF CapturesConserved, IsInjective

\* A batch's buffers leave the CAPTURE queue for the client.
LEMMA SomeDone ==
  ASSUME Types, CapturesConserved, NEW n \in 1 .. Len(capQ), warned' = warned,
         capQ' = SubSeq(capQ, n + 1, Len(capQ)),
         capOwner' = [d \in Caps |-> IF \E k \in 1 .. n : capQ[k] = d THEN "client"
                                                                       ELSE capOwner[d]]
  PROVE  CapturesConserved' /\ Len(capQ') = Len(capQ) - n
<1>1. capQ \in Seq(Caps) /\ capOwner \in [Caps -> {"client", "driver"}] /\ Len(capQ) \in Nat
      /\ DOMAIN capQ = 1 .. Len(capQ)
  BY DEF Types
<1>2. /\ n \in Nat /\ capQ' \in Seq(Caps) /\ Len(capQ') = Len(capQ) - n
      /\ \A i \in 1 .. Len(capQ) - n : capQ'[i] = capQ[n + i]
  <2>1. n \in Nat /\ n <= Len(capQ) BY <1>1
  <2>2. SubSeq(capQ, n + 1, Len(capQ)) \in Seq(Caps)
    BY <1>1, <2>1, Rest
  <2>3. Len(SubSeq(capQ, n + 1, Len(capQ))) = Len(capQ) - n
    BY <1>1, <2>1, Rest
  <2>4. \A i \in 1 .. Len(capQ) - n : SubSeq(capQ, n + 1, Len(capQ))[i] = capQ[n + i]
    BY <1>1, <2>1, Rest
  <2> QED BY <2>1, <2>2, <2>3, <2>4
<1>3. /\ DOMAIN capQ' = 1 .. Len(capQ) - n
      /\ \A i \in DOMAIN capQ' : /\ i \in Nat /\ i >= 1 /\ n + i \in DOMAIN capQ
                                /\ capQ'[i] = capQ[n + i]
  <2>1. DOMAIN capQ' = 1 .. Len(capQ) - n BY <1>2
  <2> DEFINE l == Len(capQ)
  <2>2. l \in Nat /\ n \in 1 .. l BY <1>1
  <2> HIDE DEF l
  <2>3. \A i \in 1 .. l - n : i \in Nat /\ i >= 1 /\ n + i \in 1 .. l BY <2>2
  <2> QED BY <1>1, <1>2, <2>1, <2>3 DEF l
<1>4. \A i, j \in DOMAIN capQ : capQ[i] = capQ[j] => i = j
  BY DEF CapturesConserved, IsInjective
<1>5. \A d \in Caps : capOwner[d] = "driver" <=> \E i \in 1 .. Len(capQ) : capQ[i] = d
  BY <1>1 DEF CapturesConserved, Range
<1>6. ASSUME NEW i \in DOMAIN capQ', NEW j \in DOMAIN capQ', capQ'[i] = capQ'[j] PROVE i = j
  <2>1. n + i \in DOMAIN capQ /\ n + j \in DOMAIN capQ /\ capQ[n + i] = capQ[n + j]
    BY <1>3, <1>6
  <2>2. n + i = n + j BY <1>4, <2>1
  <2>3. i \in Nat /\ j \in Nat /\ n \in Nat BY <1>2, <1>3
  <2> QED BY <2>2, <2>3
<1>7. ASSUME NEW d \in Caps PROVE capOwner'[d] = "driver" <=> d \in Range(capQ')
  <2>1. CASE \E k \in 1 .. n : capQ[k] = d
    <3>1. capOwner'[d] = "client" BY <2>1
    <3>2. PICK k \in 1 .. n : capQ[k] = d BY <2>1
    <3>3. ASSUME NEW i \in DOMAIN capQ', capQ'[i] = d PROVE FALSE
      <4>1. n + i \in DOMAIN capQ /\ k \in DOMAIN capQ /\ capQ[n + i] = capQ[k] /\ i >= 1
        BY <1>1, <1>3, <3>2, <3>3
      <4>2. n + i = k /\ n \in Nat /\ i \in Nat BY <1>2, <1>3, <1>4, <4>1
      <4> QED BY <4>1, <4>2
    <3> QED BY <3>1, <3>3 DEF Range
  <2>2. CASE ~\E k \in 1 .. n : capQ[k] = d
    <3>1. capOwner'[d] = capOwner[d] BY <2>2
    <3>2. ASSUME NEW i \in 1 .. Len(capQ), capQ[i] = d PROVE d \in Range(capQ')
      <4>1. i \notin 1 .. n BY <2>2, <3>2
      <4>2. i - n \in 1 .. Len(capQ) - n /\ n + (i - n) = i
        <5> DEFINE l == Len(capQ)
        <5>1. l \in Nat /\ i \in 1 .. l /\ n \in Nat BY <1>1, <1>2
        <5> HIDE DEF l
        <5>2. i \in Int /\ i > n /\ i <= l BY <4>1, <5>1
        <5>3. i - n \in 1 .. l - n /\ n + (i - n) = i BY <5>1, <5>2
        <5> QED BY <5>3 DEF l
      <4>3. i - n \in DOMAIN capQ' BY <1>3, <4>2
      <4>4. capQ'[i - n] = d BY <1>2, <1>3, <3>2, <4>2, <4>3
      <4> QED BY <4>3, <4>4 DEF Range
    <3>3. ASSUME NEW i \in DOMAIN capQ', capQ'[i] = d PROVE \E j \in 1 .. Len(capQ) : capQ[j] = d
      <4>1. n + i \in 1 .. Len(capQ) /\ capQ[n + i] = d BY <1>1, <1>3, <3>3
      <4> QED BY <4>1
    <3> QED BY <1>5, <3>1, <3>2, <3>3 DEF Range
  <2> QED BY <2>1, <2>2
<1>8. {d \in Caps : capOwner'[d] = "driver"} = Range(capQ')
  <2>1. Range(capQ') \subseteq Caps BY <1>2 DEF Range
  <2> QED BY <1>7, <2>1
<1>9. ~warned' BY DEF CapturesConserved
<1> QED BY <1>2, <1>6, <1>8, <1>9 DEF CapturesConserved, IsInjective

\* A step that leaves the CAPTURE queue and the work alone.
LEMMA CapturesKept ==
  ASSUME CaptureInv, capQ' = capQ, capOwner' = capOwner, warned' = warned, work' = work
  PROVE  CaptureInv'
<1>1. CapturesConserved' BY DEF CaptureInv, CapturesConserved
<1>2. CapturePlace' BY DEF CaptureInv, CapturePlace, FramesLeft
<1> QED BY <1>1, <1>2 DEF CaptureInv

\* Work that holds no buffers.
LEMMA IdleCaptures ==
  ASSUME work'.pc = "idle", CapturesConserved' PROVE CaptureInv'
BY DEF CaptureInv, CapturePlace

\* STOP with nothing to code finds the work idle, if it cannot fall in a completion.
LEMMA StopFindsIdle ==
  ASSUME StreamInv, ~StopInCompletion, EncoderStop
  PROVE  /\ work.pc \in {"idle", "encode", "clear", "batch"}
         /\ srcQ = << >> => work.pc = "idle" /\ job = "none"
<1>1. work.pc \notin {"remove_src", "remove_dst", "remove_batch"}
  BY DEF EncoderStop, InCompletion
<1>2. work.pc \in {"idle", "encode", "remove_src", "remove_dst", "clear", "batch", "remove_batch"}
  BY WorkShape DEF StreamInv
<1>3. ASSUME srcQ = << >> PROVE work.pc = "idle"
  <2>1. work.pc # "encode" BY <1>3 DEF StreamInv, FramePlace
  <2>2. ASSUME work.pc \in {"clear", "batch"} PROVE FALSE
    <3>1. Len(work.batches[1]) >= 1 /\ Len(work.batches[1]) <= Len(srcQ)
          /\ Len(work.batches[1]) \in Nat
      BY <2>2, SourcesOfBatch
    <3>2. Len(srcQ) = 0 BY <1>3
    <3> QED BY <3>1, <3>2
  <2> QED BY <1>1, <1>2, <2>1, <2>2
<1>4. srcQ = << >> /\ work.pc = "idle" => job = "none" BY DEF StreamInv, JobPlace, Types
<1> QED BY <1>1, <1>2, <1>3, <1>4

\* Every step keeps the second layer, if a STOP cannot fall in a completion.
LEMMA CaptureNext ==
  ASSUME ~StopInCompletion, StreamInv, CaptureInv, [Next]_vars PROVE CaptureInv'
<1>1. Types /\ WorkTypes /\ CapturesConserved BY DEF StreamInv, CaptureInv
<1>2. CASE QbufSource BY <1>2, CapturesKept DEF QbufSource
<1>3. CASE QbufCapture
  <2> DEFINE free == {d \in Caps : capOwner[d] = "client"}
             d == Min(free)
  <2>1. free # {} /\ work' = work /\ warned' = warned BY <1>3 DEF QbufCapture
  <2>2. d \in Caps /\ capOwner[d] = "client"
    <3>1. d \in free BY <2>1, LeastBuffer
    <3> QED BY <3>1
  <2>3. CASE LastBufferDone(d, EmptyLast) /\ capQ' = capQ
    <3> HIDE DEF d
    <3>1. capOwner' = [capOwner EXCEPT ![d] = "client"] BY <2>3 DEF LastBufferDone
    <3>2. capOwner' = capOwner BY <1>1, <2>2, <3>1 DEF Types
    <3> QED BY <2>1, <2>3, <3>2, CapturesKept
  <2>4. CASE capQ' = Append(capQ, d) /\ capOwner' = [capOwner EXCEPT ![d] = "driver"]
    <3> HIDE DEF d
    <3>1. CapturesConserved' BY <1>1, <2>1, <2>2, <2>4, OneQueued
    <3>2. /\ Len(capQ') = Len(capQ) + 1 /\ Len(capQ) \in Nat /\ capQ' # << >>
          /\ capQ # << >> => capQ'[1] = capQ[1]
      <4>1. capQ \in Seq(Caps) BY <1>1 DEF Types
      <4>2. capQ # << >> => Len(capQ) >= 1 BY <4>1, HeadTail
      <4> QED BY <2>2, <2>4, <4>1, <4>2
    <3>3. FramesLeft' = FramesLeft BY <2>1 DEF FramesLeft
    <3>4. work.pc \in {"clear", "batch"} => FramesLeft \in Nat BY SourcesOfBatch
    <3>5. work.pc = "remove_batch" /\ Len(work.batches) = 2 => Len(work.batches[2]) = 1
      BY SourcesOfBatch
    <3>6. CapturePlace'
      BY <2>1, <3>2, <3>3, <3>4, <3>5 DEF CaptureInv, CapturePlace
    <3> QED BY <3>1, <3>6 DEF CaptureInv
  <2>5. \/ LastBufferDone(d, EmptyLast) /\ capQ' = capQ
        \/ capQ' = Append(capQ, d) /\ capOwner' = [capOwner EXCEPT ![d] = "driver"]
    BY <1>3 DEF QbufCapture
  <2> QED BY <2>3, <2>4, <2>5
<1>4. CASE ForceKey BY <1>4, CapturesKept DEF ForceKey, stream
<1>5. CASE EncoderStop
  <2>1. work' = work /\ warned' = warned BY <1>5 DEF EncoderStop
  <2>2. CASE srcQ # << >> BY <1>5, <2>1, <2>2, CapturesKept DEF EncoderStop
  <2>3. CASE srcQ = << >>
    <3>1. work.pc = "idle" /\ LastOnNextBuffer BY <1>5, <2>3, StopFindsIdle DEF EncoderStop
    <3>2. CASE capQ # << >> /\ capQ' = Tail(capQ)
               /\ capOwner' = [capOwner EXCEPT ![capQ[1]] = "client"]
      BY <1>1, <2>1, <3>1, <3>2, HeadDone, IdleCaptures
    <3>3. CASE capQ' = capQ /\ capOwner' = capOwner BY <2>1, <3>3, CapturesKept
    <3> QED BY <1>1, <3>1, <3>2, <3>3, LastNext
  <2> QED BY <2>2, <2>3
<1>6. CASE EncoderStart BY <1>6, CapturesKept DEF EncoderStart
<1>7. ASSUME NEW q \in {"out", "cap"}, StreamOn(q) PROVE CaptureInv'
  BY <1>7, CapturesKept DEF StreamOn
<1>8. CASE StreamOffOut
  <2>1. work' = work /\ warned' = warned /\ work.pc = "idle"
    BY <1>8 DEF StreamOffOut, StreamInv, JobPlace
  <2>2. CASE m2m.draining
    <3>1. LastOnNextBuffer BY <1>8, <2>2 DEF StreamOffOut
    <3>2. CASE capQ # << >> /\ capQ' = Tail(capQ)
               /\ capOwner' = [capOwner EXCEPT ![capQ[1]] = "client"]
      BY <1>1, <2>1, <3>2, HeadDone, IdleCaptures
    <3>3. CASE capQ' = capQ /\ capOwner' = capOwner BY <2>1, <3>3, CapturesKept
    <3> QED BY <1>1, <3>1, <3>2, <3>3, LastNext
  <2>3. CASE ~m2m.draining BY <1>8, <2>1, <2>3, CapturesKept DEF StreamOffOut
  <2> QED BY <2>2, <2>3
<1>9. CASE StreamOffCap
  <2>1. work' = work /\ warned' = warned /\ work.pc = "idle" /\ capQ' = << >>
        /\ capOwner' = [d \in Caps |-> "client"]
    BY <1>9 DEF StreamOffCap, StreamInv, JobPlace
  <2>2. CapturesConserved' BY <1>1, <2>1 DEF CapturesConserved, Range, IsInjective
  <2> QED BY <2>1, <2>2, IdleCaptures
<1>10. CASE StartFrame
  <2>1. /\ capQ' = capQ /\ capOwner' = capOwner /\ warned' = warned
        /\ work' = [pc  |-> "encode", src |-> Head(srcQ), dst |-> Head(capQ), idr |-> FrameIsKey]
        /\ job = "queued"
    BY <1>10 DEF StartFrame, stream
  <2>2. capQ # << >> BY <2>1 DEF StreamInv, JobPlace
  <2>3. Head(capQ) = capQ[1] BY <1>1, <2>2, HeadTail DEF Types
  <2>4. work'.pc = "encode" /\ work'.dst = capQ[1] BY <2>1, <2>3
  <2>5. CapturePlace' BY <2>1, <2>2, <2>4 DEF CapturePlace
  <2>6. CapturesConserved' BY <1>1, <2>1 DEF CapturesConserved
  <2> QED BY <2>5, <2>6 DEF CaptureInv
<1>11. CASE EncodeFrame
  <2>1. /\ capQ' = capQ /\ capOwner' = capOwner /\ warned' = warned /\ work.pc = "encode"
        /\ work'.pc = "remove_src" /\ work'.dst = work.dst
    BY <1>11, FrameEncoded
  <2>2. CapturePlace' BY <2>1 DEF CaptureInv, CapturePlace
  <2>3. CapturesConserved' BY <1>1, <2>1 DEF CapturesConserved
  <2> QED BY <2>2, <2>3 DEF CaptureInv
<1>12. CASE RemoveSource
  <2>1. /\ capQ' = capQ /\ capOwner' = capOwner /\ warned' = warned /\ work.pc = "remove_src"
        /\ work' = [work EXCEPT !.pc = "remove_dst"]
    BY <1>12 DEF RemoveSource
  <2>2. work \in [pc : {"remove_src", "remove_dst"}, src : Nat, dst : Caps, result : Results]
    BY <1>1, <2>1, WorkShape
  <2>3. work'.pc = "remove_dst" /\ work'.dst = work.dst BY <2>1, <2>2
  <2>4. CapturePlace' BY <2>1, <2>3 DEF CaptureInv, CapturePlace
  <2>5. CapturesConserved' BY <1>1, <2>1 DEF CapturesConserved
  <2> QED BY <2>4, <2>5 DEF CaptureInv
<1>13. CASE RemoveCapture
  <2>1. work.pc = "remove_dst" /\ JobFinish BY <1>13 DEF RemoveCapture
  <2>2. capQ # << >> /\ work.dst = capQ[1] BY <2>1 DEF CaptureInv, CapturePlace
  <2>3. capOwner[capQ[1]] = "driver"
    <3>1. capQ[1] \in Caps /\ 1 \in DOMAIN capQ BY <1>1, <2>2, HeadTail DEF Types
    <3> QED BY <1>1, <3>1 DEF CapturesConserved, Range
  <2>4. capQ' = Tail(capQ) /\ capOwner' = [capOwner EXCEPT ![capQ[1]] = "client"]
        /\ warned' = warned
    BY <1>13, <2>2, <2>3 DEF RemoveCapture
  <2>5. CapturesConserved' BY <1>1, <2>2, <2>4, HeadDone
  <2>6. work'.pc = "idle" BY <2>1, FinishJob DEF Idle
  <2> QED BY <2>5, <2>6, IdleCaptures
<1>14. CASE PlanChanged
  <2>1. capQ' = capQ /\ capOwner' = capOwner /\ warned' = warned /\ JobFinish
    BY <1>14 DEF PlanChanged, stream
  <2>2. CapturesConserved' BY <1>1, <2>1 DEF CapturesConserved
  <2>3. work'.pc = "idle" BY <2>1, FinishJob DEF Idle
  <2> QED BY <2>2, <2>3, IdleCaptures
<1>15. CASE StartBatches
  <2>1. capQ' = capQ /\ capOwner' = capOwner /\ warned' = warned
        /\ (ave_b_next = "HOLD" => JobFinish)
    BY <1>15, BatchesStarted
  <2>2. CapturesConserved' BY <1>1, <2>1 DEF CapturesConserved
  <2>3. CASE ave_b_next = "HOLD"
    <3>1. work'.pc = "idle" BY <2>1, <2>3, FinishJob DEF Idle
    <3> QED BY <2>2, <3>1, IdleCaptures
  <2>4. CASE ave_b_next # "HOLD"
    <3>1. work'.pc \in {"clear", "batch"} /\ FramesLeft' <= Len(capQ)
      <4>1. work'.pc \in {"clear", "batch"} /\ FramesLeft' = ave_gop_need(ctx.plan, ave_b_next)
            /\ Len(capQ) >= ave_gop_need(ctx.plan, ave_b_next)
            /\ ave_gop_need(ctx.plan, ave_b_next) \in Nat
        BY <1>15, <2>4, Planned
      <4>2. Len(capQ) \in Nat BY <1>1 DEF Types
      <4> QED BY <4>1, <4>2
    <3>2. CapturePlace' BY <2>1, <3>1 DEF CapturePlace
    <3> QED BY <2>2, <3>2 DEF CaptureInv
  <2> QED BY <2>3, <2>4
<1>16. CASE EncodeBatch
  <2> DEFINE n == Len(work.batches[1])
  <2>1. /\ work.pc = "batch" /\ warned' = warned /\ work' = [work EXCEPT !.pc = "remove_batch"]
        /\ capQ' = SubSeq(capQ, Len(Head(work.batches)) + 1, Len(capQ))
        /\ capOwner' = [d \in Caps |-> IF \E k \in 1 .. Len(Head(work.batches)) : capQ[k] = d
                                         THEN "client" ELSE capOwner[d]]
    BY <1>16, BatchEncoded
  <2>2. /\ Head(work.batches) = work.batches[1] /\ n \in Nat /\ n >= 1
        /\ FramesLeft \in Nat /\ Len(work.batches) \in 1 .. 2
        /\ Len(work.batches) = 1 => FramesLeft = n
        /\ Len(work.batches) = 2 => FramesLeft = n + 1 /\ Len(work.batches[2]) = 1
        /\ work \in [pc : {"clear", "batch", "remove_batch"}, srcs : Seq(Nat), batches : Seq(Seq(Frames))]
    BY <2>1, SourcesOfBatch
  <2>3. work'.pc = "remove_batch" /\ work'.batches = work.batches BY <2>1, <2>2
  <2> HIDE DEF n
  <2>4. FramesLeft <= Len(capQ) /\ Len(capQ) \in Nat
    BY <1>1, <2>1 DEF CaptureInv, CapturePlace, Types
  <2>5. n \in 1 .. Len(capQ) BY <2>2, <2>4
  <2>6. /\ capQ' = SubSeq(capQ, n + 1, Len(capQ))
        /\ capOwner' = [d \in Caps |-> IF \E k \in 1 .. n : capQ[k] = d
                                         THEN "client" ELSE capOwner[d]]
    BY <2>1, <2>2 DEF n
  <2>7. CapturesConserved' /\ Len(capQ') = Len(capQ) - n
    BY <1>1, <2>1, <2>5, <2>6, SomeDone
  <2>8. CapturePlace' BY <2>2, <2>3, <2>4, <2>7 DEF CapturePlace
  <2> QED BY <2>7, <2>8 DEF CaptureInv
<1>17. CASE RemoveBatch
  <2>1. /\ capQ' = capQ /\ capOwner' = capOwner /\ warned' = warned /\ work.pc = "remove_batch"
        /\ Len(work.batches) = 1 => JobFinish
        /\ Len(work.batches) = 2 =>
             work'.pc = "batch" /\ Len(work'.batches) = 1 /\ work'.batches[1] = work.batches[2]
    BY <1>17, BatchRemoved
  <2>2. CapturesConserved' BY <1>1, <2>1 DEF CapturesConserved
  <2>3. Len(work.batches) \in 1 .. 2 /\ (Len(work.batches) = 2 => Len(work.batches[2]) = 1)
    BY <2>1, SourcesOfBatch
  <2>4. CASE Len(work.batches) = 1
    <3>1. work'.pc = "idle" BY <2>1, <2>4, FinishJob DEF Idle
    <3> QED BY <2>2, <3>1, IdleCaptures
  <2>5. CASE Len(work.batches) = 2
    <3>1. FramesLeft' = 1
      <4>1. Len(work'.batches[1]) = 1 /\ Len(work'.batches) = 1 BY <2>1, <2>3, <2>5
      <4> QED BY <4>1 DEF FramesLeft
    <3>2. 1 <= Len(capQ) BY <2>1, <2>3, <2>5 DEF CaptureInv, CapturePlace
    <3>3. CapturePlace' BY <2>1, <2>5, <3>1, <3>2 DEF CapturePlace
    <3> QED BY <2>2, <3>3 DEF CaptureInv
  <2> QED BY <2>3, <2>4, <2>5
<1>18. CASE Suspend BY <1>18, CapturesKept DEF Suspend, stream
<1>19. CASE Resume BY <1>19, CapturesKept DEF Resume, stream
<1>20. CASE UNCHANGED vars BY <1>20, CapturesKept DEF vars
<1>21. CASE ClearForceKey
  <2>1. /\ capQ' = capQ /\ capOwner' = capOwner /\ warned' = warned
        /\ work.pc = "clear" /\ work'.pc = "batch" /\ work'.batches = work.batches
    BY <1>21, ForceKeyCleared
  <2>2. CapturesConserved' BY <1>1, <2>1 DEF CapturesConserved
  <2>3. FramesLeft' = FramesLeft BY <2>1 DEF FramesLeft
  <2>4. CapturePlace' BY <2>1, <2>3 DEF CaptureInv, CapturePlace
  <2> QED BY <2>2, <2>4 DEF CaptureInv
<1> QED
  BY <1>2, <1>3, <1>4, <1>5, <1>6, <1>7, <1>8, <1>9, <1>10, <1>11, <1>12, <1>13, <1>14,
            <1>15, <1>16, <1>17, <1>18, <1>19, <1>20, <1>21 DEF Next, RunWork, Client

\* No CAPTURE buffer at the start.
LEMMA CaptureInit == ASSUME Init PROVE CaptureInv
<1>1. capQ = << >> /\ capOwner = [d \in Caps |-> "client"] /\ warned = FALSE /\ work = Idle
  BY DEF Init
<1>2. CapturesConserved BY <1>1 DEF CapturesConserved, Range, IsInjective
<1>3. CapturePlace BY <1>1 DEF CapturePlace, Idle
<1> QED BY <1>2, <1>3 DEF CaptureInv

\* No buffer of either queue is lost, done twice or taken for another's, and the work
\* has the CAPTURE buffers its plan counted on.
THEOREM BuffersAlwaysConserved == ASSUME ~StopInCompletion PROVE Spec => []BuffersConserved
<1>1. Init => CaptureInv BY CaptureInit
<1>2. StreamInv /\ CaptureInv /\ [Next]_vars => CaptureInv' BY CaptureNext
<1>3. StreamInv /\ CaptureInv => BuffersConserved
  BY StreamTyped, SourcesInOrder, HeldThere
     DEF BuffersConserved, CaptureInv, CapturePlace, BatchHasCaptures
<1> QED BY <1>1, <1>2, <1>3, StreamInvariant, PTL DEF Spec

-----------------------------------------------------------------------------
\* The third layer.

\* Every queued source has a number, above those taken.
LEMMA QueuedAbove ==
  ASSUME StreamInv, NEW s \in Range(srcQ)
  PROVE  /\ s \in Nat /\ s > Taken /\ Taken \in Nat /\ s <= cnt.src
         /\ s = srcQ[s - Taken] /\ s - Taken \in 1 .. Len(srcQ)
<1>1. PICK i \in DOMAIN srcQ : s = srcQ[i] BY DEF Range
<1>2. DOMAIN srcQ = 1 .. Len(srcQ) /\ Len(srcQ) \in Nat /\ Len(returned) \in Nat
  BY DEF StreamInv, Types
<1>3. Taken \in Nat BY <1>2 DEF Taken
<1>4. s = Taken + i /\ cnt.src = Taken + Len(srcQ) BY <1>1 DEF StreamInv, SourcePlace
<1>5. i \in Nat /\ i >= 1 /\ i <= Len(srcQ) BY <1>1, <1>2
<1> HIDE DEF Taken
<1>6. s - Taken = i BY <1>3, <1>4, <1>5
<1>7. s \in Nat /\ s > Taken BY <1>3, <1>4, <1>5
<1>8. s <= cnt.src BY <1>2, <1>3, <1>4, <1>5
<1>9. i \in 1 .. Len(srcQ) BY <1>2, <1>5
<1> QED BY <1>1, <1>3, <1>6, <1>7, <1>8, <1>9

\* A drain's state, where neither drains, sources nor checks change.
LEMMA DrainKept ==
  ASSUME DrainInv, m2m' = m2m, on'.cap = on.cap, srcQ' = srcQ, capQ' = capQ,
         Checked' \subseteq Checked, job = "none" => (job' = "none" \/ capQ' # << >>)
  PROVE  DrainInv'
BY DEF DrainInv, NextLastPlace, DrainHasLast

\* Nothing is checked where the work is not past its check.
LEMMA CheckedPlaces ==
  /\ work.pc \notin {"remove_src", "remove_batch"} => Checked = {}
  /\ work.pc = "remove_src" => Checked = {work.src}
  /\ work.pc = "remove_batch" => Checked = Range(BatchSources)
  /\ work'.pc \notin {"remove_src", "remove_batch"} => Checked' = {}
  /\ work'.pc = "remove_src" => Checked' = {work'.src}
  /\ work'.pc = "remove_batch" => Checked' = Range(BatchSources')
BY DEF Checked

\* No drain waits while a job is under way.
LEMMA JobNoNextLast ==
  ASSUME StreamInv, DrainInv, job # "none" \/ work.pc # "idle" PROVE ~m2m.nextLast
<1>1. work.pc # "idle" => job = "running" BY DEF StreamInv, JobPlace
<1> QED BY <1>1 DEF DrainInv, NextLastPlace

\* Work that is the same has checked the same.
LEMMA CheckedSame == ASSUME work' = work PROVE Checked' = Checked
BY DEF Checked, BatchSources, Source

\* The drain once LAST is on the head of the queue, or waits for the next buffer.
LEMMA LastNextDrain ==
  ASSUME Types, WorkTypes, LastOnNextBuffer, on.cap, on'.cap = on.cap, job' = "none"
  PROVE  DrainInv'
<1>1. CASE Ended(m2m') BY <1>1 DEF Ended, DrainInv, NextLastPlace, DrainHasLast
<1>2. CASE capQ = << >> /\ capQ' = capQ
           /\ m2m' = [m2m EXCEPT !.draining = TRUE, !.lastSrc = 0, !.nextLast = TRUE]
  <2>1. m2m'.draining /\ m2m'.nextLast /\ m2m'.lastSrc = 0 BY <1>2 DEF Types, M2m
  <2> QED BY <1>2, <2>1 DEF DrainInv, NextLastPlace, DrainHasLast, NoSource
<1> QED BY <1>1, <1>2, LastNext

\* No job is scheduled without a CAPTURE buffer.
LEMMA NoCaptureNoJob == ASSUME TrySchedule, capQ' = << >>, job = "none" PROVE job' = "none"
BY TryJob, RunnableHas

\* Every step keeps the third layer.
LEMMA DrainNext ==
  ASSUME ~StopInCompletion, StreamInv, DrainInv, [Next]_vars PROVE DrainInv'
<1>1. Types /\ WorkTypes /\ NextLastPlace /\ DrainHasLast BY DEF StreamInv, DrainInv
<1>2. CASE QbufSource
  <2>1. /\ srcQ' = Append(srcQ, cnt.src + 1) /\ work' = work /\ m2m' = m2m /\ capQ' = capQ
        /\ on' = on /\ TrySchedule
    BY <1>2 DEF QbufSource
  <2>2. NextLastPlace' BY <1>1, <2>1, NoCaptureNoJob DEF NextLastPlace
  <2>3. Range(srcQ) \subseteq Range(srcQ')
    <3>1. srcQ \in Seq(Nat) /\ cnt.src + 1 \in Nat BY <1>1 DEF Types
    <3>2. DOMAIN srcQ \subseteq DOMAIN srcQ' /\ \A i \in DOMAIN srcQ : srcQ'[i] = srcQ[i]
      BY <2>1, <3>1
    <3> QED BY <3>2 DEF Range
  <2>4. Checked' = Checked BY <2>1, CheckedSame
  <2>5. DrainHasLast' BY <1>1, <2>1, <2>3, <2>4 DEF DrainHasLast
  <2> QED BY <2>2, <2>5 DEF DrainInv
<1>3. CASE QbufCapture
  <2> DEFINE d == Min({x \in Caps : capOwner[x] = "client"})
  <2>1. on' = on /\ work' = work /\ srcQ' = srcQ BY <1>3 DEF QbufCapture
  <2>2. CASE m2m.draining /\ m2m.nextLast
    <3>1. d \in Caps BY <1>3, LeastBuffer DEF QbufCapture
    <3>2. LastBufferDone(d, EmptyLast) BY <1>3, <2>2 DEF QbufCapture
    <3> HIDE DEF d
    <3>3. Ended(m2m') BY <1>1, <3>1, <3>2, EmptyIsResult, LastDone
    <3> QED BY <3>3 DEF Ended, DrainInv, NextLastPlace, DrainHasLast
  <2>3. CASE ~(m2m.draining /\ m2m.nextLast)
    <3>1. m2m' = m2m BY <1>3, <2>3 DEF QbufCapture
    <3>2. ~m2m.nextLast BY <1>1, <2>3 DEF NextLastPlace
    <3>3. Checked' = Checked BY <2>1, CheckedSame
    <3> QED BY <1>1, <2>1, <3>1, <3>2, <3>3 DEF DrainInv, NextLastPlace, DrainHasLast
  <2> QED BY <2>2, <2>3
<1>4. CASE ForceKey
  <2>1. m2m' = m2m /\ on' = on /\ srcQ' = srcQ /\ capQ' = capQ /\ work' = work /\ job' = job
    BY <1>4 DEF ForceKey, stream
  <2> QED BY <2>1, DrainKept, CheckedSame
<1>5. CASE EncoderStop
  <2>1. /\ on.cap /\ on' = on /\ srcQ' = srcQ /\ work' = work /\ ~m2m.draining /\ Nudge
    BY <1>5 DEF EncoderStop
  <2>2. CASE srcQ # << >>
    <3>1. m2m' = [m2m EXCEPT !.draining = TRUE, !.lastSrc = srcQ[Len(srcQ)]]
      BY <1>5, <2>2 DEF EncoderStop
    <3>2. m2m'.draining /\ m2m'.lastSrc = srcQ[Len(srcQ)] /\ ~m2m'.nextLast
      BY <1>1, <2>1, <3>1 DEF Types, M2m, NextLastPlace
    <3>3. srcQ[Len(srcQ)] \in Range(srcQ)
      <4>1. Len(srcQ) \in DOMAIN srcQ BY <1>1, <2>2, HeadTail DEF Types
      <4> QED BY <4>1 DEF Range
    <3>4. Checked' = {} BY <1>5, <2>1, StopFindsIdle, CheckedPlaces
    <3> QED BY <2>1, <3>2, <3>3, <3>4 DEF DrainInv, NextLastPlace, DrainHasLast
  <2>3. CASE srcQ = << >>
    <3>1. job = "none" /\ LastOnNextBuffer BY <1>5, <2>3, StopFindsIdle DEF EncoderStop
    <3>2. job' = "none" BY <2>1, <2>3, <3>1, TryJob, RunnableHas DEF Nudge
    <3> QED BY <1>1, <2>1, <3>1, <3>2, LastNextDrain
  <2> QED BY <2>2, <2>3
<1>6. CASE EncoderStart
  <2>1. ~m2m.draining /\ m2m' = [m2m EXCEPT !.stopped = FALSE] BY <1>6 DEF EncoderStart
  <2>2. ~m2m'.draining /\ ~m2m'.nextLast BY <1>1, <2>1 DEF NextLastPlace, Types, M2m
  <2> QED BY <2>2 DEF DrainInv, NextLastPlace, DrainHasLast
<1>7. ASSUME NEW q \in {"out", "cap"}, StreamOn(q) PROVE DrainInv'
  <2>1. /\ ~on[q] /\ m2m' = StartedM2m(q) /\ srcQ' = srcQ /\ capQ' = capQ /\ work' = work
        /\ TrySchedule /\ on' \in {on, [on EXCEPT ![q] = TRUE]}
    BY <1>7 DEF StreamOn
  <2>2. on.cap => on'.cap BY <1>1, <2>1 DEF Types
  <2>3. m2m'.draining = m2m.draining /\ m2m'.nextLast = m2m.nextLast
        /\ (m2m'.lastSrc = m2m.lastSrc \/ (q = "out" /\ m2m'.lastSrc = NoSource))
    BY <1>1, <2>1 DEF StartedM2m, Types, M2m
  <2>4. NextLastPlace' BY <1>1, <2>1, <2>2, <2>3, NoCaptureNoJob DEF NextLastPlace
  <2>5. Checked' = Checked BY <2>1, CheckedSame
  <2>6. q = "out" => srcQ = << >> BY <2>1 DEF StreamInv, JobPlace
  <2>7. srcQ = << >> => Range(srcQ) = {} BY DEF Range
  <2>8. DrainHasLast' BY <1>1, <2>1, <2>3, <2>5, <2>6, <2>7 DEF DrainHasLast
  <2> QED BY <2>4, <2>8 DEF DrainInv
<1>8. CASE StreamOffOut
  <2>1. on' = [on EXCEPT !.out = FALSE] /\ job' = "none" BY <1>8 DEF StreamOffOut
  <2>2. on'.cap = on.cap BY <1>1, <2>1 DEF Types
  <2>3. CASE m2m.draining
    <3>1. LastOnNextBuffer BY <1>8, <2>3 DEF StreamOffOut
    <3>2. on.cap BY <1>1, <2>3 DEF NextLastPlace
    <3> QED BY <1>1, <2>1, <2>2, <3>1, <3>2, LastNextDrain
  <2>4. CASE ~m2m.draining
    <3>1. m2m' = m2m BY <1>8, <2>4 DEF StreamOffOut
    <3> QED BY <1>1, <2>4, <3>1 DEF DrainInv, NextLastPlace, DrainHasLast
  <2> QED BY <2>3, <2>4
<1>9. CASE StreamOffCap
  <2>1. m2m' = [m2m EXCEPT !.draining = FALSE, !.nextLast = FALSE, !.stopped = FALSE]
    BY <1>9 DEF StreamOffCap
  <2>2. ~m2m'.draining /\ ~m2m'.nextLast BY <1>1, <2>1 DEF Types, M2m
  <2> QED BY <2>2 DEF DrainInv, NextLastPlace, DrainHasLast
<1>10. CASE StartFrame
  <2>1. m2m' = m2m /\ on' = on /\ srcQ' = srcQ /\ capQ' = capQ /\ work'.pc = "encode"
        /\ job = "queued"
    BY <1>10 DEF StartFrame, stream
  <2> QED BY <2>1, DrainKept, CheckedPlaces
<1>11. CASE EncodeFrame
  <2>1. /\ m2m' = (IF IsLastDraining(work.src) THEN Stopped ELSE m2m)
        /\ on' = on /\ srcQ' = srcQ /\ work.pc = "encode" /\ work'.pc = "remove_src"
        /\ work'.src = work.src
    BY <1>11, FrameEncoded
  <2>2. ~m2m.nextLast BY <2>1, JobNoNextLast
  <2>3. Checked = {} /\ Checked' = {work.src} BY <2>1, CheckedPlaces
  <2>4. CASE IsLastDraining(work.src)
    <3>1. ~m2m'.draining /\ ~m2m'.nextLast BY <2>1, <2>4 DEF Stopped
    <3> QED BY <3>1 DEF DrainInv, NextLastPlace, DrainHasLast
  <2>5. CASE ~IsLastDraining(work.src)
    <3>1. m2m' = m2m /\ (m2m.draining => m2m.lastSrc # work.src)
      BY <2>1, <2>5 DEF IsLastDraining
    <3> QED BY <1>1, <2>1, <2>2, <2>3, <3>1 DEF DrainInv, NextLastPlace, DrainHasLast
  <2> QED BY <2>4, <2>5
<1>12. CASE RemoveSource
  <2>1. /\ work.pc = "remove_src" /\ srcQ' = Tail(srcQ)
        /\ work' = [work EXCEPT !.pc = "remove_dst"]
        /\ m2m' = m2m /\ on' = on
    BY <1>12 DEF RemoveSource
  <2>2. ~m2m.nextLast BY <2>1, JobNoNextLast
  <2>3. work'.pc = "remove_dst"
    <3>1. work \in [pc : {"remove_src", "remove_dst"}, src : Nat, dst : Caps, result : Results]
      BY <1>1, <2>1, WorkShape
    <3> QED BY <2>1, <3>1
  <2>4. Checked = {work.src} /\ Checked' = {} BY <2>1, <2>3, CheckedPlaces
  <2>5. srcQ # << >> /\ work.src = Taken + 1 BY <2>1 DEF StreamInv, FramePlace
  <2>6. ASSUME NEW s \in Range(srcQ) \ {work.src} PROVE s \in Range(srcQ')
    <3>1. s = srcQ[s - Taken] /\ s - Taken \in 1 .. Len(srcQ) /\ s \in Nat /\ Taken \in Nat
      BY QueuedAbove
    <3>2. /\ Len(srcQ) \in Nat /\ DOMAIN srcQ' = 1 .. Len(srcQ) - 1
          /\ \A i \in 1 .. Len(srcQ) - 1 : srcQ'[i] = srcQ[i + 1]
      BY <1>1, <2>1, <2>5, HeadTail DEF Types
    <3> DEFINE i == (s - Taken) - 1
    <3>3. i + 1 = s - Taken /\ i \in 1 .. Len(srcQ) - 1
      <4> HIDE DEF Taken
      <4> QED BY <2>5, <2>6, <3>1, <3>2
    <3> HIDE DEF i
    <3>4. srcQ'[i] = s /\ i \in DOMAIN srcQ' BY <3>1, <3>2, <3>3
    <3> QED BY <3>4 DEF Range
  <2> QED BY <1>1, <2>1, <2>2, <2>4, <2>6 DEF DrainInv, NextLastPlace, DrainHasLast
<1>13. CASE RemoveCapture
  <2>1. /\ work.pc = "remove_dst" /\ srcQ' = srcQ /\ JobFinish /\ m2m' = m2m /\ on' = on
    BY <1>13 DEF RemoveCapture
  <2>2. ~m2m.nextLast BY <2>1, JobNoNextLast
  <2>3. work'.pc = "idle" BY <2>1, FinishJob DEF Idle
  <2>4. Checked = {} /\ Checked' = {} BY <2>1, <2>3, CheckedPlaces
  <2> QED BY <1>1, <2>1, <2>2, <2>4 DEF DrainInv, NextLastPlace, DrainHasLast
<1>14. CASE PlanChanged
  <2>1. m2m' = m2m /\ on' = on /\ srcQ' = srcQ /\ capQ' = capQ /\ JobFinish /\ job = "queued"
    BY <1>14 DEF PlanChanged, stream
  <2>2. work'.pc = "idle" BY <2>1, FinishJob DEF Idle
  <2> QED BY <2>1, <2>2, DrainKept, CheckedPlaces
<1>15. CASE StartBatches
  <2>1. m2m' = m2m /\ on' = on /\ srcQ' = srcQ /\ capQ' = capQ /\ job = "queued"
        /\ (ave_b_next = "HOLD" => JobFinish)
    BY <1>15, BatchesStarted
  <2>2. work'.pc \in {"idle", "clear", "batch"}
    <3>1. ave_b_next = "HOLD" => work'.pc = "idle" BY <2>1, FinishJob DEF Idle
    <3>2. ave_b_next # "HOLD" => work'.pc \in {"clear", "batch"} BY <1>15, Planned
    <3> QED BY <3>1, <3>2
  <2> QED BY <2>1, <2>2, DrainKept, CheckedPlaces
<1>16. CASE EncodeBatch
  <2> DEFINE b == work.batches[1]
             last == \E i \in DOMAIN b : IsLastDraining(Source(b[i]))
  <2>1. work.pc = "batch" /\ work' = [work EXCEPT !.pc = "remove_batch"]
        /\ on' = on /\ srcQ' = srcQ
    BY <1>16, BatchEncoded
  <2>2. /\ Head(work.batches) = b /\ DOMAIN b = 1 .. Len(b)
        /\ \A i \in 1 .. Len(b) : Source(b[i]) = BatchSources[i]
        /\ DOMAIN BatchSources = DOMAIN b
        /\ work \in [pc : {"clear", "batch", "remove_batch"}, srcs : Seq(Nat), batches : Seq(Seq(Frames))]
    BY <2>1, SourcesOfBatch
  <2>3. m2m' = IF last THEN Stopped ELSE m2m BY <1>16, <2>2, BatchEncoded
  <2>4. work'.pc = "remove_batch" /\ work'.batches = work.batches /\ work'.srcs = work.srcs
    BY <2>1, <2>2
  <2>5. BatchSources' = BatchSources BY <2>4 DEF BatchSources, Source
  <2>6. Checked = {} /\ Checked' = Range(BatchSources) BY <2>1, <2>4, <2>5, CheckedPlaces
  <2>7. ~m2m.nextLast BY <2>1, JobNoNextLast
  <2>8. last <=> \E s \in Range(BatchSources) : IsLastDraining(s) BY <2>2 DEF Range
  <2> HIDE DEF last
  <2>9. CASE last
    <3>1. ~m2m'.draining /\ ~m2m'.nextLast BY <2>3, <2>9 DEF Stopped
    <3> QED BY <3>1 DEF DrainInv, NextLastPlace, DrainHasLast
  <2>10. CASE ~last
    <3>1. m2m' = m2m /\ (m2m.draining => m2m.lastSrc \notin Range(BatchSources))
      BY <2>3, <2>8, <2>10 DEF IsLastDraining
    <3> QED BY <1>1, <2>1, <2>6, <2>7, <3>1 DEF DrainInv, NextLastPlace, DrainHasLast
  <2> QED BY <2>9, <2>10
<1>17. CASE RemoveBatch
  <2> DEFINE n == Len(work.batches[1])
  <2>1. /\ work.pc = "remove_batch" /\ n \in Nat /\ n >= 1 /\ n <= Len(srcQ)
        /\ srcQ' \in Seq(Nat) /\ Len(srcQ') = Len(srcQ) - n
        /\ \A i \in 1 .. Len(srcQ) - n : srcQ'[i] = srcQ[n + i]
        /\ Len(work.batches) = 1 => JobFinish
        /\ Len(work.batches) = 2 => work'.pc = "batch"
        /\ m2m' = m2m /\ on' = on
    BY <1>17, BatchRemoved
  <2>2. Range(BatchSources) = Taken + 1 .. Taken + n /\ Len(work.batches) \in 1 .. 2
    BY <2>1, SourcesOfBatch
  <2>3. work'.pc \in {"idle", "batch"}
    <3>1. Len(work.batches) = 1 => work'.pc = "idle" BY <2>1, FinishJob DEF Idle
    <3> QED BY <2>1, <2>2, <3>1
  <2>4. ~m2m.nextLast BY <2>1, JobNoNextLast
  <2>5. Checked = Range(BatchSources) /\ Checked' = {} BY <2>1, <2>3, CheckedPlaces
  <2> HIDE DEF n
  <2>6. ASSUME NEW s \in Range(srcQ), s \notin Range(BatchSources) PROVE s \in Range(srcQ')
    <3>1. s = srcQ[s - Taken] /\ s - Taken \in 1 .. Len(srcQ) /\ s \in Nat /\ Taken \in Nat
      BY QueuedAbove
    <3>2. Len(srcQ) \in Nat /\ DOMAIN srcQ' = 1 .. Len(srcQ) - n
      <4>1. srcQ \in Seq(Nat) BY <1>1 DEF Types
      <4>2. Len(srcQ') = Len(srcQ) - n /\ srcQ' \in Seq(Nat) BY <2>1
      <4> QED BY <4>1, <4>2
    <3> DEFINE i == (s - Taken) - n
    <3>3. n + i = s - Taken /\ i \in 1 .. Len(srcQ) - n
      <4> HIDE DEF Taken
      <4> QED BY <2>1, <2>2, <2>6, <3>1, <3>2
    <3> HIDE DEF i
    <3>4. srcQ'[i] = s /\ i \in DOMAIN srcQ' BY <2>1, <3>1, <3>2, <3>3
    <3> QED BY <3>4 DEF Range
  <2> QED BY <1>1, <2>1, <2>4, <2>5, <2>6 DEF DrainInv, NextLastPlace, DrainHasLast
<1>18. CASE Suspend
  <2>1. m2m' = m2m /\ on' = on /\ srcQ' = srcQ /\ capQ' = capQ /\ work' = work /\ job' = job
    BY <1>18 DEF Suspend, stream
  <2> QED BY <2>1, DrainKept, CheckedSame
<1>19. CASE Resume
  <2>1. m2m' = m2m /\ on' = on /\ srcQ' = srcQ /\ capQ' = capQ /\ work' = work /\ job' = job
    BY <1>19 DEF Resume, stream
  <2> QED BY <2>1, DrainKept, CheckedSame
<1>20. CASE UNCHANGED vars
  <2>1. m2m' = m2m /\ on' = on /\ srcQ' = srcQ /\ capQ' = capQ /\ work' = work /\ job' = job
    BY <1>20 DEF vars
  <2> QED BY <2>1, DrainKept, CheckedSame
<1>21. CASE ClearForceKey
  <2>1. /\ m2m' = m2m /\ on' = on /\ srcQ' = srcQ /\ capQ' = capQ /\ job' = job
        /\ work'.pc = "batch"
    BY <1>21, ForceKeyCleared
  <2> QED BY <2>1, DrainKept, CheckedPlaces
<1> QED
  BY <1>2, <1>3, <1>4, <1>5, <1>6, <1>7, <1>8, <1>9, <1>10, <1>11, <1>12, <1>13, <1>14,
            <1>15, <1>16, <1>17, <1>18, <1>19, <1>20, <1>21 DEF Next, RunWork, Client

\* A drain's last source is queued and unchecked while the drain waits for it.
THEOREM DrainsHaveLast == ASSUME ~StopInCompletion PROVE Spec => []DrainHasLast
<1>1. Init => DrainInv BY DEF Init, DrainInv, NextLastPlace, DrainHasLast
<1>2. StreamInv /\ DrainInv /\ [Next]_vars => DrainInv' BY DrainNext
<1>3. DrainInv => DrainHasLast BY DEF DrainInv
<1> QED BY <1>1, <1>2, <1>3, StreamInvariant, PTL DEF Spec

-----------------------------------------------------------------------------
\* The fourth layer.

\* A step that leaves the drain, the planner, the work and the sources' count alone, and
\* queues no job for a stopped context.
LEMMA LastKept ==
  ASSUME LastInv, m2m' = m2m, ctx'.nb = ctx.nb, work' = work, cnt'.src = cnt.src,
         m2m.stopped => job' # "queued"
  PROVE  LastInv'
BY DEF LastInv, LastInHand

\* A context neither draining nor stopped, or stopped with the work idle and no job.
LEMMA LastFresh ==
  ASSUME ~m2m'.draining \/ m2m'.nextLast, m2m'.stopped => ~m2m'.draining,
         m2m'.stopped => job' # "queued" /\ work'.pc = "idle"
  PROVE  LastInv'
BY DEF LastInv

\* The end of a job: a stopped context gets no other.
LEMMA LastDoneJob ==
  ASSUME LastInv, m2m' = m2m, ctx'.nb = ctx.nb, cnt'.src = cnt.src, JobFinish
  PROVE  LastInv'
<1>1. work'.pc = "idle" BY FinishJob DEF Idle
<1>2. m2m'.stopped => job' # "queued" BY FinishJob, RunnableHas
<1> QED BY <1>1, <1>2 DEF LastInv

\* LAST on the head of the queue or on the next buffer, with no job.
LEMMA LastNextLast ==
  ASSUME Types, WorkTypes, LastOnNextBuffer, job' = "none", work'.pc = "idle", ~m2m.stopped
  PROVE  LastInv'
<1>1. CASE Ended(m2m') BY <1>1, LastFresh DEF Ended
<1>2. CASE m2m' = [m2m EXCEPT !.draining = TRUE, !.lastSrc = 0, !.nextLast = TRUE]
  <2>1. m2m'.nextLast /\ ~m2m'.stopped BY <1>2 DEF Types, M2m
  <2> QED BY <2>1, LastFresh
<1> QED BY <1>1, <1>2, LastNext

\* Every step keeps the fourth layer.
LEMMA LastStep ==
  ASSUME ~StopInCompletion, QbufInDrain \subseteq {0}, StreamInv, DrainInv, LastInv, [Next]_vars
  PROVE  LastInv'
<1>1. Types /\ WorkTypes /\ NextLastPlace BY DEF StreamInv, DrainInv
<1>2. CASE QbufSource
  <2>1. /\ cnt' = [cnt EXCEPT !.src = cnt.src + 1] /\ work' = work /\ m2m' = m2m /\ ctx' = ctx
        /\ m2m.draining => ctx.nb \in QbufInDrain
        /\ TrySchedule
    BY <1>2 DEF QbufSource
  <2>2. m2m.draining => ~(ctx.nb > 0) BY <2>1
  <2>3. m2m.stopped => job' # "queued" BY <2>1, TryJob, RunnableHas DEF LastInv
  <2> QED BY <2>1, <2>2, <2>3 DEF LastInv, LastInHand
<1>3. CASE QbufCapture
  <2> DEFINE d == Min({x \in Caps : capOwner[x] = "client"})
  <2>1. ctx' = ctx /\ work' = work /\ cnt' = cnt /\ TrySchedule BY <1>3 DEF QbufCapture
  <2>2. CASE m2m.draining /\ m2m.nextLast
    <3>1. d \in Caps BY <1>3, LeastBuffer DEF QbufCapture
    <3>2. LastBufferDone(d, EmptyLast) BY <1>3, <2>2 DEF QbufCapture
    <3> HIDE DEF d
    <3>3. Ended(m2m') BY <1>1, <3>1, <3>2, EmptyIsResult, LastDone
    <3>4. job = "none" /\ work.pc = "idle" BY <1>1, <2>2 DEF NextLastPlace, StreamInv, JobPlace
    <3>5. job' # "queued" BY <2>1, <3>3, <3>4, TryJob, RunnableHas DEF Ended
    <3> QED BY <2>1, <3>3, <3>4, <3>5, LastFresh DEF Ended
  <2>3. CASE ~(m2m.draining /\ m2m.nextLast)
    <3>1. m2m' = m2m BY <1>3, <2>3 DEF QbufCapture
    <3>2. m2m.stopped => job' # "queued" BY <2>1, <3>1, TryJob, RunnableHas DEF LastInv
    <3> QED BY <2>1, <3>1, <3>2, LastKept
  <2> QED BY <2>2, <2>3
<1>4. CASE ForceKey
  <2>1. m2m' = m2m /\ ctx' = ctx /\ work' = work /\ job' = job
        /\ cnt' = [cnt EXCEPT !.forced = cnt.forced + 1]
    BY <1>4 DEF ForceKey, stream
  <2>2. cnt'.src = cnt.src BY <1>1, <2>1 DEF Types
  <2> QED BY <2>1, <2>2, LastKept DEF LastInv
<1>5. CASE EncoderStop
  <2>1. /\ srcQ' = srcQ /\ work' = work /\ ctx' = ctx /\ ~m2m.draining /\ ~m2m.stopped /\ Nudge
        /\ cnt' = [cnt EXCEPT !.drain = cnt.drain + 1]
    BY <1>5 DEF EncoderStop
  <2>2. cnt'.src = cnt.src BY <1>1, <2>1 DEF Types
  <2>3. CASE srcQ # << >>
    <3>1. m2m' = [m2m EXCEPT !.draining = TRUE, !.lastSrc = srcQ[Len(srcQ)]]
      BY <1>5, <2>3 DEF EncoderStop
    <3>2. m2m'.lastSrc = srcQ[Len(srcQ)] /\ ~m2m'.stopped
      BY <1>1, <2>1, <3>1 DEF Types, M2m
    <3>3. srcQ[Len(srcQ)] = cnt.src
      <4>1. Len(srcQ) \in DOMAIN srcQ BY <1>1, <2>3, HeadTail DEF Types
      <4> QED BY <4>1 DEF StreamInv, SourcePlace
    <3> QED BY <2>2, <3>2, <3>3 DEF LastInv
  <2>4. CASE srcQ = << >>
    <3>1. job = "none" /\ work.pc = "idle" /\ LastOnNextBuffer
      BY <1>5, <2>4, StopFindsIdle DEF EncoderStop
    <3>2. job' = "none" BY <2>1, <2>4, <3>1, TryJob, RunnableHas DEF Nudge
    <3> QED BY <1>1, <2>1, <3>1, <3>2, LastNextLast
  <2> QED BY <2>3, <2>4
<1>6. CASE EncoderStart
  <2>1. ~m2m.draining /\ m2m' = [m2m EXCEPT !.stopped = FALSE] BY <1>6 DEF EncoderStart
  <2>2. ~m2m'.draining /\ ~m2m'.stopped BY <1>1, <2>1 DEF Types, M2m
  <2> QED BY <2>2, LastFresh
<1>7. ASSUME NEW q \in {"out", "cap"}, StreamOn(q) PROVE LastInv'
  <2>1. /\ ~on[q] /\ m2m' = StartedM2m(q) /\ work' = work /\ TrySchedule
    BY <1>7 DEF StreamOn
  <2>2. m2m'.draining = m2m.draining /\ m2m'.nextLast = m2m.nextLast
        /\ m2m'.stopped = m2m.stopped
    BY <1>1, <2>1 DEF StartedM2m, Types, M2m
  <2>3. m2m.draining => m2m.nextLast
    <3>1. CASE q = "cap" BY <1>1, <2>1, <3>1 DEF NextLastPlace
    <3>2. CASE q = "out"
      <4>1. srcQ = << >> BY <2>1, <3>2 DEF StreamInv, JobPlace
      <4>2. Range(srcQ) = {} BY <4>1 DEF Range
      <4> QED BY <4>2 DEF DrainInv, DrainHasLast
    <3> QED BY <3>1, <3>2
  <2>4. job = "none" /\ work.pc = "idle"
    <3>1. ~on.out \/ ~on.cap BY <2>1
    <3> QED BY <1>1, <3>1 DEF StreamInv, JobPlace, Types
  <2>5. m2m'.stopped => job' # "queued" BY <2>1, <2>4, TryJob, RunnableHas
  <2> QED BY <2>1, <2>2, <2>3, <2>4, <2>5, LastFresh DEF LastInv
<1>8. CASE StreamOffOut
  <2>1. job' = "none" /\ work' = work /\ work.pc = "idle" /\ ctx' = [ctx EXCEPT !.session = FALSE]
        /\ cnt' = cnt
    BY <1>8 DEF StreamOffOut, EndSession, StreamInv, JobPlace
  <2>2. CASE m2m.draining
    <3>1. LastOnNextBuffer BY <1>8, <2>2 DEF StreamOffOut
    <3>2. ~m2m.stopped BY <2>2 DEF LastInv
    <3> QED BY <1>1, <2>1, <3>1, <3>2, LastNextLast
  <2>3. CASE ~m2m.draining
    <3>1. m2m' = m2m BY <1>8, <2>3 DEF StreamOffOut
    <3> QED BY <2>1, <2>3, <3>1, LastFresh
  <2> QED BY <2>2, <2>3
<1>9. CASE StreamOffCap
  <2>1. m2m' = [m2m EXCEPT !.draining = FALSE, !.nextLast = FALSE, !.stopped = FALSE]
    BY <1>9 DEF StreamOffCap
  <2>2. ~m2m'.draining /\ ~m2m'.stopped BY <1>1, <2>1 DEF Types, M2m
  <2> QED BY <2>2, LastFresh
<1>10. CASE StartFrame
  <2>1. m2m' = m2m /\ ctx' = ctx /\ cnt' = cnt /\ job = "queued"
    BY <1>10 DEF StartFrame, stream
  <2>2. ~m2m.stopped BY <2>1 DEF LastInv
  <2> QED BY <2>1, <2>2 DEF LastInv
<1>11. CASE EncodeFrame
  <2>1. /\ m2m' = (IF IsLastDraining(work.src) THEN Stopped ELSE m2m)
        /\ work.pc = "encode" /\ work'.pc = "remove_src" /\ ctx'.nb = ctx.nb /\ cnt' = cnt
        /\ work'.result.last = IsLastDraining(work.src) /\ job' = job
    BY <1>11, FrameEncoded
  <2>2. ~m2m.stopped BY <2>1 DEF LastInv, LastInHand
  <2>3. job' = "running" BY <2>1 DEF StreamInv, JobPlace
  <2>4. CASE IsLastDraining(work.src)
    <3>1. ~m2m'.draining /\ LastInHand' BY <2>1, <2>4 DEF Stopped, LastInHand
    <3> QED BY <2>3, <3>1 DEF LastInv
  <2>5. CASE ~IsLastDraining(work.src) BY <2>1, <2>2, <2>5 DEF LastInv
  <2> QED BY <2>4, <2>5
<1>12. CASE RemoveSource
  <2>1. /\ work.pc = "remove_src" /\ work' = [work EXCEPT !.pc = "remove_dst"]
        /\ m2m' = m2m /\ ctx' = ctx /\ cnt' = cnt /\ job' = job
    BY <1>12 DEF RemoveSource
  <2>2. work'.pc = "remove_dst" /\ work'.result = work.result
    <3>1. work \in [pc : {"remove_src", "remove_dst"}, src : Nat, dst : Caps, result : Results]
      BY <1>1, <2>1, WorkShape
    <3> QED BY <2>1, <3>1
  <2> QED BY <2>1, <2>2 DEF LastInv, LastInHand
<1>13. CASE RemoveCapture BY <1>13, LastDoneJob DEF RemoveCapture
<1>14. CASE PlanChanged BY <1>14, LastDoneJob DEF PlanChanged, stream
<1>15. CASE StartBatches
  <2>1. m2m' = m2m /\ ctx'.nb = ctx.nb /\ cnt' = cnt /\ job = "queued"
    BY <1>15, BatchesStarted
  <2>2. ~m2m.stopped BY <2>1 DEF LastInv
  <2> QED BY <2>1, <2>2 DEF LastInv
<1>16. CASE EncodeBatch
  <2> DEFINE b == work.batches[1]
             last == \E i \in DOMAIN b : IsLastDraining(Source(b[i]))
  <2>1. work.pc = "batch" /\ work' = [work EXCEPT !.pc = "remove_batch"]
        /\ ctx' = ctx /\ cnt' = cnt /\ job' = job
    BY <1>16, BatchEncoded
  <2>2. /\ Head(work.batches) = b /\ DOMAIN b = 1 .. Len(b) /\ Len(b) \in Nat
        /\ \A i \in 1 .. Len(b) : Source(b[i]) = Taken + i
        /\ work \in [pc : {"clear", "batch", "remove_batch"}, srcs : Seq(Nat), batches : Seq(Seq(Frames))]
        /\ Len(work.batches) \in 1 .. 2 /\ Taken \in Nat /\ Len(srcQ) \in Nat
        /\ FramesLeft \in Nat /\ FramesLeft <= Len(srcQ)
        /\ Len(work.batches) = 2 => FramesLeft = Len(b) + 1
    BY <2>1, SourcesOfBatch
  <2>3. m2m' = IF last THEN Stopped ELSE m2m BY <1>16, <2>2, BatchEncoded
  <2>4. work'.pc = "remove_batch" /\ work'.batches = work.batches BY <2>1, <2>2
  <2>5. ~m2m.stopped BY <2>1 DEF LastInv, LastInHand
  <2>6. job' = "running" BY <2>1 DEF StreamInv, JobPlace
  <2>7. CASE last
    <3>1. PICK i \in 1 .. Len(b) : IsLastDraining(Taken + i) BY <2>2, <2>7
    <3>2. m2m.draining /\ m2m.lastSrc = Taken + i BY <3>1 DEF IsLastDraining
    <3>3. ctx.nb > 0 /\ ~m2m.nextLast
      <4>1. ctx.nb > 0 BY <2>1 DEF StreamInv, BatchPlace, BPath
      <4> QED BY <2>1, <4>1, JobNoNextLast
    <3>4. Taken + i = Taken + Len(srcQ)
      BY <3>2, <3>3 DEF LastInv, StreamInv, SourcePlace
    <3>5. Len(work.batches) = 1
      <4> HIDE DEF b, Taken, FramesLeft
      <4> QED BY <2>2, <3>4
    <3>6. ~m2m'.draining BY <2>3, <2>7 DEF Stopped
    <3> QED BY <2>4, <2>6, <3>5, <3>6 DEF LastInv
  <2>8. CASE ~last
    <3>1. m2m' = m2m BY <2>3, <2>8
    <3> QED BY <2>1, <2>5, <3>1 DEF LastInv
  <2> QED BY <2>7, <2>8
<1>17. CASE RemoveBatch
  <2>1. /\ work.pc = "remove_batch" /\ m2m' = m2m /\ ctx' = ctx /\ cnt' = cnt
        /\ Len(work.batches) = 1 => JobFinish
        /\ Len(work.batches) = 2 => job' = job
    BY <1>17, BatchRemoved
  <2>2. Len(work.batches) \in 1 .. 2 BY <2>1, SourcesOfBatch
  <2>3. CASE Len(work.batches) = 1 BY <2>1, <2>3, LastDoneJob
  <2>4. CASE Len(work.batches) = 2
    <3>1. ~m2m.stopped BY <2>1, <2>4 DEF LastInv, LastInHand
    <3> QED BY <2>1, <3>1 DEF LastInv
  <2> QED BY <2>2, <2>3, <2>4
<1>18. CASE Suspend
  <2>1. /\ m2m' = m2m /\ work' = work /\ job' = job /\ cnt' = [cnt EXCEPT !.sleep = 1]
        /\ ctx' \in {ctx, [ctx EXCEPT !.session = FALSE, !.pm_lost = TRUE]}
    BY <1>18 DEF Suspend, stream
  <2>2. cnt'.src = cnt.src /\ ctx'.nb = ctx.nb BY <1>1, <2>1 DEF Types
  <2> QED BY <2>1, <2>2, LastKept DEF LastInv
<1>19. CASE Resume
  <2>1. m2m' = m2m /\ ctx' = ctx /\ work' = work /\ job' = job /\ cnt' = cnt
    BY <1>19 DEF Resume, stream
  <2> QED BY <2>1, LastKept DEF LastInv
<1>20. CASE UNCHANGED vars
  <2>1. m2m' = m2m /\ ctx' = ctx /\ work' = work /\ job' = job /\ cnt' = cnt
    BY <1>20 DEF vars
  <2> QED BY <2>1, LastKept DEF LastInv
<1>21. CASE ClearForceKey
  <2>1. m2m' = m2m /\ ctx' = ctx /\ cnt' = cnt /\ work.pc = "clear"
    BY <1>21, ForceKeyCleared
  <2>2. ~m2m.stopped BY <2>1 DEF LastInv, LastInHand
  <2> QED BY <2>1, <2>2 DEF LastInv
<1> QED
  BY <1>2, <1>3, <1>4, <1>5, <1>6, <1>7, <1>8, <1>9, <1>10, <1>11, <1>12, <1>13, <1>14,
            <1>15, <1>16, <1>17, <1>18, <1>19, <1>20, <1>21 DEF Next, RunWork, Client

\* Nothing but a frame in hand is delivered once the drain has stopped.
LEMMA StoppedSilent ==
  ASSUME StreamInv, DrainInv, LastInv, [Next]_vars, m2m.stopped, ~LastInHand
  PROVE  out' \in {out, << >>}
<1>1. ~m2m.draining BY DEF LastInv
<1>2. CASE QbufSource BY <1>2 DEF QbufSource
<1>3. CASE QbufCapture BY <1>1, <1>3 DEF QbufCapture
<1>4. CASE ForceKey BY <1>4 DEF ForceKey, stream
<1>5. CASE EncoderStop BY <1>5 DEF EncoderStop
<1>6. CASE EncoderStart BY <1>6 DEF EncoderStart
<1>7. ASSUME NEW q \in {"out", "cap"}, StreamOn(q) PROVE out' \in {out, << >>}
  <2>1. out' = IF ctx' # ctx THEN << >> ELSE out BY <1>7 DEF StreamOn
  <2> QED BY <2>1
<1>8. CASE StreamOffOut BY <1>1, <1>8 DEF StreamOffOut
<1>9. CASE StreamOffCap BY <1>9 DEF StreamOffCap
<1>10. CASE StartFrame BY <1>10 DEF StartFrame, stream
<1>11. CASE EncodeFrame BY <1>11, FrameEncoded
<1>12. CASE RemoveSource BY <1>12 DEF RemoveSource
<1>13. CASE RemoveCapture
  <2>1. work.pc = "remove_dst" BY <1>13 DEF RemoveCapture
  <2> QED BY <2>1 DEF LastInv, LastInHand
<1>14. CASE PlanChanged BY <1>14 DEF PlanChanged, stream
<1>15. CASE StartBatches BY <1>15 DEF StartBatches, stream
<1>16. CASE EncodeBatch
  <2>1. work.pc = "batch" BY <1>16, BatchEncoded
  <2> QED BY <2>1 DEF LastInv, LastInHand
<1>17. CASE RemoveBatch BY <1>17, BatchRemoved
<1>18. CASE Suspend BY <1>18 DEF Suspend, stream
<1>19. CASE Resume BY <1>19 DEF Resume, stream
<1>20. CASE UNCHANGED vars BY <1>20 DEF vars
<1>21. CASE ClearForceKey BY <1>21 DEF ClearForceKey, stream
<1> QED
  BY <1>2, <1>3, <1>4, <1>5, <1>6, <1>7, <1>8, <1>9, <1>10, <1>11, <1>12, <1>13, <1>14,
            <1>15, <1>16, <1>17, <1>18, <1>19, <1>20, <1>21 DEF Next, RunWork, Client

\* A step that ends a drain leaves none of its sources, but those the work has coded.
LEMMA StopLeavesNone ==
  ASSUME ~StopInCompletion, StreamInv, DrainInv, LastInv, [Next]_vars,
         m2m'.stopped, ~m2m.stopped, NEW s \in Range(srcQ'), s <= m2m.lastSrc
  PROVE  s \in Checked'
<1>1. Types /\ WorkTypes /\ NextLastPlace BY DEF StreamInv, DrainInv
<1>2. CASE QbufSource BY <1>2 DEF QbufSource
<1>3. CASE QbufCapture
  <2>1. srcQ' = srcQ BY <1>3 DEF QbufCapture
  <2>2. m2m.nextLast BY <1>3 DEF QbufCapture
  <2>3. m2m.lastSrc = 0 BY <1>1, <2>2 DEF NextLastPlace, NoSource
  <2>4. s \in Nat /\ s > Taken /\ Taken \in Nat BY <2>1, QueuedAbove
  <2> QED BY <2>3, <2>4
<1>4. CASE ForceKey BY <1>4 DEF ForceKey, stream
<1>5. CASE EncoderStop
  <2>1. srcQ' = srcQ BY <1>5 DEF EncoderStop
  <2>2. srcQ # << >> BY <2>1 DEF Range
  <2>3. m2m' = [m2m EXCEPT !.draining = TRUE, !.lastSrc = srcQ[Len(srcQ)]]
    BY <1>5, <2>2 DEF EncoderStop
  <2> QED BY <1>1, <2>3 DEF Types, M2m
<1>6. CASE EncoderStart BY <1>6 DEF EncoderStart
<1>7. ASSUME NEW q \in {"out", "cap"}, StreamOn(q) PROVE FALSE
  <2>1. m2m' = StartedM2m(q) BY <1>7 DEF StreamOn
  <2> QED BY <1>1, <2>1 DEF StartedM2m, Types, M2m
<1>8. CASE StreamOffOut
  <2>1. srcQ' = << >> BY <1>8 DEF StreamOffOut
  <2> QED BY <2>1 DEF Range
<1>9. CASE StreamOffCap
  <2>1. m2m' = [m2m EXCEPT !.draining = FALSE, !.nextLast = FALSE, !.stopped = FALSE]
    BY <1>9 DEF StreamOffCap
  <2> QED BY <1>1, <2>1 DEF Types, M2m
<1>10. CASE StartFrame BY <1>10 DEF StartFrame, stream
<1>11. CASE EncodeFrame
  <2>1. /\ m2m' = (IF IsLastDraining(work.src) THEN Stopped ELSE m2m) /\ srcQ' = srcQ
        /\ work.pc = "encode" /\ work'.pc = "remove_src" /\ work'.src = work.src
    BY <1>11, FrameEncoded
  <2>2. IsLastDraining(work.src) BY <2>1
  <2>3. m2m.lastSrc = work.src /\ work.src = Taken + 1
    BY <2>1, <2>2 DEF IsLastDraining, StreamInv, FramePlace
  <2>4. s \in Nat /\ s > Taken /\ Taken \in Nat BY <2>1, QueuedAbove
  <2>5. s = work.src
    <3> HIDE DEF Taken
    <3> QED BY <2>3, <2>4
  <2> QED BY <2>1, <2>5, CheckedPlaces
<1>12. CASE RemoveSource BY <1>12 DEF RemoveSource
<1>13. CASE RemoveCapture BY <1>13 DEF RemoveCapture
<1>14. CASE PlanChanged BY <1>14 DEF PlanChanged, stream
<1>15. CASE StartBatches BY <1>15 DEF StartBatches, stream
<1>16. CASE EncodeBatch
  <2> DEFINE b == work.batches[1]
             last == \E i \in DOMAIN b : IsLastDraining(Source(b[i]))
  <2>1. work.pc = "batch" /\ work' = [work EXCEPT !.pc = "remove_batch"] /\ srcQ' = srcQ
    BY <1>16, BatchEncoded
  <2>2. /\ Head(work.batches) = b /\ DOMAIN b = 1 .. Len(b) /\ Len(b) \in Nat
        /\ \A i \in 1 .. Len(b) : Source(b[i]) = Taken + i
        /\ Range(BatchSources) = Taken + 1 .. Taken + Len(b)
        /\ work \in [pc : {"clear", "batch", "remove_batch"}, srcs : Seq(Nat), batches : Seq(Seq(Frames))]
    BY <2>1, SourcesOfBatch
  <2>3. m2m' = IF last THEN Stopped ELSE m2m BY <1>16, <2>2, BatchEncoded
  <2>4. work'.pc = "remove_batch" /\ work'.batches = work.batches /\ work'.srcs = work.srcs
    BY <2>1, <2>2
  <2>5. BatchSources' = BatchSources BY <2>4 DEF BatchSources, Source
  <2>6. Checked' = Range(BatchSources) BY <2>4, <2>5, CheckedPlaces
  <2>7. PICK i \in 1 .. Len(b) : m2m.lastSrc = Taken + i
    BY <2>2, <2>3 DEF IsLastDraining
  <2>8. s \in Nat /\ s > Taken /\ Taken \in Nat BY <2>1, QueuedAbove
  <2> HIDE DEF b, Taken
  <2>9. s \in Taken + 1 .. Taken + Len(b) BY <2>2, <2>7, <2>8
  <2> QED BY <2>2, <2>6, <2>9
<1>17. CASE RemoveBatch BY <1>17, BatchRemoved
<1>18. CASE Suspend BY <1>18 DEF Suspend, stream
<1>19. CASE Resume BY <1>19 DEF Resume, stream
<1>20. CASE UNCHANGED vars BY <1>20 DEF vars
<1>21. CASE ClearForceKey BY <1>21 DEF ClearForceKey, stream
<1> QED
  BY <1>2, <1>3, <1>4, <1>5, <1>6, <1>7, <1>8, <1>9, <1>10, <1>11, <1>12, <1>13, <1>14,
            <1>15, <1>16, <1>17, <1>18, <1>19, <1>20, <1>21 DEF Next, RunWork, Client

\* LAST ends the stream, and leaves no source of its drain uncoded.
THEOREM LastEndsStream ==
  ASSUME ~StopInCompletion, QbufInDrain \subseteq {0} PROVE Spec => LastIsFinal
<1> DEFINE Step == /\ m2m.stopped /\ ~LastInHand => out' \in {out, << >>}
                   /\ m2m'.stopped /\ ~m2m.stopped =>
                        \A s \in Range(srcQ') : s <= m2m.lastSrc => s \in Checked'
<1>1. Init => DrainInv /\ LastInv
  BY DEF Init, DrainInv, NextLastPlace, DrainHasLast, LastInv
<1>2. StreamInv /\ DrainInv /\ [Next]_vars => DrainInv' BY DrainNext
<1>3. StreamInv /\ DrainInv /\ LastInv /\ [Next]_vars => LastInv' BY LastStep
<1>4. StreamInv /\ DrainInv /\ LastInv /\ [Next]_vars => Step BY StoppedSilent, StopLeavesNone
<1> HIDE DEF Step
<1>5. StreamInv /\ DrainInv /\ LastInv /\ [Next]_vars => [Step]_vars BY <1>4
<1>6. Spec => [][Step]_vars BY <1>1, <1>2, <1>3, <1>5, StreamInvariant, PTL DEF Spec
<1> QED BY <1>6 DEF Step, LastIsFinal

-----------------------------------------------------------------------------
\* The fifth layer.

\* A batch in its own order, or anchor first, keeps the results ordered when it follows
\* those of earlier sources.
LEMMA OrderedJoin ==
  ASSUME NEW o \in Seq(Results), NEW r \in Seq(Results), NEW m \in Nat, NEW nb \in Nat,
         Ordered(o, nb), \A j \in DOMAIN o : o[j].src <= m, Len(r) <= nb + 1,
         \/ \A k \in 1 .. Len(r) : r[k].src = m + k
         \/ \A k \in 1 .. Len(r) : r[k].src = m + (IF k = 1 THEN Len(r) ELSE k - 1)
  PROVE  /\ Ordered(o \o r, nb)
         /\ \A j \in DOMAIN (o \o r) : (o \o r)[j].src <= m + Len(r)
<1> DEFINE t == o \o r
           l == Len(o)
           n == Len(r)
<1>1. /\ t \in Seq(Results) /\ DOMAIN t = 1 .. l + n /\ l \in Nat /\ n \in Nat
      /\ DOMAIN o = 1 .. l
      /\ \A i \in 1 .. l : t[i] = o[i]
      /\ \A i \in 1 .. n : t[l + i] = r[i]
  BY Joined
<1>2. /\ \A i \in 1 .. l : o[i].src \in Nat
      /\ \A k \in 1 .. n : r[k].src \in m + 1 .. m + n
  <2>1. \A i \in 1 .. l : o[i] \in Results BY <1>1
  <2>2. \A k \in 1 .. n : r[k].src \in m + 1 .. m + n
    <3> HIDE DEF n
    <3> QED BY <1>1 DEF n
  <2> QED BY <2>1, <2>2 DEF Results
<1> HIDE DEF t, l, n
<1>3. \A i \in 1 .. l : t[i].src \in Nat /\ t[i].src <= m BY <1>1, <1>2
<1>4. ASSUME NEW j \in 1 .. l PROVE Sooner(t, j) = Sooner(o, j) /\ t[j] = o[j]
  <2>1. \A i \in 1 .. j - 1 : t[i] = o[i]
    <3>1. \A i \in 1 .. j - 1 : i \in 1 .. l BY <1>1
    <3> QED BY <1>1, <3>1
  <2>2. t[j] = o[j] BY <1>1
  <2> QED BY <2>1, <2>2 DEF Sooner
<1>5. ASSUME NEW k \in 1 .. n
      PROVE  /\ Sooner(t, l + k) \subseteq {l + 1}
             /\ \A i \in Sooner(t, l + k) : t[i].src - t[l + k].src \in 1 .. nb
  <2> SUFFICES ASSUME NEW i \in Sooner(t, l + k)
               PROVE  i = l + 1 /\ t[i].src - t[l + k].src \in 1 .. nb
    OBVIOUS
  <2>1. i \in 1 .. (l + k) - 1 /\ t[i].src >= t[l + k].src BY DEF Sooner
  <2>2. t[l + k] = r[k] /\ r[k].src \in m + 1 .. m + n BY <1>1, <1>2
  <2>3. i > l
    <3>1. i \in 1 .. l => FALSE BY <1>3, <2>1, <2>2
    <3> QED BY <1>1, <2>1, <3>1
  <2>4. PICK h \in 1 .. k - 1 : i = l + h
    <3>1. i - l \in 1 .. k - 1 /\ i = l + (i - l) BY <1>1, <2>1, <2>3
    <3> QED BY <3>1
  <2>5. h \in 1 .. n BY <1>1
  <2>6. t[i] = r[h] /\ r[h].src >= r[k].src BY <1>1, <2>1, <2>2, <2>4, <2>5
  <2>7. CASE \A x \in 1 .. n : r[x].src = m + x
    <3>1. r[h].src = m + h /\ r[k].src = m + k BY <2>5, <2>7
    <3>2. h \in Nat /\ k \in Nat /\ m \in Nat /\ h < k BY <1>1, <2>4
    <3>3. m + h >= m + k BY <2>6, <3>1
    <3> QED BY <3>2, <3>3
  <2>8. CASE \A x \in 1 .. n : r[x].src = m + (IF x = 1 THEN n ELSE x - 1)
    <3>0. k \in 1 .. n /\ k # 1 BY <2>4
    <3>1. r[h].src = m + (IF h = 1 THEN n ELSE h - 1) /\ r[k].src = m + (k - 1)
      <4>1. r[h].src = m + (IF h = 1 THEN n ELSE h - 1) BY <2>5, <2>8
      <4>2. r[k].src = m + (IF k = 1 THEN n ELSE k - 1) BY <2>8, <3>0
      <4> QED BY <3>0, <4>1, <4>2
    <3>2. h = 1 BY <1>1, <2>4, <2>6, <3>1
    <3>3. r[h].src - r[k].src = n - (k - 1) /\ k >= 2 BY <1>1, <2>4, <3>1, <3>2
    <3>4. n <= nb + 1 BY DEF n
    <3>5. n - (k - 1) \in 1 .. nb BY <1>1, <3>3, <3>4
    <3> QED BY <2>2, <2>4, <2>6, <3>2, <3>3, <3>5
  <2> QED BY <2>7, <2>8 DEF n
<1>6. Ordered(t, nb)
  <2> SUFFICES ASSUME NEW j \in 1 .. l + n, t[j].src # NoSource
               PROVE  /\ Cardinality(Sooner(t, j)) <= 1
                      /\ \A i \in Sooner(t, j) : t[i].src - t[j].src \in 1 .. nb
    BY <1>1 DEF Ordered
  <2>1. CASE j \in 1 .. l
    <3>1. Sooner(t, j) = Sooner(o, j) /\ t[j] = o[j] BY <1>4, <2>1
    <3>2. \A i \in Sooner(o, j) : t[i] = o[i]
      <4>1. \A i \in Sooner(o, j) : i \in 1 .. l BY <1>1, <2>1 DEF Sooner
      <4> QED BY <1>1, <4>1
    <3>3. Cardinality(Sooner(o, j)) <= 1
          /\ \A i \in Sooner(o, j) : o[i].src - o[j].src \in 1 .. nb
      BY <1>1, <2>1, <3>1 DEF Ordered
    <3> QED BY <3>1, <3>2, <3>3
  <2>2. CASE j \notin 1 .. l
    <3>1. PICK k \in 1 .. n : j = l + k
      <4>1. j - l \in 1 .. n /\ j = l + (j - l) BY <1>1, <2>2
      <4> QED BY <4>1
    <3>2. /\ Sooner(t, j) \subseteq {l + 1}
          /\ \A i \in Sooner(t, j) : t[i].src - t[j].src \in 1 .. nb
      BY <1>5, <3>1
    <3>3. Sooner(t, j) = {} \/ Sooner(t, j) = {l + 1} BY <3>2
    <3>4. Cardinality({}) = 0 /\ Cardinality({l + 1}) = 1 BY FS_EmptySet, FS_Singleton
    <3>5. Cardinality(Sooner(t, j)) <= 1
      <4> DEFINE c == Cardinality(Sooner(t, j))
      <4>1. c = 0 \/ c = 1 BY <3>3, <3>4, Zenon
      <4> HIDE DEF c
      <4>2. c <= 1 BY <4>1
      <4> QED BY <4>2 DEF c
    <3> QED BY <3>2, <3>5
  <2> QED BY <2>1, <2>2
<1>7. ASSUME NEW j \in 1 .. l + n PROVE t[j].src <= m + n
  <2>1. CASE j \in 1 .. l BY <1>1, <1>3, <2>1
  <2>2. CASE j \notin 1 .. l
    <3>1. j - l \in 1 .. n /\ j = l + (j - l) BY <1>1, <2>2
    <3>2. t[j] = r[j - l] BY <1>1, <3>1
    <3> QED BY <1>2, <3>1, <3>2
  <2> QED BY <2>1, <2>2
<1> QED BY <1>1, <1>6, <1>7 DEF t, n

\* An empty buffer is in nobody's way.
LEMMA OrderedEmpty ==
  ASSUME NEW o \in Seq(Results), NEW m \in Nat, NEW nb \in Nat,
         Ordered(o, nb), \A j \in DOMAIN o : o[j].src <= m
  PROVE  /\ Ordered(Append(o, EmptyLast), nb)
         /\ \A j \in DOMAIN Append(o, EmptyLast) : Append(o, EmptyLast)[j].src <= m
<1> DEFINE t == Append(o, EmptyLast)
           l == Len(o)
<1>1. l \in Nat /\ DOMAIN o = 1 .. l /\ DOMAIN t = 1 .. l + 1 /\ t[l + 1] = EmptyLast
      /\ \A i \in 1 .. l : t[i] = o[i]
  BY EmptyIsResult
<1>2. t[l + 1].src = 0 BY <1>1, EmptyIsResult
<1> HIDE DEF t, l
<1>3. ASSUME NEW j \in 1 .. l
      PROVE  Sooner(t, j) = Sooner(o, j) /\ \A i \in Sooner(o, j) : t[i] = o[i]
  <2>1. \A i \in 1 .. j - 1 : i \in 1 .. l BY <1>1
  <2>2. t[j] = o[j] /\ \A i \in 1 .. j - 1 : t[i] = o[i] BY <1>1, <2>1
  <2> QED BY <2>2 DEF Sooner
<1>4. \A j \in 1 .. l + 1 : j \in 1 .. l \/ j = l + 1 BY <1>1
<1>5. Ordered(t, nb)
  <2> SUFFICES ASSUME NEW j \in 1 .. l, t[j].src # NoSource
               PROVE  /\ Cardinality(Sooner(t, j)) <= 1
                      /\ \A i \in Sooner(t, j) : t[i].src - t[j].src \in 1 .. nb
    BY <1>1, <1>2, <1>4 DEF Ordered, NoSource
  <2>1. t[j] = o[j] /\ j \in DOMAIN o BY <1>1
  <2>2. Cardinality(Sooner(o, j)) <= 1
        /\ \A i \in Sooner(o, j) : o[i].src - o[j].src \in 1 .. nb
    BY <2>1 DEF Ordered
  <2> QED BY <1>3, <2>1, <2>2
<1>6. \A j \in 1 .. l + 1 : t[j].src <= m BY <1>1, <1>2, <1>4
<1> QED BY <1>1, <1>5, <1>6 DEF t

\* Sources with a result, before and after.
LEMMA CodedPlaces ==
  /\ work.pc # "remove_batch" => Coded = Len(returned) + 0
  /\ work'.pc # "remove_batch" => Coded' = Len(returned') + 0
BY DEF Coded

\* How many sources have a result is a number.
LEMMA CodedCount ==
  ASSUME StreamInv
  PROVE  Coded \in Nat /\ Coded >= Len(returned) /\ Len(returned) \in Nat
<1>1. Len(returned) \in Nat BY DEF StreamInv, Types
<1>2. CASE work.pc = "remove_batch"
  <2>1. Len(work.batches[1]) \in Nat BY <1>2, SourcesOfBatch
  <2> QED BY <1>1, <1>2, <2>1 DEF Coded
<1>3. CASE work.pc # "remove_batch" BY <1>1, <1>3, CodedPlaces
<1> QED BY <1>2, <1>3

\* A step that delivers nothing.
LEMMA OutKept ==
  ASSUME StreamInv, OutInv, out' = out, ctx'.nb = ctx.nb, Coded' \in Nat, Coded' >= Coded
  PROVE  OutInv'
<1>1. Coded \in Nat BY CodedCount
<1>2. \A j \in DOMAIN out : out[j].src \in Nat
  <2>1. out \in Seq(Results) BY DEF StreamInv, Types
  <2>2. \A j \in DOMAIN out : out[j] \in Results BY <2>1
  <2> QED BY <2>2 DEF Results
<1>3. \A j \in DOMAIN out : out[j].src <= Coded' BY <1>1, <1>2 DEF OutInv
<1> QED BY <1>3 DEF OutInv

\* Every step keeps the results in order.
LEMMA OutNext ==
  ASSUME ~StopInCompletion, StreamInv, OutInv, [Next]_vars
  PROVE  OutInv'
<1>1. /\ Types /\ WorkTypes /\ Coded \in Nat /\ Coded >= Len(returned) /\ Len(returned) \in Nat
      /\ out \in Seq(Results) /\ ctx.nb \in Nat
  BY CodedCount DEF StreamInv, Types, B_MAX
<1>2. ASSUME work' = work, returned' = returned PROVE Coded' = Coded BY <1>2 DEF Coded
<1>3. ASSUME out' = Append(out, EmptyLast), ctx'.nb = ctx.nb, Coded' = Coded PROVE OutInv'
  <2>1. Ordered(Append(out, EmptyLast), ctx.nb)
        /\ \A j \in DOMAIN Append(out, EmptyLast) : Append(out, EmptyLast)[j].src <= Coded
    BY <1>1, OrderedEmpty DEF OutInv
  <2> QED BY <1>3, <2>1 DEF OutInv
<1>4. ASSUME NEW r \in Seq(Results), out' = out \o r, ctx'.nb = ctx.nb,
             Coded' = Coded + Len(r), Len(r) <= ctx.nb + 1,
             \/ \A k \in 1 .. Len(r) : r[k].src = Coded + k
             \/ \A k \in 1 .. Len(r) : r[k].src = Coded + (IF k = 1 THEN Len(r) ELSE k - 1)
      PROVE  OutInv'
  <2>1. Ordered(out \o r, ctx.nb)
        /\ \A j \in DOMAIN (out \o r) : (out \o r)[j].src <= Coded + Len(r)
    BY <1>1, <1>4, OrderedJoin DEF OutInv
  <2> QED BY <1>4, <2>1 DEF OutInv
<1>5. CASE QbufSource
  <2>1. out' = out /\ ctx' = ctx /\ work' = work /\ returned' = returned BY <1>5 DEF QbufSource
  <2> QED BY <1>1, <1>2, <2>1, OutKept
<1>6. CASE QbufCapture
  <2>1. ctx' = ctx /\ work' = work /\ returned' = returned
        /\ out' \in {out, Append(out, EmptyLast)}
    BY <1>6 DEF QbufCapture, LastBufferDone
  <2> QED BY <1>1, <1>2, <1>3, <2>1, OutKept
<1>7. CASE ForceKey
  <2>1. out' = out /\ ctx' = ctx /\ work' = work /\ returned' = returned
    BY <1>7 DEF ForceKey, stream
  <2> QED BY <1>1, <1>2, <2>1, OutKept
<1>8. CASE EncoderStop
  <2>1. ctx' = ctx /\ work' = work /\ returned' = returned BY <1>8 DEF EncoderStop
  <2>2. out' \in {out, Append(out, EmptyLast)}
    <3>1. CASE srcQ # << >> BY <1>8, <3>1 DEF EncoderStop
    <3>2. CASE srcQ = << >>
      <4>1. work.pc # "remove_dst" /\ LastOnNextBuffer
        BY <1>8, <3>2, StopFindsIdle DEF EncoderStop
      <4> QED BY <1>1, <4>1, LastNext
    <3> QED BY <3>1, <3>2
  <2> QED BY <1>1, <1>2, <1>3, <2>1, <2>2, OutKept
<1>9. CASE EncoderStart
  <2>1. out' = out /\ ctx' = ctx /\ work' = work /\ returned' = returned
    BY <1>9 DEF EncoderStart
  <2> QED BY <1>1, <1>2, <2>1, OutKept
<1>10. ASSUME NEW q \in {"out", "cap"}, StreamOn(q) PROVE OutInv'
  <2>1. work' = work /\ returned' = returned /\ out' = IF ctx' # ctx THEN << >> ELSE out
    BY <1>10 DEF StreamOn
  <2>2. CASE ctx' = ctx BY <1>1, <1>2, <2>1, <2>2, OutKept
  <2>3. CASE ctx' # ctx BY <2>1, <2>3 DEF OutInv, Ordered
  <2> QED BY <2>2, <2>3
<1>11. CASE StreamOffOut
  <2>1. /\ returned' = returned \o srcQ /\ work' = work /\ work.pc = "idle"
        /\ ctx' = [ctx EXCEPT !.session = FALSE]
        /\ m2m.draining => LastOnNextBuffer
        /\ ~m2m.draining => out' = out
    BY <1>11 DEF StreamOffOut, EndSession, StreamInv, JobPlace
  <2>2. ctx'.nb = ctx.nb BY <1>1, <2>1 DEF Types
  <2>3. Len(returned') >= Len(returned) /\ Len(returned') \in Nat
    <3>1. returned \in Seq(Nat) /\ srcQ \in Seq(Nat) BY <1>1 DEF Types
    <3>2. Len(returned') = Len(returned) + Len(srcQ) /\ Len(srcQ) \in Nat BY <2>1, <3>1
    <3> QED BY <1>1, <3>2
  <2>4. Coded' \in Nat /\ Coded' >= Coded
    <3>1. Coded = Len(returned) /\ Coded' = Len(returned') BY <1>1, <2>1, <2>3, CodedPlaces
    <3> QED BY <2>3, <3>1
  <2>5. out' \in {out, Append(out, EmptyLast)}
    <3>1. m2m.draining => out' \in {out, Append(out, EmptyLast)} BY <1>1, <2>1, LastNext
    <3> QED BY <2>1, <3>1
  <2>6. CASE out' = out BY <2>2, <2>4, <2>6, OutKept
  <2>7. CASE out' = Append(out, EmptyLast)
    <3>1. \A j \in DOMAIN out : out[j].src <= Coded'
      <4>1. \A j \in DOMAIN out : out[j].src \in Nat
        <5>1. \A j \in DOMAIN out : out[j] \in Results BY <1>1
        <5> QED BY <5>1 DEF Results
      <4>2. \A j \in DOMAIN out : out[j].src <= Coded BY DEF OutInv
      <4> QED BY <1>1, <2>4, <4>1, <4>2
    <3>2. Ordered(Append(out, EmptyLast), ctx.nb)
          /\ \A j \in DOMAIN Append(out, EmptyLast) : Append(out, EmptyLast)[j].src <= Coded'
      <4> DEFINE m == Coded'
      <4>1. m \in Nat /\ \A j \in DOMAIN out : out[j].src <= m BY <2>4, <3>1
      <4> HIDE DEF m
      <4>2. Ordered(Append(out, EmptyLast), ctx.nb)
            /\ \A j \in DOMAIN Append(out, EmptyLast) : Append(out, EmptyLast)[j].src <= m
        BY <1>1, <4>1, OrderedEmpty DEF OutInv
      <4> QED BY <4>2 DEF m
    <3> QED BY <2>2, <2>7, <3>2 DEF OutInv
  <2> QED BY <2>5, <2>6, <2>7
<1>12. CASE StreamOffCap
  <2>1. out' = out /\ work' = work /\ returned' = returned
        /\ ctx' = [ctx EXCEPT !.session = FALSE]
    BY <1>12 DEF StreamOffCap, EndSession
  <2>2. ctx'.nb = ctx.nb BY <1>1, <2>1 DEF Types
  <2> QED BY <1>1, <1>2, <2>1, <2>2, OutKept
<1>13. ASSUME out' = out, ctx'.nb = ctx.nb, returned' = returned,
              work.pc # "remove_batch", work'.pc # "remove_batch"
       PROVE  OutInv'
  <2>1. Coded' = Coded BY <1>13, CodedPlaces
  <2> QED BY <1>1, <1>13, <2>1, OutKept
<1>14. ASSUME job = "queued" PROVE work.pc = "idle" BY <1>14 DEF StreamInv, JobPlace
<1>15. CASE StartFrame
  <2>1. out' = out /\ ctx' = ctx /\ returned' = returned /\ work'.pc = "encode" /\ job = "queued"
    BY <1>15 DEF StartFrame, stream
  <2> QED BY <1>13, <1>14, <2>1
<1>16. CASE EncodeFrame
  <2>1. out' = out /\ ctx'.nb = ctx.nb /\ returned' = returned /\ work.pc = "encode"
        /\ work'.pc = "remove_src"
    BY <1>16, FrameEncoded
  <2> QED BY <1>13, <2>1
<1>17. CASE RemoveSource
  <2>1. out' = out /\ ctx' = ctx /\ returned' = returned /\ work.pc = "remove_src"
        /\ work' = [work EXCEPT !.pc = "remove_dst"]
    BY <1>17 DEF RemoveSource
  <2>2. work \in [pc : {"remove_src", "remove_dst"}, src : Nat, dst : Caps, result : Results]
    BY <1>1, <2>1, WorkShape
  <2>3. work'.pc = "remove_dst" BY <2>1, <2>2
  <2> QED BY <1>13, <2>1, <2>3
<1>18. CASE RemoveCapture
  <2>1. /\ work.pc = "remove_dst" /\ returned' = Append(returned, work.src) /\ JobFinish
        /\ out' \in {out, Append(out, work.result)} /\ ctx' = ctx
    BY <1>18 DEF RemoveCapture
  <2>2. work.result \in Results /\ work.src \in Nat BY <1>1, <2>1, WorkShape
  <2>3. work.result.src = Len(returned) + 1
    BY <2>1 DEF StreamInv, FramePlace, Taken
  <2>4. Coded = Len(returned) /\ Coded' = Len(returned) + 1
    <3>1. work'.pc = "idle" BY <2>1, FinishJob DEF Idle
    <3>2. Len(returned') = Len(returned) + 1
      <4>1. returned \in Seq(Nat) BY <1>1 DEF Types
      <4> QED BY <2>1, <2>2, <4>1
    <3> QED BY <1>1, <2>1, <3>1, <3>2, CodedPlaces
  <2>5. CASE out' = out BY <1>1, <2>1, <2>4, <2>5, OutKept
  <2>6. CASE out' = Append(out, work.result)
    <3> DEFINE r == << work.result >>
    <3>1. /\ r \in Seq(Results) /\ Len(r) = 1 /\ r[1] = work.result /\ out' = out \o r
      BY <1>1, <2>2, <2>6
    <3> HIDE DEF r
    <3>2. \A k \in 1 .. Len(r) : r[k].src = Coded + k
      <4>1. \A k \in 1 .. Len(r) : k = 1 BY <3>1
      <4> QED BY <2>3, <2>4, <3>1, <4>1
    <3>3. Coded' = Coded + Len(r) /\ Len(r) <= ctx.nb + 1 BY <1>1, <2>4, <3>1
    <3> QED BY <1>4, <2>1, <3>1, <3>2, <3>3
  <2> QED BY <2>1, <2>5, <2>6
<1>19. CASE PlanChanged
  <2>1. out' = out /\ ctx' = ctx /\ returned' = returned /\ JobFinish /\ job = "queued"
    BY <1>19 DEF PlanChanged, stream
  <2>2. work'.pc = "idle" BY <2>1, FinishJob DEF Idle
  <2> QED BY <1>13, <1>14, <2>1, <2>2
<1>20. CASE StartBatches
  <2>1. out' = out /\ ctx'.nb = ctx.nb /\ returned' = returned /\ job = "queued"
    BY <1>20, BatchesStarted
  <2>2. work'.pc # "remove_batch"
    <3>1. CASE ave_b_next = "HOLD"
      <4>1. JobFinish BY <1>20, <3>1 DEF StartBatches
      <4> QED BY <4>1, FinishJob DEF Idle
    <3>2. CASE ave_b_next # "HOLD" BY <1>20, <3>2, Planned
    <3> QED BY <3>1, <3>2
  <2> QED BY <1>13, <1>14, <2>1, <2>2
<1>21. CASE EncodeBatch
  <2> DEFINE b == Head(work.batches)
  <2>1. work.pc = "batch" /\ work' = [work EXCEPT !.pc = "remove_batch"] /\ ctx' = ctx
        /\ returned' = returned
    BY <1>21, BatchEncoded
  <2>2. /\ b = work.batches[1] /\ Len(b) \in Nat /\ Len(b) >= 1 /\ Len(b) <= ctx.nb + 1
        /\ Taken = Len(returned)
        /\ work \in [pc : {"clear", "batch", "remove_batch"}, srcs : Seq(Nat), batches : Seq(Seq(Frames))]
    BY <1>1, <2>1, SourcesOfBatch
  <2>3. work'.pc = "remove_batch" /\ work'.batches = work.batches BY <2>1, <2>2
  <2>4. Coded = Len(returned) /\ Coded' = Len(returned) + Len(b)
    BY <1>1, <2>1, <2>3 DEF Coded
  <2>5. PICK res \in Seq(Results), n \in 0 .. Len(b) :
          /\ Len(res) = Len(b) /\ out' = out \o res
          /\ \A k \in 1 .. Len(b) :
               /\ n = 0 => res[k].src = Taken + k
               /\ n # 0 => res[k].src = Taken + (IF k = 1 THEN Len(b) ELSE k - 1)
    BY <1>21, BatchEncoded
  <2>6. \/ \A k \in 1 .. Len(res) : res[k].src = Coded + k
        \/ \A k \in 1 .. Len(res) : res[k].src = Coded + (IF k = 1 THEN Len(res) ELSE k - 1)
    <3>1. CASE n = 0 BY <2>2, <2>4, <2>5, <3>1
    <3>2. CASE n # 0 BY <2>2, <2>4, <2>5, <3>2
    <3> QED BY <3>1, <3>2
  <2>7. Coded' = Coded + Len(res) /\ Len(res) <= ctx.nb + 1 BY <2>2, <2>4, <2>5
  <2> QED BY <1>4, <2>1, <2>5, <2>6, <2>7
<1>22. CASE RemoveBatch
  <2> DEFINE n == Len(work.batches[1])
  <2>1. /\ work.pc = "remove_batch" /\ n \in Nat /\ Len(returned') = Len(returned) + n
        /\ out' = out /\ ctx' = ctx
        /\ Len(work.batches) = 1 => JobFinish
        /\ Len(work.batches) = 2 => work'.pc = "batch"
    BY <1>22, BatchRemoved
  <2>2. Len(work.batches) \in 1 .. 2 BY <2>1, SourcesOfBatch
  <2>3. work'.pc # "remove_batch"
    <3>1. JobFinish => work'.pc = "idle" BY FinishJob DEF Idle
    <3>2. Len(work.batches) = 1 \/ Len(work.batches) = 2 BY <2>2
    <3> QED BY <2>1, <3>1, <3>2
  <2>4. Coded' = Len(returned) + n /\ Coded = Len(returned) + n
    <3>1. Coded' = Len(returned') BY <1>1, <2>1, <2>3, CodedPlaces
    <3> QED BY <2>1, <3>1 DEF Coded
  <2> QED BY <1>1, <2>1, <2>4, OutKept
<1>23. CASE Suspend
  <2>1. out' = out /\ work' = work /\ returned' = returned
        /\ ctx' \in {ctx, [ctx EXCEPT !.session = FALSE, !.pm_lost = TRUE]}
    BY <1>23 DEF Suspend, stream
  <2>2. ctx'.nb = ctx.nb BY <1>1, <2>1 DEF Types
  <2> QED BY <1>1, <1>2, <2>1, <2>2, OutKept
<1>24. CASE Resume
  <2>1. out' = out /\ ctx' = ctx /\ work' = work /\ returned' = returned
    BY <1>24 DEF Resume, stream
  <2> QED BY <1>1, <1>2, <2>1, OutKept
<1>25. CASE UNCHANGED vars
  <2>1. out' = out /\ ctx' = ctx /\ work' = work /\ returned' = returned BY <1>25 DEF vars
  <2> QED BY <1>1, <1>2, <2>1, OutKept
<1>26. CASE ClearForceKey
  <2>1. out' = out /\ ctx' = ctx /\ returned' = returned /\ work.pc = "clear"
        /\ work'.pc = "batch"
    BY <1>26, ForceKeyCleared
  <2>2. Coded = Len(returned) /\ Coded' = Len(returned) BY <1>1, <2>1, CodedPlaces
  <2> QED BY <1>1, <2>1, <2>2, OutKept
<1> QED
  BY <1>5, <1>6, <1>7, <1>8, <1>9, <1>10, <1>11, <1>12, <1>15, <1>16, <1>17, <1>18, <1>19,
            <1>20, <1>21, <1>22, <1>23, <1>24, <1>25, <1>26 DEF Next, RunWork, Client

\* CAPTURE comes in decode order: only an anchor overtakes, by its mini-GOP.
THEOREM ReorderAlwaysBounded == ASSUME ~StopInCompletion PROVE Spec => []ReorderBounded
<1>1. Init => OutInv BY DEF Init, OutInv, Ordered
<1>2. StreamInv /\ OutInv /\ [Next]_vars => OutInv' BY OutNext
<1>3. OutInv => ReorderBounded BY DEF OutInv, Ordered, Sooner, ReorderBounded
<1> QED BY <1>1, <1>2, <1>3, StreamInvariant, PTL DEF Spec

-----------------------------------------------------------------------------
\* The sixth layer.

\* Frames that were counted ahead of a suffix join it.
LEMMA RunJoined ==
  ASSUME NEW o \in Seq(Results), NEW r \in Seq(Results), NEW a \in Nat, NEW l \in Int,
         RunBound(o, Len(r) + a, l)
  PROVE  RunBound(o \o r, a, l)
<1> DEFINE t == o \o r
           n == Len(o)
           m == Len(r)
<1>1. /\ n \in Nat /\ m \in Nat /\ Len(t) = n + m
      /\ \A i \in 1 .. n : t[i] = o[i]
  BY Joined
<1>2. \A j \in 1 .. n + 1 : PlainFrom(o, j) => n + 1 - j + (m + a) <= l BY DEF RunBound
<1>3. PlainFrom(o, n + 1) BY <1>1 DEF PlainFrom
<1> HIDE DEF t, n, m
<1>4. (m + a) <= l
  <2>1. n + 1 \in 1 .. n + 1 BY <1>1
  <2>2. n + 1 - (n + 1) + (m + a) <= l BY <1>2, <1>3, <2>1
  <2> QED BY <1>1, <2>2
<1> SUFFICES ASSUME NEW j \in 1 .. (n + m) + 1, PlainFrom(t, j) PROVE (n + m) + 1 - j + a <= l
  BY <1>1 DEF RunBound, t
<1>5. CASE j <= n
  <2>1. \A k \in j .. n : k \in 1 .. n /\ k \in j .. n + m BY <1>1
  <2>2. \A k \in j .. n + m : Plain(t[k]) BY <1>1 DEF PlainFrom
  <2>3. \A k \in j .. n : Plain(o[k]) BY <1>1, <2>1, <2>2
  <2>4. PlainFrom(o, j) BY <2>3 DEF PlainFrom, n
  <2>5. j \in 1 .. n + 1 BY <1>1, <1>5
  <2>6. n + 1 - j + (m + a) <= l BY <1>2, <2>4, <2>5
  <2> QED BY <1>1, <2>6
<1>6. CASE ~(j <= n) BY <1>1, <1>4, <1>6
<1> QED BY <1>5, <1>6

\* Joined to suffixes that are short enough, they make no long row.
LEMMA RunsJoined ==
  ASSUME NEW o \in Seq(Results), NEW r \in Seq(Results), NEW g \in Nat, g > 0,
         Runs(o, g), RunBound(o, Len(r), g - 1)
  PROVE  Runs(o \o r, g)
<1> DEFINE t == o \o r
           n == Len(o)
           m == Len(r)
<1>1. /\ n \in Nat /\ m \in Nat /\ Len(t) = n + m
      /\ \A i \in 1 .. n : t[i] = o[i]
  BY Joined
<1>2. /\ \A j \in 1 .. n + 1 : PlainFrom(o, j) => n + 1 - j + m <= g - 1
      /\ \A i \in 1 .. n - g + 1 : \E k \in i .. i + g - 1 : ~Plain(o[k])
  BY DEF RunBound, Runs
<1>3. PlainFrom(o, n + 1) BY <1>1 DEF PlainFrom
<1>4. \A j : (\A k \in j .. n : Plain(o[k])) => PlainFrom(o, j) BY DEF PlainFrom
<1> SUFFICES ASSUME NEW i \in 1 .. (n + m) - g + 1, \A k \in i .. i + g - 1 : Plain(t[k])
             PROVE  FALSE
  BY <1>1 DEF Runs
<1> HIDE DEF t, n, m
<1>5. CASE i + g - 1 <= n
  <2>1. i \in 1 .. n - g + 1 BY <1>1, <1>5
  <2>2. PICK k \in i .. i + g - 1 : ~Plain(o[k]) BY <1>2, <2>1
  <2>3. k \in 1 .. n BY <1>1, <1>5, <2>2
  <2> QED BY <1>1, <2>2, <2>3
<1>6. CASE ~(i + g - 1 <= n) /\ i <= n
  <2>1. \A k \in i .. n : k \in 1 .. n /\ k \in i .. i + g - 1 BY <1>1, <1>6
  <2>2. PlainFrom(o, i) BY <1>1, <1>4, <2>1
  <2>3. i \in 1 .. n + 1 BY <1>1, <1>6
  <2>4. n + 1 - i + m <= g - 1 BY <1>2, <2>2, <2>3
  <2> QED BY <1>1, <2>4
<1>7. CASE ~(i <= n)
  <2>1. n + 1 \in 1 .. n + 1 BY <1>1
  <2>2. n + 1 - (n + 1) + m <= g - 1 BY <1>2, <1>3, <2>1
  <2> QED BY <1>1, <1>7, <2>2
<1> QED BY <1>5, <1>6, <1>7

\* A frame that is not plain ends a suffix, and makes no row.
LEMMA RunCut ==
  ASSUME NEW o \in Seq(Results), NEW r \in Seq(Results), Len(r) = 1, ~Plain(r[1])
  PROVE  /\ \A a \in Nat, l \in Int : a <= l => RunBound(o \o r, a, l)
         /\ \A g \in Nat : g > 0 /\ Runs(o, g) => Runs(o \o r, g)
<1> DEFINE t == o \o r
           n == Len(o)
<1>1. /\ n \in Nat /\ Len(t) = n + 1 /\ \A i \in 1 .. n : t[i] = o[i]
      /\ t[n + 1] = r[1]
  BY Joined
<1>2. ASSUME NEW j \in 1 .. (n + 1) + 1, PlainFrom(t, j) PROVE j = (n + 1) + 1
  <2>1. j # (n + 1) + 1 => n + 1 \in j .. n + 1
    <3> HIDE DEF t, n
    <3> QED BY <1>1
  <2> QED BY <1>1, <1>2, <2>1 DEF PlainFrom
<1>3. ASSUME NEW a \in Nat, NEW l \in Int, a <= l PROVE RunBound(t, a, l)
  <2> SUFFICES ASSUME NEW j \in 1 .. (n + 1) + 1, PlainFrom(t, j) PROVE (n + 1) + 1 - j + a <= l
    BY <1>1 DEF RunBound
  <2>1. j = (n + 1) + 1 BY <1>2
  <2> HIDE DEF t, n
  <2> QED BY <1>1, <1>3, <2>1
<1>4. ASSUME NEW g \in Nat, g > 0, Runs(o, g) PROVE Runs(t, g)
  <2> SUFFICES ASSUME NEW i \in 1 .. (n + 1) - g + 1
               PROVE  \E k \in i .. i + g - 1 : ~Plain(t[k])
    BY <1>1 DEF Runs
  <2>1. CASE i + g - 1 <= n
    <3>1. i \in 1 .. n - g + 1 BY <1>1, <2>1
    <3>2. PICK k \in i .. i + g - 1 : ~Plain(o[k]) BY <1>4, <3>1 DEF Runs
    <3>3. k \in 1 .. n BY <1>1, <2>1, <3>2
    <3> QED BY <1>1, <3>2, <3>3
  <2>2. CASE ~(i + g - 1 <= n)
    <3>1. n + 1 \in i .. i + g - 1 BY <1>1, <1>4, <2>2
    <3> QED BY <1>1, <3>1
  <2> QED BY <2>1, <2>2
<1> QED BY <1>3, <1>4

\* Between two multiples the remainder counts up by one.
LEMMA NextMod ==
  ASSUME NEW g \in Nat, g > 0, NEW n \in Nat, n % g # 0
  PROVE  n > 0 /\ n % g = ((n - 1) % g) + 1 /\ n % g < g /\ (n - 1) % g \in Nat
<1>1. n > 0
  <2>1. 0 % g = 0 OBVIOUS
  <2> QED BY <2>1
<1>2. \A x \in Nat : (g * x) % g = 0 OBVIOUS
<1>3. \A x \in Nat : \A y \in Nat : y < g => (g * x + y) % g = y OBVIOUS
<1> DEFINE q == (n - 1) \div g
           s == (n - 1) % g
<1>4. n - 1 = g * q + s /\ q \in Nat /\ s \in Nat /\ s < g
  <2>1. n - 1 \in Nat BY <1>1
  <2>2. \A x \in Nat : /\ x = g * (x \div g) + (x % g)
                       /\ x \div g \in Nat /\ x % g \in Nat /\ x % g < g
    OBVIOUS
  <2> QED BY <2>1, <2>2
<1> HIDE DEF q, s
<1>5. CASE s + 1 = g
  <2>1. n = g * (q + 1) BY <1>4, <1>5
  <2> QED BY <1>2, <1>4, <2>1
<1>6. CASE s + 1 # g
  <2>1. n = g * q + (s + 1) /\ s + 1 \in Nat /\ s + 1 < g BY <1>4, <1>6
  <2>2. n % g = s + 1 BY <1>3, <1>4, <2>1
  <2> QED BY <1>1, <1>4, <2>1, <2>2 DEF s
<1> QED BY <1>5, <1>6

\* A bound is one on what is still to come; it may be loosened, and moved.
LEMMA RunEased ==
  ASSUME NEW o \in Seq(Results), NEW a \in Nat, NEW l \in Int, RunBound(o, a, l)
  PROVE  /\ a <= l
         /\ \A b \in Nat, m \in Int : b - a <= m - l => RunBound(o, b, m)
<1>1. Len(o) \in Nat /\ Len(o) + 1 \in 1 .. Len(o) + 1 /\ PlainFrom(o, Len(o) + 1)
  BY DEF PlainFrom
<1>2. Len(o) + 1 - (Len(o) + 1) + a <= l BY <1>1 DEF RunBound
<1>3. ASSUME NEW b \in Nat, NEW m \in Int, b - a <= m - l PROVE RunBound(o, b, m)
  <2> SUFFICES ASSUME NEW j \in 1 .. Len(o) + 1, PlainFrom(o, j) PROVE Len(o) + 1 - j + b <= m
    BY DEF RunBound
  <2>1. Len(o) + 1 - j + a <= l BY DEF RunBound
  <2> QED BY <1>1, <1>3, <2>1
<1> QED BY <1>1, <1>2, <1>3

\* One more frame that is not plain changes neither bound nor rows.
LEMMA RunKept ==
  ASSUME NEW o \in Seq(Results), NEW c \in Results, ~Plain(c)
  PROVE  /\ \A a \in Nat, l \in Int : RunBound(o, a, l) => RunBound(Append(o, c), a, l)
         /\ \A g \in Nat : g > 0 /\ Runs(o, g) => Runs(Append(o, c), g)
<1> DEFINE r == << c >>
<1>1. r \in Seq(Results) /\ Len(r) = 1 /\ r[1] = c /\ Append(o, c) = o \o r OBVIOUS
<1> HIDE DEF r
<1>2. ~Plain(r[1]) BY <1>1
<1>3. ASSUME NEW a \in Nat, NEW l \in Int, RunBound(o, a, l) PROVE RunBound(o \o r, a, l)
  <2>1. a <= l BY <1>3, RunEased
  <2> QED BY <1>1, <1>2, <2>1, RunCut
<1>4. \A g \in Nat : g > 0 /\ Runs(o, g) => Runs(o \o r, g) BY <1>1, <1>2, RunCut
<1> QED BY <1>1, <1>3, <1>4

\* The first frame delivered stays the first.
LEMMA OpensKept ==
  ASSUME NEW o \in Seq(Results), NEW c \in Results, Opens(o),
         Delivered(c) /\ Silent(o) => c.key
  PROVE  Opens(Append(o, c)) /\ (Silent(Append(o, c)) <=> Silent(o) /\ ~Delivered(c))
<1> DEFINE t == Append(o, c)
           n == Len(o)
<1>1. /\ n \in Nat /\ DOMAIN o = 1 .. n /\ DOMAIN t = 1 .. n + 1 /\ t[n + 1] = c
      /\ \A i \in 1 .. n : t[i] = o[i]
  OBVIOUS
<1>2. Silent(o) <=> \A j \in 1 .. n : ~Delivered(o[j]) BY <1>1 DEF Silent
<1>3. \A j \in 1 .. n : Delivered(o[j]) /\ (\A i \in 1 .. j - 1 : ~Delivered(o[i])) => o[j].key
  BY <1>1 DEF Opens
<1> HIDE DEF t, n
<1>4. \A j \in 1 .. n + 1 : j \in 1 .. n \/ j = n + 1 BY <1>1
<1>5. Silent(t) <=> Silent(o) /\ ~Delivered(c)
  <2>1. n + 1 \in 1 .. n + 1 /\ \A j \in 1 .. n : j \in 1 .. n + 1 BY <1>1
  <2> QED BY <1>1, <1>2, <1>4, <2>1 DEF Silent
<1>6. ASSUME NEW j \in 1 .. n + 1, Delivered(t[j]), \A i \in 1 .. j - 1 : ~Delivered(t[i])
      PROVE  t[j].key
  <2>1. CASE j \in 1 .. n
    <3>1. \A i \in 1 .. j - 1 : i \in 1 .. n BY <1>1, <2>1
    <3> QED BY <1>1, <1>3, <1>6, <2>1, <3>1
  <2>2. CASE j = n + 1
    <3>1. (n + 1) - 1 = n BY <1>1
    <3> QED BY <1>1, <1>2, <1>6, <2>2, <3>1
  <2> QED BY <1>4, <2>1, <2>2
<1> QED BY <1>1, <1>5, <1>6 DEF Opens, t

\* An empty LAST buffer is no frame.
LEMMA EmptyNotPlain == EmptyLast \in Results /\ ~Plain(EmptyLast) /\ ~Delivered(EmptyLast)
BY EmptyIsResult DEF Plain, Delivered, NoSource

\* What the sixth layer counts are numbers.
LEMMA KeyTypes ==
  ASSUME StreamInv, KeyInv
  PROVE  /\ Types /\ WorkTypes /\ out \in Seq(Results) /\ ctl.gop \in Nat
         /\ ctx.nb \in Nat /\ ctx.frame_n \in Nat /\ ctx.plan \in Plans
         /\ ctx.plan.n_held \in Nat /\ ctx.plan.dist \in Nat /\ ctx.plan.started \in BOOLEAN
         /\ Ahead \in Nat /\ Sent \in Int /\ Number \in Nat
         /\ ctl.gop > 0 => Since \in Nat /\ Since < ctl.gop
<1>1. Types /\ WorkTypes BY DEF StreamInv
<1>2. out \in Seq(Results) /\ ctl.gop \in Nat /\ ctx.nb \in Nat /\ ctx.frame_n \in Nat
      /\ ctx.plan \in Plans
  <2>1. /\ out \in Seq(Results) /\ ctl \in [b_frames : BFrames, gop : GopSizes]
        /\ ctx \in [session : BOOLEAN, nb : 0 .. B_MAX, plan : Plans, frame_n : Nat,
                    pm_lost : BOOLEAN]
    BY <1>1 DEF Types
  <2>2. ctl.gop \in GopSizes /\ ctx.nb \in 0 .. B_MAX /\ ctx.plan \in Plans /\ ctx.frame_n \in Nat
    BY <2>1
  <2>3. ctl.gop \in Nat BY <2>2, GopSizesAssumption
  <2>4. ctx.nb \in Nat BY <2>2 DEF B_MAX
  <2> QED BY <2>1, <2>2, <2>3, <2>4
<1>3. ctx.plan.n_held \in Nat /\ ctx.plan.dist \in Nat /\ ctx.plan.started \in BOOLEAN
  BY <1>2 DEF Plans
<1>4. Ahead \in Nat
  <2>1. work.pc \in {"clear", "batch"} => Len(work.batches[1]) \in Nat BY SourcesOfBatch
  <2> QED BY <2>1 DEF Ahead
<1>5. Sent \in Int BY <1>3 DEF Sent
<1>6. Number \in Nat
  <2>1. FrameInHand => ctx.frame_n > 0 BY DEF KeyInv, FrameKeys
  <2> QED BY <1>2, <2>1 DEF Number
<1>7. ctl.gop > 0 => Since \in Nat /\ Since < ctl.gop
  <2>1. \A x \in Nat : \A g \in Nat : g > 0 => x % g \in Nat /\ x % g < g OBVIOUS
  <2>2. Number # 0 => Number - 1 \in Nat BY <1>6
  <2> QED BY <1>2, <2>1, <2>2 DEF Since
<1> QED BY <1>1, <1>2, <1>3, <1>4, <1>5, <1>6, <1>7

\* Steps of neither the work nor the planner, which deliver nothing or an empty buffer.
LEMMA KeysKept ==
  ASSUME StreamInv, KeyInv, out' \in {out, Append(out, EmptyLast)}, work' = work, ctl' = ctl,
         ctx'.nb = ctx.nb, ctx'.plan = ctx.plan, ctx'.frame_n = ctx.frame_n
  PROVE  KeyInv'
<1>1. /\ out \in Seq(Results) /\ ctl.gop \in Nat /\ Ahead \in Nat /\ Sent \in Int
      /\ ctl.gop > 0 => Since \in Nat
  BY KeyTypes
<1>2. /\ \A a \in Nat, l \in Int : RunBound(out, a, l) => RunBound(out', a, l)
      /\ ctl.gop > 0 /\ Runs(out, ctl.gop) => Runs(out', ctl.gop)
      /\ Opens(out) => Opens(out') /\ (Silent(out') => Silent(out))
  <2>1. CASE out' = out BY <2>1
  <2>2. CASE out' = Append(out, EmptyLast)
    BY <1>1, <2>2, EmptyNotPlain, RunKept, OpensKept
  <2> QED BY <2>1, <2>2
<1>3. /\ FrameInHand' = FrameInHand /\ Number' = Number /\ Since' = Since
      /\ Ahead' = Ahead /\ KeyAhead' = KeyAhead /\ Sent' = Sent
      /\ BatchKinds' = BatchKinds /\ PlanKeys' = PlanKeys
      /\ \A n : Due(n)' = Due(n)
  BY DEF FrameInHand, Number, Since, Ahead, KeyAhead, Sent, BatchKinds, PlanKeys, Due
<1>4. FrameKeys'
  <2>1. FrameKeys BY DEF KeyInv
  <2>2. ctl.gop > 0 => (RunBound(out, 0, Since) => RunBound(out', 0, Since)) BY <1>1, <1>2
  <2> QED BY <1>2, <1>3, <2>1, <2>2 DEF FrameKeys, Due
<1>5. BatchKeys'
  <2>1. ctl.gop - 1 \in Int BY <1>1
  <2> QED BY <1>1, <1>2, <1>3, <2>1 DEF KeyInv, BatchKeys
<1> QED BY <1>2, <1>3, <1>4, <1>5 DEF KeyInv

\* Steps that leave the planner alone and are not of its batches.
LEMMA BatchKeysKept ==
  ASSUME StreamInv, KeyInv, ctl' = ctl, ctx'.nb = ctx.nb, ctx'.plan = ctx.plan,
         work.pc \notin {"clear", "batch", "remove_batch"}, work'.pc \notin {"clear", "batch", "remove_batch"},
         ctx.nb > 0 => \A a \in Nat, l \in Int : RunBound(out, a, l) => RunBound(out', a, l)
  PROVE  BatchKinds' /\ PlanKeys' /\ BatchKeys'
<1>1. ctl.gop \in Nat /\ Sent \in Int BY KeyTypes
<1>2. Ahead = 0 /\ Ahead' = 0 /\ ~KeyAhead /\ ~KeyAhead' /\ Sent' = Sent
  BY DEF Ahead, KeyAhead, Sent
<1>3. BatchKinds' /\ PlanKeys' BY DEF KeyInv, BatchKinds, PlanKeys
<1>4. BatchKeys'
  <2>1. ctl.gop - 1 \in Int BY <1>1
  <2> QED BY <1>1, <1>2, <2>1 DEF KeyInv, BatchKeys
<1> QED BY <1>3, <1>4

\* Steps of the one-frame path that deliver nothing.
LEMMA FrameStep ==
  ASSUME StreamInv, KeyInv, out' = out, ctl' = ctl, ctx'.nb = ctx.nb, ctx'.plan = ctx.plan,
         work.pc \notin {"clear", "batch", "remove_batch"}, work'.pc \notin {"clear", "batch", "remove_batch"},
         Number' = Number,
         FrameInHand' => /\ ctx.nb = 0 /\ ctx'.frame_n > 0
                         /\ Due(ctx'.frame_n - 1) => work'.result.key,
         work'.pc = "encode" => (Due(ctx'.frame_n) => work'.idr)
  PROVE  KeyInv'
<1>1. BatchKinds' /\ PlanKeys' /\ BatchKeys' BY BatchKeysKept
<1>2. Since' = Since BY DEF Since
<1>3. FrameKeys'
  <2>1. FrameKeys BY DEF KeyInv
  <2> QED BY <1>2, <2>1 DEF FrameKeys, Due
<1> QED BY <1>1, <1>3 DEF KeyInv

\* A frame is counted when it is coded, by a session.
LEMMA FrameCounted ==
  ASSUME StreamInv, EncodeFrame
  PROVE  /\ work'.result.ok \in BOOLEAN /\ (work'.result.ok => ctx.session)
         /\ ctx'.frame_n = IF work'.result.ok THEN ctx.frame_n + 1 ELSE ctx.frame_n
         /\ work'.result.key <=> work'.result.ok /\ work.idr
<1>1. PICK o \in EncodeOutcomes :
        /\ ctx' = [ctx EXCEPT !.frame_n = FrameCount(o = "ok")]
        /\ work' = [pc |-> "remove_src", src |-> work.src, dst |-> work.dst,
                    result |-> Capture(work.src, o = "ok", o = "ok" /\ work.idr,
                                       IsLastDraining(work.src))]
  BY DEF EncodeFrame
<1>2. Types BY DEF StreamInv
<1>3. work'.result.ok = (o = "ok") /\ work'.result.key = (o = "ok" /\ work.idr)
  BY <1>1 DEF Capture
<1>4. o = "ok" => ctx.session BY DEF EncodeOutcomes
<1>5. ctx'.frame_n = FrameCount(o = "ok") BY <1>1, <1>2 DEF Types
<1> QED BY <1>3, <1>4, <1>5 DEF FrameCount

\* The frame that was coded goes to the client: plain only if it is not due.
LEMMA FrameDelivered ==
  ASSUME StreamInv, CaptureInv, KeyInv, RemoveCapture PROVE KeyInv'
<1> DEFINE c == work.result
<1>1. /\ out \in Seq(Results) /\ ctl.gop \in Nat /\ ctx.nb \in Nat /\ ctx.frame_n \in Nat
      /\ Number \in Nat /\ (ctl.gop > 0 => Since \in Nat /\ Since < ctl.gop)
      /\ Types /\ WorkTypes
  BY KeyTypes
<1>2. work.pc = "remove_dst" /\ ctl' = ctl /\ ctx' = ctx /\ JobFinish BY DEF RemoveCapture
<1>3. work'.pc = "idle" BY <1>2, FinishJob DEF Idle
<1>4. work.dst = capQ[1] /\ capQ # << >> BY <1>2 DEF CaptureInv, CapturePlace
<1>5. capOwner[work.dst] = "driver"
  <2>1. capQ \in Seq(Caps) BY <1>1 DEF Types
  <2>2. 1 \in DOMAIN capQ BY <1>4, <2>1, HeadTail
  <2>3. work.dst \in Range(capQ) BY <1>4, <2>2 DEF Range
  <2> QED BY <2>3 DEF CaptureInv, CapturesConserved
<1>6. out' = Append(out, c) BY <1>5 DEF RemoveCapture
<1>7. c \in Results /\ c.src > 0
  <2>1. c \in Results BY <1>1, <1>2, WorkShape
  <2>2. c.src = Taken /\ Taken = Len(returned) + 1
    BY <1>2 DEF StreamInv, FramePlace, Taken
  <2>3. Len(returned) \in Nat BY <1>1 DEF Types
  <2> QED BY <2>1, <2>2, <2>3
<1>8. (FrameInHand <=> c.ok) /\ (Delivered(c) <=> c.ok)
  BY <1>2, <1>7 DEF FrameInHand, Delivered, NoSource
<1>9. FrameKeys BY DEF KeyInv
<1>10. ~FrameInHand' /\ Number' = ctx.frame_n BY <1>2, <1>3 DEF FrameInHand, Number
<1> HIDE DEF c
<1>11. CASE ~c.ok
  <2>1. ~Plain(c) /\ ~Delivered(c) BY <1>8, <1>11 DEF Plain
  <2>2. /\ \A a \in Nat, l \in Int : RunBound(out, a, l) => RunBound(out', a, l)
        /\ ctl.gop > 0 /\ Runs(out, ctl.gop) => Runs(out', ctl.gop)
        /\ Opens(out) => Opens(out') /\ (Silent(out') => Silent(out))
    BY <1>1, <1>6, <1>7, <2>1, RunKept, OpensKept
  <2>3. Number' = Number BY <1>8, <1>10, <1>11 DEF Number
  <2>4. Since' = Since BY <1>2, <2>3 DEF Since
  <2>5. ctl.gop > 0 => (RunBound(out, 0, Since) => RunBound(out', 0, Since)) BY <1>1, <2>2
  <2>6. FrameKeys' BY <1>2, <1>3, <1>9, <1>10, <2>2, <2>3, <2>4, <2>5 DEF FrameKeys
  <2>7. BatchKinds' /\ PlanKeys' /\ BatchKeys' BY <1>2, <1>3, <2>2, BatchKeysKept
  <2> QED BY <1>2, <2>2, <2>6, <2>7 DEF KeyInv
<1>12. CASE c.ok
  <2>1. /\ ctx.nb = 0 /\ Number = ctx.frame_n - 1 /\ Number' = Number + 1
        /\ Due(Number) => c.key
    <3>1. Number = ctx.frame_n - 1 /\ ctx.nb = 0 /\ (Due(ctx.frame_n - 1) => c.key)
      BY <1>8, <1>9, <1>12 DEF FrameKeys, Number, c
    <3> QED BY <1>1, <1>10, <3>1
  <2>2. Opens(out) /\ (Silent(out) => Number = 0) /\ (ctl.gop > 0 => RunBound(out, 0, Since))
    BY <1>9, <2>1 DEF FrameKeys
  <2>3. Opens(out') /\ ~Silent(out')
    <3>1. Delivered(c) /\ Silent(out) => c.key BY <2>1, <2>2 DEF Due
    <3> QED BY <1>1, <1>6, <1>7, <1>8, <1>12, <2>2, <3>1, OpensKept
  <2>4. ASSUME ctl.gop > 0 PROVE RunBound(out', 0, Since') /\ Runs(out', ctl.gop)
    <3>1. Since' = Number % ctl.gop /\ Since' \in Nat
      <4>1. Number + 1 # 0 /\ (Number + 1) - 1 = Number BY <1>1
      <4>2. \A x \in Nat : \A g \in Nat : g > 0 => x % g \in Nat OBVIOUS
      <4> QED BY <1>1, <1>2, <2>1, <2>4, <4>1, <4>2 DEF Since
    <3>2. Runs(out, ctl.gop) BY <2>4 DEF KeyInv
    <3>3. CASE ~Plain(c)
      <4> DEFINE r == << c >>
      <4>1. r \in Seq(Results) /\ Len(r) = 1 /\ r[1] = c /\ out' = out \o r
        BY <1>1, <1>6, <1>7
      <4> HIDE DEF r
      <4>2. ~Plain(r[1]) /\ 0 \in Nat /\ Since' \in Int /\ 0 <= Since' BY <3>1, <3>3, <4>1
      <4> QED BY <1>1, <2>4, <3>2, <4>1, <4>2, RunCut
    <3>4. CASE Plain(c)
      <4>1. ~Due(Number) BY <2>1, <3>4 DEF Plain
      <4>2. Number # 0 /\ Number % ctl.gop # 0 BY <2>4, <4>1 DEF Due
      <4>3. Since' = Since + 1 /\ Since' < ctl.gop
        <5>1. Number % ctl.gop = ((Number - 1) % ctl.gop) + 1 /\ Number % ctl.gop < ctl.gop
          BY <1>1, <2>4, <4>2, NextMod
        <5> QED BY <3>1, <4>2, <5>1 DEF Since
      <4> DEFINE r == << c >>
      <4>4. r \in Seq(Results) /\ Len(r) = 1 /\ out' = out \o r BY <1>1, <1>6, <1>7
      <4> HIDE DEF r
      <4>5. RunBound(out, 1, Since') /\ RunBound(out, 1, ctl.gop - 1)
        <5>1. RunBound(out, 0, Since) /\ Since \in Int /\ Since' \in Int /\ ctl.gop - 1 \in Int
          BY <1>1, <2>2, <2>4, <3>1
        <5>2. 1 - 0 <= Since' - Since /\ 1 - 0 <= (ctl.gop - 1) - Since BY <1>1, <2>4, <4>3
        <5> QED BY <1>1, <5>1, <5>2, RunEased
      <4>6. RunBound(out, Len(r) + 0, Since') /\ RunBound(out, Len(r), ctl.gop - 1)
        BY <4>4, <4>5
      <4>7. Since' \in Int /\ 0 \in Nat BY <3>1
      <4> QED BY <1>1, <2>4, <3>2, <4>4, <4>6, <4>7, RunJoined, RunsJoined
    <3> QED BY <3>3, <3>4
  <2>5. FrameKeys' BY <1>2, <1>3, <1>10, <2>1, <2>3, <2>4 DEF FrameKeys
  <2>6. BatchKinds' /\ PlanKeys' /\ BatchKeys'
    <3>1. ~(ctx.nb > 0) BY <2>1
    <3> QED BY <1>2, <1>3, <3>1, BatchKeysKept
  <2> QED BY <1>2, <2>4, <2>5, <2>6 DEF KeyInv
<1>13. c.ok \in BOOLEAN BY <1>7 DEF Results
<1> QED BY <1>11, <1>12, <1>13

\* Batches are coded: all of them end in a frame of the batch, IDR or plain.
LEMMA BatchResults ==
  ASSUME StreamInv, EncodeBatch
  PROVE  \E r \in Seq(Results) :
           /\ Len(r) = Len(work.batches[1]) /\ out' = out \o r
           /\ IdrBatch(work.batches[1]) => ~Plain(r[1])
<1> DEFINE b == Head(work.batches)
           last == \E i \in DOMAIN b : IsLastDraining(Source(b[i]))
           done(n, k) == LET f == b[DoneOrder(b, n)[k]]
                         IN  Capture(Source(f), k <= n, k <= n /\ f.type = "IDR",
                                     last /\ k = Len(b))
<1>1. work.pc = "batch" BY DEF EncodeBatch
<1>2. /\ b = work.batches[1] /\ b \in Seq(Frames)
      /\ Len(b) \in Nat /\ Len(b) >= 1 /\ DOMAIN b = 1 .. Len(b)
      /\ \A i \in 1 .. Len(b) : Source(b[i]) \in Nat
  BY <1>1, SourcesOfBatch
<1>3. PICK n \in 0 .. Len(b) : out' = out \o [k \in 1 .. Len(b) |-> done(n, k)]
  BY DEF EncodeBatch
<1>4. ASSUME NEW k \in 1 .. Len(b)
      PROVE  done(n, k) \in Results
             /\ (done(n, k).key <=> done(n, k).ok /\ b[DoneOrder(b, n)[k]].type = "IDR")
             /\ DoneOrder(b, n)[k] \in 1 .. Len(b)
  <2> DEFINE j == DoneOrder(b, n)[k]
  <2>1. b # << >> /\ n \in Nat BY <1>2
  <2>2. j \in 1 .. Len(b) BY <1>2, <2>1, DoneOrderFacts
  <2>3. Source(b[j]) \in Nat BY <1>2, <2>2
  <2>4. (k <= n) \in BOOLEAN /\ (k <= n /\ b[j].type = "IDR") \in BOOLEAN
        /\ (last /\ k = Len(b)) \in BOOLEAN
    OBVIOUS
  <2>5. done(n, k) = Capture(Source(b[j]), k <= n, k <= n /\ b[j].type = "IDR",
                             last /\ k = Len(b))
    OBVIOUS
  <2>6. done(n, k) \in Results /\ done(n, k).ok = (k <= n)
        /\ done(n, k).key = (k <= n /\ b[j].type = "IDR")
    <3> HIDE DEF done, last, j
    <3> QED BY <2>3, <2>4, <2>5 DEF Capture, Results
  <2> HIDE DEF done, j
  <2> QED BY <2>2, <2>6 DEF j
<1> HIDE DEF done
<1> DEFINE res == [k \in 1 .. Len(b) |-> done(n, k)]
<1>5. res \in Seq(Results) /\ Len(res) = Len(b) BY <1>2, <1>4
<1>6. IdrBatch(b) => ~Plain(res[1])
  <2> SUFFICES ASSUME IdrBatch(b) PROVE ~Plain(res[1]) OBVIOUS
  <2>1. Len(b) = 1 /\ b[1].type = "IDR" BY DEF IdrBatch
  <2>2. 1 \in 1 .. Len(b) /\ res[1] = done(n, 1) BY <2>1
  <2>3. DoneOrder(b, n)[1] = 1 BY <1>4, <2>1, <2>2
  <2>4. res[1].key <=> res[1].ok BY <1>4, <2>1, <2>2, <2>3
  <2> QED BY <2>4 DEF Plain, Delivered
<1>7. out' = out \o res BY <1>3
<1> HIDE DEF res
<1> QED BY <1>2, <1>5, <1>6, <1>7

\* The planner afterwards: how far it is from its last IDR.
LEMMA PlannerDist ==
  ASSUME NEW g \in Plans, NEW act \in {"HOLD", "ANCHOR", "KEY", "CLOSE"}
  PROVE  LET h == GopNext(g, act)
         IN  /\ h.gop = g.gop
             /\ act \in {"HOLD", "ANCHOR"} => h.dist = g.dist + 1 /\ h.started = g.started
             /\ act = "CLOSE" => h.dist = g.dist /\ h.started = g.started
             /\ act = "KEY" => h.dist = 1 /\ h.started
<1>1. /\ Closed(g).gop = g.gop /\ Closed(g).dist = g.dist /\ Closed(g).started = g.started
      /\ DOMAIN Closed(g) = DOMAIN g /\ DOMAIN AfterMinigop(g) = DOMAIN g
      /\ AfterMinigop(g).gop = g.gop /\ AfterMinigop(g).started = g.started
  BY DEF Closed, AfterMinigop, Plans
<1>2. DOMAIN g = {"nb", "gop", "n_held", "dist", "fn_anchor", "started"} BY DEF Plans
<1>3. CASE act = "HOLD" BY <1>2, <1>3 DEF GopNext
<1>4. CASE act = "ANCHOR" BY <1>1, <1>2, <1>4 DEF GopNext
<1>5. CASE act = "CLOSE" BY <1>1, <1>5 DEF GopNext
<1>6. CASE act = "KEY" BY <1>1, <1>2, <1>6 DEF GopNext
<1> QED BY <1>3, <1>4, <1>5, <1>6

\* Only an IDR starts the planner, and no other frame is planned where one is due.
LEMMA NotDue ==
  ASSUME ave_b_next \in {"HOLD", "ANCHOR"}
  PROVE  ctx.plan.started /\ (ctx.plan.gop > 0 => ~(ctx.plan.dist >= ctx.plan.gop))
<1>1. CASE HasNew
  <2> DEFINE l == IsLastDraining(srcQ[ctx.plan.n_held + 1])
  <2>1. ave_b_next = ave_gop_decide(ctx.plan, TRUE, forceKey, l)
    BY <1>1 DEF ave_b_next
  <2> HIDE DEF l
  <2> QED BY <2>1 DEF ave_gop_decide, KeyDue
<1>2. CASE ~HasNew
  <2> DEFINE l == ctx.plan.n_held > 0 /\ IsLastDraining(srcQ[ctx.plan.n_held])
  <2>1. ave_b_next = ave_gop_decide(ctx.plan, FALSE, FALSE, l)
    BY <1>2 DEF ave_b_next
  <2> HIDE DEF l
  <2> QED BY <2>1 DEF ave_gop_decide
<1> QED BY <1>1, <1>2

\* An IDR that closes held frames has a batch for them; other jobs have one.
LEMMA BatchCount ==
  ASSUME NEW g \in Plans, NEW act \in {"ANCHOR", "KEY", "CLOSE"},
         act = "CLOSE" => g.n_held > 0
  PROVE  /\ Len(GopBatches(g, act)) = (IF act = "KEY" /\ g.n_held > 0 THEN 2 ELSE 1)
         /\ act = "KEY" /\ g.n_held = 0 => IdrBatch(GopBatches(g, act)[1])
         /\ act = "KEY" /\ g.n_held > 0 =>
              IdrBatch(GopBatches(g, act)[2]) /\ Len(GopBatches(g, act)[1]) = g.n_held
         /\ act = "ANCHOR" => Len(GopBatches(g, act)[1]) = g.n_held + 1
         /\ act = "CLOSE" => Len(GopBatches(g, act)[1]) = g.n_held
<1> DEFINE b == GopBatches(g, act)
<1>1. g.n_held \in Nat BY DEF Plans
<1>2. /\ b \in Seq(Seq(Frames)) /\ Len(b) \in 1 .. 2
      /\ Len(b) = 2 => Len(b[2]) = 1
      /\ Len(b[1]) + (IF Len(b) = 2 THEN Len(b[2]) ELSE 0) = ave_gop_need(g, act)
      /\ act = "KEY" => b[Len(b)][1].type = "IDR"
      /\ Len(b[1]) \in 1 .. g.n_held + 1
  BY BatchesOf
<1>3. Len(b) = (IF act = "KEY" /\ g.n_held > 0 THEN 2 ELSE 1)
  <2>1. act = "KEY" /\ g.n_held > 0 => b = << Minigop(g, FALSE), KeyBatch(g) >>
    <3>1. g.n_held > 0 => g.n_held # 0 BY <1>1
    <3> QED BY <3>1 DEF GopBatches
  <2>2. act = "KEY" /\ ~(g.n_held > 0) => b = << KeyBatch(g) >>
    <3>1. ~(g.n_held > 0) => g.n_held = 0 BY <1>1
    <3> QED BY <3>1 DEF GopBatches
  <2>3. act = "ANCHOR" => b = << Minigop(g, TRUE) >> BY DEF GopBatches
  <2>4. act = "CLOSE" => b = << Minigop(g, FALSE) >> BY DEF GopBatches
  <2> HIDE DEF b
  <2> QED BY <2>1, <2>2, <2>3, <2>4
<1>4. /\ act \in {"ANCHOR", "KEY"} => ave_gop_need(g, act) = g.n_held + 1
      /\ act = "CLOSE" => ave_gop_need(g, act) = g.n_held
  BY DEF ave_gop_need
<1> HIDE DEF b
<1>5. Len(b[1]) \in Nat BY <1>1, <1>2
<1>6. CASE act = "KEY" /\ g.n_held > 0
  <2>1. Len(b) = 2 /\ Len(b[2]) = 1 /\ b[2][1].type = "IDR" BY <1>2, <1>3, <1>6
  <2>2. Len(b[1]) + 1 = g.n_held + 1 BY <1>2, <1>4, <1>6, <2>1
  <2>3. Len(b[1]) = g.n_held BY <1>1, <1>5, <2>2
  <2> QED BY <1>6, <2>1, <2>3 DEF IdrBatch, b
<1>7. CASE act = "KEY" /\ ~(g.n_held > 0)
  <2>1. g.n_held = 0 BY <1>1, <1>7
  <2> QED BY <1>2, <1>3, <1>4, <1>5, <1>7, <2>1 DEF IdrBatch, b
<1>8. CASE act # "KEY" BY <1>1, <1>2, <1>3, <1>4, <1>5, <1>8 DEF b
<1> QED BY <1>6, <1>7, <1>8

\* A plan: what it sends, with what it holds, stays in the GOP it counts.
LEMMA KeysPlanned == ASSUME StreamInv, KeyInv, StartBatches PROVE KeyInv'
<1> DEFINE act == ave_b_next
           g == ctx.plan
           h == ctx'.plan
           b == GopBatches(g, act)
<1>1. /\ out \in Seq(Results) /\ ctl.gop \in Nat /\ ctx.nb \in Nat /\ g \in Plans
      /\ g.n_held \in Nat /\ g.dist \in Nat /\ g.started \in BOOLEAN /\ Sent \in Int
      /\ Types
  BY KeyTypes
<1>2. /\ BPath /\ BReady /\ work.pc = "idle" /\ h = GopNext(g, act) /\ ctx'.nb = ctx.nb
      /\ act = "HOLD" => JobFinish
      /\ act # "HOLD" => work' = [pc |-> IF act = "KEY" THEN "clear" ELSE "batch",
                                  srcs |-> srcQ, batches |-> b]
      /\ ctl' = ctl /\ out' = out
  BY BatchesStarted
<1>3. /\ act \in {"HOLD", "ANCHOR", "KEY", "CLOSE"}
      /\ act = "CLOSE" => g.n_held > 0
  BY <1>1, <1>2, NextAct DEF BReady, StreamInv
<1>4. act \in {"HOLD", "ANCHOR"} => g.started /\ (g.gop > 0 => ~(g.dist >= g.gop))
  BY NotDue
<1>5. ctx.nb > 0 BY <1>2 DEF BPath
<1>6. /\ g.gop = ctl.gop
      /\ g.started => g.dist >= g.n_held + 1
      /\ ~g.started => g.n_held = 0
      /\ g.gop > 0 => g.dist <= g.gop
  BY <1>5 DEF KeyInv, PlanKeys
<1>7. Ahead = 0 /\ ~KeyAhead BY <1>2 DEF Ahead, KeyAhead
<1>8. ctl.gop > 0 => RunBound(out, 0, ctl.gop - 1) /\ RunBound(out, 0, Sent)
  BY <1>5, <1>7 DEF KeyInv, BatchKeys
<1>9. Sent = IF g.started THEN g.dist - 1 - g.n_held ELSE 0 BY DEF Sent
<1>10. Sent' = IF h.started THEN h.dist - 1 - h.n_held ELSE 0 BY DEF Sent
<1>11. act = "HOLD" => work'.pc = "idle" BY <1>2, FinishJob DEF Idle
<1>12. act # "HOLD" => work'.pc \in {"clear", "batch"} /\ work'.batches = b BY <1>2
<1>13. FrameKeys'
  <2>1. work'.pc \in {"idle", "clear", "batch"} BY <1>3, <1>11, <1>12
  <2>2. ~FrameInHand' BY <2>1 DEF FrameInHand
  <2> QED BY <1>2, <1>5, <2>2 DEF FrameKeys
<1>14. ctl.gop > 0 => Runs(out', ctl'.gop) BY <1>2 DEF KeyInv
<1> HIDE DEF act, h, b
<1>15. /\ h.gop = g.gop
       /\ h.n_held = IF act = "HOLD" THEN g.n_held + 1 ELSE 0
       /\ act \in {"HOLD", "ANCHOR"} => h.dist = g.dist + 1 /\ h.started = g.started
       /\ act = "CLOSE" => h.dist = g.dist /\ h.started = g.started
       /\ act = "KEY" => h.dist = 1 /\ h.started
  BY <1>1, <1>2, <1>3, PlannerNext, PlannerDist
<1>16. act # "HOLD" =>
         /\ Len(b) = (IF act = "KEY" /\ g.n_held > 0 THEN 2 ELSE 1)
         /\ act = "KEY" /\ g.n_held = 0 => IdrBatch(b[1])
         /\ act = "KEY" /\ g.n_held > 0 => IdrBatch(b[2]) /\ Len(b[1]) = g.n_held
         /\ act = "ANCHOR" => Len(b[1]) = g.n_held + 1
         /\ act = "CLOSE" => Len(b[1]) = g.n_held
  BY <1>1, <1>3, BatchCount DEF b
<1>17. PlanKeys'
  <2>1. /\ h.started => h.dist >= h.n_held + 1
        /\ ~h.started => h.n_held = 0
        /\ h.gop > 0 => h.dist <= h.gop
    <3>1. CASE act \in {"HOLD", "ANCHOR"}
      <4>1. g.started /\ h.started /\ h.dist = g.dist + 1 /\ h.n_held \in {g.n_held + 1, 0}
        BY <1>4, <1>15, <3>1
      <4>2. g.dist >= g.n_held + 1 BY <1>6, <4>1
      <4>3. h.gop = g.gop /\ g.gop \in Nat /\ (g.gop > 0 => ~(g.dist >= g.gop))
        BY <1>1, <1>4, <1>6, <1>15, <3>1
      <4> HIDE DEF g
      <4>4. h.dist >= h.n_held + 1 BY <1>1, <4>1, <4>2
      <4>5. h.gop > 0 => h.dist <= h.gop BY <1>1, <4>1, <4>3
      <4> QED BY <4>1, <4>4, <4>5
    <3>2. CASE act = "CLOSE" BY <1>1, <1>3, <1>6, <1>15, <3>2
    <3>3. CASE act = "KEY" BY <1>1, <1>6, <1>15, <3>3
    <3> QED BY <1>3, <3>1, <3>2, <3>3
  <2>2. h.gop = ctl'.gop BY <1>2, <1>6, <1>15
  <2> QED BY <2>1, <2>2 DEF PlanKeys, h
<1>18. BatchKinds'
  <2>1. CASE act = "HOLD" BY <1>11, <2>1 DEF BatchKinds
  <2>2. CASE act # "HOLD"
    <3>1. Len(b) = 2 => IdrBatch(b[2]) BY <1>3, <1>16, <2>2
    <3> QED BY <1>12, <2>2, <3>1 DEF BatchKinds
  <2> QED BY <2>1, <2>2
<1>19. ASSUME ctl.gop > 0
       PROVE  /\ RunBound(out, Ahead', ctl.gop - 1)
              /\ ~KeyAhead' => RunBound(out, Ahead', Sent')
  <2>1. RunBound(out, 0, ctl.gop - 1) /\ RunBound(out, 0, Sent) /\ ctl.gop - 1 \in Int
    BY <1>1, <1>8, <1>19
  <2>2. \A a \in Nat, l \in Int : a <= l - Sent => RunBound(out, a, l)
    <3>1. \A a \in Nat, l \in Int : a - 0 <= l - Sent => RunBound(out, a, l)
      BY <1>1, <2>1, RunEased
    <3> QED BY <3>1
  <2>3. CASE act = "HOLD"
    <3>1. Ahead' = 0 /\ Sent' = Sent
      <4>1. Ahead' = 0 BY <1>11, <2>3 DEF Ahead
      <4>2. g.started /\ h.started /\ h.dist = g.dist + 1 /\ h.n_held = g.n_held + 1
        BY <1>4, <1>15, <2>3
      <4>3. Sent = g.dist - 1 - g.n_held BY <1>9, <4>2
      <4>4. Sent' = (g.dist + 1) - 1 - (g.n_held + 1) BY <1>10, <4>2
      <4> HIDE DEF g
      <4>5. g.n_held \in Nat /\ g.dist \in Nat BY <1>1
      <4> QED BY <4>1, <4>3, <4>4, <4>5
    <3> QED BY <2>1, <3>1
  <2>4. CASE act \in {"ANCHOR", "CLOSE"}
    <3> DEFINE n == IF act = "ANCHOR" THEN g.n_held + 1 ELSE g.n_held
    <3>1. Len(b[1]) = n /\ n \in Nat BY <1>1, <1>16, <2>4
    <3>2. g.started /\ h.started /\ h.n_held = 0
          /\ h.dist = (IF act = "ANCHOR" THEN g.dist + 1 ELSE g.dist)
      <4>1. CASE act = "ANCHOR" BY <1>4, <1>15, <4>1
      <4>2. CASE act = "CLOSE"
        <5>1. g.n_held # 0 BY <1>1, <1>3, <4>2
        <5>2. g.started BY <1>6, <5>1
        <5> QED BY <1>15, <4>2, <5>2
      <4> QED BY <2>4, <4>1, <4>2
    <3>3. Ahead' \in {0, n} /\ 0 <= n /\ Ahead' \in Nat BY <1>12, <2>4, <3>1 DEF Ahead
    <3>4. Sent' = h.dist - 1 /\ Sent = g.dist - 1 - g.n_held /\ Sent' \in Int
      <4>1. h.dist \in Nat BY <1>1, <3>2
      <4> QED BY <1>1, <1>9, <1>10, <3>2, <4>1
    <3>5. n <= Sent' - Sent
      <4>1. Sent' = (IF act = "ANCHOR" THEN g.dist + 1 ELSE g.dist) - 1 BY <3>2, <3>4
      <4>2. Sent = g.dist - 1 - g.n_held BY <3>4
      <4> HIDE DEF g
      <4> QED BY <1>1, <4>1, <4>2
    <3>6. RunBound(out, Ahead', Sent')
      <4>1. Ahead' <= Sent' - Sent BY <1>1, <3>1, <3>3, <3>4, <3>5
      <4> QED BY <2>2, <3>3, <3>4, <4>1
    <3>7. Sent' <= ctl.gop - 1
      <4>1. h.dist <= ctl.gop
        <5>1. act = "ANCHOR" => ~(g.dist >= ctl.gop) BY <1>4, <1>6, <1>19
        <5>2. g.dist <= ctl.gop BY <1>6, <1>19
        <5> QED BY <1>1, <2>4, <3>2, <5>1, <5>2
      <4>2. h.dist \in Nat BY <1>1, <3>2
      <4> QED BY <1>1, <3>4, <4>1, <4>2
    <3>8. RunBound(out, Ahead', ctl.gop - 1)
      <4>1. Ahead' - Ahead' <= (ctl.gop - 1) - Sent' BY <1>1, <3>3, <3>4, <3>7
      <4> QED BY <1>1, <2>1, <3>3, <3>4, <3>6, <4>1, RunEased
    <3> QED BY <3>6, <3>8
  <2>5. CASE act = "KEY" /\ g.n_held = 0
    <3>1. Len(b) = 1 /\ IdrBatch(b[1]) BY <1>16, <2>5
    <3>2. Ahead' = 0 /\ KeyAhead' BY <1>12, <2>5, <3>1 DEF Ahead, KeyAhead
    <3> QED BY <2>1, <3>2
  <2>6. CASE act = "KEY" /\ g.n_held # 0
    <3>1. g.n_held > 0 BY <1>1, <2>6
    <3>2. Len(b) = 2 /\ Len(b[1]) = g.n_held BY <1>16, <2>6, <3>1
    <3>3. Ahead' \in {0, g.n_held} /\ Ahead' \in Nat /\ KeyAhead'
      BY <1>1, <1>12, <2>6, <3>2 DEF Ahead, KeyAhead
    <3>4. Sent = g.dist - 1 - g.n_held BY <1>6, <1>9, <2>6
    <3>5. g.dist <= ctl.gop BY <1>6, <1>19
    <3>6. Ahead' <= (ctl.gop - 1) - Sent
      <4>1. Ahead' <= g.n_held /\ Ahead' \in Nat BY <1>1, <3>1, <3>3
      <4> HIDE DEF g
      <4> QED BY <1>1, <3>4, <3>5, <4>1
    <3> QED BY <2>1, <2>2, <3>3, <3>6
  <2> QED BY <1>3, <2>3, <2>4, <2>5, <2>6
<1>20. BatchKeys' BY <1>2, <1>19 DEF BatchKeys
<1> QED BY <1>2, <1>13, <1>14, <1>17, <1>18, <1>20 DEF KeyInv

\* A batch: its plain frames were counted, and an IDR ends what went before.
LEMMA KeysCoded == ASSUME StreamInv, KeyInv, EncodeBatch PROVE KeyInv'
<1> DEFINE b == work.batches
<1>1. /\ out \in Seq(Results) /\ ctl.gop \in Nat /\ ctx.nb \in Nat /\ ctx.plan \in Plans
      /\ ctx.plan.n_held \in Nat /\ ctx.plan.dist \in Nat /\ ctx.plan.started \in BOOLEAN
      /\ Ahead \in Nat /\ Sent \in Int
  BY KeyTypes
<1>2. /\ work.pc = "batch" /\ work' = [work EXCEPT !.pc = "remove_batch"]
      /\ ctl' = ctl /\ ctx' = ctx
  BY BatchEncoded
<1>3. /\ work \in [pc : {"clear", "batch", "remove_batch"}, srcs : Seq(Nat), batches : Seq(Seq(Frames))]
      /\ Len(b) \in 1 .. 2
  BY <1>2, SourcesOfBatch
<1>4. work'.pc = "remove_batch" /\ work'.batches = b BY <1>2, <1>3
<1>5. ctx.nb > 0 BY <1>2 DEF StreamInv, BatchPlace, BPath
<1>6. PICK r \in Seq(Results) :
        Len(r) = Len(b[1]) /\ out' = out \o r /\ (IdrBatch(b[1]) => ~Plain(r[1]))
  BY BatchResults
<1>7. FrameKeys'
  <2>1. ~FrameInHand' BY <1>4 DEF FrameInHand
  <2> QED BY <1>2, <1>5, <2>1 DEF FrameKeys
<1>8. PlanKeys' /\ BatchKinds' /\ Sent' = Sent
  BY <1>2, <1>4 DEF KeyInv, PlanKeys, BatchKinds, Sent
<1>9. Ahead' = 0 /\ (KeyAhead' <=> Len(b) = 2) BY <1>4 DEF Ahead, KeyAhead
<1>10. /\ Ahead = IF IdrBatch(b[1]) THEN 0 ELSE Len(b[1])
       /\ KeyAhead <=> Len(b) = 2 \/ IdrBatch(b[1])
  BY <1>2 DEF Ahead, KeyAhead
<1> HIDE DEF b
<1>11. ASSUME ctl.gop > 0
       PROVE  /\ Runs(out', ctl.gop) /\ RunBound(out', 0, ctl.gop - 1)
              /\ Len(b) # 2 => RunBound(out', 0, Sent)
  <2>1. /\ Runs(out, ctl.gop) /\ RunBound(out, Ahead, ctl.gop - 1)
        /\ ~KeyAhead => RunBound(out, Ahead, Sent)
        /\ 0 \in Nat /\ ctl.gop - 1 \in Int /\ 0 <= ctl.gop - 1
    BY <1>1, <1>5, <1>11 DEF KeyInv, BatchKeys
  <2>2. CASE IdrBatch(b[1])
    <3>1. Len(r) = 1 /\ ~Plain(r[1]) BY <1>6, <2>2 DEF IdrBatch
    <3>2. 0 <= Sent
      <4>1. ctx.plan.started => ctx.plan.dist >= ctx.plan.n_held + 1
        BY <1>5 DEF KeyInv, PlanKeys
      <4> QED BY <1>1, <4>1 DEF Sent
    <3> QED BY <1>1, <1>6, <1>11, <2>1, <3>1, <3>2, RunCut
  <2>3. CASE ~IdrBatch(b[1])
    <3>1. Ahead = Len(r) /\ Len(r) + 0 = Len(r) BY <1>6, <1>10, <2>3
    <3>2. RunBound(out, Len(r), ctl.gop - 1) /\ RunBound(out, Len(r) + 0, ctl.gop - 1)
      BY <2>1, <3>1
    <3>3. Runs(out', ctl.gop) BY <1>1, <1>6, <1>11, <2>1, <3>2, RunsJoined
    <3>4. RunBound(out', 0, ctl.gop - 1) BY <1>1, <1>6, <2>1, <3>2, RunJoined
    <3>5. ASSUME Len(b) # 2 PROVE RunBound(out', 0, Sent)
      <4>1. RunBound(out, Len(r) + 0, Sent) BY <1>10, <2>1, <2>3, <3>1, <3>5
      <4> QED BY <1>1, <1>6, <2>1, <4>1, RunJoined
    <3> QED BY <3>3, <3>4, <3>5
  <2> QED BY <2>2, <2>3
<1>12. BatchKeys' BY <1>2, <1>8, <1>9, <1>11 DEF BatchKeys
<1> QED BY <1>2, <1>7, <1>8, <1>11, <1>12 DEF KeyInv

\* The job goes on to its IDR, or ends.
LEMMA KeysRemoved == ASSUME StreamInv, KeyInv, RemoveBatch PROVE KeyInv'
<1>1. /\ work.pc = "remove_batch" /\ ctl' = ctl /\ ctx' = ctx /\ out' = out
      /\ Len(work.batches) = 1 => JobFinish
      /\ Len(work.batches) = 2 =>
           work'.pc = "batch" /\ Len(work'.batches) = 1 /\ work'.batches[1] = work.batches[2]
  BY BatchRemoved
<1>2. Len(work.batches) \in 1 .. 2 BY <1>1, SourcesOfBatch
<1>3. ctx.nb > 0 BY <1>1 DEF StreamInv, BatchPlace, BPath
<1>4. PlanKeys' /\ Sent' = Sent BY <1>1 DEF KeyInv, PlanKeys, Sent
<1>5. Ahead = 0 /\ (KeyAhead <=> Len(work.batches) = 2) BY <1>1 DEF Ahead, KeyAhead
<1>6. ctl.gop > 0 =>
        /\ Runs(out, ctl.gop) /\ RunBound(out, 0, ctl.gop - 1)
        /\ Len(work.batches) # 2 => RunBound(out, 0, Sent)
  BY <1>3, <1>5 DEF KeyInv, BatchKeys
<1>7. CASE Len(work.batches) = 1
  <2>1. work'.pc = "idle" BY <1>1, <1>7, FinishJob DEF Idle
  <2>2. Ahead' = 0 /\ ~KeyAhead' /\ ~FrameInHand' /\ BatchKinds'
    BY <2>1 DEF Ahead, KeyAhead, FrameInHand, BatchKinds
  <2>3. FrameKeys' BY <1>1, <1>3, <2>2 DEF FrameKeys
  <2>4. BatchKeys' BY <1>1, <1>4, <1>6, <1>7, <2>2 DEF BatchKeys
  <2> QED BY <1>1, <1>4, <1>6, <2>2, <2>3, <2>4 DEF KeyInv
<1>8. CASE Len(work.batches) = 2
  <2>1. IdrBatch(work'.batches[1]) BY <1>1, <1>8 DEF KeyInv, BatchKinds
  <2>2. Ahead' = 0 /\ KeyAhead' /\ ~FrameInHand' /\ BatchKinds'
    BY <1>1, <1>8, <2>1 DEF Ahead, KeyAhead, FrameInHand, BatchKinds
  <2>3. FrameKeys' BY <1>1, <1>3, <2>2 DEF FrameKeys
  <2>4. BatchKeys' BY <1>1, <1>6, <2>2 DEF BatchKeys
  <2> QED BY <1>1, <1>4, <1>6, <2>2, <2>3, <2>4 DEF KeyInv
<1> QED BY <1>2, <1>7, <1>8

\* A forced key is taken: the batches are still those planned.
LEMMA KeysCleared == ASSUME StreamInv, KeyInv, ClearForceKey PROVE KeyInv'
<1>1. /\ work.pc = "clear" /\ work'.pc = "batch" /\ work'.batches = work.batches
      /\ ctl' = ctl /\ out' = out /\ ctx' = ctx
  BY ForceKeyCleared
<1>2. ctx.nb > 0 BY <1>1 DEF StreamInv, BatchPlace, BPath
<1>3. ~FrameInHand' BY <1>1 DEF FrameInHand
<1>4. FrameKeys' BY <1>1, <1>2, <1>3 DEF FrameKeys
<1>5. Ahead' = Ahead /\ KeyAhead' = KeyAhead /\ Sent' = Sent
  BY <1>1 DEF Ahead, KeyAhead, Sent
<1>6. BatchKinds' /\ PlanKeys' BY <1>1 DEF KeyInv, BatchKinds, PlanKeys
<1>7. BatchKeys' BY <1>1, <1>5 DEF KeyInv, BatchKeys
<1> QED BY <1>1, <1>4, <1>6, <1>7 DEF KeyInv

\* No result and a planner that has not started.
LEMMA KeysEmpty ==
  ASSUME ctl'.gop \in Nat, out' = << >>, work'.pc = "idle", ctx'.frame_n = 0,
         ctx'.nb > 0 => ctx'.plan = ave_gop_init(ctx'.nb, ctl'.gop)
  PROVE  KeyInv'
<1>1. ~FrameInHand' /\ Number' = 0 /\ Since' = 0 BY DEF FrameInHand, Number, Since
<1>2. /\ \A l \in Nat : RunBound(<< >>, 0, l)
      /\ \A g \in Nat : g > 0 => Runs(<< >>, g)
      /\ Opens(<< >>)
  BY DEF RunBound, Runs, Opens
<1>3. FrameKeys' BY <1>1, <1>2 DEF FrameKeys
<1>4. BatchKinds' /\ Ahead' = 0 /\ ~KeyAhead' BY DEF BatchKinds, Ahead, KeyAhead
<1>5. PlanKeys' /\ (ctx'.nb > 0 => Sent' = 0) BY DEF PlanKeys, Sent, ave_gop_init
<1>6. ctl'.gop > 0 => ctl'.gop - 1 \in Nat OBVIOUS
<1>7. BatchKeys' BY <1>2, <1>4, <1>5, <1>6 DEF BatchKeys
<1> QED BY <1>2, <1>3, <1>4, <1>5, <1>7 DEF KeyInv

\* Nothing delivered at the start.
LEMMA KeysInit == ASSUME Init PROVE KeyInv
<1>1. /\ out = << >> /\ work = Idle /\ ctx.frame_n = 0 /\ ctx.nb = 0
      /\ ctl.gop \in Nat
  BY GopSizesAssumption DEF Init
<1>2. ~FrameInHand /\ Number = 0 /\ Since = 0 BY <1>1 DEF FrameInHand, Number, Since, Idle
<1>3. /\ RunBound(out, 0, 0) /\ Opens(out)
      /\ \A g \in Nat : g > 0 => Runs(out, g)
  BY <1>1 DEF RunBound, Runs, Opens
<1>4. FrameKeys BY <1>1, <1>2, <1>3 DEF FrameKeys, Idle
<1>5. BatchKinds BY <1>1 DEF BatchKinds, Idle
<1>6. PlanKeys /\ BatchKeys BY <1>1 DEF PlanKeys, BatchKeys
<1> QED BY <1>1, <1>3, <1>4, <1>5, <1>6 DEF KeyInv

\* Every step keeps the sixth layer.
LEMMA KeysNext ==
  ASSUME ~StopInCompletion, StreamInv, CaptureInv, KeyInv, [Next]_vars
  PROVE  KeyInv'
<1>1. /\ Types /\ WorkTypes /\ out \in Seq(Results) /\ ctl.gop \in Nat
      /\ ctx \in [session : BOOLEAN, nb : 0 .. B_MAX, plan : Plans, frame_n : Nat,
                  pm_lost : BOOLEAN]
  BY KeyTypes DEF Types
<1>2. CASE QbufSource
  <2>1. out' = out /\ ctx' = ctx /\ work' = work /\ ctl' = ctl BY <1>2 DEF QbufSource
  <2> QED BY <2>1, KeysKept
<1>3. CASE QbufCapture
  <2>1. ctx' = ctx /\ work' = work /\ ctl' = ctl /\ out' \in {out, Append(out, EmptyLast)}
    BY <1>3 DEF QbufCapture, LastBufferDone
  <2> QED BY <2>1, KeysKept
<1>4. CASE ForceKey
  <2>1. out' = out /\ ctx' = ctx /\ work' = work /\ ctl' = ctl BY <1>4 DEF ForceKey, stream
  <2> QED BY <2>1, KeysKept
<1>5. CASE EncoderStop
  <2>1. ctx' = ctx /\ work' = work /\ ctl' = ctl BY <1>5 DEF EncoderStop
  <2>2. out' \in {out, Append(out, EmptyLast)}
    <3>1. CASE srcQ # << >> BY <1>5, <3>1 DEF EncoderStop
    <3>2. CASE srcQ = << >>
      <4>1. work.pc # "remove_dst" /\ LastOnNextBuffer
        BY <1>5, <3>2, StopFindsIdle DEF EncoderStop
      <4> QED BY <1>1, <4>1, LastNext
    <3> QED BY <3>1, <3>2
  <2> QED BY <2>1, <2>2, KeysKept
<1>6. CASE EncoderStart
  <2>1. out' = out /\ ctx' = ctx /\ work' = work /\ ctl' = ctl BY <1>6 DEF EncoderStart
  <2> QED BY <2>1, KeysKept
<1>7. ASSUME NEW q \in {"out", "cap"}, StreamOn(q) PROVE KeyInv'
  <2>1. /\ ~on[q] /\ work' = work /\ ctl' = ctl /\ out' = (IF ctx' # ctx THEN << >> ELSE out)
        /\ ctx' \in {NewSession, ctx}
    BY <1>7 DEF StreamOn
  <2>2. CASE ctx' = ctx BY <2>1, <2>2, KeysKept
  <2>3. CASE ctx' = NewSession /\ ctx' # ctx
    <3>1. work.pc = "idle"
      <4>1. ~(on.out /\ on.cap) BY <1>7, <2>1
      <4> QED BY <4>1 DEF StreamInv, JobPlace
    <3>2. ctx'.frame_n = 0 /\ ctx'.plan = ave_gop_init(ctx'.nb, ctl'.gop)
      BY <2>1, <2>3 DEF NewSession
    <3> QED BY <1>1, <2>1, <2>3, <3>1, <3>2, KeysEmpty
  <2> QED BY <2>1, <2>2, <2>3
<1>8. CASE StreamOffOut
  <2>1. /\ work' = work /\ work.pc = "idle" /\ ctl' = ctl
        /\ ctx' = [ctx EXCEPT !.session = FALSE]
        /\ m2m.draining => LastOnNextBuffer
        /\ ~m2m.draining => out' = out
    BY <1>8 DEF StreamOffOut, EndSession, StreamInv, JobPlace
  <2>2. ctx'.nb = ctx.nb /\ ctx'.plan = ctx.plan /\ ctx'.frame_n = ctx.frame_n BY <1>1, <2>1
  <2>3. out' \in {out, Append(out, EmptyLast)}
    <3>1. m2m.draining => out' \in {out, Append(out, EmptyLast)} BY <1>1, <2>1, LastNext
    <3> QED BY <2>1, <3>1
  <2> QED BY <2>1, <2>2, <2>3, KeysKept
<1>9. CASE StreamOffCap
  <2>1. out' = out /\ work' = work /\ ctl' = ctl /\ ctx' = [ctx EXCEPT !.session = FALSE]
    BY <1>9 DEF StreamOffCap, EndSession
  <2>2. ctx'.nb = ctx.nb /\ ctx'.plan = ctx.plan /\ ctx'.frame_n = ctx.frame_n BY <1>1, <2>1
  <2> QED BY <2>1, <2>2, KeysKept
<1>10. ASSUME job = "queued" PROVE work.pc = "idle" BY <1>10 DEF StreamInv, JobPlace
<1>11. FrameKeys BY DEF KeyInv
<1>12. CASE StartFrame
  <2>1. /\ out' = out /\ ctx' = ctx /\ ctl' = ctl /\ work.pc = "idle"
        /\ work' = [pc |-> "encode", src |-> Head(srcQ), dst |-> Head(capQ),
                    idr |-> FrameIsKey]
    BY <1>10, <1>12 DEF StartFrame, stream
  <2>2. Due(ctx'.frame_n) => work'.idr BY <2>1 DEF Due, FrameIsKey
  <2>3. ~FrameInHand' /\ ~FrameInHand /\ work'.pc = "encode" BY <2>1 DEF FrameInHand
  <2>4. Number' = Number BY <2>1, <2>3 DEF Number
  <2> QED BY <2>1, <2>2, <2>3, <2>4, FrameStep
<1>13. CASE EncodeFrame
  <2>1. /\ out' = out /\ ctl' = ctl /\ ctx'.nb = ctx.nb /\ ctx'.plan = ctx.plan
        /\ work.pc = "encode" /\ work'.pc = "remove_src"
    BY <1>13, FrameEncoded
  <2>2. /\ work'.result.ok \in BOOLEAN /\ (work'.result.ok => ctx.session)
        /\ ctx'.frame_n = IF work'.result.ok THEN ctx.frame_n + 1 ELSE ctx.frame_n
        /\ work'.result.key <=> work'.result.ok /\ work.idr
    BY <1>13, FrameCounted
  <2>3. ~FrameInHand /\ (FrameInHand' <=> work'.result.ok) BY <2>1 DEF FrameInHand
  <2>4. ctx.frame_n \in Nat /\ ctx.nb \in 0 .. B_MAX BY <1>1
  <2>5. Number' = Number BY <2>2, <2>3, <2>4 DEF Number
  <2>6. ASSUME FrameInHand'
        PROVE  /\ ctx.nb = 0 /\ ctx'.frame_n > 0
               /\ Due(ctx'.frame_n - 1) => work'.result.key
    <3>1. ctx.session /\ ctx'.frame_n = ctx.frame_n + 1 BY <2>2, <2>3, <2>6
    <3>2. ~BPath BY <2>1 DEF StreamInv, FramePlace
    <3>3. ctx.nb = 0 BY <2>4, <3>1, <3>2 DEF BPath, B_MAX
    <3>4. ctx'.frame_n > 0 /\ ctx'.frame_n - 1 = ctx.frame_n BY <2>4, <3>1
    <3>5. Due(ctx.frame_n) => work.idr BY <1>11, <2>1, <3>3 DEF FrameKeys
    <3> QED BY <2>2, <2>3, <2>6, <3>3, <3>4, <3>5
  <2> QED BY <2>1, <2>5, <2>6, FrameStep
<1>14. CASE RemoveSource
  <2>1. /\ out' = out /\ ctx' = ctx /\ ctl' = ctl /\ work.pc = "remove_src"
        /\ work' = [work EXCEPT !.pc = "remove_dst"]
    BY <1>14 DEF RemoveSource
  <2>2. work \in [pc : {"remove_src", "remove_dst"}, src : Nat, dst : Caps, result : Results]
    BY <1>1, <2>1, WorkShape
  <2>3. work'.pc = "remove_dst" /\ work'.result = work.result BY <2>1, <2>2
  <2>4. FrameInHand' = FrameInHand BY <2>1, <2>3 DEF FrameInHand
  <2>5. Number' = Number BY <2>1, <2>4 DEF Number
  <2>6. FrameInHand => /\ ctx.nb = 0 /\ ctx.frame_n > 0
                       /\ Due(ctx.frame_n - 1) => work.result.key
    BY <1>11 DEF FrameKeys
  <2> QED BY <2>1, <2>3, <2>4, <2>5, <2>6, FrameStep
<1>15. CASE RemoveCapture BY <1>15, FrameDelivered
<1>16. CASE PlanChanged
  <2>1. out' = out /\ ctx' = ctx /\ ctl' = ctl /\ JobFinish /\ work.pc = "idle"
    BY <1>10, <1>16 DEF PlanChanged, stream
  <2>2. work'.pc = "idle" BY <2>1, FinishJob DEF Idle
  <2>3. ~FrameInHand' /\ ~FrameInHand BY <2>1, <2>2 DEF FrameInHand
  <2>4. Number' = Number BY <2>1, <2>3 DEF Number
  <2> QED BY <2>1, <2>2, <2>3, <2>4, FrameStep
<1>17. CASE StartBatches BY <1>17, KeysPlanned
<1>18. CASE EncodeBatch BY <1>18, KeysCoded
<1>19. CASE RemoveBatch BY <1>19, KeysRemoved
<1>20. CASE Suspend
  <2>1. out' = out /\ work' = work /\ ctl' = ctl
        /\ ctx' \in {ctx, [ctx EXCEPT !.session = FALSE, !.pm_lost = TRUE]}
    BY <1>20 DEF Suspend, stream
  <2>2. ctx'.nb = ctx.nb /\ ctx'.plan = ctx.plan /\ ctx'.frame_n = ctx.frame_n BY <1>1, <2>1
  <2> QED BY <2>1, <2>2, KeysKept
<1>21. CASE Resume
  <2>1. out' = out /\ ctx' = ctx /\ work' = work /\ ctl' = ctl BY <1>21 DEF Resume, stream
  <2> QED BY <2>1, KeysKept
<1>22. CASE UNCHANGED vars
  <2>1. out' = out /\ ctx' = ctx /\ work' = work /\ ctl' = ctl BY <1>22 DEF vars
  <2> QED BY <2>1, KeysKept
<1>23. CASE ClearForceKey BY <1>23, KeysCleared
<1> QED
  BY <1>2, <1>3, <1>4, <1>5, <1>6, <1>7, <1>8, <1>9, <1>12, <1>13, <1>14, <1>15, <1>16,
            <1>17, <1>18, <1>19, <1>20, <1>21, <1>22, <1>23 DEF Next, RunWork, Client

\* The sixth layer has the key frames in place.
LEMMA KeysThere == ASSUME StreamInv, KeyInv PROVE KeysInPlace
<1>1. OpensWithKey BY DEF KeyInv, FrameKeys, Opens, OpensWithKey
<1>2. KeyEveryGop
  <2> SUFFICES ASSUME ctl.gop > 0, NEW i \in 1 .. Len(out) - ctl.gop + 1,
                      \A k \in i .. i + ctl.gop - 1 : Delivered(out[k])
               PROVE  \E k \in i .. i + ctl.gop - 1 : out[k].key
    BY DEF KeyEveryGop
  <2>1. PICK k \in i .. i + ctl.gop - 1 : ~Plain(out[k]) BY DEF KeyInv, Runs
  <2> QED BY <2>1 DEF Plain
<1> QED BY <1>1, <1>2 DEF KeysInPlace

\* Without B frames decoding can start at the first frame delivered, and on either path
\* again in every GOP, whatever fails.
THEOREM KeysAlwaysInPlace == ASSUME ~StopInCompletion PROVE Spec => []KeysInPlace
<1>1. Init => CaptureInv BY CaptureInit
<1>2. StreamInv /\ CaptureInv /\ [Next]_vars => CaptureInv' BY CaptureNext
<1>3. Init => KeyInv BY KeysInit
<1>4. StreamInv /\ CaptureInv /\ KeyInv /\ [Next]_vars => KeyInv' BY KeysNext
<1>5. StreamInv /\ KeyInv => KeysInPlace BY KeysThere
<1> QED BY <1>1, <1>2, <1>3, <1>4, <1>5, StreamInvariant, PTL DEF Spec
=============================================================================
