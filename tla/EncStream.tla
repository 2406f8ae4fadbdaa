------------------------------ MODULE EncStream ------------------------------
(***************************************************************************)
(* One V4L2 encoder context (driver/ave_v4l2.c): the client's ioctls on    *)
(* the two queues, the run work that codes a frame or a mini-GOP, and the  *)
(* drain.  The ioctls run under the node's dev_mutex and the work under    *)
(* hw_mutex only, so they interleave: the work is split where it lets go   *)
(* of a queue's rdy_spinlock with a decision in hand.                      *)
(*                                                                         *)
(* The m2m core (ready queues, drain flags, job scheduling) is the         *)
(* kernel's, modelled from how this driver uses it.  The firmware is an    *)
(* outcome: how many frames of a job it completes, and whether it hangs.   *)
(***************************************************************************)
EXTENDS Gop, FiniteSetsExt, SequencesExt

CONSTANTS
  BFrames,     \* VIDEO_B_FRAMES values tried
  GopSizes,    \* VIDEO_GOP_SIZE values tried
  NOut, NCap,  \* OUTPUT and CAPTURE buffers the client has
  MaxSources,  \* bound: sources the client queues
  MaxStarts,   \* bound: STREAMONs after the first of each queue
  MaxForced,   \* bound: FORCE_KEY_FRAME requests
  MaxDrains,   \* bound: ENCODER_CMD(STOP)s that take effect
  StopInCompletion,  \* may ENCODER_CMD run between the work's last-source
                     \* check and its taking the buffers off the queues
  QbufInDrain, \* with how many Bs the client queues sources in a drain
  Faults       \* what may go wrong: a frame fails, the firmware hangs, the
               \* encoder is another context's, the system sleeps (once)

ASSUME BoundsAssumption ==
  /\ {MaxSources, MaxStarts, MaxForced, MaxDrains} \subseteq Nat
  /\ StopInCompletion \in BOOLEAN
  /\ QbufInDrain \subseteq 0 .. B_MAX
  /\ Faults \subseteq {"error", "hang", "busy", "sleep"}
ASSUME BFramesAssumption == BFrames \subseteq 0 .. B_MAX
ASSUME GopSizesAssumption == GopSizes \subseteq Nat
\* ave_queue_setup: a CAPTURE buffer for every frame of a mini-GOP, and the
\* held sources, their anchor and one more on OUTPUT.
ASSUME BuffersAssumption ==
  /\ NOut \in Nat \ {0} /\ NCap \in Nat \ {0}
  /\ \A b \in BFrames : b > 0 => NCap >= b + 1 /\ NOut >= b + 2

VARIABLES
  ctl,       \* controls: [b_frames, gop], set before the stream
  forceKey,  \* ctx->force_key
  srcQ,      \* OUTPUT ready queue: sources, numbered in display order
  capQ,      \* CAPTURE ready queue: buffers
  capOwner,  \* buffer -> "client" or "driver" (VB2_BUF_STATE_ACTIVE)
  on,        \* which queues are streaming: [out, cap]
  m2m,       \* drain state: [draining, lastSrc, nextLast, stopped]
  job,       \* m2m job: "none", "queued" or "running"
  ctx,       \* [session, nb, plan, frame_n, pm_lost]
  work,      \* the run work: where it is and what it took
  fault,     \* [hung, qerr, paused]: the firmware is hung, the queues in
             \* error (vb2_queue_error), jobs paused for a system sleep
  out,       \* history: what CAPTURE gave the client in this session
  returned,  \* history: sources given back, in order
  warned,    \* vb2_buffer_done() on a buffer the driver does not own
  cnt        \* what the bounds count: [src, start, forced, drain, sleep]

stream == << srcQ, capQ, capOwner, on, m2m, out, returned, warned >>
vars == << ctl, forceKey, srcQ, capQ, capOwner, on, m2m, job, ctx, work,
           fault, out, returned, warned, cnt >>

Caps == 1 .. NCap
Idle == [pc |-> "idle"]
NoSource == 0     \* "no last source", and the source of an empty buffer

-----------------------------------------------------------------------------
(* The driver's view of the queues.                                        *)

\* (An operator named ...Bug is not the code: it is a plausible mistake in
\* the definition after it, which one of the properties must catch.)
QueueTailBug(s) == m2m.draining /\ s = srcQ[Len(srcQ)]
AnyDrainingBug(s) == m2m.draining

\* v4l2_m2m_is_last_draining_src_buf()
IsLastDraining(s) == m2m.draining /\ m2m.lastSrc = s

\* ave_b_next: what the planner would do now.
HeldMissing == ctx.plan.n_held > 0 /\ Len(srcQ) < ctx.plan.n_held
HasNew == Len(srcQ) > ctx.plan.n_held
ave_b_next ==
  IF HeldMissing THEN "NONE"
  ELSE IF HasNew
    THEN ave_gop_decide(ctx.plan, TRUE, forceKey,
                        IsLastDraining(srcQ[ctx.plan.n_held + 1]))
    ELSE ave_gop_decide(ctx.plan, FALSE, FALSE,
           ctx.plan.n_held > 0 /\ IsLastDraining(srcQ[ctx.plan.n_held]))

CapNeeded == LET n == ave_gop_need(ctx.plan, ave_b_next)
             IN  IF n = 0 THEN 1 ELSE n
BPath == ctx.nb > 0 /\ ctx.session
OneCaptureTooManyBug == ave_b_next # "NONE" /\ Len(capQ) > CapNeeded
BReady == ave_b_next # "NONE" /\ Len(capQ) >= CapNeeded
ave_job_ready == BPath => BReady

\* __v4l2_m2m_try_queue(): may this context's job be queued?
Runnable == /\ on.out /\ on.cap /\ srcQ # << >> /\ capQ # << >>
            /\ ~m2m.stopped /\ ave_job_ready

\* v4l2_m2m_try_schedule(), after the queues have changed.
TrySchedule == job' = IF job = "none" /\ Runnable' THEN "queued" ELSE job
\* v4l2_m2m_job_finish()
JobFinish == /\ work' = Idle
             /\ job' = IF Runnable' THEN "queued" ELSE "none"

-----------------------------------------------------------------------------
(* m2m drain helpers: each gives the next value of what it changes.        *)

Capture(s, ok, key, last) == [src |-> s, ok |-> ok, key |-> key, last |-> last]
Stopped == [draining |-> FALSE, lastSrc |-> m2m.lastSrc, nextLast |-> FALSE,
            stopped |-> TRUE]
EmptyLast == Capture(NoSource, TRUE, FALSE, TRUE)

\* v4l2_m2m_last_buffer_done() on buffer d: an empty buffer with LAST.
LastBufferDone(d, c) ==
  /\ capOwner' = [capOwner EXCEPT ![d] = "client"]
  /\ out' = Append(out, c)
  /\ m2m' = [Stopped EXCEPT !.lastSrc = NoSource]

\* Hand the head of the CAPTURE queue back as the LAST buffer, or mark the
\* next one queued.
LastOnNextBuffer ==
  IF capQ # << >>
    THEN /\ LastBufferDone(Head(capQ),
              IF work.pc = "remove_dst" /\ Head(capQ) = work.dst
                THEN [work.result EXCEPT !.last = TRUE]
                ELSE EmptyLast)
         /\ capQ' = Tail(capQ)
    ELSE /\ m2m' = [m2m EXCEPT !.draining = TRUE, !.lastSrc = NoSource,
                               !.nextLast = TRUE]
         /\ UNCHANGED << capQ, capOwner, out >>

Init ==
  /\ \E b \in BFrames, g \in GopSizes : ctl = [b_frames |-> b, gop |-> g]
  /\ forceKey = FALSE
  /\ srcQ = << >> /\ capQ = << >>
  /\ capOwner = [d \in Caps |-> "client"]
  /\ on = [out |-> FALSE, cap |-> FALSE]
  /\ m2m = [draining |-> FALSE, lastSrc |-> NoSource, nextLast |-> FALSE,
            stopped |-> FALSE]
  /\ job = "none"
  /\ ctx = [session |-> FALSE, nb |-> 0, plan |-> ave_gop_init(1, 0),
            frame_n |-> 0, pm_lost |-> FALSE]
  /\ work = Idle
  /\ fault = [hung |-> FALSE, qerr |-> {}, paused |-> FALSE]
  /\ out = << >> /\ returned = << >>
  /\ warned = FALSE
  /\ cnt = [src |-> 0, start |-> 0, forced |-> 0, drain |-> 0,
            sleep |-> 0]

-----------------------------------------------------------------------------
(* The client.                                                             *)

\* QBUF on OUTPUT: the next picture, in display order.
QbufSource ==
  /\ on.out /\ "out" \notin fault.qerr
  /\ m2m.draining => ctx.nb \in QbufInDrain
  /\ cnt.src < MaxSources /\ Len(srcQ) < NOut
  /\ srcQ' = Append(srcQ, cnt.src + 1)
  /\ cnt' = [cnt EXCEPT !.src = @ + 1]
  /\ UNCHANGED << ctl, forceKey, capQ, capOwner, on, m2m, ctx, work, fault,
                  out, returned, warned >>
  /\ TrySchedule

\* QBUF on CAPTURE, with ave_buf_queue: when the drain is over this buffer
\* carries the LAST flag and nothing else.
QbufCapture ==
  LET free == { d \in Caps : capOwner[d] = "client" }
      d    == Min(free)
  IN  /\ on.cap /\ "cap" \notin fault.qerr /\ free # {}
      /\ IF m2m.draining /\ m2m.nextLast
           THEN LastBufferDone(d, EmptyLast) /\ UNCHANGED capQ
           ELSE /\ capQ' = Append(capQ, d)
                /\ capOwner' = [capOwner EXCEPT ![d] = "driver"]
                /\ UNCHANGED << out, m2m >>
      /\ UNCHANGED << ctl, forceKey, srcQ, on, ctx, work, fault, returned,
                      warned, cnt >>
      /\ TrySchedule

\* S_CTRL(FORCE_KEY_FRAME), under the control handler's lock only.
ForceKey ==
  /\ cnt.forced < MaxForced
  /\ forceKey' = TRUE
  /\ cnt' = [cnt EXCEPT !.forced = @ + 1]
  /\ UNCHANGED << ctl, stream, job, ctx, work, fault >>

InCompletion == work.pc \in {"remove_src", "remove_dst", "remove_batch"}

NoNudgeBug == UNCHANGED job
\* With B frames ave_encoder_cmd schedules too: if the drain's last source is
\* a held one, no buffer will come to do it.
Nudge == IF ctx.nb > 0 THEN TrySchedule ELSE UNCHANGED job

\* ENCODER_CMD(STOP): ave_encoder_cmd.
EncoderStop ==
  /\ on.out /\ on.cap /\ cnt.drain < MaxDrains
  /\ ~m2m.draining /\ ~m2m.stopped
  /\ InCompletion => StopInCompletion
  /\ IF srcQ # << >>
       THEN /\ m2m' = [m2m EXCEPT !.draining = TRUE,
                                  !.lastSrc = srcQ[Len(srcQ)]]
            /\ UNCHANGED << capQ, capOwner, out >>
       ELSE LastOnNextBuffer
  /\ cnt' = [cnt EXCEPT !.drain = @ + 1]
  /\ UNCHANGED << ctl, forceKey, srcQ, on, ctx, work, fault, returned, warned >>
  /\ Nudge

\* ENCODER_CMD(START) after a drain.
EncoderStart ==
  /\ ~m2m.draining /\ m2m.stopped
  /\ m2m' = [m2m EXCEPT !.stopped = FALSE]
  /\ UNCHANGED << ctl, forceKey, srcQ, capQ, capOwner, on, job, ctx, work,
                  fault, out, returned, warned, cnt >>

-----------------------------------------------------------------------------
(* STREAMON and STREAMOFF.                                                 *)

\* ave_latch_bframes: a GOP needs room for a mini-GOP and the anchor before
\* its IDR.
Latched == CASE ctl.gop > 0 /\ ctl.gop < ctl.b_frames + 2 /\ ctl.b_frames > 0
                  -> IF ctl.gop >= 3 THEN ctl.gop - 2 ELSE 0
             [] OTHER -> ctl.b_frames

\* The m2m drain state ave_start_streaming leaves on the queue it starts.
StartedM2m(q) == IF q = "out" THEN [m2m EXCEPT !.lastSrc = NoSource] ELSE m2m

NewSession == [session |-> TRUE, nb |-> Latched,
               plan |-> ave_gop_init(Latched, ctl.gop), frame_n |-> 0,
               pm_lost |-> FALSE]

\* ave_start_streaming: the second queue to start opens the session.  It can
\* fail (another context owns the encoder, the firmware is hung or asleep);
\* then the queue does not stream and its buffers are the client's again.
StreamOn(q) ==
  LET other == IF q = "out" THEN "cap" ELSE "out"
      opens == on[other] /\ ~ctx.session
      fails == opens /\ (fault.hung \/ fault.paused)
  IN  /\ ~on[q]
      /\ cnt.start < MaxStarts
      /\ m2m' = StartedM2m(q)
      /\ \/ /\ ~fails
            /\ on' = [on EXCEPT ![q] = TRUE]
            /\ ctx' = IF opens THEN NewSession ELSE ctx
         \/ /\ fails \/ (opens /\ "busy" \in Faults)
            /\ UNCHANGED << on, ctx >>
      /\ out' = IF ctx' # ctx THEN << >> ELSE out
      /\ cnt' = [cnt EXCEPT !.start = @ + 1]
      /\ UNCHANGED << ctl, forceKey, srcQ, capQ, capOwner, work, fault,
                      returned, warned >>
      /\ TrySchedule

\* v4l2_m2m_streamoff waits for a running job and drops a queued one; then
\* ave_stop_streaming ends the session (ave_end_session) and gives the
\* queue's buffers back in error.
EndSession == ctx' = [ctx EXCEPT !.session = FALSE]

StreamOffOut ==
  /\ on.out /\ job # "running"
  /\ EndSession
  /\ returned' = returned \o srcQ
  /\ srcQ' = << >>
  /\ IF m2m.draining
       THEN LastOnNextBuffer
       ELSE UNCHANGED << m2m, capQ, capOwner, out >>
  /\ on' = [on EXCEPT !.out = FALSE]
  /\ job' = "none"
  /\ fault' = [fault EXCEPT !.qerr = @ \ {"out"}]
  /\ UNCHANGED << ctl, forceKey, work, warned, cnt >>

StreamOffCap ==
  /\ on.cap /\ job # "running"
  /\ EndSession
  /\ capQ' = << >>
  /\ capOwner' = [d \in Caps |-> "client"]
  /\ m2m' = [m2m EXCEPT !.draining = FALSE, !.nextLast = FALSE,
                        !.stopped = FALSE]
  /\ on' = [on EXCEPT !.cap = FALSE]
  /\ job' = "none"
  /\ fault' = [fault EXCEPT !.qerr = @ \ {"cap"}]
  /\ UNCHANGED << ctl, forceKey, srcQ, work, out, returned, warned, cnt >>

-----------------------------------------------------------------------------
(* The run work, one frame per job: ave_run_work.                          *)

\* Where a job leaves the queues in error: no later frame can succeed.
QueueError(failed, hung) ==
  IF failed /\ (hung \/ ctx.pm_lost) THEN {"out", "cap"} ELSE fault.qerr

\* What becomes of an encode: "ok", "error" or "hang" (the reply timed out).
\* Without a session, or once hung, it can only fail.
EncodeOutcomes ==
  IF ~ctx.session \/ fault.hung THEN {"error"}
  ELSE {"ok"} \cup (Faults \cap {"error", "hang"})

FrameIsKey == \/ ctx.frame_n = 0 \/ forceKey
              \/ ctl.gop > 0 /\ ctx.frame_n % ctl.gop = 0

\* Peek at the buffers and decide the frame's type; they stay queued.
StartFrame ==
  /\ job = "queued" /\ ~fault.paused /\ ~BPath
  /\ job' = "running"
  /\ work' = [pc  |-> "encode", src |-> Head(srcQ), dst |-> Head(capQ),
              idr |-> FrameIsKey]
  /\ UNCHANGED << ctl, forceKey, stream, ctx, fault, cnt >>

CountsFailedBug(ok) == ctx.frame_n + 1
\* A failed frame is tried again with the next source.
FrameCount(ok) == IF ok THEN ctx.frame_n + 1 ELSE ctx.frame_n

\* The encode ends; the work looks whether a STOP named this source.
EncodeFrame ==
  \E o \in EncodeOutcomes :
    LET ok   == o = "ok"
        hung == fault.hung \/ o = "hang"
        last == IsLastDraining(work.src)
    IN  /\ work.pc = "encode"
        /\ forceKey' = IF ok THEN FALSE ELSE forceKey
        /\ ctx' = [ctx EXCEPT !.frame_n = FrameCount(ok)]
        /\ fault' = [fault EXCEPT !.hung = hung,
                                  !.qerr = QueueError(~ok, hung)]
        /\ m2m' = IF last THEN Stopped ELSE m2m
        /\ work' = [pc |-> "remove_src", src |-> work.src, dst |-> work.dst,
                    result |-> Capture(work.src, ok, ok /\ work.idr, last)]
        /\ UNCHANGED << ctl, srcQ, capQ, capOwner, on, job, out, returned,
                        warned, cnt >>

RemoveSource ==
  /\ work.pc = "remove_src"
  /\ srcQ' = Tail(srcQ)
  /\ work' = [work EXCEPT !.pc = "remove_dst"]
  /\ UNCHANGED << ctl, forceKey, capQ, capOwner, on, m2m, job, ctx, fault,
                  out, returned, warned, cnt >>

\* The head of the CAPTURE queue goes - it should be work.dst - and both
\* buffers are done.
RemoveCapture ==
  /\ work.pc = "remove_dst"
  /\ capQ' = IF capQ = << >> THEN capQ ELSE Tail(capQ)
  /\ returned' = Append(returned, work.src)
  /\ IF capOwner[work.dst] = "driver"
       THEN /\ capOwner' = [capOwner EXCEPT ![work.dst] = "client"]
            /\ out' = Append(out, work.result)
            /\ UNCHANGED warned
       ELSE warned' = TRUE /\ UNCHANGED << capOwner, out >>
  /\ UNCHANGED << ctl, forceKey, srcQ, on, m2m, ctx, fault, cnt >>
  /\ JobFinish

-----------------------------------------------------------------------------
(* The run work with B frames: ave_run_work_b and ave_b_batch.             *)

\* The plan may have changed since job_ready said yes.
PlanChanged ==
  /\ job = "queued" /\ ~fault.paused /\ BPath /\ ~BReady
  /\ UNCHANGED << ctl, forceKey, stream, ctx, fault, cnt >>
  /\ JobFinish

\* Decide, number the new source and commit the plan.  The queues, the drain
\* and force_key are read for the decision; what follows it, but for
\* force_key, is the context's own.
StartBatches ==
  LET act == ave_b_next
  IN  /\ job = "queued" /\ ~fault.paused /\ BPath /\ BReady
      /\ ctx' = [ctx EXCEPT !.plan = GopNext(ctx.plan, act),
                            !.frame_n = IF act = "CLOSE" THEN @ ELSE @ + 1]
      /\ UNCHANGED << ctl, forceKey, stream, fault, cnt >>
      /\ IF act = "HOLD"
           THEN JobFinish
           ELSE /\ job' = "running"
                /\ work' = [pc |-> IF act = "KEY" THEN "clear" ELSE "batch",
                            srcs |-> srcQ,
                            batches |-> GopBatches(ctx.plan, act)]

\* An IDR was decided on: the request is taken, and with it one that came
\* after the decision had read force_key.
ClearForceKey ==
  /\ work.pc = "clear"
  /\ forceKey' = FALSE
  /\ work' = [work EXCEPT !.pc = "batch"]
  /\ UNCHANGED << ctl, stream, job, ctx, fault, cnt >>

\* The firmware codes a mini-GOP's anchor first and then releases its Bs.
BackwardsBug(b) == Reverse([i \in DOMAIN b |-> i])
DecodeOrder(b) == << Len(b) >> \o [i \in 1 .. Len(b) - 1 |-> i]
Source(f) == work.srcs[f.src + 1]

\* The frames in the order their CAPTURE buffers are done when n complete:
\* those in decode order, then the others in the batch's - which is decode
\* order too, but for an anchor that is not the first.
DoneOrder(b, n) == IF n = 0 THEN [i \in DOMAIN b |-> i] ELSE DecodeOrder(b)

CapturesAfter(n) == SubSeq(capQ, n + 1, Len(capQ))

\* One batch: n of its frames complete; the others follow, empty and in
\* error, so every source has its CAPTURE buffer.
EncodeBatch ==
  LET b     == Head(work.batches)
      last  == \E i \in DOMAIN b : IsLastDraining(Source(b[i]))
      done(n, k) == LET f == b[DoneOrder(b, n)[k]]
                    IN  Capture(Source(f), k <= n, k <= n /\ f.type = "IDR",
                                last /\ k = Len(b))
  IN  /\ work.pc = "batch"
      /\ \E o \in EncodeOutcomes, n \in 0 .. Len(b) :
           /\ (o = "ok") = (n = Len(b))
           /\ LET hung == fault.hung \/ o = "hang"
              IN  fault' = [fault EXCEPT !.hung = hung,
                                         !.qerr = QueueError(o # "ok", hung)]
           /\ ~ctx.session \/ fault.hung => n = 0
           /\ out' = out \o [k \in 1 .. Len(b) |-> done(n, k)]
      /\ capOwner' = [d \in Caps |->
                        IF \E k \in 1 .. Len(b) : capQ[k] = d
                          THEN "client" ELSE capOwner[d]]
      /\ capQ' = CapturesAfter(Len(b))
      /\ m2m' = IF last THEN Stopped ELSE m2m
      /\ work' = [work EXCEPT !.pc = "remove_batch"]
      /\ UNCHANGED << ctl, forceKey, srcQ, on, job, ctx, returned, warned, cnt >>

AnchorOnlyBug == << Source(Last(Head(work.batches))) >>
\* The batch's sources, in display order.
BatchSources == [i \in DOMAIN Head(work.batches) |-> Source(Head(work.batches)[i])]
\* v4l2_m2m_src_buf_remove_by_buf() of each: the others keep their order.
Without(q, gone) ==
  LET kept == { i \in DOMAIN q : q[i] \notin Range(gone) }
  IN  [n \in 1 .. Cardinality(kept) |->
         q[CHOOSE i \in kept : Cardinality({ j \in kept : j <= i }) = n]]

RemoveBatch ==
  LET gone == BatchSources
  IN  /\ work.pc = "remove_batch"
      /\ srcQ' = Without(srcQ, gone)
      /\ returned' = returned \o gone
      /\ UNCHANGED << ctl, forceKey, capQ, capOwner, on, m2m, ctx, fault, out,
                      warned, cnt >>
      /\ IF Len(work.batches) > 1
           THEN /\ work' = [work EXCEPT !.pc = "batch", !.batches = Tail(@)]
                /\ UNCHANGED job
           ELSE JobFinish

-----------------------------------------------------------------------------
(* System sleep, as the stream sees it.                                    *)

\* ave_v4l2_pm_quiesce: the running job is waited out, the session ended.
Suspend ==
  /\ "sleep" \in Faults /\ cnt.sleep = 0 /\ job # "running"
  /\ IF ctx.session
       THEN /\ ctx' = [ctx EXCEPT !.session = FALSE, !.pm_lost = TRUE]
            /\ fault' = [fault EXCEPT !.paused = TRUE, !.qerr = {"out", "cap"}]
       ELSE /\ fault' = [fault EXCEPT !.paused = TRUE]
            /\ UNCHANGED ctx
  /\ cnt' = [cnt EXCEPT !.sleep = 1]
  /\ UNCHANGED << ctl, forceKey, stream, job, work >>

\* ave_v4l2_pm_resume
Resume ==
  /\ fault.paused
  /\ fault' = [fault EXCEPT !.paused = FALSE]
  /\ UNCHANGED << ctl, forceKey, stream, job, ctx, work, cnt >>

RunWork == StartFrame \/ EncodeFrame \/ RemoveSource \/ RemoveCapture
           \/ PlanChanged \/ StartBatches \/ ClearForceKey \/ EncodeBatch
           \/ RemoveBatch
Client == QbufSource \/ QbufCapture \/ ForceKey \/ EncoderStop \/ EncoderStart
          \/ (\E q \in {"out", "cap"} : StreamOn(q))
          \/ StreamOffOut \/ StreamOffCap
Next == RunWork \/ Client \/ Suspend \/ Resume

Spec == Init /\ [][Next]_vars

\* The workqueue runs the job; a client that wants its frames keeps queuing
\* CAPTURE buffers; a sleeping system wakes up.  Nothing is assumed of
\* sources, of drains or of STREAMON.
Fairness == WF_vars(RunWork) /\ WF_vars(QbufCapture) /\ WF_vars(Resume)
FairSpec == Spec /\ Fairness

-----------------------------------------------------------------------------
(* Type invariant.                                                         *)

TypeOK ==
  /\ ctl \in [b_frames : BFrames, gop : GopSizes]
  /\ forceKey \in BOOLEAN /\ warned \in BOOLEAN
  /\ srcQ \in Seq(Nat) /\ Len(srcQ) <= NOut
  /\ capQ \in Seq(Caps)
  /\ capOwner \in [Caps -> {"client", "driver"}]
  /\ on \in [out : BOOLEAN, cap : BOOLEAN]
  /\ m2m \in [draining : BOOLEAN, lastSrc : Nat, nextLast : BOOLEAN,
              stopped : BOOLEAN]
  /\ job \in {"none", "queued", "running"}
  /\ (job = "running") = (work # Idle)
  /\ work.pc \in {"idle", "encode", "remove_src", "remove_dst", "clear",
                  "batch", "remove_batch"}
  /\ ctx.session \in BOOLEAN /\ ctx.nb \in 0 .. B_MAX
  /\ ctx.frame_n \in Nat /\ ctx.pm_lost \in BOOLEAN
  /\ ctx.plan.n_held <= ctx.nb
  /\ fault.qerr \subseteq {"out", "cap"}

-----------------------------------------------------------------------------
(* Safety.                                                                 *)

\* A source the work has taken off the queue and not given back yet.
InHand == IF work.pc = "remove_dst" THEN << work.src >> ELSE << >>

\* Every source the client queued is given back exactly once and in display
\* order, whatever order the batches code it in and however the stream ends
\* (ave_b_batch's removal by buffer, STREAMOFF, errors, sleep).
SourcesConserved ==
  returned \o InHand \o srcQ = [i \in 1 .. cnt.src |-> i]

\* The sources the planner holds are the head of the OUTPUT queue
\* (ave_b_next: "cannot happen: the held are queued").
HeldAreQueued == BPath => ~HeldMissing

\* CAPTURE buffers are neither done twice nor lost: the driver owns exactly
\* the buffers on its queue, where the work or a STOP will find them
\* (v4l2_m2m_dst_buf_remove takes the head and trusts that it is dst).
CapturesConserved ==
  /\ ~warned
  /\ { d \in Caps : capOwner[d] = "driver" } = Range(capQ)
  /\ IsInjective(capQ)

\* The frames still to code of the job: of one batch, or of two.
FramesLeft == Len(work.batches[1]) + (IF Len(work.batches) = 2
                                        THEN Len(work.batches[2]) ELSE 0)
\* The work finds a CAPTURE buffer for every frame it has planned, though
\* STOP and STREAMOFF take buffers too ("job_ready counted them").
BatchHasCaptures ==
  work.pc \in {"clear", "batch"} => FramesLeft <= Len(capQ)

\* No buffer of either queue is lost, done twice or taken for another's, and
\* the run work always has those its plan counted on: whatever the client,
\* the work, an error and a sleep do in between.
BuffersConserved ==
  TypeOK /\ SourcesConserved /\ HeldAreQueued /\ CapturesConserved /\ BatchHasCaptures

\* The sources whose last-source check the work has behind it.
Checked ==
  CASE work.pc = "remove_src"   -> {work.src}
    [] work.pc = "remove_batch" -> Range(BatchSources)
    [] OTHER                    -> {}

\* While a drain waits for its last source, that source is still queued and
\* the work has yet to look at it: LAST will be delivered (run_work peeks
\* and removes late "a STOP that arrived meanwhile names one of these").
DrainHasLast ==
  m2m.draining /\ ~m2m.nextLast => m2m.lastSrc \in Range(srcQ) \ Checked

\* The frame that carries this drain's LAST is on its way to the client.
LastInHand == work.pc \in {"remove_src", "remove_dst"} /\ work.result.last

\* LAST ends the stream: no CAPTURE buffer follows it before the client says
\* START or restarts a queue, and it leaves no source of the drain uncoded.
LastIsFinal ==
  [][/\ m2m.stopped /\ ~LastInHand => out' \in {out, << >>}
     /\ m2m'.stopped /\ ~m2m.stopped =>
          \A s \in Range(srcQ') : s <= m2m.lastSrc => s \in Checked']_vars

\* A CAPTURE buffer that came with a coded frame: not in error, not empty.
Delivered(c) == c.ok /\ c.src # NoSource

\* The first frame a session delivers is an IDR, errors before it or not:
\* the one-frame path counts frames that were coded, not sources.
OpensWithKey ==
  ctx.nb = 0 =>
    \A j \in DOMAIN out :
      Delivered(out[j]) /\ (\A i \in 1 .. j - 1 : ~Delivered(out[i]))
        => out[j].key

\* GOP_SIZE frames in a row, none of them lost, hold an IDR, whichever path
\* codes them and in decode order.
KeyEveryGop ==
  ctl.gop > 0 =>
    \A i \in 1 .. Len(out) - ctl.gop + 1 :
      LET run == i .. i + ctl.gop - 1
      IN  (\A k \in run : Delivered(out[k])) => \E k \in run : out[k].key

\* Decoding can start at the first frame delivered and again in every GOP,
\* though frames fail, are counted only when coded, and change their order.
KeysInPlace == OpensWithKey /\ KeyEveryGop

\* CAPTURE comes in decode order, one frame per source: only its anchor
\* overtakes a B, by no more than the mini-GOP, and nothing a P or an IDR.
ReorderBounded ==
  \A j \in DOMAIN out :
    out[j].src # NoSource =>
      LET sooner == { i \in 1 .. j - 1 : out[i].src >= out[j].src }
      IN  /\ Cardinality(sooner) <= 1
          /\ \A i \in sooner : out[i].src - out[j].src \in 1 .. ctx.nb

\* No step leaves a context that could run without a job queued: sources,
\* CAPTURE buffers, STOP's nudge and the end of a job all schedule.  (START
\* does not; the client's next QBUF does.  Nor need it once the queues are
\* in error: a sleep that ends the session makes job_ready say yes.)
NoLostWakeup ==
  [][Runnable' /\ job' = "none" /\ fault'.qerr = {} =>
       (Runnable /\ job = "none") \/ (m2m.stopped /\ ~m2m'.stopped)]_vars

-----------------------------------------------------------------------------
(* Liveness, under Fairness.                                               *)

\* A drain ends: LAST reaches the client, or the queues are in error and it
\* knows, or STREAMOFF cancels.
DrainEnds == m2m.draining ~> ~m2m.draining \/ fault.qerr # {}

\* A source is coded, or held as a B for an anchor to come, unless the
\* stream stopped (a drain has ended, CAPTURE is off, the queues in error).
Held(s) == BPath /\ \E i \in 1 .. ctx.plan.n_held : srcQ[i] = s
StreamStopped == \/ cnt.drain > 0 /\ ~m2m.draining
                 \/ ~on.cap \/ fault.qerr # {}
SourceTaken ==
  \A s \in 1 .. MaxSources :
    s \in Range(srcQ) ~> s \notin Range(srcQ) \/ Held(s) \/ StreamStopped
=============================================================================
