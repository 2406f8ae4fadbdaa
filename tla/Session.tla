------------------------------ MODULE Session ------------------------------
(***************************************************************************)
(* One encoder's firmware session (driver/ave_session.c): the commands the *)
(* V4L2 layer makes it send, and how it tells the answers apart.           *)
(*                                                                         *)
(* The calls are made one at a time (hw_mutex).  The firmware takes the    *)
(* commands, codes the frames and posts its answers; the interrupt brings  *)
(* them to struct ave_sess_rx between any two steps of a call.  A batch    *)
(* has several frames in flight; it gives up at the first that fails, with *)
(* the others' answers still to come.  The firmware is external.           *)
(***************************************************************************)
EXTENDS Gop, CodedFrame

\* (An operator named ...Bug is not the code: it is a plausible mistake in
\* the definition after it, which one of the properties must catch.)
CONSTANTS
  BFrames,      \* B frames a stream may be started with; 0: one frame a call
  Hevc,         \* of these, the ones whose stream is HEVC
  MaxCalls,     \* bound: calls made, up to the last frame of a stream
                \* without B frames
  MaxBatches,   \* the same, up to the last batch of one with
  MaxSessions,  \* bound: streams started
  MaxFaults,    \* bound: how often something goes wrong
  Faults        \* what may go wrong: the firmware rejects a command, drops
                \* a frame, garbles its header, makes an IDR of its own or
                \* hangs; a send finds no slot in the ring

ASSUME SessionAssumption ==
  /\ BFrames \subseteq 0 .. B_MAX /\ BFrames # {}
  /\ Hevc \subseteq BFrames
  /\ MaxCalls \in Nat /\ MaxBatches \in Nat /\ MaxSessions \in Nat
  /\ MaxFaults \in Nat
  /\ Faults \subseteq {"reject", "drop", "garble", "idr", "hang", "send"}

VARIABLES
  sess,    \* [open (client_open), bufs (the stream's buffers are live), hung
           \* (fw_hung), on (the caller's session), nb, plan, frame_n,
           \* started, calls (counted for the bounds)]
  call,    \* the call in progress: [pc, op, frames (of the batch), k, count,
           \* done (frames completed); ret, out: its results, kept until the
           \* next call]
  rx,      \* struct ave_sess_rx: [done (completions not yet waited for),
           \* want (want_id), batch, buf, nq, q (qbuf)]
  hdr,     \* coded header of each slot (CodedFrame)
  mem,     \* coded buffer of each slot: never cleared
  fw,      \* firmware: [up, cmd, queue, busy (the frame and the picture it
           \* is coding), anchor (last one coded)]
  toHost,  \* IO_T2H: answers posted and not yet drained
  faults,  \* history: how many things have gone wrong
  own      \* history: no frame has outlived its batch: begun, or answered to
           \* another batch, after its own was given up

vars == << sess, call, rx, hdr, mem, fw, toHost, faults, own >>

\* AVE_CODED_SLOTS; AVE_SESS_RX_Q.
CodedSlots == 4
RX_Q == 4

NONE == -1

Ops == {"OPEN", "START", "PROCESS", "STOP", "CLOSE"}
\* reply_id of each command: the firmware's own names for Open, Start, Stop
\* and Close are START, INIT, UNINIT and STOP.
ReplyId(op) == CASE op = "OPEN"    -> "START_DONE"
                 [] op = "START"   -> "INIT_DONE"
                 [] op = "PROCESS" -> "ENCODE_DONE"
                 [] op = "STOP"    -> "UNINIT_DONE"
                 [] op = "CLOSE"   -> "STOP_DONE"
ReplyIds == {ReplyId(op) : op \in Ops}

\* What may go wrong now.
MayFail == IF faults < MaxFaults THEN Faults ELSE {}
Failed  == faults' = faults + 1
Clean   == faults = 0

\* idx: the coded slot of frame fn.
Idx(fn) == fn % CodedSlots

\* An answer: idx is its slot word less AVE_SESS_PROCESS_SLOT; fn is not in
\* it: a history of which frame it answers.
Answer(id, ok, fn) ==
  [id |-> id, ok |-> ok, fn |-> fn, idx |-> IF fn = NONE THEN 0 ELSE Idx(fn)]
NoAnswer == Answer("NONE", FALSE, NONE)

IdleCall == [pc |-> "idle", op |-> "CLOSE", frames |-> << >>, k |-> 0,
             count |-> 0, done |-> {}, ret |-> "ok", out |-> << >>]

Init ==
  /\ sess = [open |-> FALSE, bufs |-> FALSE, hung |-> FALSE, on |-> FALSE,
             nb |-> 0, plan |-> ave_gop_init(1, 0), frame_n |-> 0,
             started |-> 0, calls |-> 0]
  /\ call = IdleCall
  /\ rx = [done |-> 0, want |-> "CONFIG_DONE", batch |-> FALSE,
           buf |-> NoAnswer, nq |-> 0, q |-> [i \in 1 .. RX_Q |-> NoAnswer]]
  /\ hdr = [i \in 0 .. CodedSlots - 1 |-> ClearHeader]
  /\ mem = [i \in 0 .. CodedSlots - 1 |-> ClearBuffer]
  /\ fw = [up |-> TRUE, cmd |-> "NONE", queue |-> << >>, busy |-> {},
           anchor |-> NONE]
  /\ toHost = << >>
  /\ faults = 0
  /\ own = TRUE

-----------------------------------------------------------------------------
(* ave_session_cmd: one command, one answer.                               *)

\* A call of op begins: its commands are built, reinit_completion().
Begin(r, op, frames) ==
  /\ call' = [IdleCall EXCEPT !.pc = "arm", !.op = op, !.frames = frames,
                              !.count = Len(frames)]
  /\ rx' = [r EXCEPT !.done = 0, !.buf = NoAnswer]

FreesAnywayBug(ret) == [sess EXCEPT !.open = ret # "ok", !.bufs = FALSE]
\* ave_enc_stop, at its end: on failure nothing is freed.
Stopped(ret) == [sess EXCEPT !.open = ret # "ok", !.bufs = ret # "ok"]

\* What a command that ended with ret leaves of the session.  R1: nothing
\* answers a Process after a timeout but a core reset.
SessAfter(ret) ==
  CASE call.op = "OPEN"    -> [sess EXCEPT !.open = ret = "ok",
                                           !.bufs = ret = "ok"]
    [] call.op = "START"   -> [sess EXCEPT !.on = ret = "ok"]
    [] call.op = "PROCESS" -> [sess EXCEPT
                                 !.hung = ret = "timeout",
                                 !.frame_n = IF ret = "ok" THEN @ + 1 ELSE @]
    [] call.op = "STOP" /\ ret = "ok" -> sess
    [] OTHER               -> Stopped(ret)

\* Open is followed by Start, Stop by Close; a Start that fails is stopped.
FollowedBy(ret) ==
  CASE call.op = "OPEN" /\ ret = "ok"  -> {"START"}
    [] call.op = "START" /\ ret # "ok" -> {"STOP"}
    [] call.op = "STOP" /\ ret = "ok"  -> {"CLOSE"}
    [] OTHER                           -> {}

\* r is rx as the command leaves it.
AfterCommand(ret, out, r) ==
  /\ sess' = SessAfter(ret)
  /\ \/ \E op \in FollowedBy(ret) : Begin(r, op, << >>)
     \/ /\ FollowedBy(ret) = {}
        /\ call' = [call EXCEPT !.pc = "idle", !.ret = ret, !.out = out]
        /\ rx' = r

CmdSend ==
  /\ call.pc = "arm" /\ call.op \in Ops
  /\ LET armed == [rx EXCEPT !.want = ReplyId(call.op)]
     IN  \/ /\ fw' = IF call.op = "PROCESS"
                       THEN [fw EXCEPT !.queue = @ \o call.frames]
                       ELSE [fw EXCEPT !.cmd = call.op]
            /\ call' = [call EXCEPT !.pc = "wait"]
            /\ rx' = armed
            /\ UNCHANGED << sess, faults >>
         \/ /\ "send" \in MayFail   \* no slot, or the DART check refuses it
            /\ AfterCommand("err", << >>, armed)
            /\ Failed
            /\ UNCHANGED fw
  /\ UNCHANGED << hdr, mem, toHost, own >>

\* ave_cmd_check_reply, of an answer to op.
Accepted(a, op) == a.id = ReplyId(op) /\ a.ok

\* A frame's result.
HasResult(fn) == ResultOk(hdr[Idx(fn)])
Result(f) == LET h == hdr[Idx(f.fn)]
             IN  [fn |-> f.fn, coded |-> h.fn,
                  stream |-> StreamOf(h, mem[Idx(f.fn)], f.type = "IDR",
                                      sess.nb \in Hevc)]

\* One frame: the echoed frameNumber is only warned about.
CmdAnswered ==
  /\ call.pc = "wait" /\ rx.done > 0
  /\ LET ok  == /\ Accepted(rx.buf, call.op)
                /\ \A f \in Range(call.frames) : HasResult(f.fn)
         out == IF ok THEN [i \in DOMAIN call.frames |-> Result(call.frames[i])]
                      ELSE << >>
     IN  AfterCommand(IF ok THEN "ok" ELSE "err", out,
                      [rx EXCEPT !.done = @ - 1])
  /\ UNCHANGED << hdr, mem, fw, toHost, faults, own >>

\* The firmware codes a B only after an anchor of a higher frameNumber.
CanCode(f) == f.type = "B" => f.fn < fw.anchor
Codable == \E f \in Range(fw.queue) : CanCode(f)
\* The frame it codes next, by its place in the queue.
Turn(i) == /\ i \in DOMAIN fw.queue /\ CanCode(fw.queue[i])
           /\ \A j \in 1 .. i - 1 : ~CanCode(fw.queue[j])

\* AVE_SESS_TIMEOUT_MS is seconds: the firmware has nothing more to say.
Silent == /\ toHost = << >> /\ rx.done = 0
          /\ fw.up => fw.cmd = "NONE" /\ fw.busy = {} /\ ~Codable

CmdTimeout ==
  /\ call.pc = "wait" /\ Silent
  /\ AfterCommand("timeout", << >>, rx)
  /\ UNCHANGED << hdr, mem, fw, toHost, faults, own >>

-----------------------------------------------------------------------------
(* The calls of the V4L2 layer.                                            *)

\* ave_enc_start (a client the firmware never gave back: EBUSY).
EncStart(b) ==
  /\ call.pc = "idle" /\ ~sess.hung /\ ~sess.open
  /\ sess.started < MaxSessions
  /\ sess' = [sess EXCEPT !.nb = b, !.frame_n = 0, !.started = @ + 1,
                          !.plan = ave_gop_init(IF b = 0 THEN 1 ELSE b, 0)]
  /\ Begin(rx, "OPEN", << >>)
  /\ hdr' = [i \in DOMAIN hdr |-> ClearHeader]
  /\ mem' = [i \in DOMAIN mem |-> ClearBuffer]
  /\ UNCHANGED << fw, toHost, faults, own >>

\* ave_end_session, ave_enc_stop: a hung firmware is left alone.
EndSession ==
  /\ call.pc = "idle" /\ sess.on
  /\ sess' = [sess EXCEPT !.on = FALSE]
  /\ IF sess.hung THEN UNCHANGED << call, rx >> ELSE Begin(rx, "STOP", << >>)
  /\ UNCHANGED << hdr, mem, fw, toHost, faults, own >>

KeepsHeaderBug(frames) ==
  [i \in DOMAIN hdr |->
     IF \E f \in Range(frames) : Idx(f.fn) = i
       THEN [hdr[i] EXCEPT !.fn = BLANK] ELSE hdr[i]]
\* ave_session_process_build clears the coded headers of the frames' slots,
\* and their slice headers.
Cleared(frames) ==
  [i \in DOMAIN hdr |->
     IF \E f \in Range(frames) : Idx(f.fn) = i THEN ClearHeader ELSE hdr[i]]

\* ave_enc_encode: the next frame of a stream without B frames.
EncEncode ==
  /\ call.pc = "idle" /\ sess.on /\ ~sess.hung
  /\ sess.nb = 0 /\ sess.calls < MaxCalls
  /\ sess' = [sess EXCEPT !.calls = @ + 1]
  /\ LET f == GopFrame(0, IF sess.frame_n = 0 THEN "IDR" ELSE "P", sess.frame_n)
     IN  /\ Begin(rx, "PROCESS", << f >>)
         /\ hdr' = Cleared(<< f >>)
  /\ UNCHANGED << mem, fw, toHost, faults, own >>

\* ave_enc_encode_batch: an IDR, or a mini-GOP of any number of Bs.
EncEncodeBatch(frames, plan) ==
  /\ call.pc = "idle" /\ sess.on /\ ~sess.hung
  /\ sess.calls < MaxBatches
  /\ sess' = [sess EXCEPT !.plan = plan, !.calls = @ + 1]
  /\ Begin([rx EXCEPT !.nq = 0], "BATCH", frames)
  /\ hdr' = Cleared(frames)
  /\ UNCHANGED << mem, fw, toHost, faults, own >>

EncBatch ==
  LET held(n) == [sess.plan EXCEPT !.n_held = n]
      acts == [n : 0 .. sess.nb, act : IF sess.plan.started
                                         THEN {"ANCHOR", "KEY"} ELSE {"KEY"}]
  IN  /\ sess.nb > 0
      /\ \E a \in acts :
           /\ a.act = "KEY" => a.n = 0
           /\ EncEncodeBatch(GopBatches(held(a.n), a.act)[1],
                             [GopNext(held(a.n), a.act) EXCEPT !.dist = 0])

-----------------------------------------------------------------------------
(* ave_session_process_batch.                                              *)

BatchArm ==
  /\ call.pc = "arm" /\ call.op = "BATCH"
  /\ rx' = [rx EXCEPT !.want = ReplyId("PROCESS"), !.batch = TRUE]
  /\ call' = [call EXCEPT !.pc = "send"]
  /\ UNCHANGED << sess, hdr, mem, fw, toHost, faults, own >>

\* When a send fails, what is in flight is collected.  (Of the first frame:
\* also a command that could not be built.)
BatchSend ==
  /\ call.pc = "send" /\ call.k < call.count
  /\ \/ /\ fw' = [fw EXCEPT !.queue = Append(@, call.frames[call.k + 1])]
        /\ call' = [call EXCEPT !.k = @ + 1]
        /\ UNCHANGED faults
     \/ /\ "send" \in MayFail
        /\ call' = [call EXCEPT !.count = call.k, !.ret = "err"]
        /\ Failed
        /\ UNCHANGED fw
  /\ UNCHANGED << sess, rx, hdr, mem, toHost, own >>

BatchSent ==
  /\ call.pc = "send" /\ call.k = call.count
  /\ call' = [call EXCEPT !.pc = "collect", !.k = 0]
  /\ UNCHANGED << sess, rx, hdr, mem, fw, toHost, faults, own >>

\* The batch is over, with these results.
BatchEnds(ret, r) ==
  /\ call' = [call EXCEPT !.pc = "idle", !.ret = ret]
  /\ rx' = [r EXCEPT !.batch = FALSE]
  /\ sess' = [sess EXCEPT !.hung = ret = "timeout"]

\* Which frames of the batch the answer's slot may name: one not done yet.
Named(a) == {f \in {call.frames[i] : i \in 1 .. call.count} :
               Idx(f.fn) = a.idx /\ f \notin call.done}

EchoIgnoredBug(f) == HasResult(f.fn)
\* The frame has a result, and its coded header says it is this frame's.
Echoed(f) == HasResult(f.fn) /\ Result(f).coded = f.fn

BatchCollect ==
  LET a == rx.q[call.k + 1]
      r == [rx EXCEPT !.done = @ - 1]
  IN  /\ call.pc = "collect" /\ call.k < call.count /\ rx.done > 0
      /\ own' = (own /\ \E f \in Range(call.frames) : f.fn = a.fn)
      /\ \/ \E f \in Named(a) :
              /\ Accepted(a, "PROCESS") /\ Echoed(f)
              /\ call' = [call EXCEPT !.k = @ + 1, !.done = @ \union {f},
                                      !.ret = "ok", !.out = Append(@, Result(f))]
              /\ rx' = r
              /\ UNCHANGED sess
         \/ /\ Accepted(a, "PROCESS") => ~\E f \in Named(a) : Echoed(f)
            /\ BatchEnds("err", r)
      /\ UNCHANGED << hdr, mem, fw, toHost, faults >>

BatchTimeout ==
  /\ call.pc = "collect" /\ call.k < call.count /\ Silent
  /\ BatchEnds("timeout", rx)
  /\ UNCHANGED << hdr, mem, fw, toHost, faults, own >>

BatchDone ==
  /\ call.pc = "collect" /\ call.k = call.count
  /\ BatchEnds(call.ret, rx)
  /\ UNCHANGED << hdr, mem, fw, toHost, faults, own >>

-----------------------------------------------------------------------------
(* The interrupt: ave_session_ipc_rx.                                      *)

CompletesOnceBug(r) == 1
\* complete()
Completed(r) == r.done + 1

AnyAnswerBug(a, r) == TRUE
\* Another notification is not the answer: keep waiting.
Wanted(a, r) == a.id = r.want

\* struct ave_sess_rx after answer a.
RxAfter(r, a) ==
  IF ~Wanted(a, r) THEN r
  ELSE IF r.batch
    THEN [r EXCEPT !.q    = IF r.nq < RX_Q THEN [@ EXCEPT ![r.nq + 1] = a] ELSE @,
                   !.nq   = @ + 1,
                   !.done = Completed(r)]
    ELSE [r EXCEPT !.buf = a, !.done = Completed(r)]

IpcRx ==
  /\ toHost # << >>
  /\ rx' = RxAfter(rx, Head(toHost))
  /\ toHost' = Tail(toHost)
  /\ UNCHANGED << sess, call, hdr, mem, fw, faults, own >>

-----------------------------------------------------------------------------
(* The firmware, from how the driver uses it and what its comments say of  *)
(* it: it codes frames in the order sent, a B only after a later anchor;   *)
(* Stop cancels the frames it has not begun and is answered when none is   *)
(* being coded.                                                            *)

\* The firmware codes what it was sent, an IDR in two slices, and may make an
\* IDR of an HEVC P.  It writes the buffer while it codes, the header at the
\* end.
MadeIdrs(f) == {f.type = "IDR"} \union
               {TRUE : x \in {"idr"} \intersect
                  IF sess.nb \in Hevc /\ f.type = "P" THEN Faults ELSE {}}

FwBegin ==
  /\ fw.up /\ fw.busy = {}
  /\ \E i \in DOMAIN fw.queue :
       LET f == fw.queue[i]
       IN  /\ Turn(i)
           /\ \E idr \in MadeIdrs(f) :
                LET pic == Picture(f.fn, idr, IF idr THEN 2 ELSE 1)
                IN  /\ fw' = [fw EXCEPT !.busy  = {[f |-> f, pic |-> pic]},
                                        !.queue = RemoveAt(@, i)]
                    /\ mem' = [mem EXCEPT ![Idx(f.fn)] = CodeInto(@, pic)]
           /\ own' = (own /\ f \in Range(call.frames))
  /\ UNCHANGED << sess, call, rx, hdr, toHost, faults >>

\* A frame is over: coded, rejected, dropped (answered OK, the header says
\* so) or with a header that cannot be read.  LRME_DONE is raised with the
\* answer, before it.  A later B may or may not be coded once its anchor has
\* failed.
FwEnd(f, pic, outcome) ==
  /\ hdr' = [hdr EXCEPT ![Idx(f.fn)] =
                CASE outcome = "coded"  -> HeaderOf(@, pic)
                  [] outcome = "drop"   -> [@ EXCEPT !.fn = DROPPED]
                  [] outcome = "garble" -> GarbledOf(@, pic)
                  [] outcome = "reject" -> @]
  /\ toHost' = toHost \o << Answer("LRME_DONE", TRUE, f.fn),
                            Answer("ENCODE_DONE", outcome # "reject", f.fn) >>
  /\ \E anchors \in IF outcome = "coded" THEN {TRUE} ELSE BOOLEAN :
       fw' = [fw EXCEPT !.busy = {},
                        !.anchor = IF f.type # "B" /\ anchors THEN f.fn ELSE @]
  /\ IF outcome = "coded" THEN UNCHANGED faults ELSE Failed

FwFrame ==
  /\ fw.up
  /\ \E b \in fw.busy,
        outcome \in {"coded"} \union (MayFail \intersect {"reject", "drop", "garble"}) :
       FwEnd(b.f, b.pic, outcome)
  /\ UNCHANGED << sess, call, rx, mem, own >>

FwCommand ==
  /\ fw.up /\ fw.cmd # "NONE"
  /\ fw.cmd = "STOP" => fw.busy = {}
  /\ \E ok \in {TRUE, "reject" \notin MayFail} :
       /\ toHost' = Append(toHost, Answer(ReplyId(fw.cmd), ok, NONE))
       /\ IF ok THEN UNCHANGED faults ELSE Failed
  /\ fw' = [fw EXCEPT !.cmd = "NONE",
                      !.queue  = IF fw.cmd = "STOP" THEN << >> ELSE @,
                      !.anchor = IF fw.cmd = "OPEN" THEN NONE ELSE @]
  /\ UNCHANGED << sess, call, rx, hdr, mem, own >>

FwHang ==
  /\ fw.up /\ "hang" \in MayFail
  /\ fw' = [fw EXCEPT !.up = FALSE]
  /\ Failed
  /\ UNCHANGED << sess, call, rx, hdr, mem, toHost, own >>

Next ==
  \/ \E b \in BFrames : EncStart(b)
  \/ EndSession \/ EncEncode \/ EncBatch
  \/ CmdSend \/ CmdAnswered \/ CmdTimeout
  \/ BatchArm \/ BatchSend \/ BatchSent \/ BatchCollect \/ BatchTimeout
  \/ BatchDone
  \/ IpcRx
  \/ FwBegin \/ FwFrame \/ FwCommand \/ FwHang

Spec == Init /\ [][Next]_vars

-----------------------------------------------------------------------------
(* Properties.                                                             *)

MostCalls == Max({MaxCalls, MaxBatches})
MaxFn == (B_MAX + 1) * MostCalls
Frame == [src : 0 .. B_MAX, type : FrameType, fn : 0 .. MaxFn]
AnswerSet == [id : ReplyIds \union {"LRME_DONE", "NONE"}, ok : BOOLEAN,
              fn : NONE .. MaxFn, idx : 0 .. CodedSlots - 1]

\* Every variable has its type; in particular slots are slots.
TypeOK ==
  /\ sess \in [open : BOOLEAN, bufs : BOOLEAN, hung : BOOLEAN, on : BOOLEAN,
               nb : BFrames \union {0}, plan : GopState, frame_n : Nat,
               started : 0 .. MaxSessions, calls : 0 .. MostCalls]
  /\ call.pc \in {"idle", "arm", "wait", "send", "collect"}
  /\ call.op \in Ops \union {"BATCH"}
  /\ Range(call.frames) \subseteq Frame /\ call.done \subseteq Range(call.frames)
  /\ call.k \in 0 .. call.count /\ call.count \in 0 .. Len(call.frames)
  /\ call.ret \in {"ok", "err", "timeout"}
  /\ rx.done \in Nat /\ rx.nq \in Nat
  /\ rx.want \in ReplyIds \union {"CONFIG_DONE"} /\ rx.batch \in BOOLEAN
  /\ rx.buf \in AnswerSet /\ rx.q \in [1 .. RX_Q -> AnswerSet]
  /\ \A i \in 0 .. CodedSlots - 1 : hdr[i].fn \in DROPPED .. MaxFn
  /\ DOMAIN mem = 0 .. CodedSlots - 1
  /\ fw.up \in BOOLEAN /\ fw.cmd \in Ops \union {"NONE"}
  /\ Range(fw.queue) \subseteq Frame /\ \A b \in fw.busy : b.f \in Frame
  /\ Range(toHost) \subseteq AnswerSet
  /\ faults \in 0 .. MaxFaults /\ own \in BOOLEAN

\* A result given to the caller is the coded picture of its own frame, and no
\* frame has two, whatever answers came late: the coded header's frameNumber
\* is checked, or a completion would carry another source's timestamp.
ResultsOwn ==
  /\ TypeOK
  /\ \A r \in Range(call.out) : r.coded = r.fn
  /\ IsInjective(call.out)

\* What the caller gets of a frame is the picture that was coded for it: its
\* own slices, all of them and no earlier picture's, with the parameter sets
\* exactly before an IDR.  (A B that outlives its batch, whose anchor was
\* rejected, may be coded into the slot of a later frame, after that one's
\* answer and before its result is read.)
StreamIsPicture ==
  own => \A r \in Range(call.out) :
    \E idr \in BOOLEAN, n \in Slices :
      r.stream = PictureStream(Picture(r.fn, idr, n), sess.nb \in Hevc)

\* The stream's buffers are freed only when the firmware has let go of them:
\* no frame of it is queued or being coded.
FreedIsQuiet == ~sess.bufs => fw.queue = << >> /\ fw.busy = {}

\* A stream is given up as hung only when the firmware does not answer: it is
\* down, or holds a frame that it will not code.
HungIsTrue == sess.hung => ~fw.up \/ fw.queue # << >>

\* While the firmware codes every frame it is sent, no command and no batch
\* fails, and every batch's results come in decode order: an anchor before
\* the Bs that refer to it.
CleanNeverFails ==
  Clean => /\ call.ret = "ok"
           /\ own
           /\ \A i, j \in DOMAIN call.out :
                i < j => \E n \in DOMAIN call.frames :
                           /\ call.frames[n].fn = call.out[j].fn
                           /\ call.frames[n].type = "B"
=============================================================================
