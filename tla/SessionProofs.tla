-------------------------- MODULE SessionProofs --------------------------
(***************************************************************************)
(* What Session keeps for any number of B frames, any number of calls,     *)
(* batches and streams, and anything going wrong any number of times, in   *)
(* six layers, each of which may use the ones before it.                   *)
(*                                                                         *)
(* CallInv is the types and what a call in progress says of the session.   *)
(*                                                                         *)
(* StopInv is the answer to a Stop: it is the last one posted, and nothing *)
(* is left of the frames from there until a stream is open again.          *)
(* FreedIsQuiet follows.                                                   *)
(*                                                                         *)
(* DueInv counts: the answers that a call still waits for are no more than *)
(* the frames the firmware has, the answers on the way and those that have *)
(* come.  A call that times out while nothing is to be heard is then one   *)
(* whose frames the firmware keeps; HungIsTrue follows.                    *)
(*                                                                         *)
(* BoundInv bounds frame numbers by the calls made, wherever the frames    *)
(* and their answers are.  With it the layers give TypeOK.                 *)
(*                                                                         *)
(* AloneInv is the stream without B frames: its command is the only work   *)
(* that the firmware has, and so the header of its frame's slot can name   *)
(* no other frame, although a command does not check the echo.             *)
(*                                                                         *)
(* OutInv is the results: each is of a frame of its own.  ResultsOwn       *)
(* follows.                                                                *)
(***************************************************************************)
EXTENDS Session, TLAPS, FiniteSetTheorems, SequenceTheorems

-----------------------------------------------------------------------------
\* The types, but for bounds and for what a coded frame is.

\* A frame; an answer; what the firmware is coding.
Frames  == [src : Nat, type : FrameType, fn : Nat]
Answers == [id : ReplyIds \cup {"LRME_DONE", "NONE"}, ok : BOOLEAN, fn : Int, idx : Int]
Coding  == [f : Frames, pic : [fn : Nat, idr : BOOLEAN, slices : Nat]]

\* The session's record.
SessTypes ==
  /\ sess \in [open : BOOLEAN, bufs : BOOLEAN, hung : BOOLEAN, on : BOOLEAN,
               nb : 0 .. B_MAX, plan : GopState, frame_n : Nat, started : Int, calls : Int]
  /\ sess.nb > 0 => sess.plan.nb = sess.nb
\* The call's record.
CallTypes ==
  /\ call = [pc |-> call.pc, op |-> call.op, frames |-> call.frames, k |-> call.k,
             count |-> call.count, done |-> call.done, ret |-> call.ret, out |-> call.out]
  /\ call.pc \in {"idle", "arm", "wait", "send", "collect"}
  /\ call.op \in Ops \cup {"BATCH"}
  /\ call.ret \in {"ok", "err", "timeout"}
  /\ call.frames \in Seq(Frames)
  /\ call.k \in Nat /\ call.count \in Nat /\ call.k <= call.count
  /\ call.count <= Len(call.frames)
\* The interrupt's record.
RxTypes ==
  rx \in [done : Nat, want : ReplyIds \cup {"CONFIG_DONE"}, batch : BOOLEAN, buf : Answers,
          nq : Nat, q : [1 .. RX_Q -> Answers]]
\* The firmware.
FwTypes ==
  /\ fw \in [up : BOOLEAN, cmd : Ops \cup {"NONE"}, queue : Seq(Frames),
             busy : SUBSET Coding, anchor : Int]
  /\ \A b, c \in fw.busy : b = c
  /\ toHost \in Seq(Answers)

\* What a call in progress says of the session.
CallPlace ==
  /\ sess.bufs = sess.open
  /\ sess.on => sess.open
  /\ call.pc # "idle" =>
       /\ ~sess.hung
       /\ call.op = "OPEN" => ~sess.open
       /\ call.op \in {"START", "STOP", "CLOSE"} => sess.open /\ ~sess.on
       /\ call.op \in {"PROCESS", "BATCH"} => sess.on
  /\ call.pc = "wait" => call.op \in Ops
  /\ call.pc \in {"send", "collect"} => call.op = "BATCH"
  /\ call.op = "BATCH" /\ call.pc # "idle" => sess.nb > 0
  /\ call.op = "PROCESS" /\ call.pc # "idle" => sess.nb = 0 /\ Len(call.frames) = 1
  /\ call.op \notin {"PROCESS", "BATCH"} /\ call.pc # "idle" => call.frames = << >>
\* A Stop that fails is the last call there is.
StopIsLast == call.pc = "idle" /\ call.op = "STOP" => sess.open /\ ~sess.on

\* The first layer.
CallInv == SessTypes /\ CallTypes /\ RxTypes /\ FwTypes /\ CallPlace /\ StopIsLast

-----------------------------------------------------------------------------
\* The second layer: Stop.

\* The firmware has let go of every frame.
Quiet == fw.queue = << >> /\ fw.busy = {}
\* The answer to a Stop.
StopDone(a) == a.id = "UNINIT_DONE"

\* A Stop that the firmware has, or that it has answered, is the call's own; after
\* the answer, the last one, nothing is left of the frames.
StopTold ==
  /\ fw.cmd = "STOP" => call.op = "STOP" /\ call.pc # "arm"
  /\ \A i \in DOMAIN toHost : StopDone(toHost[i]) =>
       /\ call.op = "STOP" /\ call.pc # "arm" /\ fw.cmd = "NONE"
       /\ Quiet /\ i = Len(toHost)
  /\ call.op = "STOP" /\ call.pc # "idle" /\ StopDone(rx.buf) =>
       call.pc = "wait" /\ fw.cmd = "NONE" /\ Quiet /\ toHost = << >>
\* So is nothing from there until a stream is open again.
QuietHere ==
  ~sess.open \/ (call.pc # "idle" /\ call.op = "CLOSE") => Quiet

\* The second layer.
StopInv == StopTold /\ QuietHere

-----------------------------------------------------------------------------
\* The third layer: no answer is lost.

\* The answers of some names among s; those to a Process.
Those(s, ids) == {i \in DOMAIN s : s[i].id \in ids}
Codeds(s)     == Those(s, {"ENCODE_DONE"})
\* Answers the call still waits for, and where they can come from.
Due == CASE call.pc = "wait" /\ call.op = "PROCESS" -> 1
         [] call.pc = "send"                        -> call.k
         [] call.pc = "collect"                     -> call.count - call.k
         [] OTHER                                   -> 0
\* The frame being coded, as a number.
Busy == IF fw.busy = {} THEN 0 ELSE 1
\* Frames the firmware has, answers on the way and those that have come.
Coming == Len(fw.queue) + Busy + Cardinality(Codeds(toHost)) + rx.done

\* What the interrupt is told to wait for.
Armed ==
  /\ call.pc = "arm" => call.k = 0
  /\ call.pc = "wait" => rx.want = ReplyId(call.op)
  /\ rx.batch => call.pc \in {"send", "collect"}
  /\ call.pc \in {"send", "collect"} => rx.want = "ENCODE_DONE"
  /\ call.ret = "timeout" => call.pc = "idle"
\* The stream that hangs: given up for good.
Hung ==
  sess.hung => /\ call.pc = "idle"
               /\ fw.up => fw.queue # << >> /\ fw.cmd = "NONE" /\ fw.busy = {} /\ ~Codable

\* The third layer.
DueInv == Armed /\ Due <= Coming /\ Hung

-----------------------------------------------------------------------------
\* The fourth layer: bounds, and the types of the frames' headers.

\* The coded header of a slot.
Headed(h) == h = [fn |-> h.fn, recs |-> h.recs, czw |-> h.czw, shdr |-> h.shdr]
\* Calls are counted, and bound the frame numbers.
SessBound ==
  /\ sess.nb \in BFrames \cup {0}
  /\ sess.started \in 0 .. MaxSessions /\ sess.calls \in 0 .. MostCalls
  /\ sess.frame_n <= sess.calls
  /\ call.pc # "idle" /\ call.op = "PROCESS" => sess.frame_n < sess.calls
  /\ sess.plan.fn_anchor <= (B_MAX + 1) * sess.calls
\* Frames, wherever they are.
FrameBound ==
  /\ call.frames \in Seq(Frame) /\ fw.queue \in Seq(Frame)
  /\ \A c \in fw.busy : c.f \in Frame /\ c.pic.fn = c.f.fn
\* Answers, wherever they are.
AnswerBound ==
  /\ toHost \in Seq(AnswerSet)
  /\ rx.buf \in AnswerSet /\ rx.q \in [1 .. RX_Q -> AnswerSet]
\* The slots.
SlotBound ==
  /\ DOMAIN hdr = 0 .. CodedSlots - 1 /\ DOMAIN mem = 0 .. CodedSlots - 1
  /\ \A i \in 0 .. CodedSlots - 1 : Headed(hdr[i]) /\ hdr[i].fn \in DROPPED .. MaxFn
\* The histories.
PastBound == faults \in 0 .. MaxFaults /\ own \in BOOLEAN

\* The fourth layer.
BoundInv == SessBound /\ FrameBound /\ AnswerBound /\ SlotBound /\ PastBound

-----------------------------------------------------------------------------
\* The fifth layer: one frame at a time.

\* The answers among s that a call can wait for.
Tellings(s) == Those(s, ReplyIds \cup {"NONE"})
\* The command the firmware has to answer, as a number.
Cmd == IF fw.up /\ fw.cmd # "NONE" THEN 1 ELSE 0
\* Work the firmware has, and answers on the way; with those that have come.
Held    == Len(fw.queue) + Busy + Cmd + Cardinality(Tellings(toHost))
Pending == Held + rx.done
\* No batch has been sent, and no command given up, since the client was closed.
OneByOne ==
  \/ ~sess.open
  \/ call.pc # "idle" /\ call.op \in {"OPEN", "START", "CLOSE"}
  \/ sess.on /\ sess.nb = 0 /\ ~sess.hung
\* Then a command is the only work there is.
Alone == OneByOne => Pending <= IF call.pc = "wait" THEN 1 ELSE 0
\* The one frame of a Process is the only one that its slot can be of.
OneFrame ==
  call.pc \in {"arm", "wait"} /\ call.op = "PROCESS" =>
    LET f == call.frames[1]
    IN  /\ \A i \in DOMAIN fw.queue : fw.queue[i].fn = f.fn
        /\ \A c \in fw.busy : c.f.fn = f.fn
        /\ hdr[Idx(f.fn)] = ClearHeader \/ hdr[Idx(f.fn)].fn \in {DROPPED, f.fn}

\* The fifth layer.
AloneInv == Alone /\ OneFrame

-----------------------------------------------------------------------------
\* The sixth layer: results.

\* No two frames of a call have one number.
FramesDiffer == \A f, g \in Range(call.frames) : f.fn = g.fn => f = g
\* Each result is of a frame of its own.
OutOwn ==
  /\ call.out \in Seq(Range(call.out))
  /\ \A r \in Range(call.out) : r.coded = r.fn
  /\ \A i, j \in DOMAIN call.out : call.out[i].fn = call.out[j].fn => i = j
  /\ call.done \subseteq Range(call.frames)
  /\ call.op = "BATCH" =>
       \A r \in Range(call.out) : \E f \in call.done : f.fn = r.fn

\* The sixth layer.
OutInv == FramesDiffer /\ OutOwn

-----------------------------------------------------------------------------
\* Lemmas about the operators.

\* The answers by their names.
LEMMA OpFacts ==
  /\ ReplyId("OPEN") = "START_DONE" /\ ReplyId("START") = "INIT_DONE"
  /\ ReplyId("PROCESS") = "ENCODE_DONE" /\ ReplyId("STOP") = "UNINIT_DONE"
  /\ ReplyId("CLOSE") = "STOP_DONE"
  /\ ReplyIds = {"START_DONE", "INIT_DONE", "ENCODE_DONE", "UNINIT_DONE", "STOP_DONE"}
  /\ \A op \in Ops : ReplyId(op) \in ReplyIds
  /\ NoAnswer \in Answers /\ NoAnswer.id = "NONE"
<1>1. /\ ReplyId("OPEN") = "START_DONE" /\ ReplyId("START") = "INIT_DONE"
      /\ ReplyId("PROCESS") = "ENCODE_DONE" /\ ReplyId("STOP") = "UNINIT_DONE"
      /\ ReplyId("CLOSE") = "STOP_DONE"
  BY DEF ReplyId
<1>2. ReplyIds = {"START_DONE", "INIT_DONE", "ENCODE_DONE", "UNINIT_DONE", "STOP_DONE"}
  BY <1>1 DEF ReplyIds, Ops
<1>3. \A op \in Ops : ReplyId(op) \in ReplyIds BY DEF ReplyIds
<1>4. NoAnswer \in Answers /\ NoAnswer.id = "NONE" BY DEF NoAnswer, Answer, Answers, NONE
<1> QED BY <1>1, <1>2, <1>3, <1>4

\* Taking one element out of a sequence.
LEMMA RemoveAtFacts ==
  ASSUME NEW S, NEW s \in Seq(S), NEW i \in DOMAIN s
  PROVE  /\ RemoveAt(s, i) \in Seq(S) /\ Len(RemoveAt(s, i)) = Len(s) - 1
         /\ Len(s) \in Nat /\ Len(s) >= 1 /\ s[i] \in S
         /\ \A j \in 1 .. Len(s) - 1 :
              RemoveAt(s, i)[j] = IF j < i THEN s[j] ELSE s[j + 1]
<1>1. i \in 1 .. Len(s) /\ Len(s) \in Nat /\ s[i] \in S OBVIOUS
<1>2. /\ SubSeq(s, 1, i - 1) \in Seq(S) /\ SubSeq(s, i + 1, Len(s)) \in Seq(S)
      /\ Len(SubSeq(s, 1, i - 1)) = i - 1 /\ Len(SubSeq(s, i + 1, Len(s))) = Len(s) - i
      /\ \A j \in 1 .. i - 1 : SubSeq(s, 1, i - 1)[j] = s[j]
      /\ \A j \in 1 .. Len(s) - i : SubSeq(s, i + 1, Len(s))[j] = s[i + j]
  BY <1>1
<1> DEFINE a == SubSeq(s, 1, i - 1)
           b == SubSeq(s, i + 1, Len(s))
<1>3. RemoveAt(s, i) = a \o b BY DEF RemoveAt
<1> HIDE DEF a, b
<1>4. a \o b \in Seq(S) /\ Len(a \o b) = Len(s) - 1
      /\ \A j \in 1 .. Len(s) - 1 : (a \o b)[j] = IF j < i THEN s[j] ELSE s[j + 1]
  <2>1. /\ a \in Seq(S) /\ b \in Seq(S) /\ Len(a) = i - 1 /\ Len(b) = Len(s) - i
        /\ \A j \in 1 .. i - 1 : a[j] = s[j]
        /\ \A j \in 1 .. Len(s) - i : b[j] = s[i + j]
    BY <1>2 DEF a, b
  <2>2. a \o b \in Seq(S) /\ Len(a \o b) = Len(a) + Len(b)
        /\ \A j \in 1 .. Len(a) + Len(b) :
             (a \o b)[j] = IF j <= Len(a) THEN a[j] ELSE b[j - Len(a)]
    <3>1. a \in Seq(S) /\ b \in Seq(S) BY <2>1
    <3> QED BY <3>1, ConcatProperties
  <2>3. ASSUME NEW j \in 1 .. Len(s) - 1
        PROVE  (a \o b)[j] = IF j < i THEN s[j] ELSE s[j + 1]
    <3>1. CASE j < i
      <4>1. j \in 1 .. i - 1 BY <1>1, <3>1
      <4>2. j \in 1 .. Len(a) + Len(b) /\ j <= Len(a) BY <1>1, <2>1, <4>1
      <4>3. (a \o b)[j] = a[j] BY <2>2, <4>2
      <4> QED BY <2>1, <3>1, <4>1, <4>3
    <3>2. CASE ~(j < i)
      <4>1. j - Len(a) \in 1 .. Len(s) - i /\ i + (j - Len(a)) = j + 1 BY <1>1, <2>1, <3>2
      <4>2. b[j - Len(a)] = s[i + (j - Len(a))] BY <2>1, <4>1
      <4>3. j \in 1 .. Len(a) + Len(b) /\ ~(j <= Len(a)) BY <1>1, <2>1, <3>2
      <4>4. (a \o b)[j] = b[j - Len(a)] BY <2>2, <4>3
      <4> QED BY <3>2, <4>1, <4>2, <4>4
    <3> QED BY <3>1, <3>2
  <2>4. Len(a \o b) = Len(s) - 1 BY <1>1, <2>1, <2>2
  <2> QED BY <2>2, <2>3, <2>4
<1> QED BY <1>1, <1>3, <1>4

\* What a mini-GOP's frames are.
LEMMA BatchFrames ==
  ASSUME sess.plan \in GopState, NEW n \in 0 .. sess.plan.nb, NEW act \in {"ANCHOR", "KEY"},
         act = "KEY" => n = 0
  PROVE  LET g == [sess.plan EXCEPT !.n_held = n]
         IN  /\ GopBatches(g, act)[1] \in Seq(Frames)
             /\ [GopNext(g, act) EXCEPT !.dist = 0] \in GopState
             /\ [GopNext(g, act) EXCEPT !.dist = 0].nb = sess.plan.nb
<1> DEFINE g == [sess.plan EXCEPT !.n_held = n]
<1>1. g \in GopState /\ g.n_held = n /\ g.nb = sess.plan.nb BY DEF GopState, B_MAX
<1> HIDE DEF g
<1>2. CASE act = "ANCHOR"
  <2>1. GopBatches(g, act)[1] = Minigop(g, TRUE) BY <1>2 DEF GopBatches
  <2>2. MinigopBs(g, TRUE) = n /\ n \in Nat BY <1>1 DEF MinigopBs, GopState, B_MAX
  <2>3. \A i \in 1 .. n + 1 :
          (IF i <= n THEN GopFrame(i - 1, "B", g.fn_anchor + i)
                     ELSE GopFrame(n, "P", g.fn_anchor + g.nb + 1)) \in Frames
    BY <1>1, <2>2 DEF Frames, GopFrame, GopState, FrameType, B_MAX
  <2>4. Minigop(g, TRUE) \in Seq(Frames)
    <3>1. Minigop(g, TRUE) = [i \in 1 .. n + 1 |->
            IF i <= n THEN GopFrame(i - 1, "B", g.fn_anchor + i)
                      ELSE GopFrame(n, "P", g.fn_anchor + g.nb + 1)]
      BY <2>2 DEF Minigop
    <3>2. Minigop(g, TRUE) \in [1 .. n + 1 -> Frames] BY <2>3, <3>1
    <3>3. n + 1 \in Nat BY <2>2
    <3>4. [1 .. n + 1 -> Frames] \in {[1 .. m -> Frames] : m \in Nat} BY <3>3
    <3> QED BY <3>2, <3>4, SeqDef
  <2>5. [GopNext(g, act) EXCEPT !.dist = 0] \in GopState
        /\ [GopNext(g, act) EXCEPT !.dist = 0].nb = g.nb
    <3>1. GopNext(g, act) = [[g EXCEPT !.fn_anchor = g.fn_anchor + g.nb + 1, !.n_held = 0]
                               EXCEPT !.dist = g.dist + 1]
      BY <1>2 DEF GopNext, AfterMinigop
    <3>2. GopNext(g, act) = [nb |-> g.nb, gop |-> g.gop, n_held |-> 0, dist |-> g.dist + 1,
                             fn_anchor |-> g.fn_anchor + g.nb + 1, started |-> g.started]
      BY <1>1, <3>1 DEF GopState
    <3>3. g.fn_anchor + g.nb + 1 \in Nat /\ g.nb \in 1 .. B_MAX /\ g.gop \in Nat
          /\ g.started \in BOOLEAN
      BY <1>1 DEF GopState, B_MAX
    <3> QED BY <1>1, <3>2, <3>3 DEF GopState
  <2> QED BY <1>1, <2>1, <2>4, <2>5 DEF g
<1>3. CASE act = "KEY"
  <2>1. n = 0 /\ Closed(g) = g BY <1>1, <1>3 DEF Closed
  <2>2. KeyFn(g) \in Nat BY <1>1 DEF KeyFn, GopState
  <2>3. GopBatches(g, act)[1] = << GopFrame(0, "IDR", KeyFn(g)) >>
    BY <1>1, <1>3, <2>1 DEF GopBatches, KeyBatch
  <2>4. GopFrame(0, "IDR", KeyFn(g)) \in Frames BY <2>2 DEF Frames, GopFrame, FrameType
  <2>5. [GopNext(g, act) EXCEPT !.dist = 0] \in GopState
        /\ [GopNext(g, act) EXCEPT !.dist = 0].nb = g.nb
    BY <1>1, <1>3, <2>1, <2>2 DEF GopNext, GopState, B_MAX
  <2>6. << GopFrame(0, "IDR", KeyFn(g)) >> \in Seq(Frames) BY <2>4
  <2> QED BY <1>1, <2>3, <2>5, <2>6 DEF g
<1> QED BY <1>2, <1>3

\* What an interrupt's record can be.
Rx == [done : Nat, want : ReplyIds \cup {"CONFIG_DONE"}, batch : BOOLEAN, buf : Answers,
       nq : Nat, q : [1 .. RX_Q -> Answers]]

\* A call begins.
LEMMA BeginTypes ==
  ASSUME NEW r \in Rx, NEW op \in Ops \cup {"BATCH"}, NEW frames \in Seq(Frames),
         Begin(r, op, frames)
  PROVE  /\ CallTypes' /\ RxTypes'
         /\ call'.pc = "arm" /\ call'.op = op /\ call'.frames = frames
         /\ call'.k = 0 /\ call'.count = Len(frames) /\ call'.done = {} /\ call'.out = << >>
         /\ call'.ret = "ok"
         /\ rx' = [r EXCEPT !.done = 0, !.buf = NoAnswer]
<1>1. call' = [pc |-> "arm", op |-> op, frames |-> frames, k |-> 0, count |-> Len(frames),
               done |-> {}, ret |-> "ok", out |-> << >>]
  BY DEF Begin, IdleCall
<1>2. Len(frames) \in Nat OBVIOUS
<1>3. CallTypes' BY <1>1, <1>2 DEF CallTypes
<1>4. rx' = [r EXCEPT !.done = 0, !.buf = NoAnswer] BY DEF Begin
<1>5. RxTypes' BY <1>4, OpFacts DEF RxTypes, Rx
<1> QED BY <1>1, <1>3, <1>4, <1>5

\* A command that ends: what follows.
LEMMA CommandEnds ==
  ASSUME CallInv, call.pc \in {"arm", "wait"}, call.op \in Ops,
         NEW ret \in {"ok", "err", "timeout"},
         NEW out, NEW r \in Rx, AfterCommand(ret, out, r)
  PROVE  /\ SessTypes' /\ CallTypes' /\ RxTypes' /\ CallPlace' /\ StopIsLast'
         /\ \/ /\ call'.pc = "idle"
               /\ call' = [call EXCEPT !.pc = "idle", !.ret = ret, !.out = out]
               /\ rx' = r
               /\ call.op = "OPEN" => ret # "ok"
               /\ call.op = "STOP" => ret # "ok"
            \/ /\ call.op = "OPEN" /\ ret = "ok" /\ Begin(r, "START", << >>)
            \/ /\ call.op = "START" /\ ret # "ok" /\ Begin(r, "STOP", << >>)
            \/ /\ call.op = "STOP" /\ ret = "ok" /\ Begin(r, "CLOSE", << >>)
         /\ sess'.hung => sess.hung \/ (call.op = "PROCESS" /\ ret = "timeout")
<1> USE DEF CallInv
<1>1. sess' = SessAfter(ret) BY DEF AfterCommand
<1>2. << >> \in Seq(Frames) OBVIOUS
<1>3. SessTypes'
  <2>1. CASE call.op = "OPEN" BY <1>1, <2>1 DEF SessAfter, SessTypes
  <2>2. CASE call.op = "START" BY <1>1, <2>2 DEF SessAfter, SessTypes
  <2>3. CASE call.op = "PROCESS"
    <3> DEFINE h == ret = "timeout"
               n == IF ret = "ok" THEN sess.frame_n + 1 ELSE sess.frame_n
    <3>1. h \in BOOLEAN /\ n \in Nat BY DEF SessTypes
    <3>2. sess' = [sess EXCEPT !.hung = h, !.frame_n = n] BY <1>1, <2>3 DEF SessAfter
    <3> HIDE DEF h, n
    <3> QED BY <3>1, <3>2 DEF SessTypes
  <2>4. CASE call.op \in {"STOP", "CLOSE"}
    <3>1. sess' = sess \/ sess' = Stopped(ret) BY <1>1, <2>4 DEF SessAfter
    <3> QED BY <3>1 DEF Stopped, SessTypes
  <2> QED BY <2>1, <2>2, <2>3, <2>4 DEF Ops
<1>4. CASE FollowedBy(ret) = {}
  <2>1. call' = [call EXCEPT !.pc = "idle", !.ret = ret, !.out = out] /\ rx' = r
    BY <1>4 DEF AfterCommand
  <2>2. call' = [pc |-> "idle", op |-> call.op, frames |-> call.frames, k |-> call.k,
                 count |-> call.count, done |-> call.done, ret |-> ret, out |-> out]
    BY <2>1 DEF CallTypes
  <2>3. CallTypes' BY <2>2 DEF CallTypes
  <2>4. RxTypes' BY <2>1 DEF RxTypes, Rx
  <2>5. /\ call.op = "OPEN" => ret # "ok"
        /\ call.op = "START" => ret = "ok"
        /\ call.op = "STOP" => ret # "ok"
    BY <1>4 DEF FollowedBy
  <2>6. /\ sess'.bufs = sess'.open /\ (sess'.on => sess'.open)
        /\ call.op = "STOP" => sess'.open /\ ~sess'.on
        /\ sess'.hung => sess.hung \/ (call.op = "PROCESS" /\ ret = "timeout")
    BY <1>1, <2>5 DEF SessAfter, Stopped, SessTypes, CallPlace, Ops
  <2>7. CallPlace' BY <2>2, <2>6 DEF CallPlace
  <2>8. StopIsLast' BY <2>2, <2>6 DEF StopIsLast
  <2> QED BY <1>3, <2>1, <2>2, <2>3, <2>4, <2>5, <2>6, <2>7, <2>8
<1>5. ASSUME FollowedBy(ret) # {}
      PROVE  \/ call.op = "OPEN" /\ ret = "ok" /\ Begin(r, "START", << >>)
             \/ call.op = "START" /\ ret # "ok" /\ Begin(r, "STOP", << >>)
             \/ call.op = "STOP" /\ ret = "ok" /\ Begin(r, "CLOSE", << >>)
  <2>1. PICK op \in FollowedBy(ret) : Begin(r, op, << >>) BY <1>5 DEF AfterCommand
  <2>2. CASE call.op = "OPEN" /\ ret = "ok" BY <2>1, <2>2 DEF FollowedBy
  <2>3. CASE call.op = "START" /\ ret # "ok" BY <2>1, <2>3 DEF FollowedBy
  <2>4. CASE call.op = "STOP" /\ ret = "ok" BY <2>1, <2>4 DEF FollowedBy
  <2> QED BY <1>5, <2>2, <2>3, <2>4 DEF FollowedBy
<1>6. CASE FollowedBy(ret) # {} /\ call.op = "OPEN"
  <2>1. Begin(r, "START", << >>) /\ ret = "ok" BY <1>5, <1>6
  <2>2. CallTypes' /\ RxTypes' /\ call'.op = "START" /\ call'.pc = "arm" /\ call'.frames = << >>
    BY <1>2, <2>1, BeginTypes DEF Ops
  <2>3. sess'.open /\ sess'.bufs /\ ~sess'.on /\ ~sess'.hung /\ ~sess.hung
    BY <1>1, <1>6, <2>1 DEF SessAfter, SessTypes, CallPlace
  <2>4. CallPlace' /\ StopIsLast' BY <2>2, <2>3 DEF CallPlace, StopIsLast
  <2> QED BY <1>3, <1>6, <2>1, <2>2, <2>3, <2>4
<1>7. CASE FollowedBy(ret) # {} /\ call.op = "START"
  <2>1. Begin(r, "STOP", << >>) /\ ret # "ok" BY <1>5, <1>7
  <2>2. CallTypes' /\ RxTypes' /\ call'.op = "STOP" /\ call'.pc = "arm" /\ call'.frames = << >>
    BY <1>2, <2>1, BeginTypes DEF Ops
  <2>3. sess'.open /\ sess'.bufs /\ ~sess'.on /\ ~sess'.hung /\ ~sess.hung
    BY <1>1, <1>7, <2>1 DEF SessAfter, SessTypes, CallPlace
  <2>4. CallPlace' /\ StopIsLast' BY <2>2, <2>3 DEF CallPlace, StopIsLast
  <2> QED BY <1>3, <1>7, <2>1, <2>2, <2>3, <2>4
<1>8. CASE FollowedBy(ret) # {} /\ call.op = "STOP"
  <2>1. Begin(r, "CLOSE", << >>) /\ ret = "ok" BY <1>5, <1>8
  <2>2. CallTypes' /\ RxTypes' /\ call'.op = "CLOSE" /\ call'.pc = "arm" /\ call'.frames = << >>
    BY <1>2, <2>1, BeginTypes DEF Ops
  <2>3. sess'.open /\ sess'.bufs /\ ~sess'.on /\ ~sess'.hung /\ ~sess.hung
    BY <1>1, <1>8, <2>1 DEF SessAfter, SessTypes, CallPlace
  <2>4. CallPlace' /\ StopIsLast' BY <2>2, <2>3 DEF CallPlace, StopIsLast
  <2> QED BY <1>3, <1>8, <2>1, <2>2, <2>3, <2>4
<1> QED BY <1>4, <1>5, <1>6, <1>7, <1>8

-----------------------------------------------------------------------------
\* The first layer, action by action.

\* Sending a command.
LEMMA CallCmdSend == ASSUME CallInv, CmdSend PROVE CallInv'
<1> DEFINE armed == [rx EXCEPT !.want = ReplyId(call.op)]
<1>1. call.pc = "arm" /\ call.op \in Ops /\ toHost' = toHost BY DEF CmdSend
<1>2. armed \in Rx BY <1>1, OpFacts DEF CallInv, RxTypes, Rx
<1>3. CASE call' = [call EXCEPT !.pc = "wait"] /\ rx' = armed /\ sess' = sess
           /\ fw' = IF call.op = "PROCESS" THEN [fw EXCEPT !.queue = @ \o call.frames]
                                           ELSE [fw EXCEPT !.cmd = call.op]
  <2>1. SessTypes' BY <1>3 DEF CallInv, SessTypes
  <2>2. CallTypes' BY <1>3 DEF CallInv, CallTypes
  <2>3. RxTypes' BY <1>2, <1>3 DEF RxTypes, Rx
  <2>4. FwTypes'
    <3>1. fw.queue \o call.frames \in Seq(Frames) BY DEF CallInv, CallTypes, FwTypes
    <3>2. CASE call.op = "PROCESS" BY <1>1, <1>3, <3>1, <3>2 DEF CallInv, FwTypes
    <3>3. CASE call.op # "PROCESS" BY <1>1, <1>3, <3>3 DEF CallInv, FwTypes
    <3> QED BY <3>2, <3>3
  <2>5. CallPlace' BY <1>1, <1>3 DEF CallInv, CallTypes, CallPlace
  <2>6. StopIsLast' BY <1>1, <1>3 DEF CallInv, CallTypes, StopIsLast
  <2> QED BY <2>1, <2>2, <2>3, <2>4, <2>5, <2>6 DEF CallInv
<1>4. CASE AfterCommand("err", << >>, armed) /\ fw' = fw
  <2>1. SessTypes' /\ CallTypes' /\ RxTypes' /\ CallPlace' /\ StopIsLast'
    BY <1>1, <1>2, <1>4, CommandEnds
  <2>2. FwTypes' BY <1>1, <1>4 DEF CallInv, FwTypes
  <2> QED BY <2>1, <2>2 DEF CallInv
<1> QED BY <1>3, <1>4 DEF CmdSend

\* An answer that comes, and one that does not.
LEMMA CallCmdAnswered == ASSUME CallInv, CmdAnswered PROVE CallInv'
<1>1. call.pc = "wait" /\ rx.done > 0 /\ toHost' = toHost /\ fw' = fw BY DEF CmdAnswered
<1>2. call.op \in Ops BY <1>1 DEF CallInv, CallPlace
<1>3. [rx EXCEPT !.done = @ - 1] \in Rx BY <1>1 DEF CallInv, RxTypes, Rx
<1>4. \E ret \in {"ok", "err"} : \E out : AfterCommand(ret, out, [rx EXCEPT !.done = @ - 1])
  BY DEF CmdAnswered
<1>5. SessTypes' /\ CallTypes' /\ RxTypes' /\ CallPlace' /\ StopIsLast'
  BY <1>1, <1>2, <1>3, <1>4, CommandEnds
<1>6. FwTypes' BY <1>1 DEF CallInv, FwTypes
<1> QED BY <1>5, <1>6 DEF CallInv

\* The timeout of a command.
LEMMA CallCmdTimeout == ASSUME CallInv, CmdTimeout PROVE CallInv'
<1>1. call.pc = "wait" /\ toHost' = toHost /\ fw' = fw /\ AfterCommand("timeout", << >>, rx)
  BY DEF CmdTimeout
<1>2. call.op \in Ops BY <1>1 DEF CallInv, CallPlace
<1>3. rx \in Rx BY DEF CallInv, RxTypes, Rx
<1>4. SessTypes' /\ CallTypes' /\ RxTypes' /\ CallPlace' /\ StopIsLast'
  BY <1>1, <1>2, <1>3, CommandEnds
<1>5. FwTypes' BY <1>1 DEF CallInv, FwTypes
<1> QED BY <1>4, <1>5 DEF CallInv

\* The calls.
LEMMA CallEncStart == ASSUME CallInv, NEW b \in BFrames, EncStart(b) PROVE CallInv'
<1>1. call.pc = "idle" /\ ~sess.hung /\ ~sess.open /\ fw' = fw /\ toHost' = toHost
      /\ Begin(rx, "OPEN", << >>)
      /\ sess' = [sess EXCEPT !.nb = b, !.frame_n = 0, !.started = @ + 1,
                              !.plan = ave_gop_init(IF b = 0 THEN 1 ELSE b, 0)]
  BY DEF EncStart
<1>2. rx \in Rx /\ << >> \in Seq(Frames) BY DEF CallInv, RxTypes, Rx
<1>3. b \in 0 .. B_MAX BY SessionAssumption
<1> DEFINE p == ave_gop_init(IF b = 0 THEN 1 ELSE b, 0)
<1>4. p \in GopState /\ (b > 0 => p.nb = b)
  BY <1>3 DEF ave_gop_init, GopState, B_MAX
<1> HIDE DEF p
<1>5. SessTypes'
  <2>1. sess' = [sess EXCEPT !.nb = b, !.frame_n = 0, !.started = sess.started + 1,
                             !.plan = p]
    BY <1>1 DEF p
  <2>2. sess'.nb = b /\ sess'.plan = p BY <2>1 DEF CallInv, SessTypes
  <2>3. sess' \in [open : BOOLEAN, bufs : BOOLEAN, hung : BOOLEAN, on : BOOLEAN,
                   nb : 0 .. B_MAX, plan : GopState, frame_n : Nat, started : Int,
                   calls : Int]
    <3>1. sess' = [open |-> sess.open, bufs |-> sess.bufs, hung |-> sess.hung,
                   on |-> sess.on, nb |-> b, plan |-> p, frame_n |-> 0,
                   started |-> sess.started + 1, calls |-> sess.calls]
      BY <2>1 DEF CallInv, SessTypes
    <3> QED BY <1>3, <1>4, <3>1 DEF CallInv, SessTypes
  <2> QED BY <1>4, <2>2, <2>3 DEF SessTypes
<1>6. CallTypes' /\ RxTypes' /\ call'.pc = "arm" /\ call'.op = "OPEN" /\ call'.frames = << >>
  BY <1>1, <1>2, BeginTypes DEF Ops
<1>7. FwTypes' BY <1>1 DEF CallInv, FwTypes
<1>8. sess'.open = sess.open /\ sess'.bufs = sess.bufs /\ sess'.on = sess.on
      /\ sess'.hung = sess.hung
  BY <1>1 DEF CallInv, SessTypes
<1>9. CallPlace' /\ StopIsLast' BY <1>1, <1>6, <1>8 DEF CallInv, CallPlace, StopIsLast
<1> QED BY <1>5, <1>6, <1>7, <1>9 DEF CallInv

\* The end of a stream.
LEMMA CallEndSession == ASSUME CallInv, EndSession PROVE CallInv'
<1>1. call.pc = "idle" /\ sess.on /\ sess' = [sess EXCEPT !.on = FALSE] /\ fw' = fw
      /\ toHost' = toHost
      /\ IF sess.hung THEN call' = call /\ rx' = rx ELSE Begin(rx, "STOP", << >>)
  BY DEF EndSession
<1>2. rx \in Rx /\ << >> \in Seq(Frames) BY DEF CallInv, RxTypes, Rx
<1>3. SessTypes' BY <1>1 DEF CallInv, SessTypes
<1>4. FwTypes' BY <1>1 DEF CallInv, FwTypes
<1>5. sess'.open = sess.open /\ sess'.bufs = sess.bufs /\ ~sess'.on /\ sess'.hung = sess.hung
      /\ sess.open
  BY <1>1 DEF CallInv, SessTypes, CallPlace
<1>6. CASE sess.hung
  <2>1. call' = call /\ rx' = rx BY <1>1, <1>6
  <2> QED BY <1>1, <1>3, <1>4, <1>5, <2>1
        DEF CallInv, CallTypes, RxTypes, CallPlace, StopIsLast
<1>7. CASE ~sess.hung
  <2>1. CallTypes' /\ RxTypes' /\ call'.pc = "arm" /\ call'.op = "STOP" /\ call'.frames = << >>
    BY <1>1, <1>2, <1>7, BeginTypes DEF Ops
  <2> QED BY <1>1, <1>3, <1>4, <1>5, <1>7, <2>1 DEF CallInv, CallPlace, StopIsLast
<1> QED BY <1>6, <1>7

\* One frame.
LEMMA CallEncEncode == ASSUME CallInv, EncEncode PROVE CallInv'
<1> DEFINE f == GopFrame(0, IF sess.frame_n = 0 THEN "IDR" ELSE "P", sess.frame_n)
<1>1. call.pc = "idle" /\ sess.on /\ ~sess.hung /\ sess.nb = 0
      /\ sess' = [sess EXCEPT !.calls = @ + 1] /\ fw' = fw /\ toHost' = toHost
      /\ Begin(rx, "PROCESS", << f >>)
  BY DEF EncEncode
<1>2. rx \in Rx BY DEF CallInv, RxTypes, Rx
<1>3. << f >> \in Seq(Frames) /\ Len(<< f >>) = 1
  <2>1. f \in Frames BY DEF CallInv, SessTypes, Frames, GopFrame, FrameType
  <2> QED BY <2>1
<1>4. SessTypes' BY <1>1 DEF CallInv, SessTypes
<1>5. CallTypes' /\ RxTypes' /\ call'.pc = "arm" /\ call'.op = "PROCESS"
      /\ call'.frames = << f >>
  BY <1>1, <1>2, <1>3, BeginTypes DEF Ops
<1>6. FwTypes' BY <1>1 DEF CallInv, FwTypes
<1>7. sess'.open = sess.open /\ sess'.bufs = sess.bufs /\ sess'.on /\ ~sess'.hung
      /\ sess'.nb = 0
  BY <1>1 DEF CallInv, SessTypes
<1>8. CallPlace' /\ StopIsLast' BY <1>1, <1>3, <1>5, <1>7 DEF CallInv, CallPlace, StopIsLast
<1> QED BY <1>4, <1>5, <1>6, <1>8 DEF CallInv

\* A batch: what it is of.
LEMMA BatchIs ==
  ASSUME CallInv, EncBatch
  PROVE  \E n \in 0 .. sess.plan.nb, act \in {"ANCHOR", "KEY"} :
           LET g == [sess.plan EXCEPT !.n_held = n]
           IN  /\ act = "KEY" => n = 0
               /\ act = "ANCHOR" => sess.plan.started
               /\ EncEncodeBatch(GopBatches(g, act)[1], [GopNext(g, act) EXCEPT !.dist = 0])
               /\ sess.nb > 0 /\ n <= sess.nb
               /\ GopBatches(g, act)[1] \in Seq(Frames)
               /\ [GopNext(g, act) EXCEPT !.dist = 0] \in GopState
               /\ [GopNext(g, act) EXCEPT !.dist = 0].nb = sess.nb
<1>1. sess.nb > 0 /\ sess.nb = sess.plan.nb /\ sess.plan \in GopState
  BY DEF EncBatch, CallInv, SessTypes
<1>2. PICK n \in 0 .. sess.nb, act \in {"ANCHOR", "KEY"} :
        /\ act = "KEY" => n = 0
        /\ act = "ANCHOR" => sess.plan.started
        /\ EncEncodeBatch(GopBatches([sess.plan EXCEPT !.n_held = n], act)[1],
                          [GopNext([sess.plan EXCEPT !.n_held = n], act) EXCEPT !.dist = 0])
  <2>1. PICK a \in [n : 0 .. sess.nb,
                    act : IF sess.plan.started THEN {"ANCHOR", "KEY"} ELSE {"KEY"}] :
          /\ a.act = "KEY" => a.n = 0
          /\ EncEncodeBatch(GopBatches([sess.plan EXCEPT !.n_held = a.n], a.act)[1],
                            [GopNext([sess.plan EXCEPT !.n_held = a.n], a.act)
                               EXCEPT !.dist = 0])
    BY DEF EncBatch
  <2>2. a.n \in 0 .. sess.nb /\ a.act \in {"ANCHOR", "KEY"}
        /\ (a.act = "ANCHOR" => sess.plan.started)
    BY <2>1
  <2> QED BY <2>1, <2>2
<1>3. n \in 0 .. sess.plan.nb /\ n <= sess.nb BY <1>1, <1>2 DEF GopState, B_MAX
<1>4. LET g == [sess.plan EXCEPT !.n_held = n]
      IN  /\ GopBatches(g, act)[1] \in Seq(Frames)
          /\ [GopNext(g, act) EXCEPT !.dist = 0] \in GopState
          /\ [GopNext(g, act) EXCEPT !.dist = 0].nb = sess.plan.nb
  BY <1>1, <1>2, <1>3, BatchFrames
<1> QED BY <1>1, <1>2, <1>3, <1>4

\* A batch.
LEMMA CallEncBatch == ASSUME CallInv, EncBatch PROVE CallInv'
<1>1. PICK frames \in Seq(Frames), plan \in GopState :
        plan.nb = sess.nb /\ sess.nb > 0 /\ EncEncodeBatch(frames, plan)
  BY BatchIs
<1>2. call.pc = "idle" /\ sess.on /\ ~sess.hung
      /\ sess' = [sess EXCEPT !.plan = plan, !.calls = @ + 1] /\ fw' = fw /\ toHost' = toHost
      /\ Begin([rx EXCEPT !.nq = 0], "BATCH", frames)
  BY <1>1 DEF EncEncodeBatch
<1>3. [rx EXCEPT !.nq = 0] \in Rx BY DEF CallInv, RxTypes, Rx
<1>4. SessTypes'
  <2>1. sess'.nb = sess.nb /\ sess'.plan = plan BY <1>2 DEF CallInv, SessTypes
  <2>2. sess' \in [open : BOOLEAN, bufs : BOOLEAN, hung : BOOLEAN, on : BOOLEAN,
                   nb : 0 .. B_MAX, plan : GopState, frame_n : Nat, started : Int,
                   calls : Int]
    <3>1. sess' = [open |-> sess.open, bufs |-> sess.bufs, hung |-> sess.hung,
                   on |-> sess.on, nb |-> sess.nb, plan |-> plan, frame_n |-> sess.frame_n,
                   started |-> sess.started, calls |-> sess.calls + 1]
      BY <1>2 DEF CallInv, SessTypes
    <3> QED BY <3>1 DEF CallInv, SessTypes
  <2> QED BY <1>1, <2>1, <2>2 DEF SessTypes
<1>5. CallTypes' /\ RxTypes' /\ call'.pc = "arm" /\ call'.op = "BATCH"
  BY <1>2, <1>3, BeginTypes
<1>6. FwTypes' BY <1>2 DEF CallInv, FwTypes
<1>7. sess'.open = sess.open /\ sess'.bufs = sess.bufs /\ sess'.on /\ ~sess'.hung
      /\ sess'.nb > 0
  BY <1>1, <1>2 DEF CallInv, SessTypes
<1>8. CallPlace' /\ StopIsLast' BY <1>2, <1>5, <1>7 DEF CallInv, CallPlace, StopIsLast
<1> QED BY <1>4, <1>5, <1>6, <1>8 DEF CallInv

\* The steps of a batch.
LEMMA CallBatchArm == ASSUME CallInv, BatchArm PROVE CallInv'
<1>1. call.pc = "arm" /\ call.op = "BATCH" /\ call' = [call EXCEPT !.pc = "send"]
      /\ rx' = [rx EXCEPT !.want = ReplyId("PROCESS"), !.batch = TRUE]
      /\ sess' = sess /\ fw' = fw /\ toHost' = toHost
  BY DEF BatchArm
<1>2. CallTypes' BY <1>1 DEF CallInv, CallTypes
<1>3. RxTypes' BY <1>1, OpFacts DEF CallInv, RxTypes
<1> QED BY <1>1, <1>2, <1>3
      DEF CallInv, CallTypes, SessTypes, FwTypes, CallPlace, StopIsLast

\* Sending one frame of it.
LEMMA CallBatchSend == ASSUME CallInv, BatchSend PROVE CallInv'
<1>1. call.pc = "send" /\ call.k < call.count /\ sess' = sess /\ rx' = rx /\ toHost' = toHost
  BY DEF BatchSend
<1>2. CASE fw' = [fw EXCEPT !.queue = Append(@, call.frames[call.k + 1])]
           /\ call' = [call EXCEPT !.k = @ + 1]
  <2>1. call.frames[call.k + 1] \in Frames
    <3>1. call.k + 1 \in 1 .. Len(call.frames) BY <1>1 DEF CallInv, CallTypes
    <3> QED BY <3>1 DEF CallInv, CallTypes
  <2>2. FwTypes'
    <3>1. Append(fw.queue, call.frames[call.k + 1]) \in Seq(Frames)
      BY <2>1 DEF CallInv, FwTypes
    <3> QED BY <1>1, <1>2, <3>1 DEF CallInv, FwTypes
  <2>3. CallTypes' BY <1>1, <1>2 DEF CallInv, CallTypes
  <2> QED BY <1>1, <1>2, <2>2, <2>3
        DEF CallInv, CallTypes, SessTypes, RxTypes, CallPlace, StopIsLast
<1>3. CASE call' = [call EXCEPT !.count = call.k, !.ret = "err"] /\ fw' = fw
  <2>1. call' = [pc |-> "send", op |-> call.op, frames |-> call.frames, k |-> call.k,
                 count |-> call.k, done |-> call.done, ret |-> "err", out |-> call.out]
    BY <1>1, <1>3 DEF CallInv, CallTypes
  <2>2. call.k <= Len(call.frames)
    <3>1. Len(call.frames) \in Nat BY DEF CallInv, CallTypes
    <3> QED BY <1>1, <3>1 DEF CallInv, CallTypes
  <2>3. CallTypes' BY <2>1, <2>2 DEF CallInv, CallTypes
  <2> QED BY <1>1, <1>3, <2>1, <2>3
        DEF CallInv, CallTypes, SessTypes, RxTypes, FwTypes, CallPlace, StopIsLast
<1> QED BY <1>2, <1>3 DEF BatchSend

\* All are sent.
LEMMA CallBatchSent == ASSUME CallInv, BatchSent PROVE CallInv'
<1>1. call.pc = "send" /\ call' = [call EXCEPT !.pc = "collect", !.k = 0]
      /\ sess' = sess /\ fw' = fw /\ toHost' = toHost /\ rx' = rx
  BY DEF BatchSent
<1>2. call' = [pc |-> "collect", op |-> call.op, frames |-> call.frames, k |-> 0,
               count |-> call.count, done |-> call.done, ret |-> call.ret, out |-> call.out]
  BY <1>1 DEF CallInv, CallTypes
<1>3. CallTypes' BY <1>2 DEF CallInv, CallTypes
<1> QED BY <1>1, <1>2, <1>3
      DEF CallInv, CallTypes, SessTypes, RxTypes, FwTypes, CallPlace, StopIsLast

\* A batch that is over.
LEMMA CallBatchEnds ==
  ASSUME CallInv, call.pc = "collect", NEW ret \in {"ok", "err", "timeout"}, NEW r \in Rx,
         BatchEnds(ret, r), fw' = fw, toHost' = toHost
  PROVE  /\ CallInv' /\ call' = [call EXCEPT !.pc = "idle", !.ret = ret]
         /\ sess' = [sess EXCEPT !.hung = ret = "timeout"] /\ rx' = [r EXCEPT !.batch = FALSE]
<1>1. call' = [call EXCEPT !.pc = "idle", !.ret = ret] /\ rx' = [r EXCEPT !.batch = FALSE]
      /\ sess' = [sess EXCEPT !.hung = ret = "timeout"]
  BY DEF BatchEnds
<1>2. CallTypes' BY <1>1 DEF CallInv, CallTypes
<1>3. RxTypes' BY <1>1 DEF RxTypes, Rx
<1>4. (ret = "timeout") \in BOOLEAN OBVIOUS
<1>5. SessTypes' /\ sess'.open = sess.open /\ sess'.bufs = sess.bufs /\ sess'.on = sess.on
  BY <1>1, <1>4 DEF CallInv, SessTypes
<1>6. call'.pc = "idle" /\ call'.op = "BATCH" BY <1>1 DEF CallInv, CallTypes, CallPlace
<1>7. CallPlace' /\ StopIsLast' BY <1>5, <1>6 DEF CallInv, CallPlace, StopIsLast
<1> QED BY <1>1, <1>2, <1>3, <1>5, <1>7 DEF CallInv, FwTypes

\* Collecting one result.
LEMMA CallBatchCollect == ASSUME CallInv, BatchCollect PROVE CallInv'
<1>1. call.pc = "collect" /\ call.k < call.count /\ rx.done > 0 /\ fw' = fw
      /\ toHost' = toHost
  BY DEF BatchCollect
<1>2. [rx EXCEPT !.done = @ - 1] \in Rx BY <1>1 DEF CallInv, RxTypes, Rx
<1>3. CASE \E done, out : /\ call' = [call EXCEPT !.k = call.k + 1, !.done = done,
                                                  !.ret = "ok", !.out = out]
                          /\ rx' = [rx EXCEPT !.done = @ - 1] /\ sess' = sess
  <2>1. CallTypes'
    <3>1. PICK done, out :
            call' = [call EXCEPT !.k = call.k + 1, !.done = done, !.ret = "ok", !.out = out]
      BY <1>3
    <3>2. call' = [pc |-> call.pc, op |-> call.op, frames |-> call.frames, k |-> call.k + 1,
                   count |-> call.count, done |-> done, ret |-> "ok", out |-> out]
      BY <3>1 DEF CallInv, CallTypes
    <3>3. call.k + 1 \in Nat /\ call.k + 1 <= call.count BY <1>1 DEF CallInv, CallTypes
    <3> QED BY <3>2, <3>3 DEF CallInv, CallTypes
  <2>2. call'.pc = call.pc /\ call'.op = call.op /\ call'.frames = call.frames
    BY <1>3 DEF CallInv, CallTypes
  <2>3. SessTypes' /\ FwTypes' BY <1>1, <1>3 DEF CallInv, SessTypes, FwTypes
  <2>4. RxTypes' BY <1>2, <1>3 DEF RxTypes, Rx
  <2>5. CallPlace' /\ StopIsLast'
    BY <1>1, <1>3, <2>2 DEF CallInv, CallPlace, StopIsLast
  <2> QED BY <2>1, <2>3, <2>4, <2>5 DEF CallInv
<1>4. CASE BatchEnds("err", [rx EXCEPT !.done = @ - 1]) BY <1>1, <1>2, <1>4, CallBatchEnds
<1> QED BY <1>3, <1>4 DEF BatchCollect

\* The other ends of a batch.
LEMMA CallBatchOver == ASSUME CallInv, BatchTimeout \/ BatchDone PROVE CallInv'
<1>1. call.pc = "collect" /\ fw' = fw /\ toHost' = toHost
      /\ \E ret \in {"ok", "err", "timeout"} : BatchEnds(ret, rx)
  BY DEF BatchTimeout, BatchDone, CallInv, CallTypes
<1>2. rx \in Rx BY DEF CallInv, RxTypes, Rx
<1> QED BY <1>1, <1>2, CallBatchEnds

\* What the interrupt makes of an answer.
LEMMA RxAfterFacts ==
  ASSUME rx \in Rx, NEW a \in Answers
  PROVE  /\ RxAfter(rx, a) \in Rx
         /\ RxAfter(rx, a).want = rx.want /\ RxAfter(rx, a).batch = rx.batch
         /\ RxAfter(rx, a).done = IF a.id = rx.want THEN rx.done + 1 ELSE rx.done
         /\ RxAfter(rx, a).buf = IF a.id = rx.want /\ ~rx.batch THEN a ELSE rx.buf
<1>1. CASE a.id # rx.want BY <1>1 DEF RxAfter, Wanted, Rx
<1>2. CASE a.id = rx.want /\ ~rx.batch
  <2>1. RxAfter(rx, a) = [rx EXCEPT !.buf = a, !.done = rx.done + 1]
    BY <1>2 DEF RxAfter, Wanted, Completed
  <2>2. RxAfter(rx, a) = [done |-> rx.done + 1, want |-> rx.want, batch |-> rx.batch,
                          buf |-> a, nq |-> rx.nq, q |-> rx.q]
    BY <2>1 DEF Rx
  <2>3. rx.done + 1 \in Nat BY DEF Rx
  <2> QED BY <1>2, <2>2, <2>3 DEF Rx
<1>3. CASE a.id = rx.want /\ rx.batch
  <2> DEFINE q == IF rx.nq < RX_Q THEN [rx.q EXCEPT ![rx.nq + 1] = a] ELSE rx.q
  <2>1. q \in [1 .. RX_Q -> Answers] BY DEF Rx, RX_Q
  <2>2. RxAfter(rx, a) = [rx EXCEPT !.q = q, !.nq = rx.nq + 1, !.done = rx.done + 1]
    BY <1>3 DEF RxAfter, Wanted, Completed, Rx
  <2> HIDE DEF q
  <2>3. RxAfter(rx, a) = [done |-> rx.done + 1, want |-> rx.want, batch |-> rx.batch,
                          buf |-> rx.buf, nq |-> rx.nq + 1, q |-> q]
    BY <2>2 DEF Rx
  <2>4. rx.done + 1 \in Nat /\ rx.nq + 1 \in Nat BY DEF Rx
  <2> QED BY <1>3, <2>1, <2>3, <2>4 DEF Rx
<1> QED BY <1>1, <1>2, <1>3 DEF Rx

\* The interrupt.
LEMMA CallIpcRx == ASSUME CallInv, IpcRx PROVE CallInv'
<1>1. toHost # << >> /\ rx' = RxAfter(rx, Head(toHost)) /\ toHost' = Tail(toHost)
      /\ sess' = sess /\ call' = call /\ fw' = fw
  BY DEF IpcRx
<1>2. Head(toHost) \in Answers /\ Tail(toHost) \in Seq(Answers) BY <1>1 DEF CallInv, FwTypes
<1>3. rx \in Rx BY DEF CallInv, RxTypes, Rx
<1>4. RxTypes' BY <1>1, <1>2, <1>3, RxAfterFacts DEF RxTypes, Rx
<1> QED BY <1>1, <1>2, <1>4
      DEF CallInv, SessTypes, CallTypes, FwTypes, CallPlace, StopIsLast

\* The firmware.
LEMMA FwBegins ==
  ASSUME CallInv, FwBegin
  PROVE  \E i \in DOMAIN fw.queue, c \in Coding :
           /\ fw.up /\ fw.busy = {} /\ Turn(i) /\ c.f = fw.queue[i] /\ c.pic.fn = c.f.fn
           /\ fw' = [fw EXCEPT !.busy = {c}, !.queue = RemoveAt(fw.queue, i)]
           /\ sess' = sess /\ call' = call /\ rx' = rx /\ toHost' = toHost /\ hdr' = hdr
<1>1. PICK i \in DOMAIN fw.queue : \E idr \in MadeIdrs(fw.queue[i]) :
        /\ fw.up /\ fw.busy = {} /\ Turn(i)
        /\ fw' = [fw EXCEPT !.busy = {[f |-> fw.queue[i],
                      pic |-> Picture(fw.queue[i].fn, idr, IF idr THEN 2 ELSE 1)]},
                            !.queue = RemoveAt(fw.queue, i)]
        /\ sess' = sess /\ call' = call /\ rx' = rx /\ toHost' = toHost /\ hdr' = hdr
  BY DEF FwBegin
<1>2. fw.queue[i] \in Frames BY DEF CallInv, FwTypes
<1>3. MadeIdrs(fw.queue[i]) \subseteq BOOLEAN BY DEF MadeIdrs
<1>4. PICK idr \in BOOLEAN :
        fw' = [fw EXCEPT !.busy = {[f |-> fw.queue[i],
                      pic |-> Picture(fw.queue[i].fn, idr, IF idr THEN 2 ELSE 1)]},
                         !.queue = RemoveAt(fw.queue, i)]
  BY <1>1, <1>3
<1> DEFINE c == [f |-> fw.queue[i],
                 pic |-> Picture(fw.queue[i].fn, idr, IF idr THEN 2 ELSE 1)]
<1>5. c \in Coding /\ c.f = fw.queue[i] /\ c.pic.fn = c.f.fn
  BY <1>2 DEF Coding, Picture, Frames
<1> HIDE DEF c
<1>6. fw' = [fw EXCEPT !.busy = {c}, !.queue = RemoveAt(fw.queue, i)] BY <1>4 DEF c
<1> QED BY <1>1, <1>5, <1>6

\* The firmware begins a frame.
LEMMA CallFwBegin == ASSUME CallInv, FwBegin PROVE CallInv'
<1>1. PICK i \in DOMAIN fw.queue, c \in Coding :
           /\ fw' = [fw EXCEPT !.busy = {c}, !.queue = RemoveAt(fw.queue, i)]
           /\ sess' = sess /\ call' = call /\ rx' = rx /\ toHost' = toHost
  BY FwBegins
<1>2. RemoveAt(fw.queue, i) \in Seq(Frames) BY RemoveAtFacts DEF CallInv, FwTypes
<1>3. FwTypes' BY <1>1, <1>2 DEF CallInv, FwTypes
<1> QED BY <1>1, <1>3
      DEF CallInv, SessTypes, CallTypes, RxTypes, CallPlace, StopIsLast

\* The firmware ends one: two answers.
LEMMA FwFrames ==
  ASSUME CallInv, FwFrame
  PROVE  \E c \in fw.busy, a, e \in Answers, anchor \in Int :
           /\ fw.up /\ c \in Coding /\ fw.busy = {c}
           /\ a.id = "LRME_DONE" /\ e.id = "ENCODE_DONE" /\ e.fn = c.f.fn
           /\ anchor = fw.anchor \/ anchor = c.f.fn
           /\ toHost' = toHost \o << a, e >> /\ toHost' \in Seq(Answers)
           /\ fw' = [fw EXCEPT !.busy = {}, !.anchor = anchor]
           /\ sess' = sess /\ call' = call /\ rx' = rx
<1>1. PICK c \in fw.busy, outcome \in {"coded", "reject", "drop", "garble"} :
        FwEnd(c.f, c.pic, outcome)
  BY DEF FwFrame
<1>2. c \in Coding /\ fw.busy = {c} /\ c.f \in Frames BY DEF CallInv, FwTypes, Coding
<1> DEFINE a == Answer("LRME_DONE", TRUE, c.f.fn)
           e == Answer("ENCODE_DONE", outcome # "reject", c.f.fn)
<1>3. c.f.fn \in Nat /\ Idx(c.f.fn) \in Int BY <1>2 DEF Frames, Idx, CodedSlots
<1>4. (outcome # "reject") \in BOOLEAN OBVIOUS
<1>5. a \in Answers /\ e \in Answers /\ a.id = "LRME_DONE" /\ e.id = "ENCODE_DONE"
      /\ e.fn = c.f.fn
  BY <1>3, <1>4, OpFacts DEF Answer, Answers, NONE
<1>6. toHost' = toHost \o << a, e >> BY <1>1 DEF FwEnd
<1>7. \E anchor \in Int : /\ anchor = fw.anchor \/ anchor = c.f.fn
                          /\ fw' = [fw EXCEPT !.busy = {}, !.anchor = anchor]
  <2>1. PICK anchors \in BOOLEAN :
          fw' = [fw EXCEPT !.busy = {},
                           !.anchor = IF c.f.type # "B" /\ anchors THEN c.f.fn ELSE @]
    BY <1>1 DEF FwEnd
  <2>2. CASE c.f.type # "B" /\ anchors
    <3>1. fw' = [fw EXCEPT !.busy = {}, !.anchor = c.f.fn] BY <2>1, <2>2
    <3>2. c.f.fn \in Int BY <1>3
    <3> QED BY <3>1, <3>2
  <2>3. CASE ~(c.f.type # "B" /\ anchors)
    <3>1. fw' = [fw EXCEPT !.busy = {}, !.anchor = fw.anchor] BY <2>1, <2>3
    <3> QED BY <3>1 DEF CallInv, FwTypes
  <2> QED BY <2>2, <2>3
<1> HIDE DEF a, e
<1>8. toHost' \in Seq(Answers) BY <1>5, <1>6 DEF CallInv, FwTypes
<1>9. fw.up /\ sess' = sess /\ call' = call /\ rx' = rx BY DEF FwFrame
<1> QED BY <1>2, <1>5, <1>6, <1>7, <1>8, <1>9

\* The firmware ends a frame.
LEMMA CallFwFrame == ASSUME CallInv, FwFrame PROVE CallInv'
<1>1. PICK c \in fw.busy, a, e \in Answers, anchor \in Int :
           /\ fw.up /\ c \in Coding /\ fw.busy = {c}
           /\ a.id = "LRME_DONE" /\ e.id = "ENCODE_DONE" /\ e.fn = c.f.fn
           /\ anchor = fw.anchor \/ anchor = c.f.fn
           /\ toHost' = toHost \o << a, e >> /\ toHost' \in Seq(Answers)
           /\ fw' = [fw EXCEPT !.busy = {}, !.anchor = anchor]
           /\ sess' = sess /\ call' = call /\ rx' = rx
  BY FwFrames
<1>2. FwTypes' BY <1>1 DEF CallInv, FwTypes
<1> QED BY <1>1, <1>2
      DEF CallInv, SessTypes, CallTypes, RxTypes, CallPlace, StopIsLast

\* The firmware answers a command.
LEMMA FwCommands ==
  ASSUME CallInv, FwCommand
  PROVE  \E a \in Answers :
           /\ fw.up /\ fw.cmd \in Ops /\ a.id = ReplyId(fw.cmd)
           /\ fw.cmd = "STOP" => fw.busy = {}
           /\ toHost' = Append(toHost, a)
           /\ fw' = [fw EXCEPT !.cmd = "NONE",
                               !.queue = IF fw.cmd = "STOP" THEN << >> ELSE fw.queue,
                               !.anchor = IF fw.cmd = "OPEN" THEN NONE ELSE fw.anchor]
           /\ sess' = sess /\ call' = call /\ rx' = rx
<1>1. fw.cmd \in Ops BY DEF FwCommand, CallInv, FwTypes
<1>2. PICK ok \in BOOLEAN : toHost' = Append(toHost, Answer(ReplyId(fw.cmd), ok, NONE))
  BY DEF FwCommand
<1>3. Answer(ReplyId(fw.cmd), ok, NONE) \in Answers
      /\ Answer(ReplyId(fw.cmd), ok, NONE).id = ReplyId(fw.cmd)
  BY <1>1, OpFacts DEF Answer, Answers, NONE
<1> QED BY <1>1, <1>2, <1>3 DEF FwCommand

\* The firmware's commands, and its end.
LEMMA CallFwCommand == ASSUME CallInv, FwCommand PROVE CallInv'
<1>1. PICK a \in Answers :
           /\ toHost' = Append(toHost, a)
           /\ fw' = [fw EXCEPT !.cmd = "NONE",
                               !.queue = IF fw.cmd = "STOP" THEN << >> ELSE fw.queue,
                               !.anchor = IF fw.cmd = "OPEN" THEN NONE ELSE fw.anchor]
           /\ sess' = sess /\ call' = call /\ rx' = rx
  BY FwCommands
<1> DEFINE q == IF fw.cmd = "STOP" THEN << >> ELSE fw.queue
           n == IF fw.cmd = "OPEN" THEN NONE ELSE fw.anchor
<1>2. q \in Seq(Frames) /\ n \in Int BY DEF CallInv, FwTypes, NONE
<1>3. fw' = [fw EXCEPT !.cmd = "NONE", !.queue = q, !.anchor = n] BY <1>1
<1> HIDE DEF q, n
<1>4. FwTypes'
  <2>1. fw' = [up |-> fw.up, cmd |-> "NONE", queue |-> q, busy |-> fw.busy, anchor |-> n]
    BY <1>3 DEF CallInv, FwTypes
  <2> QED BY <1>1, <1>2, <2>1 DEF CallInv, FwTypes
<1> QED BY <1>1, <1>4
      DEF CallInv, SessTypes, CallTypes, RxTypes, CallPlace, StopIsLast

\* The firmware hangs.
LEMMA CallFwHang == ASSUME CallInv, FwHang PROVE CallInv'
<1>1. fw' = [fw EXCEPT !.up = FALSE] /\ sess' = sess /\ call' = call /\ rx' = rx
      /\ toHost' = toHost
  BY DEF FwHang
<1>2. FwTypes' BY <1>1 DEF CallInv, FwTypes
<1> QED BY <1>1, <1>2
      DEF CallInv, SessTypes, CallTypes, RxTypes, CallPlace, StopIsLast

\* Every step keeps the first layer.
LEMMA CallNext == ASSUME CallInv, [Next]_vars PROVE CallInv'
<1>1. CASE \E b \in BFrames : EncStart(b) BY <1>1, CallEncStart
<1>2. CASE EndSession BY <1>2, CallEndSession
<1>3. CASE EncEncode BY <1>3, CallEncEncode
<1>4. CASE EncBatch BY <1>4, CallEncBatch
<1>5. CASE CmdSend BY <1>5, CallCmdSend
<1>6. CASE CmdAnswered BY <1>6, CallCmdAnswered
<1>7. CASE CmdTimeout BY <1>7, CallCmdTimeout
<1>8. CASE BatchArm BY <1>8, CallBatchArm
<1>9. CASE BatchSend BY <1>9, CallBatchSend
<1>10. CASE BatchSent BY <1>10, CallBatchSent
<1>11. CASE BatchCollect BY <1>11, CallBatchCollect
<1>12. CASE BatchTimeout \/ BatchDone BY <1>12, CallBatchOver
<1>13. CASE IpcRx BY <1>13, CallIpcRx
<1>14. CASE FwBegin BY <1>14, CallFwBegin
<1>15. CASE FwFrame BY <1>15, CallFwFrame
<1>16. CASE FwCommand BY <1>16, CallFwCommand
<1>17. CASE FwHang BY <1>17, CallFwHang
<1>18. CASE UNCHANGED vars
  BY <1>18 DEF vars, CallInv, SessTypes, CallTypes, RxTypes, FwTypes, CallPlace, StopIsLast
<1> QED BY <1>1, <1>2, <1>3, <1>4, <1>5, <1>6, <1>7, <1>8, <1>9, <1>10, <1>11, <1>12,
  <1>13, <1>14, <1>15, <1>16, <1>17, <1>18 DEF Next

-----------------------------------------------------------------------------
\* The second layer, action by action.

\* The firmware has no Stop, and has answered none.
NoStop == fw.cmd # "STOP" /\ \A i \in DOMAIN toHost : ~StopDone(toHost[i])

\* A call begins where no Stop is about.
LEMMA StopBegins ==
  ASSUME CallInv, NEW op \in Ops \cup {"BATCH"}, NEW frames \in Seq(Frames), NEW r \in Rx,
         NoStop, Begin(r, op, frames), fw' = fw, toHost' = toHost
  PROVE  StopTold'
<1>1. call'.pc = "arm" /\ rx' = [r EXCEPT !.done = 0, !.buf = NoAnswer] BY BeginTypes
<1>2. ~StopDone(rx'.buf) BY <1>1, OpFacts DEF StopDone, Rx
<1> QED BY <1>2 DEF StopTold, NoStop, StopDone

\* Where that is.
LEMMA StopAbsent ==
  ASSUME CallInv, StopInv, call.op # "STOP" \/ call.pc = "arm"
  PROVE  NoStop
<1> QED BY DEF StopInv, StopTold, NoStop

\* A command that ends: Stop is the only one to leave frames or not.
LEMMA StopCommandEnds ==
  ASSUME CallInv, StopInv, call.pc \in {"arm", "wait"}, call.op \in Ops,
         NEW ret \in {"ok", "err", "timeout"}, NEW out, NEW r \in Rx,
         AfterCommand(ret, out, r), fw' = fw, toHost' = toHost,
         call.op = "STOP" /\ ret = "ok" => NoStop /\ Quiet
  PROVE  StopInv'
<1>1. \/ /\ call'.pc = "idle" /\ call' = [call EXCEPT !.pc = "idle", !.ret = ret, !.out = out]
         /\ call.op = "OPEN" => ret # "ok"
         /\ call.op = "STOP" => ret # "ok"
      \/ /\ call.op = "OPEN" /\ ret = "ok" /\ Begin(r, "START", << >>)
      \/ /\ call.op = "START" /\ ret # "ok" /\ Begin(r, "STOP", << >>)
      \/ /\ call.op = "STOP" /\ ret = "ok" /\ Begin(r, "CLOSE", << >>)
  BY CommandEnds
<1>2. << >> \in Seq(Frames) OBVIOUS
<1>3. StopTold'
  <2>1. CASE call' = [call EXCEPT !.pc = "idle", !.ret = ret, !.out = out]
    <3>1. call'.pc = "idle" /\ call'.op = call.op BY <2>1 DEF CallInv, CallTypes
    <3> QED BY <3>1 DEF StopInv, StopTold, StopDone, Quiet
  <2>2. CASE call.op \in {"OPEN", "START"} /\ \E op \in Ops : Begin(r, op, << >>)
    BY <1>2, <2>2, StopAbsent, StopBegins
  <2>3. CASE call.op = "STOP" /\ ret = "ok" /\ Begin(r, "CLOSE", << >>)
    BY <1>2, <2>3, StopBegins DEF Ops
  <2> QED BY <1>1, <2>1, <2>2, <2>3 DEF Ops
<1>4. QuietHere'
  <2>1. sess' = SessAfter(ret) BY DEF AfterCommand
  <2>2. Quiet' = Quiet BY DEF Quiet
  <2>3. CASE call.op = "OPEN"
    <3>1. Quiet BY <2>3 DEF CallInv, CallPlace, StopInv, QuietHere
    <3> QED BY <2>2, <3>1 DEF QuietHere
  <2>4. CASE call.op = "START"
    <3>1. sess'.open /\ call'.op # "CLOSE"
      <4>1. sess'.open BY <2>1, <2>4 DEF SessAfter, CallInv, SessTypes, CallPlace
      <4>2. ASSUME Begin(r, "STOP", << >>) PROVE call'.op = "STOP"
        BY <1>2, <4>2, BeginTypes DEF Ops
      <4> QED BY <1>1, <2>4, <4>1, <4>2 DEF CallInv, CallTypes
    <3> QED BY <3>1 DEF QuietHere
  <2>5. CASE call.op = "PROCESS"
    <3>1. sess'.open /\ call'.op # "CLOSE"
      <4>1. sess'.open BY <2>1, <2>5 DEF SessAfter, CallInv, SessTypes, CallPlace
      <4> QED BY <1>1, <2>5, <4>1 DEF CallInv, CallTypes
    <3> QED BY <3>1 DEF QuietHere
  <2>6. CASE call.op = "STOP"
    <3>1. CASE ret = "ok" BY <2>2, <2>6, <3>1 DEF QuietHere
    <3>2. CASE ret # "ok"
      <4>1. sess'.open BY <2>1, <2>6, <3>2 DEF SessAfter, Stopped, CallInv, SessTypes
      <4>2. call'.op = "STOP" BY <1>1, <2>6, <3>2 DEF CallInv, CallTypes
      <4> QED BY <4>1, <4>2 DEF QuietHere
    <3> QED BY <3>1, <3>2
  <2>7. CASE call.op = "CLOSE" BY <2>2, <2>7 DEF StopInv, QuietHere
  <2> QED BY <2>3, <2>4, <2>5, <2>6, <2>7 DEF Ops
<1> QED BY <1>3, <1>4 DEF StopInv

\* Sending a command.
LEMMA StopCmdSend == ASSUME CallInv, StopInv, CmdSend PROVE StopInv'
<1> DEFINE armed == [rx EXCEPT !.want = ReplyId(call.op)]
<1>1. call.pc = "arm" /\ call.op \in Ops /\ toHost' = toHost BY DEF CmdSend
<1>2. armed \in Rx BY <1>1, OpFacts DEF CallInv, RxTypes, Rx
<1>3. NoStop BY <1>1, StopAbsent
<1>4. CASE call' = [call EXCEPT !.pc = "wait"] /\ rx' = armed /\ sess' = sess
           /\ fw' = IF call.op = "PROCESS" THEN [fw EXCEPT !.queue = @ \o call.frames]
                                           ELSE [fw EXCEPT !.cmd = call.op]
  <2>1. call'.pc = "wait" /\ call'.op = call.op /\ rx'.buf = rx.buf
    BY <1>4 DEF CallInv, CallTypes, RxTypes
  <2>2. call.op = "STOP" => ~StopDone(rx.buf) BY <1>1 DEF StopInv, StopTold
  <2>3. StopTold'
    <3>1. fw'.cmd = "STOP" => call.op = "STOP"
      BY <1>3, <1>4 DEF CallInv, FwTypes, NoStop
    <3> QED BY <1>1, <1>3, <2>1, <2>2, <3>1 DEF StopTold, NoStop, StopDone
  <2>4. QuietHere'
    <3>1. CASE call.op = "PROCESS"
      BY <1>1, <1>4, <2>1, <3>1 DEF QuietHere, CallInv, CallPlace
    <3>2. CASE call.op # "PROCESS"
      <4>1. Quiet' = Quiet BY <1>4, <3>2 DEF Quiet, CallInv, FwTypes
      <4> QED BY <1>1, <1>4, <2>1, <4>1 DEF QuietHere, StopInv
    <3> QED BY <3>1, <3>2
  <2> QED BY <2>3, <2>4 DEF StopInv
<1>5. CASE AfterCommand("err", << >>, armed) /\ fw' = fw BY <1>1, <1>2, <1>5, StopCommandEnds
<1> QED BY <1>4, <1>5 DEF CmdSend

\* An answer: only the answer to Stop ends one well.
LEMMA StopCmdAnswered == ASSUME CallInv, StopInv, CmdAnswered PROVE StopInv'
<1>1. call.pc = "wait" /\ rx.done > 0 /\ toHost' = toHost /\ fw' = fw BY DEF CmdAnswered
<1>2. call.op \in Ops BY <1>1 DEF CallInv, CallPlace
<1>3. [rx EXCEPT !.done = @ - 1] \in Rx BY <1>1 DEF CallInv, RxTypes, Rx
<1>4. \E ret \in {"ok", "err"} :
        /\ ret = "ok" => Accepted(rx.buf, call.op)
        /\ \E out : AfterCommand(ret, out, [rx EXCEPT !.done = @ - 1])
  BY DEF CmdAnswered
<1>5. ASSUME call.op = "STOP", Accepted(rx.buf, call.op) PROVE NoStop /\ Quiet
  <2>1. StopDone(rx.buf) BY <1>5, OpFacts DEF Accepted, StopDone
  <2> QED BY <1>1, <1>5, <2>1 DEF StopInv, StopTold, NoStop
<1> QED BY <1>1, <1>2, <1>3, <1>4, <1>5, StopCommandEnds

\* The calls.
LEMMA StopCalls ==
  ASSUME CallInv, StopInv,
         (\E b \in BFrames : EncStart(b)) \/ EndSession \/ EncEncode \/ EncBatch
  PROVE  StopInv'
<1>1. call.pc = "idle" /\ fw' = fw /\ toHost' = toHost /\ sess'.open = sess.open
      /\ (~sess.open \/ sess.on)
  <2>1. CASE \E b \in BFrames : EncStart(b)
    BY <2>1 DEF EncStart, CallInv, SessTypes
  <2>2. CASE EndSession BY <2>2 DEF EndSession, CallInv, SessTypes
  <2>3. CASE EncEncode BY <2>3 DEF EncEncode, CallInv, SessTypes
  <2>4. CASE EncBatch
    <3>1. PICK frames \in Seq(Frames), plan \in GopState : EncEncodeBatch(frames, plan)
      BY <2>4, BatchIs
    <3> QED BY <3>1 DEF EncEncodeBatch, CallInv, SessTypes
  <2> QED BY <2>1, <2>2, <2>3, <2>4
<1>2. NoStop
  <2>1. call.op # "STOP" BY <1>1 DEF CallInv, StopIsLast
  <2> QED BY <2>1, StopAbsent
<1>3. \/ call' = call /\ rx' = rx
      \/ \E op \in {"OPEN", "STOP", "PROCESS", "BATCH"}, frames \in Seq(Frames), r \in Rx :
           Begin(r, op, frames)
  <2>1. rx \in Rx /\ [rx EXCEPT !.nq = 0] \in Rx /\ << >> \in Seq(Frames)
    BY DEF CallInv, RxTypes, Rx
  <2>2. CASE \E b \in BFrames : EncStart(b) BY <2>1, <2>2 DEF EncStart
  <2>3. CASE EndSession BY <2>1, <2>3 DEF EndSession
  <2>4. CASE EncEncode
    <3>1. GopFrame(0, IF sess.frame_n = 0 THEN "IDR" ELSE "P", sess.frame_n) \in Frames
      BY DEF CallInv, SessTypes, Frames, GopFrame, FrameType
    <3> DEFINE s == << GopFrame(0, IF sess.frame_n = 0 THEN "IDR" ELSE "P", sess.frame_n) >>
    <3>2. s \in Seq(Frames) BY <3>1
    <3>3. Begin(rx, "PROCESS", s) BY <2>4 DEF EncEncode
    <3> HIDE DEF s
    <3> QED BY <2>1, <3>2, <3>3
  <2>5. CASE EncBatch
    <3>1. PICK frames \in Seq(Frames), plan \in GopState : EncEncodeBatch(frames, plan)
      BY <2>5, BatchIs
    <3>2. Begin([rx EXCEPT !.nq = 0], "BATCH", frames) BY <3>1 DEF EncEncodeBatch
    <3> QED BY <2>1, <3>2
  <2> QED BY <2>2, <2>3, <2>4, <2>5
<1>4. StopTold'
  <2>1. CASE call' = call /\ rx' = rx
    BY <1>1, <2>1 DEF StopInv, StopTold, StopDone, Quiet
  <2>2. CASE \E op \in {"OPEN", "STOP", "PROCESS", "BATCH"}, frames \in Seq(Frames), r \in Rx :
               Begin(r, op, frames)
    BY <1>1, <1>2, <2>2, StopBegins DEF Ops
  <2> QED BY <1>3, <2>1, <2>2
<1>5. call'.pc = "idle" \/ call'.op # "CLOSE"
  <2>1. CASE \E op \in {"OPEN", "STOP", "PROCESS", "BATCH"}, frames \in Seq(Frames), r \in Rx :
               Begin(r, op, frames)
    BY <2>1, BeginTypes DEF Ops
  <2> QED BY <1>1, <1>3, <2>1
<1>6. QuietHere' BY <1>1, <1>5 DEF QuietHere, StopInv, Quiet
<1> QED BY <1>4, <1>6 DEF StopInv

\* A batch: no Stop is about, and the stream is open.
LEMMA StopBatch ==
  ASSUME CallInv, StopInv,
         BatchArm \/ BatchSend \/ BatchSent \/ BatchCollect \/ BatchTimeout \/ BatchDone
  PROVE  StopInv'
<1>1. call.op = "BATCH" /\ call.pc # "idle" /\ toHost' = toHost
  BY DEF BatchArm, BatchSend, BatchSent, BatchCollect, BatchTimeout, BatchDone,
         CallInv, CallPlace
<1>2. NoStop /\ sess.open BY <1>1, StopAbsent DEF CallInv, CallPlace
<1>3. fw'.cmd = fw.cmd
  BY DEF BatchArm, BatchSend, BatchSent, BatchCollect, BatchTimeout, BatchDone, CallInv,
         FwTypes
<1>4. call'.op = call.op
  <2>1. CASE BatchArm BY <2>1 DEF BatchArm, CallInv, CallTypes
  <2>2. CASE BatchSend BY <2>2 DEF BatchSend, CallInv, CallTypes
  <2>3. CASE BatchSent BY <2>3 DEF BatchSent, CallInv, CallTypes
  <2>4. CASE BatchCollect BY <2>4 DEF BatchCollect, BatchEnds, CallInv, CallTypes
  <2>5. CASE BatchTimeout BY <2>5 DEF BatchTimeout, BatchEnds, CallInv, CallTypes
  <2>6. CASE BatchDone BY <2>6 DEF BatchDone, BatchEnds, CallInv, CallTypes
  <2> QED BY <2>1, <2>2, <2>3, <2>4, <2>5, <2>6
<1>5. sess'.open = sess.open
  BY DEF BatchArm, BatchSend, BatchSent, BatchCollect, BatchTimeout, BatchDone, BatchEnds,
         CallInv, SessTypes
<1>6. StopTold' BY <1>1, <1>2, <1>3, <1>4 DEF StopTold, NoStop, StopDone
<1>7. QuietHere' BY <1>1, <1>2, <1>4, <1>5 DEF QuietHere
<1> QED BY <1>6, <1>7 DEF StopInv

\* The interrupt: when Stop's answer comes, nothing comes after it.
LEMMA StopIpcRx == ASSUME CallInv, StopInv, IpcRx PROVE StopInv'
<1> DEFINE a == Head(toHost)
<1>1. toHost # << >> /\ rx' = RxAfter(rx, a) /\ toHost' = Tail(toHost)
      /\ sess' = sess /\ call' = call /\ fw' = fw
  BY DEF IpcRx
<1>2. a \in Answers /\ a = toHost[1] /\ 1 \in DOMAIN toHost /\ Len(toHost) \in Nat
      /\ Len(Tail(toHost)) = Len(toHost) - 1
      /\ \A i \in DOMAIN Tail(toHost) : i + 1 \in DOMAIN toHost
                                        /\ Tail(toHost)[i] = toHost[i + 1]
  BY <1>1 DEF CallInv, FwTypes
<1>3. rx'.buf = a \/ rx'.buf = rx.buf
  <2>1. rx \in Rx BY DEF CallInv, RxTypes, Rx
  <2> QED BY <1>1, <1>2, <2>1, RxAfterFacts
<1>4. \A i \in DOMAIN toHost' : StopDone(toHost'[i]) =>
        /\ call.op = "STOP" /\ call.pc # "arm" /\ fw.cmd = "NONE"
        /\ Quiet /\ i = Len(toHost')
  BY <1>1, <1>2 DEF StopInv, StopTold
<1>5. ASSUME call.op = "STOP", call.pc # "idle", StopDone(rx'.buf)
      PROVE  call.pc = "wait" /\ fw.cmd = "NONE" /\ Quiet /\ toHost' = << >>
  <2>1. CASE StopDone(a)
    <3>1. call.pc # "arm" /\ fw.cmd = "NONE" /\ Quiet /\ 1 = Len(toHost)
      BY <1>2, <2>1 DEF StopInv, StopTold
    <3>2. Tail(toHost) = << >> BY <1>1, <3>1 DEF CallInv, FwTypes
    <3>3. call.pc = "wait" BY <1>5, <3>1 DEF CallInv, CallPlace, CallTypes
    <3> QED BY <1>1, <3>1, <3>2, <3>3
  <2>2. CASE StopDone(rx.buf)
    BY <1>1, <1>5, <2>2 DEF StopInv, StopTold
  <2> QED BY <1>3, <1>5, <2>1, <2>2
<1>6. StopTold' BY <1>1, <1>4, <1>5 DEF StopTold, StopInv, StopDone, Quiet
<1>7. QuietHere' BY <1>1 DEF QuietHere, StopInv, Quiet
<1> QED BY <1>6, <1>7 DEF StopInv

\* The firmware codes only frames it has.
LEMMA StopFwBegin == ASSUME CallInv, StopInv, FwBegin PROVE StopInv'
<1>1. PICK i \in DOMAIN fw.queue, c \in Coding :
           /\ fw' = [fw EXCEPT !.busy = {c}, !.queue = RemoveAt(fw.queue, i)]
           /\ sess' = sess /\ call' = call /\ rx' = rx /\ toHost' = toHost
  BY FwBegins
<1>2. ~Quiet BY DEF Quiet
<1>3. fw'.cmd = fw.cmd BY <1>1 DEF CallInv, FwTypes
<1> QED BY <1>1, <1>2, <1>3 DEF StopInv, StopTold, QuietHere, StopDone

\* Nor does it answer others.
LEMMA StopFwFrame == ASSUME CallInv, StopInv, FwFrame PROVE StopInv'
<1>1. PICK c \in fw.busy, a, e \in Answers, anchor \in Int :
           /\ fw.up /\ c \in Coding /\ fw.busy = {c}
           /\ a.id = "LRME_DONE" /\ e.id = "ENCODE_DONE" /\ e.fn = c.f.fn
           /\ anchor = fw.anchor \/ anchor = c.f.fn
           /\ toHost' = toHost \o << a, e >> /\ toHost' \in Seq(Answers)
           /\ fw' = [fw EXCEPT !.busy = {}, !.anchor = anchor]
           /\ sess' = sess /\ call' = call /\ rx' = rx
  BY FwFrames
<1>2. ~Quiet BY DEF Quiet
<1>3. fw'.cmd = fw.cmd BY <1>1 DEF CallInv, FwTypes
<1>4. \A i \in DOMAIN toHost' : ~StopDone(toHost'[i])
  <2>1. toHost \in Seq(Answers) /\ << a, e >> \in Seq(Answers) /\ Len(<< a, e >>) = 2
    BY DEF CallInv, FwTypes
  <2>2. \A i \in DOMAIN toHost : ~StopDone(toHost[i]) BY <1>2 DEF StopInv, StopTold
  <2>3. \A i \in 1 .. 2 : ~StopDone(<< a, e >>[i]) BY <1>1 DEF StopDone
  <2> QED BY <1>1, <2>1, <2>2, <2>3
<1> QED BY <1>1, <1>2, <1>3, <1>4 DEF StopInv, StopTold, QuietHere

\* Stop: what it has not begun is forgotten, what it codes is waited for.
LEMMA StopFwCommand == ASSUME CallInv, StopInv, FwCommand PROVE StopInv'
<1>1. PICK a \in Answers :
           /\ fw.cmd \in Ops /\ a.id = ReplyId(fw.cmd)
           /\ fw.cmd = "STOP" => fw.busy = {}
           /\ toHost' = Append(toHost, a)
           /\ fw' = [fw EXCEPT !.cmd = "NONE",
                               !.queue = IF fw.cmd = "STOP" THEN << >> ELSE fw.queue,
                               !.anchor = IF fw.cmd = "OPEN" THEN NONE ELSE fw.anchor]
           /\ sess' = sess /\ call' = call /\ rx' = rx
  BY FwCommands
<1>2. fw'.cmd = "NONE" /\ fw'.busy = fw.busy
      /\ fw'.queue = (IF fw.cmd = "STOP" THEN << >> ELSE fw.queue)
  BY <1>1 DEF CallInv, FwTypes
<1>3. Quiet => Quiet' BY <1>2 DEF Quiet
<1>4. fw.cmd = "STOP" => Quiet' BY <1>1, <1>2 DEF Quiet
<1>5. \A i \in DOMAIN toHost : ~StopDone(toHost[i]) BY <1>1 DEF StopInv, StopTold, Ops
<1>6. StopDone(a) => fw.cmd = "STOP" BY <1>1, OpFacts DEF StopDone, Ops
<1>7. \A i \in DOMAIN toHost' : StopDone(toHost'[i]) => fw.cmd = "STOP" /\ i = Len(toHost')
  <2>1. toHost \in Seq(Answers) BY DEF CallInv, FwTypes
  <2> QED BY <1>1, <1>5, <1>6, <2>1
<1>8. ~(call.op = "STOP" /\ call.pc # "idle" /\ StopDone(rx.buf))
  BY <1>1 DEF StopInv, StopTold, Ops
<1>9. StopTold' BY <1>1, <1>2, <1>4, <1>7, <1>8 DEF StopInv, StopTold
<1>10. QuietHere' BY <1>1, <1>3 DEF StopInv, QuietHere
<1> QED BY <1>9, <1>10 DEF StopInv

\* Every step keeps the second layer.
LEMMA StopNext == ASSUME CallInv, StopInv, [Next]_vars PROVE StopInv'
<1>1. CASE (\E b \in BFrames : EncStart(b)) \/ EndSession \/ EncEncode \/ EncBatch
  BY <1>1, StopCalls
<1>2. CASE CmdSend BY <1>2, StopCmdSend
<1>3. CASE CmdAnswered BY <1>3, StopCmdAnswered
<1>4. CASE CmdTimeout
  <2>1. call.pc = "wait" /\ toHost' = toHost /\ fw' = fw /\ AfterCommand("timeout", << >>, rx)
    BY <1>4 DEF CmdTimeout
  <2>2. call.op \in Ops BY <2>1 DEF CallInv, CallPlace
  <2>3. rx \in Rx BY DEF CallInv, RxTypes, Rx
  <2> QED BY <2>1, <2>2, <2>3, StopCommandEnds
<1>5. CASE BatchArm \/ BatchSend \/ BatchSent \/ BatchCollect \/ BatchTimeout \/ BatchDone
  BY <1>5, StopBatch
<1>6. CASE IpcRx BY <1>6, StopIpcRx
<1>7. CASE FwBegin BY <1>7, StopFwBegin
<1>8. CASE FwFrame BY <1>8, StopFwFrame
<1>9. CASE FwCommand BY <1>9, StopFwCommand
<1>10. CASE FwHang
  <2>1. fw' = [fw EXCEPT !.up = FALSE] /\ sess' = sess /\ call' = call /\ rx' = rx
        /\ toHost' = toHost
    BY <1>10 DEF FwHang
  <2>2. fw'.cmd = fw.cmd /\ Quiet' = Quiet BY <2>1 DEF CallInv, FwTypes, Quiet
  <2> QED BY <2>1, <2>2 DEF StopInv, StopTold, QuietHere, StopDone
<1>11. CASE UNCHANGED vars
  BY <1>11 DEF vars, StopInv, StopTold, QuietHere, StopDone, Quiet
<1> QED BY <1>1, <1>2, <1>3, <1>4, <1>5, <1>6, <1>7, <1>8, <1>9, <1>10, <1>11 DEF Next

-----------------------------------------------------------------------------
\* The third layer, action by action.

\* How many answers there are, as answers come and go.
LEMMA ThoseCount ==
  ASSUME NEW s \in Seq(Answers), NEW ids
  PROVE  /\ IsFiniteSet(Those(s, ids)) /\ Cardinality(Those(s, ids)) \in Nat
         /\ s = << >> => Cardinality(Those(s, ids)) = 0
         /\ \A a \in Answers :
              Cardinality(Those(Append(s, a), ids)) =
                Cardinality(Those(s, ids)) + (IF a.id \in ids THEN 1 ELSE 0)
<1>1. Those(s, ids) \subseteq 1 .. Len(s) /\ Len(s) \in Nat BY DEF Those
<1>2. IsFiniteSet(1 .. Len(s)) BY <1>1, FS_Interval
<1>3. IsFiniteSet(Those(s, ids)) BY <1>1, <1>2, FS_Subset
<1>4. Cardinality(Those(s, ids)) \in Nat BY <1>3, FS_CardinalityType
<1>5. ASSUME s = << >> PROVE Cardinality(Those(s, ids)) = 0
  <2>1. Those(s, ids) = {} BY <1>1, <1>5
  <2> QED BY <2>1, FS_EmptySet
<1>6. ASSUME NEW a \in Answers
      PROVE  Cardinality(Those(Append(s, a), ids)) =
               Cardinality(Those(s, ids)) + (IF a.id \in ids THEN 1 ELSE 0)
  <2>1. DOMAIN Append(s, a) = 1 .. Len(s) + 1 /\ Append(s, a)[Len(s) + 1] = a
        /\ \A i \in 1 .. Len(s) : Append(s, a)[i] = s[i]
    OBVIOUS
  <2>2. CASE a.id \in ids
    <3>1. Those(Append(s, a), ids) = Those(s, ids) \cup {Len(s) + 1} BY <1>1, <2>1, <2>2 DEF Those
    <3>2. Len(s) + 1 \notin Those(s, ids) BY <1>1
    <3> QED BY <1>3, <2>2, <3>1, <3>2, FS_AddElement
  <2>3. CASE a.id \notin ids
    <3>1. Those(Append(s, a), ids) = Those(s, ids) BY <1>1, <2>1, <2>3 DEF Those
    <3> QED BY <1>4, <2>3, <3>1
  <2> QED BY <2>2, <2>3
<1> QED BY <1>3, <1>4, <1>5, <1>6

\* An answer that is taken.
LEMMA ThoseTaken ==
  ASSUME NEW s \in Seq(Answers), NEW ids, s # << >>
  PROVE  Cardinality(Those(s, ids)) = Cardinality(Those(Tail(s), ids))
                                  + (IF Head(s).id \in ids THEN 1 ELSE 0)
<1> DEFINE t == Tail(s)
           T == Those(s, ids) \ {1}
           f == [i \in Those(t, ids) |-> i + 1]
<1>1. /\ t \in Seq(Answers) /\ Len(s) \in Nat /\ Len(s) >= 1 /\ Len(t) = Len(s) - 1
      /\ DOMAIN t = 1 .. Len(s) - 1 /\ DOMAIN s = 1 .. Len(s) /\ Head(s) = s[1]
      /\ \A i \in 1 .. Len(s) - 1 : t[i] = s[i + 1]
  OBVIOUS
<1> HIDE DEF t
<1>2. f \in Bijection(Those(t, ids), T)
  <2>1. f \in [Those(t, ids) -> T] BY <1>1 DEF Those
  <2>2. \A i, j \in Those(t, ids) : f[i] = f[j] => i = j BY <1>1 DEF Those
  <2>3. ASSUME NEW j \in T PROVE \E i \in Those(t, ids) : f[i] = j
    <3>1. j \in 2 .. Len(s) /\ s[j].id \in ids BY <1>1 DEF Those
    <3>2. j - 1 \in Those(t, ids) BY <1>1, <3>1 DEF Those
    <3> QED BY <3>1, <3>2
  <2> QED BY <2>1, <2>2, <2>3 DEF Bijection, Injection, Surjection, IsInjective
<1>3. /\ IsFiniteSet(Those(s, ids)) /\ IsFiniteSet(Those(t, ids))
      /\ Cardinality(Those(s, ids)) \in Nat
  BY <1>1, ThoseCount
<1>4. ExistsBijection(Those(t, ids), T) BY <1>2 DEF ExistsBijection
<1>5. Cardinality(T) = Cardinality(Those(t, ids)) BY <1>3, <1>4, FS_Bijection
<1>6. CASE s[1].id \in ids
  <2>1. 1 \in Those(s, ids) BY <1>1, <1>6 DEF Those
  <2>2. Cardinality(T) = Cardinality(Those(s, ids)) - 1 BY <1>3, <2>1, FS_RemoveElement
  <2> QED BY <1>1, <1>3, <1>5, <1>6, <2>2 DEF t
<1>7. CASE s[1].id \notin ids
  <2>1. T = Those(s, ids) BY <1>7 DEF Those
  <2>2. Cardinality(Those(s, ids)) = Cardinality(Those(t, ids)) BY <1>5, <2>1
  <2>3. (IF Head(s).id \in ids THEN 1 ELSE 0) = 0 BY <1>1, <1>7
  <2> QED BY <1>3, <2>2, <2>3 DEF t
<1> QED BY <1>6, <1>7

\* The same of the answers to a Process.
LEMMA CodedsCount ==
  ASSUME NEW s \in Seq(Answers)
  PROVE  /\ IsFiniteSet(Codeds(s)) /\ Cardinality(Codeds(s)) \in Nat
         /\ s = << >> => Cardinality(Codeds(s)) = 0
         /\ \A a \in Answers :
              Cardinality(Codeds(Append(s, a))) =
                Cardinality(Codeds(s)) + (IF a.id = "ENCODE_DONE" THEN 1 ELSE 0)
<1>1. \A a \in Answers : a.id \in {"ENCODE_DONE"} <=> a.id = "ENCODE_DONE" OBVIOUS
<1> QED BY <1>1, ThoseCount DEF Codeds

\* And of one that is taken.
LEMMA CodedsTaken ==
  ASSUME NEW s \in Seq(Answers), s # << >>
  PROVE  Cardinality(Codeds(s)) = Cardinality(Codeds(Tail(s)))
                                  + (IF Head(s).id = "ENCODE_DONE" THEN 1 ELSE 0)
<1>1. Head(s).id \in {"ENCODE_DONE"} <=> Head(s).id = "ENCODE_DONE" OBVIOUS
<1> QED BY <1>1, ThoseTaken DEF Codeds

\* What is coming is a number.
LEMMA ComingTypes ==
  ASSUME CallInv
  PROVE  /\ Len(fw.queue) \in Nat /\ Busy \in 0 .. 1 /\ rx.done \in Nat
         /\ Cardinality(Codeds(toHost)) \in Nat /\ Coming \in Nat
<1>1. Cardinality(Codeds(toHost)) \in Nat BY CodedsCount DEF CallInv, FwTypes
<1>2. Len(fw.queue) \in Nat /\ Busy \in 0 .. 1 /\ rx.done \in Nat
  BY DEF CallInv, FwTypes, RxTypes, Busy
<1> QED BY <1>1, <1>2 DEF Coming

\* What is coming, now and next.
LEMMA ComingParts ==
  /\ Coming = Len(fw.queue) + Busy + Cardinality(Codeds(toHost)) + rx.done
  /\ Coming' = Len(fw'.queue) + Busy' + Cardinality(Codeds(toHost')) + rx'.done
BY DEF Coming

\* Nothing is awaited before a command is sent and after it ends.
LEMMA NothingDue ==
  ASSUME CallInv', call'.pc \in {"idle", "arm"}
  PROVE  (Due <= Coming)'
<1>1. Coming' \in Nat
  <2>1. Cardinality(Codeds(toHost')) \in Nat BY CodedsCount DEF CallInv, FwTypes
  <2>2. Len(fw'.queue) \in Nat /\ Busy' \in 0 .. 1 /\ rx'.done \in Nat
    BY DEF CallInv, FwTypes, RxTypes, Busy
  <2> QED BY <2>1, <2>2 DEF Coming
<1>2. Due' = 0 BY DEF Due
<1> QED BY <1>1, <1>2

\* A call begins.
LEMMA DueBegins ==
  ASSUME CallInv', ~sess'.hung, NEW op \in Ops \cup {"BATCH"}, NEW frames \in Seq(Frames),
         NEW r \in Rx, ~r.batch, Begin(r, op, frames)
  PROVE  DueInv'
<1>1. call'.pc = "arm" /\ call'.k = 0 /\ rx' = [r EXCEPT !.done = 0, !.buf = NoAnswer]
  BY BeginTypes
<1>2. (Due <= Coming)' BY <1>1, NothingDue
<1>3. ~rx'.batch BY <1>1 DEF Rx
<1>4. call'.ret = "ok" BY BeginTypes
<1> QED BY <1>1, <1>2, <1>3, <1>4 DEF DueInv, Armed, Hung

\* A command that ends: hung if nobody is left to answer.
LEMMA DueCommandEnds ==
  ASSUME CallInv, DueInv, CallInv', call.pc \in {"arm", "wait"}, call.op \in Ops,
         NEW ret \in {"ok", "err", "timeout"}, NEW out,
         NEW r \in Rx, ~r.batch, AfterCommand(ret, out, r), fw' = fw,
         call.op = "PROCESS" /\ ret = "timeout" =>
           (fw.up => fw.queue # << >> /\ fw.cmd = "NONE" /\ fw.busy = {} /\ ~Codable)
  PROVE  DueInv'
<1>1. /\ \/ call'.pc = "idle" /\ rx' = r
         \/ call.op = "OPEN" /\ Begin(r, "START", << >>)
         \/ call.op = "START" /\ Begin(r, "STOP", << >>)
         \/ call.op = "STOP" /\ Begin(r, "CLOSE", << >>)
      /\ sess'.hung => sess.hung \/ (call.op = "PROCESS" /\ ret = "timeout")
  <2> DEFINE Idle == call' = [call EXCEPT !.pc = "idle", !.ret = ret, !.out = out]
  <2>1. /\ SessTypes' /\ CallTypes' /\ RxTypes' /\ CallPlace' /\ StopIsLast'
        /\ \/ call'.pc = "idle" /\ Idle /\ rx' = r
              /\ (call.op = "OPEN" => ret # "ok") /\ (call.op = "STOP" => ret # "ok")
           \/ call.op = "OPEN" /\ ret = "ok" /\ Begin(r, "START", << >>)
           \/ call.op = "START" /\ ret # "ok" /\ Begin(r, "STOP", << >>)
           \/ call.op = "STOP" /\ ret = "ok" /\ Begin(r, "CLOSE", << >>)
    BY CommandEnds
  <2>2. sess'.hung => sess.hung \/ (call.op = "PROCESS" /\ ret = "timeout")
    BY CommandEnds
  <2> HIDE DEF Idle
  <2> QED BY <2>1, <2>2
<1>2. ~sess.hung BY DEF CallInv, CallPlace
<1>3. CASE call'.pc = "idle" /\ rx' = r
  <2>1. (Due <= Coming)' BY <1>3, NothingDue
  <2>2. Hung' BY <1>1, <1>2, <1>3 DEF Hung, Codable, CanCode
  <2> QED BY <1>3, <2>1, <2>2 DEF DueInv, Armed
<1>4. CASE call.op \in {"OPEN", "START", "STOP"} /\ \E op \in Ops : Begin(r, op, << >>)
  <2>1. ~sess'.hung BY <1>1, <1>2, <1>4
  <2>2. << >> \in Seq(Frames) OBVIOUS
  <2> QED BY <1>4, <2>1, <2>2, DueBegins
<1> QED BY <1>1, <1>3, <1>4 DEF Ops

\* Silence with something due: the firmware is down or keeps a frame.
LEMMA SilentHolds ==
  ASSUME CallInv, DueInv, Silent, Due > 0
  PROVE  fw.up => fw.queue # << >> /\ fw.cmd = "NONE" /\ fw.busy = {} /\ ~Codable
<1> SUFFICES ASSUME fw.up PROVE fw.queue # << >> BY DEF Silent
<1>1. Cardinality(Codeds(toHost)) = 0 /\ rx.done = 0 /\ Busy = 0
  BY CodedsCount DEF Silent, Busy, CallInv, FwTypes
<1>2. Due \in Int BY DEF Due, CallInv, CallTypes
<1>3. Len(fw.queue) > 0 BY <1>1, <1>2, ComingTypes DEF DueInv, Coming
<1> QED BY <1>3 DEF CallInv, FwTypes

\* Sending a command.
LEMMA DueCmdSend == ASSUME CallInv, DueInv, CmdSend PROVE DueInv'
<1> DEFINE armed == [rx EXCEPT !.want = ReplyId(call.op)]
<1>1. call.pc = "arm" /\ call.op \in Ops /\ toHost' = toHost BY DEF CmdSend
<1>2. armed \in Rx /\ ~armed.batch
  BY <1>1, OpFacts DEF CallInv, RxTypes, Rx, DueInv, Armed
<1>3. CallInv' BY CallCmdSend
<1>4. CASE call' = [call EXCEPT !.pc = "wait"] /\ rx' = armed /\ sess' = sess
           /\ fw' = IF call.op = "PROCESS" THEN [fw EXCEPT !.queue = @ \o call.frames]
                                           ELSE [fw EXCEPT !.cmd = call.op]
  <2>1. call'.pc = "wait" /\ call'.op = call.op /\ rx'.want = ReplyId(call.op)
        /\ rx'.batch = rx.batch /\ rx'.done = rx.done
    BY <1>4 DEF CallInv, CallTypes, RxTypes
  <2>2. ~sess.hung BY <1>1 DEF CallInv, CallPlace
  <2>3. ~rx.batch BY <1>1 DEF DueInv, Armed
  <2>4. Armed'
    <3>1. call'.ret = call.ret /\ call.ret # "timeout"
      BY <1>1, <1>4 DEF CallInv, CallTypes, DueInv, Armed
    <3> QED BY <2>1, <2>3, <3>1 DEF Armed
  <2>5. Hung' BY <1>4, <2>2 DEF Hung
  <2>6. (Due <= Coming)'
    <3>1. CASE call.op = "PROCESS"
      <4>1. fw'.queue = fw.queue \o call.frames /\ fw'.busy = fw.busy
        BY <1>4, <3>1 DEF CallInv, FwTypes
      <4>2. Len(call.frames) = 1 BY <1>1, <3>1 DEF CallInv, CallPlace
      <4>3. Len(fw'.queue) = Len(fw.queue) + 1
        <5>1. fw.queue \in Seq(Frames) /\ call.frames \in Seq(Frames)
          BY DEF CallInv, FwTypes, CallTypes
        <5>2. Len(fw.queue \o call.frames) = Len(fw.queue) + Len(call.frames) BY <5>1
        <5> QED BY <4>1, <4>2, <5>2
      <4>4. Busy' = Busy BY <4>1 DEF Busy
      <4>5. Due' = 1 BY <2>1, <3>1 DEF Due
      <4> QED BY <1>1, <2>1, <4>3, <4>4, <4>5, ComingTypes DEF Coming
    <3>2. CASE call.op # "PROCESS"
      <4>1. Due' = 0 BY <2>1, <3>2 DEF Due
      <4>2. fw'.queue = fw.queue /\ fw'.busy = fw.busy
        BY <1>4, <3>2 DEF CallInv, FwTypes
      <4>3. Coming' = Coming BY <1>1, <2>1, <4>2 DEF Coming, Busy
      <4> QED BY <4>1, <4>3, ComingTypes
    <3> QED BY <3>1, <3>2
  <2> QED BY <2>4, <2>5, <2>6 DEF DueInv
<1>5. CASE AfterCommand("err", << >>, armed) /\ fw' = fw
  BY <1>1, <1>2, <1>3, <1>5, DueCommandEnds
<1> QED BY <1>4, <1>5 DEF CmdSend

\* A command that was answered, and one that was not.
LEMMA DueCmdOver == ASSUME CallInv, DueInv, CmdAnswered \/ CmdTimeout PROVE DueInv'
<1>1. call.pc = "wait" /\ fw' = fw BY DEF CmdAnswered, CmdTimeout
<1>2. call.op \in Ops BY <1>1 DEF CallInv, CallPlace
<1>3. CallInv' BY CallCmdAnswered, CallCmdTimeout
<1>4. CASE CmdAnswered
  <2>1. rx.done > 0 BY <1>4 DEF CmdAnswered
  <2>2. [rx EXCEPT !.done = @ - 1] \in Rx /\ ~[rx EXCEPT !.done = @ - 1].batch
    BY <1>1, <2>1 DEF CallInv, RxTypes, Rx, DueInv, Armed
  <2>3. \E ret \in {"ok", "err"} : \E out : AfterCommand(ret, out, [rx EXCEPT !.done = @ - 1])
    BY <1>4 DEF CmdAnswered
  <2> QED BY <1>1, <1>2, <1>3, <2>2, <2>3, DueCommandEnds
<1>5. CASE CmdTimeout
  <2>1. AfterCommand("timeout", << >>, rx) /\ Silent BY <1>5 DEF CmdTimeout
  <2>2. rx \in Rx /\ ~rx.batch BY <1>1 DEF CallInv, RxTypes, Rx, DueInv, Armed
  <2>3. call.op = "PROCESS" => Due > 0 BY <1>1 DEF Due
  <2>4. call.op = "PROCESS" =>
          (fw.up => fw.queue # << >> /\ fw.cmd = "NONE" /\ fw.busy = {} /\ ~Codable)
    BY <2>1, <2>3, SilentHolds
  <2> QED BY <1>1, <1>2, <1>3, <2>1, <2>2, <2>4, DueCommandEnds
<1> QED BY <1>4, <1>5

\* The calls.
LEMMA DueCalls ==
  ASSUME CallInv, DueInv, CallInv',
         (\E b \in BFrames : EncStart(b)) \/ EndSession \/ EncEncode \/ EncBatch
  PROVE  DueInv'
<1>1. rx \in Rx /\ ~rx.batch /\ [rx EXCEPT !.nq = 0] \in Rx /\ ~[rx EXCEPT !.nq = 0].batch
  BY DEF EncStart, EndSession, EncEncode, EncBatch, EncEncodeBatch, CallInv, RxTypes, Rx,
         DueInv, Armed
<1>2. << >> \in Seq(Frames) OBVIOUS
<1>3. CASE \E b \in BFrames : EncStart(b)
  <2>1. Begin(rx, "OPEN", << >>) /\ ~sess'.hung BY <1>3 DEF EncStart, CallInv, SessTypes
  <2> QED BY <1>1, <1>2, <2>1, DueBegins DEF Ops
<1>4. CASE EndSession
  <2>1. call.pc = "idle" /\ sess'.hung = sess.hung /\ fw' = fw /\ toHost' = toHost
        /\ IF sess.hung THEN call' = call /\ rx' = rx ELSE Begin(rx, "STOP", << >>)
    BY <1>4 DEF EndSession, CallInv, SessTypes
  <2>2. CASE ~sess.hung BY <1>1, <1>2, <2>1, <2>2, DueBegins DEF Ops
  <2>3. CASE sess.hung
    <3>1. call' = call /\ rx' = rx BY <2>1, <2>3
    <3> QED BY <2>1, <3>1 DEF DueInv, Armed, Hung, Codable, CanCode, Due, Coming, Busy
  <2> QED BY <2>2, <2>3
<1>5. CASE EncEncode
  <2>1. GopFrame(0, IF sess.frame_n = 0 THEN "IDR" ELSE "P", sess.frame_n) \in Frames
    BY DEF CallInv, SessTypes, Frames, GopFrame, FrameType
  <2> DEFINE s == << GopFrame(0, IF sess.frame_n = 0 THEN "IDR" ELSE "P", sess.frame_n) >>
  <2>2. s \in Seq(Frames) BY <2>1
  <2>3. Begin(rx, "PROCESS", s) /\ ~sess'.hung BY <1>5 DEF EncEncode, CallInv, SessTypes
  <2> HIDE DEF s
  <2> QED BY <1>1, <2>2, <2>3, DueBegins DEF Ops
<1>6. CASE EncBatch
  <2>1. PICK frames \in Seq(Frames), plan \in GopState : EncEncodeBatch(frames, plan)
    BY <1>6, BatchIs
  <2>2. Begin([rx EXCEPT !.nq = 0], "BATCH", frames) /\ ~sess'.hung
    BY <2>1 DEF EncEncodeBatch, CallInv, SessTypes
  <2> QED BY <1>1, <2>2, DueBegins
<1> QED BY <1>3, <1>4, <1>5, <1>6

\* A batch that is over.
LEMMA DueBatchEnds ==
  ASSUME CallInv, DueInv, call.pc = "collect", NEW ret \in {"ok", "err", "timeout"},
         NEW r \in Rx, BatchEnds(ret, r), fw' = fw, toHost' = toHost,
         ret = "timeout" =>
           (fw.up => fw.queue # << >> /\ fw.cmd = "NONE" /\ fw.busy = {} /\ ~Codable)
  PROVE  DueInv'
<1>1. /\ CallInv' /\ call' = [call EXCEPT !.pc = "idle", !.ret = ret]
      /\ sess' = [sess EXCEPT !.hung = ret = "timeout"] /\ rx' = [r EXCEPT !.batch = FALSE]
  BY CallBatchEnds
<1>2. call'.pc = "idle" /\ ~rx'.batch BY <1>1 DEF CallInv, CallTypes, Rx
<1>3. (Due <= Coming)' BY <1>1, <1>2, NothingDue
<1>4. sess'.hung => ret = "timeout" BY <1>1 DEF CallInv, SessTypes
<1>5. Hung' BY <1>2, <1>4 DEF Hung, Codable, CanCode
<1> QED BY <1>2, <1>3, <1>5 DEF DueInv, Armed

\* Arming, sending and collecting.
LEMMA DueBatch ==
  ASSUME CallInv, DueInv, CallInv',
         BatchArm \/ BatchSend \/ BatchSent \/ BatchCollect \/ BatchTimeout \/ BatchDone
  PROVE  DueInv'
<1>1. toHost' = toHost /\ call.pc # "idle" /\ ~sess.hung
  BY DEF BatchArm, BatchSend, BatchSent, BatchCollect, BatchTimeout, BatchDone, CallInv,
         CallPlace
<1>2. CASE BatchArm
  <2>1. call.pc = "arm" /\ call' = [call EXCEPT !.pc = "send"] /\ sess' = sess /\ fw' = fw
        /\ rx' = [rx EXCEPT !.want = ReplyId("PROCESS"), !.batch = TRUE]
    BY <1>2 DEF BatchArm
  <2>2. call'.pc = "send" /\ call'.k = 0 BY <2>1 DEF CallInv, CallTypes, DueInv, Armed
  <2>3. rx'.want = "ENCODE_DONE" /\ rx'.done = rx.done
    BY <2>1, OpFacts DEF CallInv, RxTypes
  <2>4. Due' = 0 BY <2>2 DEF Due
  <2>5. Coming' = Coming BY <1>1, <2>1, <2>3 DEF Coming, Busy
  <2>6. call'.ret = call.ret /\ call.ret # "timeout"
    BY <2>1 DEF CallInv, CallTypes, DueInv, Armed
  <2> QED BY <1>1, <2>1, <2>2, <2>3, <2>4, <2>5, <2>6, ComingTypes DEF DueInv, Armed, Hung
<1>3. CASE BatchSend
  <2>1. call.pc = "send" /\ call.k < call.count /\ sess' = sess /\ rx' = rx
        /\ rx.want = "ENCODE_DONE" /\ Due = call.k /\ Due <= Coming /\ call.ret # "timeout"
    BY <1>3 DEF BatchSend, DueInv, Armed, Due
  <2>2. CASE fw' = [fw EXCEPT !.queue = Append(@, call.frames[call.k + 1])]
             /\ call' = [call EXCEPT !.k = @ + 1]
    <3>1. call'.pc = "send" /\ call'.k = call.k + 1 /\ call'.ret = call.ret
      BY <2>1, <2>2 DEF CallInv, CallTypes
    <3>2. Due' = call.k + 1 BY <3>1 DEF Due
    <3>3. fw'.queue = Append(fw.queue, call.frames[call.k + 1]) /\ fw'.busy = fw.busy
      BY <2>2 DEF CallInv, FwTypes
    <3>4. Len(fw'.queue) = Len(fw.queue) + 1 BY <3>3 DEF CallInv, FwTypes
    <3>5. Coming' = Coming + 1
      <4>1. Busy' = Busy BY <3>3 DEF Busy
      <4>2. Cardinality(Codeds(toHost')) = Cardinality(Codeds(toHost)) BY <1>1
      <4>3. rx'.done = rx.done BY <2>1
      <4> DEFINE l == Len(fw.queue)  u == Busy  c == Cardinality(Codeds(toHost))
      <4>4. Coming = l + u + c + rx.done /\ Coming' = (l + 1) + u + c + rx.done
        BY <3>4, <4>1, <4>2, <4>3, ComingParts
      <4>5. l \in Nat /\ u \in Int /\ c \in Nat /\ rx.done \in Nat BY ComingTypes
      <4> HIDE DEF l, u, c
      <4> QED BY <4>4, <4>5
    <3>6. call.k \in Nat BY DEF CallInv, CallTypes
    <3> QED BY <1>1, <2>1, <3>1, <3>2, <3>5, <3>6, ComingTypes DEF DueInv, Armed, Hung
  <2>3. CASE call' = [call EXCEPT !.count = call.k, !.ret = "err"] /\ fw' = fw
    <3>1. call'.pc = "send" /\ call'.k = call.k /\ call'.ret = "err"
      BY <2>1, <2>3 DEF CallInv, CallTypes
    <3>2. Due' = call.k BY <3>1 DEF Due
    <3>3. Coming' = Coming BY <1>1, <2>1, <2>3 DEF Coming, Busy
    <3> QED BY <1>1, <2>1, <3>1, <3>2, <3>3 DEF DueInv, Armed, Hung
  <2> QED BY <1>3, <2>2, <2>3 DEF BatchSend
<1>4. CASE BatchSent
  <2>1. call.pc = "send" /\ call.k = call.count /\ sess' = sess /\ rx' = rx /\ fw' = fw
        /\ call' = [call EXCEPT !.pc = "collect", !.k = 0]
        /\ rx.want = "ENCODE_DONE" /\ Due = call.k /\ Due <= Coming /\ call.ret # "timeout"
    BY <1>4 DEF BatchSent, DueInv, Armed, Due
  <2>2. call'.pc = "collect" /\ call'.k = 0 /\ call'.count = call.count
        /\ call'.ret = call.ret
    BY <2>1 DEF CallInv, CallTypes
  <2>3. Due' = call.count
    <3>1. Due' = call.count - 0 BY <2>2 DEF Due
    <3> QED BY <3>1 DEF CallInv, CallTypes
  <2>4. Coming' = Coming BY <1>1, <2>1 DEF Coming, Busy
  <2> QED BY <1>1, <2>1, <2>2, <2>3, <2>4 DEF DueInv, Armed, Hung
<1>5. CASE BatchCollect
  <2>1. call.pc = "collect" /\ call.k < call.count /\ rx.done > 0 /\ fw' = fw
        /\ rx.want = "ENCODE_DONE" /\ Due = call.count - call.k /\ Due <= Coming
    BY <1>5 DEF BatchCollect, DueInv, Armed, Due
  <2>2. [rx EXCEPT !.done = @ - 1] \in Rx BY <2>1 DEF CallInv, RxTypes, Rx
  <2>3. CASE \E done, out : /\ call' = [call EXCEPT !.k = call.k + 1, !.done = done,
                                                  !.ret = "ok", !.out = out]
                            /\ rx' = [rx EXCEPT !.done = @ - 1] /\ sess' = sess
    <3>1. call'.pc = "collect" /\ call'.k = call.k + 1 /\ call'.count = call.count
          /\ call'.ret = "ok"
      BY <2>1, <2>3 DEF CallInv, CallTypes
    <3>2. rx'.done = rx.done - 1 /\ rx'.want = rx.want BY <2>3 DEF CallInv, RxTypes
    <3>3. Due' = call.count - (call.k + 1) BY <3>1 DEF Due
    <3>4. Coming' = Coming - 1
      <4>1. Busy' = Busy /\ Len(fw'.queue) = Len(fw.queue) BY <2>1 DEF Busy
      <4>2. Cardinality(Codeds(toHost')) = Cardinality(Codeds(toHost)) BY <1>1
      <4> DEFINE l == Len(fw.queue)  u == Busy  c == Cardinality(Codeds(toHost))
      <4>3. Coming = l + u + c + rx.done /\ Coming' = l + u + c + (rx.done - 1)
        BY <3>2, <4>1, <4>2, ComingParts
      <4>4. l \in Nat /\ u \in Int /\ c \in Nat /\ rx.done \in Nat BY ComingTypes
      <4> HIDE DEF l, u, c
      <4> QED BY <4>3, <4>4
    <3>5. call.count \in Nat /\ call.k \in Nat BY DEF CallInv, CallTypes
    <3>6. (Due <= Coming)' BY <2>1, <3>3, <3>4, <3>5, ComingTypes
    <3> QED BY <1>1, <2>1, <2>3, <3>1, <3>2, <3>6 DEF DueInv, Armed, Hung
  <2>4. CASE BatchEnds("err", [rx EXCEPT !.done = @ - 1])
    BY <1>1, <2>1, <2>2, <2>4, DueBatchEnds
  <2> QED BY <1>5, <2>3, <2>4 DEF BatchCollect
<1>6. CASE BatchTimeout
  <2>1. call.pc = "collect" /\ call.k < call.count /\ Silent /\ fw' = fw
        /\ BatchEnds("timeout", rx)
    BY <1>6 DEF BatchTimeout
  <2>2. Due > 0 BY <2>1 DEF Due, CallInv, CallTypes
  <2>3. fw.up => fw.queue # << >> /\ fw.cmd = "NONE" /\ fw.busy = {} /\ ~Codable
    BY <2>1, <2>2, SilentHolds
  <2>4. rx \in Rx BY DEF CallInv, RxTypes, Rx
  <2> QED BY <1>1, <2>1, <2>3, <2>4, DueBatchEnds
<1>7. CASE BatchDone
  <2>1. call.pc = "collect" /\ call.k = call.count /\ fw' = fw /\ BatchEnds(call.ret, rx)
    BY <1>7 DEF BatchDone
  <2>2. call.ret # "timeout" /\ call.ret \in {"ok", "err"}
    BY <2>1 DEF DueInv, Armed, CallInv, CallTypes
  <2>3. rx \in Rx BY DEF CallInv, RxTypes, Rx
  <2> QED BY <1>1, <2>1, <2>2, <2>3, DueBatchEnds
<1> QED BY <1>2, <1>3, <1>4, <1>5, <1>6, <1>7

\* The interrupt.
LEMMA DueIpcRx == ASSUME CallInv, DueInv, CallInv', IpcRx PROVE DueInv'
<1> DEFINE a == Head(toHost)
<1>1. toHost # << >> /\ rx' = RxAfter(rx, a) /\ toHost' = Tail(toHost)
      /\ sess' = sess /\ call' = call /\ fw' = fw
  BY DEF IpcRx
<1>2. toHost \in Seq(Answers) /\ a \in Answers /\ rx \in Rx
  BY <1>1 DEF CallInv, FwTypes, RxTypes, Rx
<1>3. Cardinality(Codeds(toHost)) = Cardinality(Codeds(toHost'))
                                    + (IF a.id = "ENCODE_DONE" THEN 1 ELSE 0)
  BY <1>1, <1>2, CodedsTaken
<1>4. rx'.want = rx.want /\ rx'.batch = rx.batch
      /\ rx'.done = IF a.id = rx.want THEN rx.done + 1 ELSE rx.done
  BY <1>1, <1>2, RxAfterFacts
<1>5. Due' = Due BY <1>1 DEF Due
<1>6. Coming' \in Nat
  <2>1. toHost' \in Seq(Answers) BY <1>1, <1>2
  <2>2. Cardinality(Codeds(toHost')) \in Nat BY <2>1, CodedsCount
  <2>3. Len(fw'.queue) \in Nat /\ Busy' \in 0 .. 1 /\ rx'.done \in Nat
    BY DEF CallInv, FwTypes, RxTypes, Busy
  <2> QED BY <2>2, <2>3 DEF Coming
<1>7. (Due <= Coming)'
  <2>1. CASE Due = 0 BY <1>5, <1>6, <2>1
  <2>2. CASE Due # 0
    <3>1. rx.want = "ENCODE_DONE"
      BY <2>2, OpFacts DEF Due, DueInv, Armed
    <3>2. toHost' \in Seq(Answers) BY <1>1, <1>2
    <3>3. Cardinality(Codeds(toHost')) \in Nat BY <3>2, CodedsCount
    <3>4. Coming' = Coming
      <4>1. Busy' = Busy /\ Len(fw'.queue) = Len(fw.queue) BY <1>1 DEF Busy
      <4>2. CASE a.id = "ENCODE_DONE"
        <5>1. Cardinality(Codeds(toHost)) = Cardinality(Codeds(toHost')) + 1 BY <1>3, <4>2
        <5>2. rx'.done = rx.done + 1 BY <1>4, <3>1, <4>2
        <5> DEFINE l == Len(fw.queue)  u == Busy  c == Cardinality(Codeds(toHost'))
        <5>3. Coming = l + u + (c + 1) + rx.done /\ Coming' = l + u + c + (rx.done + 1)
          BY <4>1, <5>1, <5>2, ComingParts
        <5>4. l \in Nat /\ u \in Int /\ c \in Nat /\ rx.done \in Nat
          BY <3>3, ComingTypes
        <5> HIDE DEF l, u, c
        <5> QED BY <5>3, <5>4
      <4>3. CASE a.id # "ENCODE_DONE"
        <5>1. Cardinality(Codeds(toHost)) = Cardinality(Codeds(toHost')) BY <1>3, <3>3, <4>3
        <5>2. rx'.done = rx.done BY <1>4, <3>1, <4>3
        <5> QED BY <4>1, <5>1, <5>2, ComingParts
      <4> QED BY <4>2, <4>3
    <3> QED BY <1>5, <3>4 DEF DueInv
  <2> QED BY <2>1, <2>2
<1> QED BY <1>1, <1>4, <1>7 DEF DueInv, Armed, Hung, Codable, CanCode

\* The firmware codes what it has.
LEMMA DueFwBegin == ASSUME CallInv, DueInv, FwBegin PROVE DueInv'
<1>1. PICK i \in DOMAIN fw.queue, c \in Coding :
           /\ fw.up /\ fw.busy = {} /\ Turn(i)
           /\ fw' = [fw EXCEPT !.busy = {c}, !.queue = RemoveAt(fw.queue, i)]
           /\ sess' = sess /\ call' = call /\ rx' = rx /\ toHost' = toHost
  BY FwBegins
<1>2. fw'.busy # {} /\ fw'.queue = RemoveAt(fw.queue, i) BY <1>1 DEF CallInv, FwTypes
<1>3. Len(RemoveAt(fw.queue, i)) = Len(fw.queue) - 1
  BY RemoveAtFacts DEF CallInv, FwTypes
<1>4. Busy = 0 /\ Busy' = 1 BY <1>1, <1>2 DEF Busy
<1>5. Coming' = Coming BY <1>1, <1>2, <1>3, <1>4, ComingTypes DEF Coming
<1>6. ~sess.hung
  <2>1. Codable
    <3>1. fw.queue[i] \in Range(fw.queue) /\ CanCode(fw.queue[i]) BY <1>1 DEF Turn, Range
    <3> QED BY <3>1 DEF Codable
  <2> QED BY <1>1, <2>1 DEF DueInv, Hung
<1> QED BY <1>1, <1>5, <1>6 DEF DueInv, Armed, Hung, Due

\* It answers what it coded.
LEMMA DueFwFrame == ASSUME CallInv, DueInv, FwFrame PROVE DueInv'
<1>1. PICK c \in fw.busy, a, e \in Answers, anchor \in Int :
           /\ fw.up /\ c \in Coding /\ fw.busy = {c}
           /\ a.id = "LRME_DONE" /\ e.id = "ENCODE_DONE" /\ e.fn = c.f.fn
           /\ anchor = fw.anchor \/ anchor = c.f.fn
           /\ toHost' = toHost \o << a, e >> /\ toHost' \in Seq(Answers)
           /\ fw' = [fw EXCEPT !.busy = {}, !.anchor = anchor]
           /\ sess' = sess /\ call' = call /\ rx' = rx
  BY FwFrames
<1>2. fw'.busy = {} /\ fw'.queue = fw.queue BY <1>1 DEF CallInv, FwTypes
<1>3. Busy = 1 /\ Busy' = 0 BY <1>2 DEF Busy
<1>4. Cardinality(Codeds(toHost')) = Cardinality(Codeds(toHost)) + 1
  <2>1. toHost \in Seq(Answers) /\ Append(toHost, a) \in Seq(Answers)
    BY DEF CallInv, FwTypes
  <2>2. toHost \o << a, e >> = Append(Append(toHost, a), e) BY <2>1
  <2>3. Cardinality(Codeds(Append(toHost, a))) = Cardinality(Codeds(toHost))
    BY <1>1, <2>1, CodedsCount
  <2>4. Cardinality(Codeds(Append(Append(toHost, a), e))) =
          Cardinality(Codeds(Append(toHost, a))) + 1
    BY <1>1, <2>1, CodedsCount
  <2> QED BY <1>1, <2>2, <2>3, <2>4
<1>5. Coming' = Coming
  <2>1. rx'.done = rx.done /\ Len(fw'.queue) = Len(fw.queue) BY <1>1, <1>2
  <2> QED BY <1>3, <1>4, <2>1, ComingParts, ComingTypes
<1>6. ~sess.hung BY <1>1 DEF DueInv, Hung
<1> QED BY <1>1, <1>5, <1>6 DEF DueInv, Armed, Hung, Due

\* A Stop forgets frames, when no one waits for them.
LEMMA DueFwCommand == ASSUME CallInv, StopInv, DueInv, FwCommand, CallInv' PROVE DueInv'
<1>1. PICK a \in Answers :
           /\ fw.up /\ fw.cmd \in Ops
           /\ toHost' = Append(toHost, a)
           /\ fw' = [fw EXCEPT !.cmd = "NONE",
                               !.queue = IF fw.cmd = "STOP" THEN << >> ELSE fw.queue,
                               !.anchor = IF fw.cmd = "OPEN" THEN NONE ELSE fw.anchor]
           /\ sess' = sess /\ call' = call /\ rx' = rx
  BY FwCommands
<1>2. ~sess.hung BY <1>1 DEF DueInv, Hung, Ops
<1>3. (Due <= Coming)'
  <2>1. Due' = Due BY <1>1 DEF Due
  <2>2. CASE fw.cmd = "STOP"
    <3>1. call.op = "STOP" BY <2>2 DEF StopInv, StopTold
    <3>2. Due = 0 BY <3>1 DEF Due, CallInv, CallPlace
    <3>3. Coming' \in Nat
      <4>1. Cardinality(Codeds(toHost')) \in Nat BY CodedsCount DEF CallInv, FwTypes
      <4>2. Len(fw'.queue) \in Nat /\ Busy' \in 0 .. 1 /\ rx'.done \in Nat
        BY DEF CallInv, FwTypes, RxTypes, Busy
      <4> QED BY <4>1, <4>2 DEF Coming
    <3> QED BY <2>1, <3>2, <3>3
  <2>3. CASE fw.cmd # "STOP"
    <3>1. fw'.queue = fw.queue /\ fw'.busy = fw.busy BY <1>1, <2>3 DEF CallInv, FwTypes
    <3>2. Cardinality(Codeds(toHost')) =
            Cardinality(Codeds(toHost)) + (IF a.id = "ENCODE_DONE" THEN 1 ELSE 0)
      BY <1>1, CodedsCount DEF CallInv, FwTypes
    <3>3. Coming <= Coming' /\ Coming' \in Int
      <4>1. Busy' = Busy /\ Len(fw'.queue) = Len(fw.queue) /\ rx'.done = rx.done
        BY <1>1, <3>1 DEF Busy
      <4>2. CASE a.id = "ENCODE_DONE"
        <5>1. Cardinality(Codeds(toHost')) = Cardinality(Codeds(toHost)) + 1 BY <3>2, <4>2
        <5>2. Coming' = Len(fw.queue) + Busy + (Cardinality(Codeds(toHost)) + 1) + rx.done
          BY <4>1, <5>1, ComingParts
        <5>3. \A l, y, c, d \in Int :
                /\ l + y + c + d <= l + y + (c + 1) + d /\ l + y + (c + 1) + d \in Int
          OBVIOUS
        <5>4. Coming = Len(fw.queue) + Busy + Cardinality(Codeds(toHost)) + rx.done
          BY ComingParts
        <5>5. /\ Len(fw.queue) \in Int /\ Busy \in Int
              /\ Cardinality(Codeds(toHost)) \in Int /\ rx.done \in Int
          BY ComingTypes
        <5> QED BY <5>2, <5>3, <5>4, <5>5
      <4>3. CASE a.id # "ENCODE_DONE"
        <5>1. Cardinality(Codeds(toHost')) = Cardinality(Codeds(toHost))
          BY <3>2, <4>3, ComingTypes
        <5> QED BY <4>1, <5>1, ComingParts, ComingTypes
      <4> QED BY <4>2, <4>3
    <3>4. Due \in Int BY DEF Due, CallInv, CallTypes
    <3> QED BY <2>1, <3>3, <3>4, ComingTypes DEF DueInv
  <2> QED BY <2>2, <2>3
<1> QED BY <1>1, <1>2, <1>3 DEF DueInv, Armed, Hung

\* Every step keeps the third layer.
LEMMA DueNext == ASSUME CallInv, StopInv, DueInv, [Next]_vars PROVE DueInv'
<1>1. CallInv' BY CallNext
<1>2. CASE (\E b \in BFrames : EncStart(b)) \/ EndSession \/ EncEncode \/ EncBatch
  BY <1>1, <1>2, DueCalls
<1>3. CASE CmdSend BY <1>3, DueCmdSend
<1>4. CASE CmdAnswered \/ CmdTimeout BY <1>4, DueCmdOver
<1>5. CASE BatchArm \/ BatchSend \/ BatchSent \/ BatchCollect \/ BatchTimeout \/ BatchDone
  BY <1>1, <1>5, DueBatch
<1>6. CASE IpcRx BY <1>1, <1>6, DueIpcRx
<1>7. CASE FwBegin BY <1>7, DueFwBegin
<1>8. CASE FwFrame BY <1>8, DueFwFrame
<1>9. CASE FwCommand BY <1>1, <1>9, DueFwCommand
<1>10. CASE FwHang
  <2>1. fw' = [fw EXCEPT !.up = FALSE] /\ sess' = sess /\ call' = call /\ rx' = rx
        /\ toHost' = toHost
    BY <1>10 DEF FwHang
  <2>2. fw'.queue = fw.queue /\ fw'.busy = fw.busy /\ ~fw'.up
    BY <2>1 DEF CallInv, FwTypes
  <2> QED BY <2>1, <2>2 DEF DueInv, Armed, Hung, Due, Coming, Busy
<1>11. CASE UNCHANGED vars
  BY <1>11 DEF vars, DueInv, Armed, Hung, Due, Coming, Busy, Codable, CanCode
<1> QED BY <1>2, <1>3, <1>4, <1>5, <1>6, <1>7, <1>8, <1>9, <1>10, <1>11 DEF Next

-----------------------------------------------------------------------------
\* The fourth layer, part by part.

\* The bounds.
LEMMA BoundFacts ==
  /\ MostCalls \in Nat /\ MaxCalls <= MostCalls /\ MaxBatches <= MostCalls
  /\ MaxFn = 3 * MostCalls /\ MaxFn \in Nat
  /\ CodedSlots = 4 /\ \A n \in Nat : Idx(n) \in 0 .. 3
  /\ NoAnswer \in AnswerSet
  /\ \A id \in ReplyIds \cup {"LRME_DONE"}, ok \in BOOLEAN, fn \in NONE .. MaxFn :
       Answer(id, ok, fn) \in AnswerSet
<1>1. MostCalls \in {MaxCalls, MaxBatches} /\ \A y \in {MaxCalls, MaxBatches} : MostCalls >= y
  <2>1. MaxCalls \in Nat /\ MaxBatches \in Nat BY SessionAssumption
  <2>2. \E x \in {MaxCalls, MaxBatches} : \A y \in {MaxCalls, MaxBatches} : x >= y BY <2>1
  <2> QED BY <2>2 DEF MostCalls, Max
<1>2. MostCalls \in Nat /\ MaxCalls <= MostCalls /\ MaxBatches <= MostCalls
  BY <1>1, SessionAssumption
<1>3. MaxFn = 3 * MostCalls /\ MaxFn \in Nat BY <1>2 DEF MaxFn, B_MAX
<1>4. CodedSlots = 4 /\ \A n \in Nat : Idx(n) \in 0 .. 3 BY DEF Idx, CodedSlots
<1>5. NoAnswer \in AnswerSet
  <2>1. NoAnswer = [id |-> "NONE", ok |-> FALSE, fn |-> -1, idx |-> 0]
    BY DEF NoAnswer, Answer, NONE
  <2>2. -1 \in NONE .. MaxFn /\ 0 \in 0 .. CodedSlots - 1 BY <1>3, <1>4 DEF NONE
  <2> QED BY <2>1, <2>2 DEF AnswerSet
<1>6. ASSUME NEW id \in ReplyIds \cup {"LRME_DONE"}, NEW ok \in BOOLEAN,
             NEW fn \in NONE .. MaxFn
      PROVE  Answer(id, ok, fn) \in AnswerSet
  <2> DEFINE idx == IF fn = NONE THEN 0 ELSE Idx(fn)
  <2>1. idx \in 0 .. CodedSlots - 1 BY <1>3, <1>4 DEF NONE
  <2>2. Answer(id, ok, fn) = [id |-> id, ok |-> ok, fn |-> fn, idx |-> idx] BY DEF Answer
  <2> HIDE DEF idx
  <2> QED BY <2>1, <2>2 DEF AnswerSet
<1> QED BY <1>2, <1>3, <1>4, <1>5, <1>6

\* What the frames of a batch are bounded by, and that they differ.
LEMMA BatchBound ==
  ASSUME sess.plan \in GopState, NEW n \in 0 .. sess.plan.nb, NEW act \in {"ANCHOR", "KEY"},
         act = "KEY" => n = 0
  PROVE  LET g == [sess.plan EXCEPT !.n_held = n]
             s == GopBatches(g, act)[1]
         IN  /\ \A i \in DOMAIN s :
                  s[i].src <= B_MAX /\ s[i].fn <= sess.plan.fn_anchor + B_MAX + 1
             /\ \A i, j \in DOMAIN s : s[i].fn = s[j].fn => i = j
             /\ [GopNext(g, act) EXCEPT !.dist = 0].fn_anchor <= sess.plan.fn_anchor + B_MAX + 1
<1> DEFINE g == [sess.plan EXCEPT !.n_held = n]
<1>1. g \in GopState /\ g.n_held = n /\ g.nb = sess.plan.nb
      /\ g.fn_anchor = sess.plan.fn_anchor
  BY DEF GopState, B_MAX
<1>2. n \in Nat /\ g.nb \in Nat /\ g.nb <= B_MAX /\ n <= g.nb /\ g.fn_anchor \in Nat
  BY <1>1 DEF GopState, B_MAX
<1> HIDE DEF g
<1>3. CASE act = "ANCHOR"
  <2>1. MinigopBs(g, TRUE) = n BY <1>1 DEF MinigopBs
  <2> DEFINE s == [i \in 1 .. n + 1 |->
                     IF i <= n THEN GopFrame(i - 1, "B", g.fn_anchor + i)
                               ELSE GopFrame(n, "P", g.fn_anchor + g.nb + 1)]
  <2>2. GopBatches(g, act)[1] = s BY <1>3, <2>1 DEF GopBatches, Minigop
  <2>3. ASSUME NEW i \in 1 .. n + 1
        PROVE  /\ s[i].fn = IF i <= n THEN g.fn_anchor + i ELSE g.fn_anchor + g.nb + 1
               /\ s[i].src = IF i <= n THEN i - 1 ELSE n
    BY DEF GopFrame
  <2>4. DOMAIN s = 1 .. n + 1 OBVIOUS
  <2> HIDE DEF s
  <2>5. ASSUME NEW i \in DOMAIN s
        PROVE  s[i].src <= B_MAX /\ s[i].fn <= g.fn_anchor + B_MAX + 1
    <3>1. i \in 1 .. n + 1 BY <2>4
    <3>2. CASE i <= n
      <4>1. s[i].fn = g.fn_anchor + i /\ s[i].src = i - 1 BY <2>3, <3>1, <3>2
      <4> QED BY <1>2, <3>1, <3>2, <4>1 DEF B_MAX
    <3>3. CASE ~(i <= n)
      <4>1. s[i].fn = g.fn_anchor + g.nb + 1 /\ s[i].src = n BY <2>3, <3>1, <3>3
      <4> QED BY <1>2, <4>1 DEF B_MAX
    <3> QED BY <3>2, <3>3
  <2>6. ASSUME NEW i \in DOMAIN s, NEW j \in DOMAIN s, s[i].fn = s[j].fn PROVE i = j
    <3>1. i \in 1 .. n + 1 /\ j \in 1 .. n + 1 BY <2>4
    <3>2. s[i].fn = IF i <= n THEN g.fn_anchor + i ELSE g.fn_anchor + g.nb + 1 BY <2>3, <3>1
    <3>3. s[j].fn = IF j <= n THEN g.fn_anchor + j ELSE g.fn_anchor + g.nb + 1 BY <2>3, <3>1
    <3>4. (IF i <= n THEN g.fn_anchor + i ELSE g.fn_anchor + g.nb + 1) =
          (IF j <= n THEN g.fn_anchor + j ELSE g.fn_anchor + g.nb + 1)
      BY <2>6, <3>2, <3>3
    <3> QED BY <1>2, <3>1, <3>4
  <2>7. [GopNext(g, act) EXCEPT !.dist = 0].fn_anchor = g.fn_anchor + g.nb + 1
    BY <1>1, <1>3 DEF GopNext, AfterMinigop, GopState
  <2>8. [GopNext(g, act) EXCEPT !.dist = 0].fn_anchor <= g.fn_anchor + B_MAX + 1
    BY <1>2, <2>7 DEF B_MAX
  <2> QED BY <1>1, <2>2, <2>5, <2>6, <2>8 DEF g
<1>4. CASE act = "KEY"
  <2>1. n = 0 /\ Closed(g) = g BY <1>1, <1>4 DEF Closed
  <2> DEFINE s == << GopFrame(0, "IDR", KeyFn(g)) >>
  <2>2. GopBatches(g, act)[1] = s
    BY <1>1, <1>4, <2>1 DEF GopBatches, KeyBatch
  <2>3. KeyFn(g) <= g.fn_anchor + B_MAX + 1 BY <1>2 DEF KeyFn, B_MAX
  <2>4. DOMAIN s = {1} /\ s[1].fn = KeyFn(g) /\ s[1].src = 0 BY DEF GopFrame
  <2>5. [GopNext(g, act) EXCEPT !.dist = 0].fn_anchor = KeyFn(g)
    BY <1>1, <1>4, <2>1 DEF GopNext, GopState
  <2> HIDE DEF s
  <2>6. 0 <= B_MAX BY DEF B_MAX
  <2> QED BY <1>1, <2>2, <2>3, <2>4, <2>5, <2>6 DEF g
<1> QED BY <1>3, <1>4

\* The call of a batch, in short.
LEMMA BatchBegins ==
  ASSUME CallInv, EncBatch
  PROVE  \E frames \in Seq(Frames), plan \in GopState :
           /\ EncEncodeBatch(frames, plan) /\ sess.nb > 0 /\ sess.calls < MaxBatches
           /\ \A i \in DOMAIN frames : frames[i].src <= B_MAX
                                       /\ frames[i].fn <= sess.plan.fn_anchor + B_MAX + 1
           /\ \A i, j \in DOMAIN frames : frames[i].fn = frames[j].fn => i = j
           /\ plan.fn_anchor <= sess.plan.fn_anchor + B_MAX + 1
<1>1. PICK n \in 0 .. sess.plan.nb, act \in {"ANCHOR", "KEY"} :
        LET g == [sess.plan EXCEPT !.n_held = n]
        IN  /\ act = "KEY" => n = 0
            /\ EncEncodeBatch(GopBatches(g, act)[1], [GopNext(g, act) EXCEPT !.dist = 0])
            /\ sess.nb > 0
            /\ GopBatches(g, act)[1] \in Seq(Frames)
            /\ [GopNext(g, act) EXCEPT !.dist = 0] \in GopState
  BY BatchIs
<1> DEFINE g == [sess.plan EXCEPT !.n_held = n]
           s == GopBatches(g, act)[1]
           p == [GopNext(g, act) EXCEPT !.dist = 0]
<1>2. /\ \A i \in DOMAIN s : s[i].src <= B_MAX /\ s[i].fn <= sess.plan.fn_anchor + B_MAX + 1
      /\ \A i, j \in DOMAIN s : s[i].fn = s[j].fn => i = j
      /\ p.fn_anchor <= sess.plan.fn_anchor + B_MAX + 1
  BY <1>1, BatchBound DEF CallInv, SessTypes
<1>3. EncEncodeBatch(s, p) /\ sess.nb > 0 /\ s \in Seq(Frames) /\ p \in GopState BY <1>1
<1> HIDE DEF s, p
<1>4. sess.calls < MaxBatches BY <1>3 DEF EncEncodeBatch
<1> QED BY <1>2, <1>3, <1>4

\* A command: it is sent, or it ends; its end does not touch the firmware.
LEMMA CommandSteps ==
  ASSUME CallInv, CmdSend \/ CmdAnswered \/ CmdTimeout
  PROVE  /\ call.pc \in {"arm", "wait"} /\ call.op \in Ops
         /\ toHost' = toHost /\ hdr' = hdr /\ mem' = mem /\ own' = own
         /\ \/ /\ call.pc = "arm" /\ call' = [call EXCEPT !.pc = "wait"] /\ sess' = sess
               /\ rx' = [rx EXCEPT !.want = ReplyId(call.op)] /\ faults' = faults
               /\ fw' = IF call.op = "PROCESS" THEN [fw EXCEPT !.queue = fw.queue \o call.frames]
                                               ELSE [fw EXCEPT !.cmd = call.op]
            \/ /\ fw' = fw
               /\ \E ret \in {"ok", "err", "timeout"}, r \in Rx : \E out :
                    AfterCommand(ret, out, r) /\ r.buf = rx.buf /\ r.q = rx.q
               /\ faults' = faults \/ (faults < MaxFaults /\ faults' = faults + 1)
<1>1. CASE CmdSend
  <2> DEFINE r == [rx EXCEPT !.want = ReplyId(call.op)]
  <2>1. call.pc = "arm" /\ call.op \in Ops /\ toHost' = toHost /\ hdr' = hdr /\ mem' = mem
        /\ own' = own
    BY <1>1 DEF CmdSend
  <2>2. r \in Rx /\ r.buf = rx.buf /\ r.q = rx.q BY <2>1, OpFacts DEF CallInv, RxTypes, Rx
  <2>3. CASE AfterCommand("err", << >>, r) /\ fw' = fw /\ "send" \in MayFail /\ Failed
    <3>1. faults < MaxFaults /\ faults' = faults + 1 BY <2>3 DEF MayFail, Failed
    <3>2. AfterCommand("err", << >>, r) /\ fw' = fw BY <2>3
    <3> HIDE DEF r
    <3> QED BY <2>1, <2>2, <3>1, <3>2
  <2>4. CASE /\ call' = [call EXCEPT !.pc = "wait"] /\ sess' = sess
             /\ rx' = [rx EXCEPT !.want = ReplyId(call.op)] /\ faults' = faults
             /\ fw' = IF call.op = "PROCESS" THEN [fw EXCEPT !.queue = fw.queue \o call.frames]
                                             ELSE [fw EXCEPT !.cmd = call.op]
    BY <2>1, <2>4
  <2> QED BY <1>1, <2>3, <2>4 DEF CmdSend
<1>2. CASE CmdAnswered
  <2> DEFINE r == [rx EXCEPT !.done = rx.done - 1]
  <2>1. call.pc = "wait" /\ rx.done > 0 /\ toHost' = toHost /\ hdr' = hdr /\ mem' = mem
        /\ own' = own /\ fw' = fw /\ faults' = faults
        /\ \E ret \in {"ok", "err"} : \E out : AfterCommand(ret, out, r)
    BY <1>2 DEF CmdAnswered
  <2>2. call.op \in Ops BY <2>1 DEF CallInv, CallPlace
  <2>3. r \in Rx /\ r.buf = rx.buf /\ r.q = rx.q BY <2>1 DEF CallInv, RxTypes, Rx
  <2> HIDE DEF r
  <2> QED BY <2>1, <2>2, <2>3
<1>3. CASE CmdTimeout
  <2>1. call.pc = "wait" /\ toHost' = toHost /\ hdr' = hdr /\ mem' = mem
        /\ own' = own /\ fw' = fw /\ faults' = faults /\ AfterCommand("timeout", << >>, rx)
    BY <1>3 DEF CmdTimeout
  <2>2. call.op \in Ops BY <2>1 DEF CallInv, CallPlace
  <2>3. rx \in Rx BY DEF CallInv, RxTypes, Rx
  <2> QED BY <2>1, <2>2, <2>3
<1> QED BY <1>1, <1>2, <1>3

\* What a command's end leaves of the session and of the call.
LEMMA CommandLeaves ==
  ASSUME CallInv, call.pc \in {"arm", "wait"}, call.op \in Ops,
         NEW ret \in {"ok", "err", "timeout"}, NEW out, NEW r \in Rx, AfterCommand(ret, out, r)
  PROVE  /\ sess'.nb = sess.nb /\ sess'.started = sess.started /\ sess'.calls = sess.calls
         /\ sess'.plan = sess.plan
         /\ sess'.frame_n = IF call.op = "PROCESS" /\ ret = "ok" THEN sess.frame_n + 1
                                                                  ELSE sess.frame_n
         /\ call'.pc \in {"idle", "arm"}
         /\ call'.pc = "idle" => call'.op = call.op
         /\ call'.pc = "arm" => call'.op \in {"START", "STOP", "CLOSE"}
         /\ call'.frames = call.frames \/ call'.frames = << >>
         /\ call'.done = call.done \/ call'.done = {}
         /\ rx'.q = r.q /\ (rx'.buf = r.buf \/ rx'.buf = NoAnswer)
<1>1. /\ sess'.nb = sess.nb /\ sess'.started = sess.started /\ sess'.calls = sess.calls
      /\ sess'.plan = sess.plan
      /\ sess'.frame_n = IF call.op = "PROCESS" /\ ret = "ok" THEN sess.frame_n + 1
                                                               ELSE sess.frame_n
  BY DEF AfterCommand, SessAfter, Stopped, CallInv, SessTypes
<1>2. \/ call' = [call EXCEPT !.pc = "idle", !.ret = ret, !.out = out] /\ rx' = r
      \/ \E op \in {"START", "STOP", "CLOSE"} : Begin(r, op, << >>)
  BY CommandEnds
<1>3. << >> \in Seq(Frames) OBVIOUS
<1>4. CASE call' = [call EXCEPT !.pc = "idle", !.ret = ret, !.out = out] /\ rx' = r
  <2>1. call'.pc = "idle" /\ call'.op = call.op /\ call'.frames = call.frames
        /\ call'.done = call.done
    BY <1>4 DEF CallInv, CallTypes
  <2> QED BY <1>1, <1>4, <2>1
<1>5. ASSUME NEW op \in {"START", "STOP", "CLOSE"}, Begin(r, op, << >>)
      PROVE  /\ call'.pc = "arm" /\ call'.op = op /\ call'.frames = << >> /\ call'.done = {}
             /\ rx'.q = r.q /\ rx'.buf = NoAnswer
  <2>1. call'.pc = "arm" /\ call'.op = op /\ call'.frames = << >> /\ call'.done = {}
        /\ rx' = [r EXCEPT !.done = 0, !.buf = NoAnswer]
    BY <1>3, <1>5, BeginTypes DEF Ops
  <2> QED BY <2>1 DEF Rx
<1> QED BY <1>1, <1>2, <1>4, <1>5

\* A step of a batch touches the call, and of the session only whether it hangs.
LEMMA BatchSteps ==
  ASSUME CallInv,
         BatchArm \/ BatchSend \/ BatchSent \/ BatchCollect \/ BatchTimeout \/ BatchDone
  PROVE  /\ call.op = "BATCH" /\ call.pc # "idle" /\ call'.op = "BATCH"
         /\ call'.frames = call.frames
         /\ sess' = sess \/ \E h \in BOOLEAN : sess' = [sess EXCEPT !.hung = h]
         /\ hdr' = hdr /\ mem' = mem /\ toHost' = toHost
         /\ rx'.buf = rx.buf /\ rx'.q = rx.q
         /\ \/ fw' = fw
            \/ /\ call.k < call.count
               /\ fw' = [fw EXCEPT !.queue = Append(fw.queue, call.frames[call.k + 1])]
         /\ faults' = faults \/ (faults < MaxFaults /\ faults' = faults + 1)
<1>1. call.op = "BATCH" /\ call.pc # "idle" /\ hdr' = hdr /\ mem' = mem /\ toHost' = toHost
  BY DEF BatchArm, BatchSend, BatchSent, BatchCollect, BatchTimeout, BatchDone, CallInv,
         CallPlace
<1>2. CASE BatchArm
  <2>1. call' = [call EXCEPT !.pc = "send"] /\ sess' = sess /\ fw' = fw /\ faults' = faults
        /\ rx' = [rx EXCEPT !.want = ReplyId("PROCESS"), !.batch = TRUE]
    BY <1>2 DEF BatchArm
  <2> QED BY <1>1, <2>1 DEF CallInv, CallTypes, RxTypes
<1>3. CASE BatchSend
  <2>1. call.k < call.count /\ sess' = sess /\ rx' = rx
        /\ \/ /\ call' = [call EXCEPT !.k = @ + 1] /\ faults' = faults
              /\ fw' = [fw EXCEPT !.queue = Append(fw.queue, call.frames[call.k + 1])]
           \/ /\ call' = [call EXCEPT !.count = call.k, !.ret = "err"]
              /\ fw' = fw /\ "send" \in MayFail /\ Failed
    BY <1>3 DEF BatchSend
  <2>2. call'.op = call.op /\ call'.frames = call.frames BY <2>1 DEF CallInv, CallTypes
  <2>3. "send" \in MayFail /\ Failed => faults < MaxFaults /\ faults' = faults + 1
    BY DEF MayFail, Failed
  <2> QED BY <1>1, <2>1, <2>2, <2>3
<1>4. CASE BatchSent
  <2>1. call' = [call EXCEPT !.pc = "collect", !.k = 0] /\ sess' = sess /\ fw' = fw
        /\ rx' = rx /\ faults' = faults
    BY <1>4 DEF BatchSent
  <2> QED BY <1>1, <2>1 DEF CallInv, CallTypes
<1>5. ASSUME NEW ret, NEW r \in Rx, r.buf = rx.buf, r.q = rx.q, BatchEnds(ret, r), fw' = fw,
             faults' = faults
      PROVE  /\ call'.op = call.op /\ call'.frames = call.frames
             /\ \E h \in BOOLEAN : sess' = [sess EXCEPT !.hung = h]
             /\ rx'.buf = rx.buf /\ rx'.q = rx.q
  <2>1. call' = [call EXCEPT !.pc = "idle", !.ret = ret]
        /\ rx' = [r EXCEPT !.batch = FALSE]
        /\ sess' = [sess EXCEPT !.hung = ret = "timeout"]
    BY <1>5 DEF BatchEnds
  <2>2. (ret = "timeout") \in BOOLEAN OBVIOUS
  <2>3. call'.op = call.op /\ call'.frames = call.frames BY <2>1 DEF CallInv, CallTypes
  <2>4. rx'.buf = rx.buf /\ rx'.q = rx.q BY <1>5, <2>1 DEF Rx
  <2> QED BY <2>1, <2>2, <2>3, <2>4
<1>6. CASE BatchCollect
  <2> DEFINE r == [rx EXCEPT !.done = rx.done - 1]
  <2>1. rx.done > 0 /\ fw' = fw /\ faults' = faults
        /\ \/ /\ \E f \in Named(rx.q[call.k + 1]) :
                   call' = [call EXCEPT !.k = @ + 1, !.done = @ \union {f},
                                        !.ret = "ok", !.out = Append(@, Result(f))]
              /\ rx' = r /\ sess' = sess
           \/ BatchEnds("err", r)
    BY <1>6 DEF BatchCollect
  <2>2. r \in Rx /\ r.buf = rx.buf /\ r.q = rx.q
    <3>1. rx.done > 0 /\ rx.done \in Nat BY <2>1 DEF CallInv, RxTypes
    <3>2. rx.done - 1 \in Nat BY <3>1
    <3> QED BY <3>2 DEF CallInv, RxTypes, Rx
  <2> HIDE DEF r
  <2>3. CASE BatchEnds("err", r) BY <1>1, <1>5, <2>1, <2>2, <2>3
  <2>4. ASSUME NEW f \in Named(rx.q[call.k + 1]),
               call' = [call EXCEPT !.k = @ + 1, !.done = @ \union {f},
                                    !.ret = "ok", !.out = Append(@, Result(f))]
        PROVE  call'.op = call.op /\ call'.frames = call.frames
    BY <2>4 DEF CallInv, CallTypes
  <2> QED BY <1>1, <2>1, <2>2, <2>3, <2>4
<1>7. CASE BatchTimeout \/ BatchDone
  <2>1. fw' = fw /\ faults' = faults /\ \E ret : BatchEnds(ret, rx)
    BY <1>7 DEF BatchTimeout, BatchDone
  <2>2. rx \in Rx BY DEF CallInv, RxTypes, Rx
  <2> QED BY <1>1, <1>5, <2>1, <2>2
<1> QED BY <1>2, <1>3, <1>4, <1>6, <1>7

\* The calls touch neither the firmware nor its answers.
LEMMA CallSteps ==
  ASSUME CallInv, (\E b \in BFrames : EncStart(b)) \/ EndSession \/ EncEncode \/ EncBatch
  PROVE  /\ fw' = fw /\ toHost' = toHost /\ faults' = faults /\ own' = own
         /\ rx'.q = rx.q /\ (rx'.buf = rx.buf \/ rx'.buf = NoAnswer)
<1>1. fw' = fw /\ toHost' = toHost /\ faults' = faults /\ own' = own
  BY DEF EncStart, EndSession, EncEncode, EncBatch, EncEncodeBatch
<1>2. rx' = rx \/ rx' = [rx EXCEPT !.done = 0, !.buf = NoAnswer]
      \/ rx' = [[rx EXCEPT !.nq = 0] EXCEPT !.done = 0, !.buf = NoAnswer]
  BY DEF EncStart, EndSession, EncEncode, EncBatch, EncEncodeBatch, Begin
<1>3. rx'.q = rx.q /\ (rx'.buf = rx.buf \/ rx'.buf = NoAnswer)
  BY <1>2 DEF CallInv, RxTypes
<1> QED BY <1>1, <1>3

\* A step that counts nothing.
LEMMA SessKept ==
  ASSUME CallInv, BoundInv,
         sess'.nb = sess.nb, sess'.started = sess.started, sess'.calls = sess.calls,
         sess'.plan = sess.plan, sess'.frame_n = sess.frame_n,
         call'.pc # "idle" /\ call'.op = "PROCESS" => call.pc # "idle" /\ call.op = "PROCESS"
  PROVE  SessBound'
<1> QED BY DEF BoundInv, SessBound

\* The session's bounds.
LEMMA SessBoundNext == ASSUME CallInv, BoundInv, [Next]_vars PROVE SessBound'
<1>1. /\ sess.calls \in Int /\ sess.calls \in 0 .. MostCalls /\ sess.frame_n \in Nat
      /\ sess.plan.fn_anchor \in Nat /\ sess.frame_n <= sess.calls
      /\ sess.plan.fn_anchor <= 3 * sess.calls
  BY DEF CallInv, SessTypes, GopState, BoundInv, SessBound, B_MAX
<1>2. CASE \E b \in BFrames : EncStart(b)
  <2>1. PICK b \in BFrames : EncStart(b) BY <1>2
  <2> DEFINE p == ave_gop_init(IF b = 0 THEN 1 ELSE b, 0)
  <2>2. p.fn_anchor = 0 BY DEF ave_gop_init
  <2>3. sess.started < MaxSessions
        /\ sess' = [sess EXCEPT !.nb = b, !.frame_n = 0, !.started = sess.started + 1,
                                !.plan = p]
        /\ Begin(rx, "OPEN", << >>)
    BY <2>1 DEF EncStart
  <2> HIDE DEF p
  <2>4. sess'.nb = b /\ sess'.frame_n = 0 /\ sess'.started = sess.started + 1
        /\ sess'.plan = p /\ sess'.calls = sess.calls
    BY <2>3 DEF CallInv, SessTypes
  <2>5. call'.op = "OPEN" BY <2>3 DEF Begin, IdleCall
  <2>6. sess'.started \in 0 .. MaxSessions
    BY <2>3, <2>4, SessionAssumption DEF BoundInv, SessBound
  <2> QED BY <1>1, <2>2, <2>4, <2>5, <2>6 DEF SessBound, B_MAX
<1>3. CASE EndSession
  <2>1. sess' = [sess EXCEPT !.on = FALSE]
        /\ (call' = call \/ Begin(rx, "STOP", << >>)) /\ call.pc = "idle"
    BY <1>3 DEF EndSession
  <2>2. sess'.nb = sess.nb /\ sess'.started = sess.started /\ sess'.calls = sess.calls
        /\ sess'.plan = sess.plan /\ sess'.frame_n = sess.frame_n
    BY <2>1 DEF CallInv, SessTypes
  <2>3. call'.pc = "idle" \/ call'.op = "STOP" BY <2>1 DEF Begin, IdleCall
  <2> QED BY <2>2, <2>3, SessKept
<1>4. CASE EncEncode
  <2>1. sess' = [sess EXCEPT !.calls = sess.calls + 1] /\ sess.calls < MaxCalls
    BY <1>4 DEF EncEncode
  <2>2. sess'.nb = sess.nb /\ sess'.started = sess.started /\ sess'.calls = sess.calls + 1
        /\ sess'.plan = sess.plan /\ sess'.frame_n = sess.frame_n
    BY <2>1 DEF CallInv, SessTypes
  <2>3. sess'.calls \in 0 .. MostCalls
    BY <1>1, <2>1, <2>2, BoundFacts, SessionAssumption
  <2>4. sess'.frame_n < sess'.calls /\ sess'.plan.fn_anchor <= 3 * sess'.calls
    BY <1>1, <2>2
  <2> QED BY <1>1, <2>2, <2>3, <2>4 DEF SessBound, BoundInv, B_MAX
<1>5. CASE EncBatch
  <2>1. PICK frames \in Seq(Frames), plan \in GopState :
          EncEncodeBatch(frames, plan) /\ sess.calls < MaxBatches
          /\ plan.fn_anchor <= sess.plan.fn_anchor + B_MAX + 1
    BY <1>5, BatchBegins
  <2>2. sess' = [sess EXCEPT !.plan = plan, !.calls = sess.calls + 1] /\ call'.op = "BATCH"
    BY <2>1 DEF EncEncodeBatch, Begin, IdleCall
  <2>3. sess'.nb = sess.nb /\ sess'.started = sess.started /\ sess'.calls = sess.calls + 1
        /\ sess'.plan = plan /\ sess'.frame_n = sess.frame_n
    BY <2>2 DEF CallInv, SessTypes
  <2>4. sess'.calls \in 0 .. MostCalls
    BY <1>1, <2>1, <2>3, BoundFacts, SessionAssumption
  <2>5. sess'.frame_n <= sess'.calls /\ sess'.plan.fn_anchor <= 3 * sess'.calls
    <3>1. plan.fn_anchor \in Nat BY DEF GopState
    <3> QED BY <1>1, <2>1, <2>3, <3>1 DEF B_MAX
  <2> QED BY <2>2, <2>3, <2>4, <2>5 DEF SessBound, BoundInv, B_MAX
<1>6. CASE CmdSend \/ CmdAnswered \/ CmdTimeout
  <2>1. call.pc \in {"arm", "wait"} /\ call.op \in Ops BY <1>6, CommandSteps
  <2>2. CASE call' = [call EXCEPT !.pc = "wait"] /\ sess' = sess
    <3>1. call'.op = call.op BY <2>2 DEF CallInv, CallTypes
    <3> QED BY <2>1, <2>2, <3>1, SessKept
  <2>3. ASSUME NEW ret \in {"ok", "err", "timeout"}, NEW r \in Rx, NEW out,
               AfterCommand(ret, out, r)
        PROVE  SessBound'
    <3>1. /\ sess'.nb = sess.nb /\ sess'.started = sess.started /\ sess'.calls = sess.calls
          /\ sess'.plan = sess.plan
          /\ sess'.frame_n = IF call.op = "PROCESS" /\ ret = "ok" THEN sess.frame_n + 1
                                                                   ELSE sess.frame_n
          /\ call'.pc = "idle" \/ call'.op # "PROCESS"
      BY <2>1, <2>3, CommandLeaves
    <3>2. sess'.frame_n <= sess'.calls
      <4>1. call.op = "PROCESS" => sess.frame_n < sess.calls
        BY <2>1 DEF BoundInv, SessBound
      <4> QED BY <1>1, <3>1, <4>1
    <3> QED BY <3>1, <3>2 DEF SessBound, BoundInv
  <2> QED BY <1>6, <2>2, <2>3, CommandSteps
<1>7. CASE BatchArm \/ BatchSend \/ BatchSent \/ BatchCollect \/ BatchTimeout \/ BatchDone
  <2>1. call'.op = "BATCH"
        /\ (sess' = sess \/ \E h \in BOOLEAN : sess' = [sess EXCEPT !.hung = h])
    BY <1>7, BatchSteps
  <2>2. sess'.nb = sess.nb /\ sess'.started = sess.started /\ sess'.calls = sess.calls
        /\ sess'.plan = sess.plan /\ sess'.frame_n = sess.frame_n
    BY <2>1 DEF CallInv, SessTypes
  <2> QED BY <2>1, <2>2, SessKept
<1>8. CASE IpcRx \/ FwBegin \/ FwFrame \/ FwCommand \/ FwHang \/ UNCHANGED vars
  <2>1. sess' = sess /\ call' = call
    BY <1>8 DEF IpcRx, FwBegin, FwFrame, FwCommand, FwHang, vars
  <2> QED BY <2>1, SessKept
<1> QED BY <1>2, <1>3, <1>4, <1>5, <1>6, <1>7, <1>8 DEF Next

\* Frames of one call.
LEMMA FrameTypes ==
  ASSUME NEW s \in Seq(Frames),
         \A i \in DOMAIN s : s[i].src <= B_MAX /\ s[i].fn <= MaxFn
  PROVE  s \in Seq(Frame)
<1>1. ASSUME NEW i \in DOMAIN s PROVE s[i] \in Frame
  <2>1. s[i] \in Frames OBVIOUS
  <2>2. s[i].src \in Nat /\ s[i].src <= B_MAX /\ s[i].fn \in Nat /\ s[i].fn <= MaxFn
    BY <2>1 DEF Frames
  <2>3. s[i].src \in 0 .. B_MAX /\ s[i].fn \in 0 .. MaxFn BY <2>2, BoundFacts DEF B_MAX
  <2> QED BY <2>1, <2>3 DEF Frames, Frame
<1>2. DOMAIN s = 1 .. Len(s) /\ Len(s) \in Nat OBVIOUS
<1>3. s = [i \in 1 .. Len(s) |-> s[i]] OBVIOUS
<1>4. s \in [1 .. Len(s) -> Frame] BY <1>1, <1>2, <1>3
<1> QED BY <1>2, <1>4, SeqDef

\* The frames' bounds.
LEMMA FrameBoundNext == ASSUME CallInv, BoundInv, [Next]_vars PROVE FrameBound'
<1>1. /\ sess.calls \in Nat /\ sess.frame_n \in Nat /\ sess.plan.fn_anchor \in Nat
      /\ sess.frame_n <= sess.calls /\ sess.plan.fn_anchor <= 3 * sess.calls
  BY DEF CallInv, SessTypes, GopState, BoundInv, SessBound, B_MAX
<1>2. call.frames \in Seq(Frame) /\ fw.queue \in Seq(Frame)
      /\ \A c \in fw.busy : c.f \in Frame /\ c.pic.fn = c.f.fn
  BY DEF BoundInv, FrameBound
<1>3. << >> \in Seq(Frame) /\ << >> \in Seq(Frames) OBVIOUS
<1>4. ASSUME NEW r, NEW op, NEW frames \in Seq(Frame), Begin(r, op, frames), fw' = fw
      PROVE  FrameBound'
  <2>1. call'.frames = frames BY <1>4 DEF Begin, IdleCall
  <2> QED BY <1>2, <1>4, <2>1 DEF FrameBound
<1>5. ASSUME call'.frames = call.frames, fw' = fw PROVE FrameBound'
  BY <1>2, <1>5 DEF FrameBound
<1>6. CASE (\E b \in BFrames : EncStart(b)) \/ EndSession
  <2>1. fw' = fw
        /\ (call' = call \/ Begin(rx, "OPEN", << >>) \/ Begin(rx, "STOP", << >>))
    BY <1>6 DEF EncStart, EndSession
  <2> QED BY <1>3, <1>4, <1>5, <2>1
<1>7. CASE EncEncode
  <2> DEFINE f == GopFrame(0, IF sess.frame_n = 0 THEN "IDR" ELSE "P", sess.frame_n)
  <2>1. fw' = fw /\ sess.calls < MaxCalls /\ Begin(rx, "PROCESS", << f >>)
    BY <1>7 DEF EncEncode
  <2>2. sess.frame_n \in 0 .. MaxFn BY <1>1, <2>1, BoundFacts, SessionAssumption
  <2>3. f \in Frame BY <2>2 DEF Frame, GopFrame, FrameType, B_MAX
  <2>4. << f >> \in Seq(Frame) BY <2>3
  <2> HIDE DEF f
  <2> QED BY <1>4, <2>1, <2>4
<1>8. CASE EncBatch
  <2>1. PICK frames \in Seq(Frames), plan \in GopState :
          /\ EncEncodeBatch(frames, plan) /\ sess.calls < MaxBatches
          /\ \A i \in DOMAIN frames : frames[i].src <= B_MAX
                                      /\ frames[i].fn <= sess.plan.fn_anchor + B_MAX + 1
    BY <1>8, BatchBegins
  <2>2. ASSUME NEW i \in DOMAIN frames
        PROVE  frames[i].src <= B_MAX /\ frames[i].fn <= MaxFn
    <3>1. frames[i].src <= B_MAX /\ frames[i].fn <= sess.plan.fn_anchor + 3
          /\ frames[i].fn \in Nat
      <4>1. frames[i] \in Frames OBVIOUS
      <4>2. frames[i].src <= B_MAX /\ frames[i].fn <= sess.plan.fn_anchor + B_MAX + 1
        BY <2>1
      <4> QED BY <1>1, <4>1, <4>2 DEF B_MAX, Frames
    <3>2. sess.plan.fn_anchor + 3 <= MaxFn
      BY <1>1, <2>1, BoundFacts, SessionAssumption
    <3> QED BY <1>1, <3>1, <3>2, BoundFacts
  <2>3. frames \in Seq(Frame) BY <2>2, FrameTypes
  <2>4. fw' = fw /\ Begin([rx EXCEPT !.nq = 0], "BATCH", frames)
    BY <2>1 DEF EncEncodeBatch
  <2> QED BY <1>4, <2>3, <2>4
<1>9. CASE CmdSend \/ CmdAnswered \/ CmdTimeout
  <2>1. call.pc \in {"arm", "wait"} /\ call.op \in Ops BY <1>9, CommandSteps
  <2>2. CASE /\ call' = [call EXCEPT !.pc = "wait"]
             /\ fw' = IF call.op = "PROCESS" THEN [fw EXCEPT !.queue = fw.queue \o call.frames]
                                             ELSE [fw EXCEPT !.cmd = call.op]
    <3>1. call'.frames = call.frames BY <2>2 DEF CallInv, CallTypes
    <3>2. fw'.busy = fw.busy
          /\ (fw'.queue = fw.queue \/ fw'.queue = fw.queue \o call.frames)
      BY <2>2 DEF CallInv, FwTypes
    <3>3. fw.queue \o call.frames \in Seq(Frame) BY <1>2
    <3> QED BY <1>2, <3>1, <3>2, <3>3 DEF FrameBound
  <2>3. ASSUME NEW ret \in {"ok", "err", "timeout"}, NEW r \in Rx, NEW out,
               AfterCommand(ret, out, r), fw' = fw
        PROVE  FrameBound'
    <3>1. call'.frames = call.frames \/ call'.frames = << >>
      BY <2>1, <2>3, CommandLeaves
    <3> QED BY <1>2, <1>3, <2>3, <3>1 DEF FrameBound
  <2> QED BY <1>9, <2>2, <2>3, CommandSteps
<1>10. CASE BatchArm \/ BatchSend \/ BatchSent \/ BatchCollect \/ BatchTimeout \/ BatchDone
  <2>1. call'.frames = call.frames
        /\ (\/ fw' = fw
            \/ /\ call.k < call.count
               /\ fw' = [fw EXCEPT !.queue = Append(fw.queue, call.frames[call.k + 1])])
    BY <1>10, BatchSteps
  <2>2. CASE /\ call.k < call.count
             /\ fw' = [fw EXCEPT !.queue = Append(fw.queue, call.frames[call.k + 1])]
    <3>1. call.k + 1 \in 1 .. Len(call.frames) BY <2>2 DEF CallInv, CallTypes
    <3>2. call.frames[call.k + 1] \in Frame BY <1>2, <3>1
    <3>3. Append(fw.queue, call.frames[call.k + 1]) \in Seq(Frame) BY <1>2, <3>2
    <3>4. fw'.busy = fw.busy /\ fw'.queue = Append(fw.queue, call.frames[call.k + 1])
      BY <2>2 DEF CallInv, FwTypes
    <3> QED BY <1>2, <2>1, <3>3, <3>4 DEF FrameBound
  <2> QED BY <1>5, <2>1, <2>2
<1>11. CASE FwBegin
  <2>1. PICK i \in DOMAIN fw.queue, c \in Coding :
             /\ c.f = fw.queue[i] /\ c.pic.fn = c.f.fn /\ call' = call
             /\ fw' = [fw EXCEPT !.busy = {c}, !.queue = RemoveAt(fw.queue, i)]
    BY <1>11, FwBegins
  <2>2. fw'.busy = {c} /\ fw'.queue = RemoveAt(fw.queue, i)
    BY <2>1 DEF CallInv, FwTypes
  <2>3. RemoveAt(fw.queue, i) \in Seq(Frame) /\ fw.queue[i] \in Frame
    BY <1>2, RemoveAtFacts
  <2> QED BY <1>2, <2>1, <2>2, <2>3 DEF FrameBound
<1>12. CASE FwFrame
  <2>1. \E anchor \in Int : fw' = [fw EXCEPT !.busy = {}, !.anchor = anchor]
        /\ call' = call
    BY <1>12, FwFrames
  <2>2. fw'.busy = {} /\ fw'.queue = fw.queue BY <2>1 DEF CallInv, FwTypes
  <2> QED BY <1>2, <2>1, <2>2 DEF FrameBound
<1>13. CASE FwCommand
  <2>1. fw' = [fw EXCEPT !.cmd = "NONE",
                         !.queue = IF fw.cmd = "STOP" THEN << >> ELSE fw.queue,
                         !.anchor = IF fw.cmd = "OPEN" THEN NONE ELSE fw.anchor]
        /\ call' = call
    BY <1>13, FwCommands
  <2>2. fw'.busy = fw.busy /\ (fw'.queue = << >> \/ fw'.queue = fw.queue)
    BY <2>1 DEF CallInv, FwTypes
  <2> QED BY <1>2, <1>3, <2>1, <2>2 DEF FrameBound
<1>14. CASE FwHang
  <2>1. fw' = [fw EXCEPT !.up = FALSE] /\ call' = call BY <1>14 DEF FwHang
  <2>2. fw'.busy = fw.busy /\ fw'.queue = fw.queue BY <2>1 DEF CallInv, FwTypes
  <2> QED BY <1>2, <2>1, <2>2 DEF FrameBound
<1>15. CASE IpcRx \/ UNCHANGED vars BY <1>5, <1>15 DEF IpcRx, vars
<1> QED BY <1>6, <1>7, <1>8, <1>9, <1>10, <1>11, <1>12, <1>13, <1>14, <1>15 DEF Next

\* What the interrupt's record keeps of the answers.
LEMMA RxAfterBound ==
  ASSUME rx \in Rx, rx.buf \in AnswerSet, rx.q \in [1 .. RX_Q -> AnswerSet],
         NEW a \in AnswerSet
  PROVE  RxAfter(rx, a).buf \in AnswerSet /\ RxAfter(rx, a).q \in [1 .. RX_Q -> AnswerSet]
<1>1. CASE a.id # rx.want BY <1>1 DEF RxAfter, Wanted
<1>2. CASE a.id = rx.want /\ ~rx.batch
  <2>1. RxAfter(rx, a) = [rx EXCEPT !.buf = a, !.done = rx.done + 1]
    BY <1>2 DEF RxAfter, Wanted, Completed
  <2> QED BY <2>1 DEF Rx
<1>3. CASE a.id = rx.want /\ rx.batch
  <2> DEFINE q == IF rx.nq < RX_Q THEN [rx.q EXCEPT ![rx.nq + 1] = a] ELSE rx.q
  <2>1. q \in [1 .. RX_Q -> AnswerSet] BY DEF RX_Q
  <2>2. RxAfter(rx, a) = [rx EXCEPT !.q = q, !.nq = rx.nq + 1, !.done = rx.done + 1]
    BY <1>3 DEF RxAfter, Wanted, Completed, Rx
  <2> HIDE DEF q
  <2> QED BY <2>1, <2>2 DEF Rx
<1> QED BY <1>1, <1>2, <1>3

\* The answers' bounds.
LEMMA AnswerBoundNext == ASSUME CallInv, BoundInv, [Next]_vars PROVE AnswerBound'
<1>1. toHost \in Seq(AnswerSet) /\ rx.buf \in AnswerSet /\ rx.q \in [1 .. RX_Q -> AnswerSet]
  BY DEF BoundInv, AnswerBound
<1>2. ASSUME toHost' \in Seq(AnswerSet), rx'.q = rx.q, rx'.buf = rx.buf \/ rx'.buf = NoAnswer
      PROVE  AnswerBound'
  BY <1>1, <1>2, BoundFacts DEF AnswerBound
<1>3. CASE (\E b \in BFrames : EncStart(b)) \/ EndSession \/ EncEncode \/ EncBatch
  BY <1>1, <1>2, <1>3, CallSteps
<1>4. CASE CmdSend \/ CmdAnswered \/ CmdTimeout
  <2>1. call.pc \in {"arm", "wait"} /\ call.op \in Ops /\ toHost' = toHost
    BY <1>4, CommandSteps
  <2>2. CASE rx' = [rx EXCEPT !.want = ReplyId(call.op)]
    <3>1. rx'.q = rx.q /\ rx'.buf = rx.buf BY <2>2 DEF CallInv, RxTypes
    <3> QED BY <1>1, <1>2, <2>1, <3>1
  <2>3. ASSUME NEW ret \in {"ok", "err", "timeout"}, NEW r \in Rx, NEW out,
               AfterCommand(ret, out, r), r.buf = rx.buf, r.q = rx.q
        PROVE  AnswerBound'
    <3>1. rx'.q = r.q /\ (rx'.buf = r.buf \/ rx'.buf = NoAnswer)
      BY <2>1, <2>3, CommandLeaves
    <3> QED BY <1>1, <1>2, <2>1, <2>3, <3>1
  <2> QED BY <1>4, <2>2, <2>3, CommandSteps
<1>5. CASE BatchArm \/ BatchSend \/ BatchSent \/ BatchCollect \/ BatchTimeout \/ BatchDone
  <2>1. toHost' = toHost /\ rx'.buf = rx.buf /\ rx'.q = rx.q BY <1>5, BatchSteps
  <2> QED BY <1>1, <1>2, <2>1
<1>6. CASE IpcRx
  <2>1. toHost # << >> /\ rx' = RxAfter(rx, Head(toHost)) /\ toHost' = Tail(toHost)
    BY <1>6 DEF IpcRx
  <2>2. Head(toHost) \in AnswerSet /\ Tail(toHost) \in Seq(AnswerSet) BY <1>1, <2>1
  <2>3. rx \in Rx BY DEF CallInv, RxTypes, Rx
  <2> QED BY <1>1, <2>1, <2>2, <2>3, RxAfterBound DEF AnswerBound
<1>7. CASE FwFrame
  <2>1. PICK c \in fw.busy, outcome \in {"coded", "reject", "drop", "garble"} :
          FwEnd(c.f, c.pic, outcome)
    BY <1>7 DEF FwFrame
  <2> DEFINE a == Answer("LRME_DONE", TRUE, c.f.fn)
             e == Answer("ENCODE_DONE", outcome # "reject", c.f.fn)
  <2>2. c.f.fn \in NONE .. MaxFn
    <3>1. c.f.fn \in 0 .. MaxFn BY DEF BoundInv, FrameBound, Frame
    <3> QED BY <3>1 DEF NONE
  <2>3. (outcome # "reject") \in BOOLEAN OBVIOUS
  <2>4. a \in AnswerSet /\ e \in AnswerSet BY <2>2, <2>3, BoundFacts, OpFacts
  <2>5. toHost' = toHost \o << a, e >> /\ rx' = rx BY <1>7, <2>1 DEF FwEnd, FwFrame
  <2> HIDE DEF a, e
  <2>6. toHost' \in Seq(AnswerSet) BY <1>1, <2>4, <2>5
  <2> QED BY <1>2, <2>5, <2>6
<1>8. CASE FwCommand
  <2>1. PICK ok \in BOOLEAN : toHost' = Append(toHost, Answer(ReplyId(fw.cmd), ok, NONE))
    BY <1>8 DEF FwCommand
  <2>2. ReplyId(fw.cmd) \in ReplyIds
    <3>1. fw.cmd \in Ops BY <1>8 DEF FwCommand, CallInv, FwTypes
    <3> QED BY <3>1, OpFacts
  <2>3. Answer(ReplyId(fw.cmd), ok, NONE) \in AnswerSet
    <3>1. NONE \in NONE .. MaxFn BY BoundFacts DEF NONE
    <3> QED BY <2>2, <3>1, BoundFacts
  <2>4. toHost' \in Seq(AnswerSet) BY <1>1, <2>1, <2>3
  <2>5. rx' = rx BY <1>8 DEF FwCommand
  <2> QED BY <1>2, <2>4, <2>5
<1>9. CASE FwBegin \/ FwHang \/ UNCHANGED vars
  <2>1. toHost' = toHost /\ rx' = rx BY <1>9 DEF FwBegin, FwHang, vars
  <2> QED BY <1>1, <1>2, <2>1
<1> QED BY <1>3, <1>4, <1>5, <1>6, <1>7, <1>8, <1>9 DEF Next

\* A header that is coded is whole.
LEMMA CodedHeader ==
  ASSUME NEW o, NEW pic PROVE Headed(HeaderOf(o, pic)) /\ HeaderOf(o, pic).fn = pic.fn
<1> DEFINE recs == [i \in Records |-> IF i <= pic.slices THEN [n |-> Written, trim |-> Trim]
                                                       ELSE o.recs[i]]
           shdr == [i \in Records |-> IF i <= pic.slices THEN pic ELSE o.shdr[i]]
<1>1. HeaderOf(o, pic) = [fn |-> pic.fn, recs |-> recs, czw |-> 1, shdr |-> shdr]
  BY DEF HeaderOf
<1> HIDE DEF recs, shdr
<1> QED BY <1>1 DEF Headed

\* What the firmware writes of a frame that is over.
LEMMA FwWrites ==
  ASSUME CallInv, BoundInv, FwFrame
  PROVE  \E c \in fw.busy : \E h :
           /\ hdr' = [hdr EXCEPT ![Idx(c.f.fn)] = h] /\ mem' = mem
           /\ Headed(h)
           /\ h = hdr[Idx(c.f.fn)] \/ h.fn = DROPPED \/ h.fn = c.f.fn
           /\ c.f \in Frame /\ Idx(c.f.fn) \in 0 .. CodedSlots - 1
<1>1. PICK c \in fw.busy, outcome \in {"coded", "reject", "drop", "garble"} :
        FwEnd(c.f, c.pic, outcome)
  BY DEF FwFrame
<1>2. c.f \in Frame /\ c.pic.fn = c.f.fn BY DEF BoundInv, FrameBound
<1>3. Idx(c.f.fn) \in 0 .. CodedSlots - 1
  <2>1. c.f.fn \in Nat BY <1>2 DEF Frame
  <2> QED BY <2>1, BoundFacts
<1> DEFINE o == hdr[Idx(c.f.fn)]
           h == CASE outcome = "coded"  -> HeaderOf(o, c.pic)
                  [] outcome = "drop"   -> [o EXCEPT !.fn = DROPPED]
                  [] outcome = "garble" -> GarbledOf(o, c.pic)
                  [] outcome = "reject" -> o
<1>4. Headed(o) BY <1>3 DEF BoundInv, SlotBound
<1>5. hdr' = [hdr EXCEPT ![Idx(c.f.fn)] = h] BY <1>1 DEF FwEnd
<1>6. Headed(h) /\ (h = o \/ h.fn = DROPPED \/ h.fn = c.f.fn)
  <2>1. CASE outcome = "coded"
    <3>1. h = HeaderOf(o, c.pic) BY <2>1
    <3> HIDE DEF h
    <3>2. Headed(h) /\ h.fn = c.pic.fn BY <3>1, CodedHeader
    <3> QED BY <1>2, <3>2
  <2>2. CASE outcome = "drop"
    <3>1. h = [o EXCEPT !.fn = DROPPED] BY <2>2
    <3>2. h = [fn |-> DROPPED, recs |-> o.recs, czw |-> o.czw, shdr |-> o.shdr]
      BY <1>4, <3>1 DEF Headed
    <3> QED BY <3>2 DEF Headed
  <2>3. CASE outcome = "garble"
    <3>1. h = GarbledOf(o, c.pic) BY <2>3
    <3>2. h = [fn |-> c.pic.fn, recs |-> h.recs, czw |-> h.czw, shdr |-> h.shdr]
      BY <3>1 DEF GarbledOf, HeaderOf
    <3> QED BY <1>2, <3>2 DEF Headed
  <2>4. CASE outcome = "reject"
    <3>1. h = o BY <2>4
    <3> QED BY <1>4, <3>1
  <2> QED BY <2>1, <2>2, <2>3, <2>4
<1>7. mem' = mem BY DEF FwFrame
<1> HIDE DEF h
<1> QED BY <1>2, <1>3, <1>5, <1>6, <1>7

\* The slots.
LEMMA SlotBoundNext == ASSUME CallInv, BoundInv, [Next]_vars PROVE SlotBound'
<1>1. /\ DOMAIN hdr = 0 .. CodedSlots - 1 /\ DOMAIN mem = 0 .. CodedSlots - 1
      /\ \A i \in 0 .. CodedSlots - 1 : Headed(hdr[i]) /\ hdr[i].fn \in DROPPED .. MaxFn
  BY DEF BoundInv, SlotBound
<1>2. Headed(ClearHeader) /\ ClearHeader.fn \in DROPPED .. MaxFn
  BY BoundFacts DEF Headed, ClearHeader, BLANK, DROPPED
<1>3. CASE hdr' = hdr /\ DOMAIN mem' = DOMAIN mem BY <1>1, <1>3 DEF SlotBound
<1>4. CASE \E b \in BFrames : EncStart(b)
  <2>1. hdr' = [i \in DOMAIN hdr |-> ClearHeader] /\ mem' = [i \in DOMAIN mem |-> ClearBuffer]
    BY <1>4 DEF EncStart
  <2> QED BY <1>1, <1>2, <2>1 DEF SlotBound
<1>5. CASE EncEncode \/ EncBatch
  <2>1. mem' = mem /\ \E frames : hdr' = Cleared(frames)
    BY <1>5 DEF EncEncode, EncBatch, EncEncodeBatch
  <2>2. DOMAIN hdr' = DOMAIN hdr
        /\ \A i \in DOMAIN hdr : hdr'[i] = ClearHeader \/ hdr'[i] = hdr[i]
    BY <2>1 DEF Cleared
  <2> QED BY <1>1, <1>2, <2>1, <2>2 DEF SlotBound
<1>6. CASE FwFrame
  <2>1. PICK c \in fw.busy : \E h :
           /\ hdr' = [hdr EXCEPT ![Idx(c.f.fn)] = h] /\ mem' = mem
           /\ Headed(h)
           /\ h = hdr[Idx(c.f.fn)] \/ h.fn = DROPPED \/ h.fn = c.f.fn
           /\ c.f \in Frame /\ Idx(c.f.fn) \in 0 .. CodedSlots - 1
    BY <1>6, FwWrites
  <2>2. PICK h :
           /\ hdr' = [hdr EXCEPT ![Idx(c.f.fn)] = h] /\ mem' = mem
           /\ Headed(h)
           /\ h = hdr[Idx(c.f.fn)] \/ h.fn = DROPPED \/ h.fn = c.f.fn
           /\ c.f \in Frame /\ Idx(c.f.fn) \in 0 .. CodedSlots - 1
    BY <2>1
  <2>3. c.f.fn \in DROPPED .. MaxFn /\ DROPPED \in DROPPED .. MaxFn
    <3>1. c.f.fn \in 0 .. MaxFn BY <2>2 DEF Frame
    <3> QED BY <3>1, BoundFacts DEF DROPPED
  <2>4. h.fn \in DROPPED .. MaxFn BY <1>1, <2>2, <2>3
  <2>5. DOMAIN hdr' = DOMAIN hdr
        /\ \A i \in DOMAIN hdr : hdr'[i] = h \/ hdr'[i] = hdr[i]
    BY <2>2
  <2> QED BY <1>1, <2>2, <2>4, <2>5 DEF SlotBound
<1>7. CASE FwBegin
  <2>1. hdr' = hdr /\ \E i, m : mem' = [mem EXCEPT ![i] = m]
    <3>1. hdr' = hdr BY <1>7 DEF FwBegin
    <3>2. \E f, pic : mem' = [mem EXCEPT ![Idx(f.fn)] = CodeInto(@, pic)]
      BY <1>7 DEF FwBegin
    <3> QED BY <3>1, <3>2
  <2> QED BY <1>3, <2>1
<1>8. CASE CmdSend \/ CmdAnswered \/ CmdTimeout BY <1>3, <1>8, CommandSteps
<1>9. CASE BatchArm \/ BatchSend \/ BatchSent \/ BatchCollect \/ BatchTimeout \/ BatchDone
  BY <1>3, <1>9, BatchSteps
<1>10. CASE EndSession \/ IpcRx \/ FwCommand \/ FwHang \/ UNCHANGED vars
  BY <1>3, <1>10 DEF EndSession, IpcRx, FwCommand, FwHang, vars
<1> QED BY <1>4, <1>5, <1>6, <1>7, <1>8, <1>9, <1>10 DEF Next

\* The histories.
LEMMA PastBoundNext == ASSUME CallInv, BoundInv, [Next]_vars PROVE PastBound'
<1>1. faults \in 0 .. MaxFaults /\ own \in BOOLEAN /\ MaxFaults \in Nat
  BY SessionAssumption DEF BoundInv, PastBound
<1>2. ASSUME faults' = faults \/ (faults < MaxFaults /\ faults' = faults + 1),
             own' \in BOOLEAN
      PROVE  PastBound'
  BY <1>1, <1>2 DEF PastBound
<1>3. ASSUME NEW x \in MayFail, Failed PROVE faults < MaxFaults /\ faults' = faults + 1
  BY <1>3 DEF MayFail, Failed
<1>4. CASE (\E b \in BFrames : EncStart(b)) \/ EndSession \/ EncEncode \/ EncBatch
  BY <1>1, <1>2, <1>4, CallSteps
<1>5. CASE CmdSend \/ CmdAnswered \/ CmdTimeout BY <1>1, <1>2, <1>5, CommandSteps
<1>6. CASE BatchArm \/ BatchSend \/ BatchSent \/ BatchCollect \/ BatchTimeout \/ BatchDone
  <2>1. own' = own \/ own' \in BOOLEAN
    <3>1. CASE BatchCollect BY <1>1, <3>1 DEF BatchCollect
    <3>2. CASE ~BatchCollect
      BY <1>6, <3>2 DEF BatchArm, BatchSend, BatchSent, BatchTimeout, BatchDone
    <3> QED BY <3>1, <3>2
  <2> QED BY <1>1, <1>2, <1>6, <2>1, BatchSteps
<1>7. CASE FwBegin
  <2>1. faults' = faults BY <1>7 DEF FwBegin
  <2>2. \E x \in BOOLEAN : own' = (own /\ x) BY <1>7 DEF FwBegin
  <2>3. own' \in BOOLEAN BY <1>1, <2>2
  <2> QED BY <1>2, <2>1, <2>3
<1>8. CASE FwFrame
  <2>1. PICK c \in fw.busy,
             outcome \in {"coded"} \union (MayFail \intersect {"reject", "drop", "garble"}) :
          FwEnd(c.f, c.pic, outcome)
    BY <1>8 DEF FwFrame
  <2>2. CASE outcome = "coded"
    <3>1. faults' = faults BY <2>1, <2>2 DEF FwEnd
    <3> QED BY <1>1, <1>2, <1>8, <3>1 DEF FwFrame
  <2>3. CASE outcome # "coded"
    <3>1. outcome \in MayFail BY <2>3
    <3>2. Failed BY <2>1, <2>3 DEF FwEnd
    <3> QED BY <1>1, <1>2, <1>3, <1>8, <3>1, <3>2 DEF FwFrame
  <2> QED BY <2>2, <2>3
<1>9. CASE FwCommand
  <2>1. PICK ok \in {TRUE, "reject" \notin MayFail} : IF ok THEN UNCHANGED faults ELSE Failed
    BY <1>9 DEF FwCommand
  <2>2. own' = own BY <1>9 DEF FwCommand
  <2>3. CASE ok BY <1>1, <1>2, <2>1, <2>2, <2>3
  <2>4. CASE ~ok
    <3>1. "reject" \in MayFail BY <2>4
    <3> QED BY <1>1, <1>2, <1>3, <2>1, <2>2, <2>4, <3>1
  <2> QED BY <2>3, <2>4
<1>10. CASE FwHang BY <1>1, <1>2, <1>3, <1>10 DEF FwHang
<1>11. CASE IpcRx \/ UNCHANGED vars BY <1>1, <1>2, <1>11 DEF IpcRx, vars
<1> QED BY <1>4, <1>5, <1>6, <1>7, <1>8, <1>9, <1>10, <1>11 DEF Next

\* Every step keeps the fourth layer.
LEMMA BoundNext == ASSUME CallInv, BoundInv, [Next]_vars PROVE BoundInv'
<1> QED BY SessBoundNext, FrameBoundNext, AnswerBoundNext, SlotBoundNext, PastBoundNext
        DEF BoundInv

\* It holds at first.
LEMMA BoundInit == ASSUME Init PROVE BoundInv
<1>1. SessBound
  <2>1. ave_gop_init(1, 0).fn_anchor = 0 BY DEF ave_gop_init
  <2> QED BY <2>1, BoundFacts, SessionAssumption DEF Init, SessBound, IdleCall, B_MAX
<1>2. FrameBound
  <2>1. << >> \in Seq(Frame) OBVIOUS
  <2> QED BY <2>1 DEF Init, FrameBound, IdleCall
<1>3. AnswerBound
  <2>1. << >> \in Seq(AnswerSet) OBVIOUS
  <2> QED BY <2>1, BoundFacts DEF Init, AnswerBound
<1>4. SlotBound BY BoundFacts DEF Init, SlotBound, Headed, ClearHeader, BLANK, DROPPED
<1>5. PastBound BY SessionAssumption DEF Init, PastBound
<1> QED BY <1>1, <1>2, <1>3, <1>4, <1>5 DEF BoundInv

-----------------------------------------------------------------------------
\* The fifth layer, action by action.

\* What is held, in its parts.
LEMMA HeldParts ==
  /\ Held = Len(fw.queue) + Busy + Cmd + Cardinality(Tellings(toHost))
  /\ Held' = Len(fw'.queue) + Busy' + Cmd' + Cardinality(Tellings(toHost'))
  /\ Pending = Held + rx.done /\ Pending' = Held' + rx'.done
BY DEF Held, Pending

\* They are numbers.
LEMMA HeldTypes ==
  ASSUME CallInv
  PROVE  /\ Len(fw.queue) \in Nat /\ Busy \in 0 .. 1 /\ Cmd \in 0 .. 1
         /\ Cardinality(Tellings(toHost)) \in Nat
         /\ rx.done \in Nat /\ Held \in Nat /\ Pending \in Nat
<1>1. Cardinality(Tellings(toHost)) \in Nat BY ThoseCount DEF Tellings, CallInv, FwTypes
<1>2. Len(fw.queue) \in Nat /\ Busy \in 0 .. 1 /\ Cmd \in 0 .. 1 /\ rx.done \in Nat
  BY DEF CallInv, FwTypes, RxTypes, Busy, Cmd
<1>3. Held \in Nat BY <1>1, <1>2, HeldParts
<1>4. Pending \in Nat BY <1>2, <1>3, HeldParts
<1> QED BY <1>1, <1>2, <1>3, <1>4

\* Nothing held, and the firmware as it is: nothing is pending when a call begins.
LEMMA AloneBegins ==
  ASSUME CallInv', fw' = fw, toHost' = toHost, Held = 0, rx'.done = 0
  PROVE  Alone'
<1>1. Held' = Held BY DEF Held, Busy, Cmd
<1>2. Pending' = 0 BY <1>1, HeldParts
<1> QED BY <1>2 DEF Alone

\* A command that ends.
LEMMA AloneCommandEnds ==
  ASSUME CallInv, CallInv', Alone, call.pc \in {"arm", "wait"}, call.op \in Ops,
         NEW ret \in {"ok", "err", "timeout"}, NEW out, NEW r \in Rx,
         AfterCommand(ret, out, r), fw' = fw, toHost' = toHost,
         OneByOne /\ (ret # "timeout" \/ call.op = "OPEN") => Held = 0 /\ r.done = 0,
         call.op = "STOP" /\ ret = "ok" => Held = 0
  PROVE  Alone'
<1>1. \/ /\ call'.pc = "idle" /\ rx' = r
         /\ call.op = "STOP" => ret # "ok"
         /\ call.op = "OPEN" => ret # "ok"
      \/ /\ call.op = "OPEN" /\ ret = "ok" /\ Begin(r, "START", << >>)
      \/ /\ call.op = "START" /\ ret # "ok" /\ Begin(r, "STOP", << >>)
      \/ /\ call.op = "STOP" /\ ret = "ok" /\ Begin(r, "CLOSE", << >>)
  BY CommandEnds
<1>2. << >> \in Seq(Frames) OBVIOUS
<1>3. sess' = SessAfter(ret) /\ sess'.nb = sess.nb
  BY CommandLeaves DEF AfterCommand
<1>4. CASE call'.pc = "idle" /\ rx' = r
  <2>1. SUFFICES ASSUME OneByOne' PROVE Held = 0 /\ rx'.done = 0
    BY AloneBegins DEF Alone
  <2>2. CASE call.op = "OPEN"
    <3>1. OneByOne BY <2>2 DEF OneByOne
    <3> QED BY <1>4, <2>2, <3>1
  <2>3. CASE call.op = "START"
    <3>1. sess'.open /\ sess'.on = (ret = "ok")
      BY <1>3, <2>3 DEF SessAfter, CallInv, SessTypes, CallPlace
    <3>2. ret = "ok" BY <1>4, <2>1, <3>1 DEF OneByOne
    <3>3. OneByOne BY <2>3 DEF OneByOne
    <3> QED BY <1>4, <3>2, <3>3
  <2>4. CASE call.op = "PROCESS"
    <3>1. sess'.hung = (ret = "timeout") /\ sess'.open = sess.open /\ sess'.on = sess.on
      BY <1>3, <2>4 DEF SessAfter, CallInv, SessTypes
    <3>2. sess.open /\ sess.on /\ sess.nb = 0 /\ ~sess.hung BY <2>4 DEF CallInv, CallPlace
    <3>3. ret # "timeout" /\ OneByOne BY <1>4, <2>1, <3>1, <3>2 DEF OneByOne
    <3> QED BY <1>4, <3>3
  <2>5. CASE call.op = "STOP"
    <3>1. ret # "ok" BY <1>1, <1>4, <2>5 DEF Begin, IdleCall
    <3>2. sess'.open /\ sess'.on = sess.on
      BY <1>3, <2>5, <3>1 DEF SessAfter, Stopped, CallInv, SessTypes
    <3>3. ~sess'.on BY <2>5, <3>2 DEF CallInv, CallPlace
    <3> QED BY <1>4, <2>1, <3>2, <3>3 DEF OneByOne
  <2>6. CASE call.op = "CLOSE"
    <3>1. sess'.open = (ret # "ok") /\ sess'.on = sess.on
      BY <1>3, <2>6 DEF SessAfter, Stopped, CallInv, SessTypes
    <3>2. ~sess'.on BY <2>6, <3>1 DEF CallInv, CallPlace
    <3>3. ret = "ok" BY <1>4, <2>1, <3>1, <3>2 DEF OneByOne
    <3>4. OneByOne BY <2>6 DEF OneByOne
    <3> QED BY <1>4, <3>3, <3>4
  <2> QED BY <2>2, <2>3, <2>4, <2>5, <2>6 DEF Ops
<1>5. CASE call.op = "OPEN" /\ ret = "ok" /\ Begin(r, "START", << >>)
  <2>1. OneByOne BY <1>5 DEF OneByOne
  <2>2. rx'.done = 0 BY <1>5 DEF Begin, Rx
  <2> QED BY <1>5, <2>1, <2>2, AloneBegins
<1>6. CASE call.op = "START" /\ ret # "ok" /\ Begin(r, "STOP", << >>)
  <2>1. call'.op = "STOP" /\ call'.pc = "arm" BY <1>2, <1>6, BeginTypes DEF Ops
  <2>2. sess'.open /\ ~sess'.on BY <1>3, <1>6 DEF SessAfter, CallInv, SessTypes, CallPlace
  <2> QED BY <2>1, <2>2 DEF Alone, OneByOne
<1>7. CASE call.op = "STOP" /\ ret = "ok" /\ Begin(r, "CLOSE", << >>)
  <2>1. rx'.done = 0 BY <1>7 DEF Begin, Rx
  <2> QED BY <1>7, <2>1, AloneBegins
<1> QED BY <1>1, <1>4, <1>5, <1>6, <1>7

\* Sending a command.
LEMMA AloneCmdSend == ASSUME CallInv, CallInv', Alone, CmdSend PROVE Alone'
<1>1. call.pc = "arm" /\ call.op \in Ops /\ toHost' = toHost BY DEF CmdSend
<1>2. OneByOne => Held = 0 /\ rx.done = 0
  <2>1. OneByOne => Pending <= 0 BY <1>1 DEF Alone
  <2> QED BY <2>1, HeldParts, HeldTypes
<1>3. CASE /\ call' = [call EXCEPT !.pc = "wait"] /\ sess' = sess
           /\ rx' = [rx EXCEPT !.want = ReplyId(call.op)]
           /\ fw' = IF call.op = "PROCESS" THEN [fw EXCEPT !.queue = fw.queue \o call.frames]
                                           ELSE [fw EXCEPT !.cmd = call.op]
  <2>1. call'.pc = "wait" /\ call'.op = call.op /\ rx'.done = rx.done
    BY <1>3 DEF CallInv, CallTypes, RxTypes
  <2>2. OneByOne' => OneByOne BY <1>1, <1>3, <2>1 DEF OneByOne
  <2>3. SUFFICES ASSUME OneByOne' PROVE Pending' <= 1 BY <2>1 DEF Alone
  <2>4. Held = 0 /\ rx.done = 0 BY <1>2, <2>2, <2>3
  <2>5. Len(fw.queue) = 0 /\ Busy = 0 /\ Cmd = 0 /\ Cardinality(Tellings(toHost)) = 0
    <3>1. Held = Len(fw.queue) + Busy + Cmd + Cardinality(Tellings(toHost)) BY HeldParts
    <3>2. /\ Len(fw.queue) \in Nat /\ Busy \in 0 .. 1 /\ Cmd \in 0 .. 1
          /\ Cardinality(Tellings(toHost)) \in Nat
      BY HeldTypes
    <3> QED BY <2>4, <3>1, <3>2
  <2>6. Busy' = 0
    <3>1. fw'.busy = fw.busy BY <1>3 DEF CallInv, FwTypes
    <3> QED BY <2>5, <3>1 DEF Busy
  <2>7. Len(fw'.queue) + Cmd' <= 1 /\ Len(fw'.queue) + Cmd' \in Nat
    <3>1. CASE call.op = "PROCESS"
      <4>1. fw'.queue = fw.queue \o call.frames /\ fw'.cmd = fw.cmd /\ fw'.up = fw.up
        BY <1>3, <3>1 DEF CallInv, FwTypes
      <4>2. fw.queue \in Seq(Frames) /\ call.frames \in Seq(Frames) /\ Len(call.frames) = 1
        BY <1>1, <3>1 DEF CallInv, FwTypes, CallTypes, CallPlace
      <4>3. Len(fw.queue \o call.frames) = Len(fw.queue) + Len(call.frames)
        <5>1. fw.queue \in Seq(Frames) /\ call.frames \in Seq(Frames) BY <4>2
        <5> QED BY <5>1
      <4>4. Cmd' = 0 BY <2>5, <4>1 DEF Cmd
      <4>5. Len(fw'.queue) = 1 BY <2>5, <4>1, <4>2, <4>3
      <4> QED BY <4>4, <4>5
    <3>2. CASE call.op # "PROCESS"
      <4>1. fw'.queue = fw.queue BY <1>3, <3>2 DEF CallInv, FwTypes
      <4>2. Cmd' \in 0 .. 1 BY DEF Cmd
      <4>3. Len(fw'.queue) = 0 BY <2>5, <4>1
      <4>4. CASE Cmd' = 0 BY <4>3, <4>4
      <4>5. CASE Cmd' = 1 BY <4>3, <4>5
      <4> QED BY <4>2, <4>4, <4>5
    <3> QED BY <3>1, <3>2
  <2>8. Cardinality(Tellings(toHost')) = 0 /\ rx'.done = 0 BY <1>1, <2>1, <2>4, <2>5
  <2>9. Len(fw'.queue) \in Nat /\ Cmd' \in Nat
    BY DEF CallInv, FwTypes, Cmd
  <2>10. Held' <= 1 BY <2>6, <2>7, <2>8, <2>9, HeldParts
  <2>11. Held' \in Nat BY <2>6, <2>8, <2>9, HeldParts
  <2> QED BY <2>8, <2>10, <2>11, HeldParts
<1>4. CASE AfterCommand("err", << >>, [rx EXCEPT !.want = ReplyId(call.op)]) /\ fw' = fw
  <2> DEFINE r == [rx EXCEPT !.want = ReplyId(call.op)]
  <2>1. r \in Rx /\ r.done = rx.done BY <1>1, OpFacts DEF CallInv, RxTypes, Rx
  <2>2. AfterCommand("err", << >>, r) BY <1>4
  <2> HIDE DEF r
  <2> QED BY <1>1, <1>2, <1>4, <2>1, <2>2, AloneCommandEnds
<1> QED BY <1>3, <1>4 DEF CmdSend

\* The answer to a command, and its absence.
LEMMA AloneCmdOver ==
  ASSUME CallInv, StopInv, CallInv', Alone, CmdAnswered \/ CmdTimeout
  PROVE  Alone'
<1>1. call.pc = "wait" /\ fw' = fw /\ toHost' = toHost BY DEF CmdAnswered, CmdTimeout
<1>2. call.op \in Ops BY <1>1 DEF CallInv, CallPlace
<1>3. CASE CmdAnswered
  <2> DEFINE r == [rx EXCEPT !.done = rx.done - 1]
  <2>1. rx.done > 0 /\ rx.done \in Nat BY <1>3 DEF CmdAnswered, CallInv, RxTypes
  <2>2. r \in Rx /\ r.done = rx.done - 1
    <3>1. rx.done - 1 \in Nat BY <2>1
    <3> QED BY <3>1 DEF CallInv, RxTypes, Rx
  <2>3. PICK ret \in {"ok", "err"} : /\ ret = "ok" => Accepted(rx.buf, call.op)
                                     /\ \E out : AfterCommand(ret, out, r)
    BY <1>3 DEF CmdAnswered
  <2> HIDE DEF r
  <2>4. OneByOne => Held = 0 /\ r.done = 0
    <3>1. OneByOne => Pending <= 1 BY <1>1 DEF Alone
    <3> QED BY <2>1, <2>2, <3>1, HeldParts, HeldTypes
  <2>5. call.op = "STOP" /\ ret = "ok" => Held = 0
    <3> SUFFICES ASSUME call.op = "STOP", ret = "ok" PROVE Held = 0 OBVIOUS
    <3>1. StopDone(rx.buf) BY <2>3, OpFacts DEF Accepted, StopDone
    <3>2. fw.cmd = "NONE" /\ Quiet /\ toHost = << >> BY <1>1, <3>1 DEF StopInv, StopTold
    <3>3. Len(fw.queue) = 0 /\ Busy = 0 /\ Cmd = 0 BY <3>2 DEF Quiet, Busy, Cmd
    <3>4. Cardinality(Tellings(toHost)) = 0
      <4>1. toHost \in Seq(Answers) BY DEF CallInv, FwTypes
      <4> QED BY <3>2, <4>1, ThoseCount DEF Tellings
    <3> QED BY <3>3, <3>4, HeldParts
  <2> QED BY <1>1, <1>2, <2>2, <2>3, <2>4, <2>5, AloneCommandEnds
<1>4. CASE CmdTimeout
  <2>1. AfterCommand("timeout", << >>, rx) /\ Silent BY <1>4 DEF CmdTimeout
  <2>2. rx \in Rx BY DEF CallInv, RxTypes, Rx
  <2>3. call.op = "OPEN" => Held = 0 /\ rx.done = 0
    <3> SUFFICES ASSUME call.op = "OPEN" PROVE Held = 0 /\ rx.done = 0 OBVIOUS
    <3>1. Quiet BY <1>1 DEF CallInv, CallPlace, StopInv, QuietHere
    <3>2. toHost = << >> /\ rx.done = 0 /\ Cmd = 0 BY <2>1 DEF Silent, Cmd
    <3>3. Len(fw.queue) = 0 /\ Busy = 0 BY <3>1 DEF Quiet, Busy
    <3>4. Cardinality(Tellings(toHost)) = 0
      <4>1. toHost \in Seq(Answers) BY DEF CallInv, FwTypes
      <4> QED BY <3>2, <4>1, ThoseCount DEF Tellings
    <3> QED BY <3>2, <3>3, <3>4, HeldParts
  <2> QED BY <1>1, <1>2, <2>1, <2>2, <2>3, AloneCommandEnds
<1> QED BY <1>3, <1>4

\* The calls.
LEMMA AloneCalls ==
  ASSUME CallInv, CallInv', Alone,
         (\E b \in BFrames : EncStart(b)) \/ EndSession \/ EncEncode \/ EncBatch
  PROVE  Alone'
<1>1. fw' = fw /\ toHost' = toHost /\ call.pc = "idle"
  BY DEF EncStart, EndSession, EncEncode, EncBatch, EncEncodeBatch
<1>2. OneByOne => Held = 0
  <2>1. OneByOne => Pending <= 0 BY <1>1 DEF Alone
  <2> QED BY <2>1, HeldParts, HeldTypes
<1>3. CASE (\E b \in BFrames : EncStart(b)) \/ EncEncode
  <2>1. OneByOne BY <1>3 DEF EncStart, EncEncode, OneByOne
  <2>2. rx'.done = 0 BY <1>3 DEF EncStart, EncEncode, Begin, CallInv, RxTypes
  <2> QED BY <1>1, <1>2, <2>1, <2>2, AloneBegins
<1>4. CASE EndSession
  <2>1. sess.on /\ sess' = [sess EXCEPT !.on = FALSE]
        /\ (call' = call \/ Begin(rx, "STOP", << >>))
    BY <1>4 DEF EndSession
  <2>2. sess'.open /\ ~sess'.on BY <2>1 DEF CallInv, SessTypes, CallPlace
  <2>3. call'.pc = "idle" \/ call'.op = "STOP" BY <1>1, <2>1 DEF Begin, IdleCall
  <2> QED BY <2>2, <2>3 DEF Alone, OneByOne
<1>5. CASE EncBatch
  <2>1. PICK frames \in Seq(Frames), plan \in GopState :
          EncEncodeBatch(frames, plan) /\ sess.nb > 0
    BY <1>5, BatchBegins
  <2>2. sess.on /\ sess' = [sess EXCEPT !.plan = plan, !.calls = sess.calls + 1]
        /\ call'.op = "BATCH"
    BY <2>1 DEF EncEncodeBatch, Begin, IdleCall
  <2>3. sess'.open /\ sess'.nb # 0 BY <2>1, <2>2 DEF CallInv, SessTypes, CallPlace
  <2> QED BY <2>2, <2>3 DEF Alone, OneByOne
<1> QED BY <1>3, <1>4, <1>5

\* A batch.
LEMMA AloneBatch ==
  ASSUME CallInv,
         BatchArm \/ BatchSend \/ BatchSent \/ BatchCollect \/ BatchTimeout \/ BatchDone
  PROVE  Alone'
<1>1. call.op = "BATCH" /\ call.pc # "idle" /\ call'.op = "BATCH"
      /\ (sess' = sess \/ \E h \in BOOLEAN : sess' = [sess EXCEPT !.hung = h])
  BY BatchSteps
<1>2. sess.on /\ sess.open /\ sess.nb > 0 BY <1>1 DEF CallInv, CallPlace
<1>3. sess'.open /\ sess'.nb # 0 BY <1>1, <1>2 DEF CallInv, SessTypes
<1> QED BY <1>1, <1>3 DEF Alone, OneByOne

\* The interrupt.
LEMMA AloneIpcRx == ASSUME CallInv, CallInv', Alone, IpcRx PROVE Alone'
<1> DEFINE a == Head(toHost)
           ids == ReplyIds \cup {"NONE"}
<1>1. toHost # << >> /\ rx' = RxAfter(rx, a) /\ toHost' = Tail(toHost)
      /\ sess' = sess /\ call' = call /\ fw' = fw
  BY DEF IpcRx
<1>2. toHost \in Seq(Answers) /\ a \in Answers /\ rx \in Rx
  BY <1>1 DEF CallInv, FwTypes, RxTypes, Rx
<1>3. Cardinality(Tellings(toHost)) = Cardinality(Tellings(toHost'))
                                      + (IF a.id \in ids THEN 1 ELSE 0)
  BY <1>1, <1>2, ThoseTaken DEF Tellings
<1>4. rx'.done = IF a.id = rx.want THEN rx.done + 1 ELSE rx.done
  BY <1>1, <1>2, RxAfterFacts
<1>5. a.id = rx.want => a.id \in ids
  <2>1. a.id \in ReplyIds \cup {"LRME_DONE", "NONE"} BY <1>2 DEF Answers
  <2>2. rx.want \in ReplyIds \cup {"CONFIG_DONE"} BY <1>2 DEF Rx
  <2>3. "LRME_DONE" \notin ReplyIds BY OpFacts
  <2> QED BY <2>1, <2>2, <2>3
<1>6. Cardinality(Tellings(toHost')) \in Nat
  <2>1. toHost' \in Seq(Answers) BY <1>1, <1>2
  <2> QED BY <2>1, ThoseCount DEF Tellings
<1>7. Busy' = Busy /\ Cmd' = Cmd /\ Len(fw'.queue) = Len(fw.queue) BY <1>1 DEF Busy, Cmd
<1>8. Pending' <= Pending
  <2>1. Cardinality(Tellings(toHost')) + rx'.done <= Cardinality(Tellings(toHost)) + rx.done
    <3>1. CASE a.id = rx.want
      <4>1. Cardinality(Tellings(toHost)) = Cardinality(Tellings(toHost')) + 1
        BY <1>3, <1>5, <3>1
      <4>2. rx'.done = rx.done + 1 BY <1>4, <3>1
      <4> QED BY <1>6, <4>1, <4>2, HeldTypes
    <3>2. CASE a.id # rx.want
      <4>1. rx'.done = rx.done BY <1>4, <3>2
      <4>2. CASE a.id \in ids
        <5>1. Cardinality(Tellings(toHost)) = Cardinality(Tellings(toHost')) + 1
          BY <1>3, <4>2
        <5> QED BY <1>6, <4>1, <5>1, HeldTypes
      <4>3. CASE a.id \notin ids
        <5>1. Cardinality(Tellings(toHost)) = Cardinality(Tellings(toHost'))
          BY <1>3, <1>6, <4>3
        <5> QED BY <1>6, <4>1, <5>1, HeldTypes
      <4> QED BY <4>2, <4>3
    <3> QED BY <3>1, <3>2
  <2>2. rx'.done \in Nat BY <1>4, HeldTypes
  <2>3. /\ Pending' = Len(fw'.queue) + Busy' + Cmd' + Cardinality(Tellings(toHost')) + rx'.done
        /\ Pending = Len(fw.queue) + Busy + Cmd + Cardinality(Tellings(toHost)) + rx.done
    BY HeldParts
  <2>4. /\ Len(fw.queue) \in Nat /\ Busy \in 0 .. 1 /\ Cmd \in 0 .. 1 /\ rx.done \in Nat
        /\ Cardinality(Tellings(toHost)) \in Nat
    BY HeldTypes
  <2> DEFINE n == Len(fw.queue) + Busy + Cmd
             t == Cardinality(Tellings(toHost))  t2 == Cardinality(Tellings(toHost'))
  <2>5. n \in Int BY <2>4
  <2>6. Len(fw'.queue) + Busy' + Cmd' = n BY <1>7
  <2>7. Pending' = n + t2 + rx'.done /\ Pending = n + t + rx.done BY <2>3, <2>6
  <2>8. t \in Nat /\ t2 \in Nat /\ t2 + rx'.done <= t + rx.done BY <1>6, <2>1, <2>4
  <2> HIDE DEF n, t, t2
  <2> QED BY <2>2, <2>4, <2>5, <2>7, <2>8
<1>9. OneByOne' = OneByOne /\ call'.pc = call.pc BY <1>1 DEF OneByOne
<1>10. Pending' \in Int
  <2>1. rx'.done \in Nat BY <1>4, HeldTypes
  <2> QED BY <1>6, <1>7, <2>1, HeldParts, HeldTypes
<1> QED BY <1>8, <1>9, <1>10, HeldTypes DEF Alone

\* The firmware.
LEMMA AloneFirmware ==
  ASSUME CallInv, CallInv', Alone, FwBegin \/ FwFrame \/ FwCommand \/ FwHang
  PROVE  Alone'
<1>1. sess' = sess /\ call' = call /\ rx' = rx BY DEF FwBegin, FwFrame, FwCommand, FwHang
<1>2. OneByOne' = OneByOne /\ call'.pc = call.pc BY <1>1 DEF OneByOne
<1>3. Len(fw.queue) \in Nat /\ Busy \in 0 .. 1 /\ Cmd \in 0 .. 1
      /\ Cardinality(Tellings(toHost)) \in Nat /\ rx.done \in Nat
  BY HeldTypes
<1>4. SUFFICES Held' <= Held /\ Held' \in Int
  <2>1. Pending' = Held' + rx.done /\ Pending = Held + rx.done BY <1>1, HeldParts
  <2> QED BY <1>2, <1>3, <2>1, HeldTypes DEF Alone
<1>5. CASE FwBegin
  <2>1. PICK i \in DOMAIN fw.queue, c \in Coding :
             /\ fw.busy = {} /\ toHost' = toHost
             /\ fw' = [fw EXCEPT !.busy = {c}, !.queue = RemoveAt(fw.queue, i)]
    BY <1>5, FwBegins
  <2>2. fw'.busy # {} /\ fw'.queue = RemoveAt(fw.queue, i) /\ fw'.cmd = fw.cmd
        /\ fw'.up = fw.up
    BY <2>1 DEF CallInv, FwTypes
  <2>3. Len(fw'.queue) = Len(fw.queue) - 1 BY <2>2, RemoveAtFacts DEF CallInv, FwTypes
  <2>4. Busy = 0 /\ Busy' = 1 /\ Cmd' = Cmd BY <2>1, <2>2 DEF Busy, Cmd
  <2>5. Cardinality(Tellings(toHost')) = Cardinality(Tellings(toHost)) BY <2>1
  <2> DEFINE l == Len(fw.queue)  u == Busy  d == Cmd  t == Cardinality(Tellings(toHost))
  <2>a. Held = l + u + d + t /\ l \in Nat /\ t \in Nat /\ d \in 0 .. 1 /\ u \in 0 .. 1
    BY <1>3, HeldParts
  <2>b. Held' = (l - 1) + 1 + d + t /\ u = 0 BY <2>3, <2>4, <2>5, HeldParts
  <2> HIDE DEF l, u, d, t
  <2> QED BY <2>a, <2>b
<1>6. CASE FwFrame
  <2>1. PICK c \in fw.busy, a, e \in Answers, anchor \in Int :
           /\ fw.up /\ c \in Coding /\ fw.busy = {c}
           /\ a.id = "LRME_DONE" /\ e.id = "ENCODE_DONE" /\ e.fn = c.f.fn
           /\ anchor = fw.anchor \/ anchor = c.f.fn
           /\ toHost' = toHost \o << a, e >> /\ toHost' \in Seq(Answers)
           /\ fw' = [fw EXCEPT !.busy = {}, !.anchor = anchor]
           /\ sess' = sess /\ call' = call /\ rx' = rx
    BY <1>6, FwFrames
  <2>2. fw'.busy = {} /\ fw'.queue = fw.queue /\ fw'.cmd = fw.cmd /\ fw'.up = fw.up
    BY <2>1 DEF CallInv, FwTypes
  <2>3. Busy = 1 /\ Busy' = 0 /\ Cmd' = Cmd BY <2>1, <2>2 DEF Busy, Cmd
  <2>4. Cardinality(Tellings(toHost')) = Cardinality(Tellings(toHost)) + 1
    <3>1. toHost \in Seq(Answers) /\ Append(toHost, a) \in Seq(Answers)
      BY DEF CallInv, FwTypes
    <3>2. toHost \o << a, e >> = Append(Append(toHost, a), e) BY <3>1
    <3>3. a.id \notin ReplyIds \cup {"NONE"} /\ e.id \in ReplyIds \cup {"NONE"}
      BY <2>1, OpFacts
    <3>4. Cardinality(Tellings(Append(toHost, a))) = Cardinality(Tellings(toHost)) + 0
      BY <3>1, <3>3, ThoseCount DEF Tellings
    <3>5. Cardinality(Tellings(Append(Append(toHost, a), e))) =
            Cardinality(Tellings(Append(toHost, a))) + 1
      BY <3>1, <3>3, ThoseCount DEF Tellings
    <3>6. Cardinality(Tellings(toHost')) = Cardinality(Tellings(Append(Append(toHost, a), e)))
      BY <2>1, <3>2
    <3> QED BY <1>3, <3>4, <3>5, <3>6
  <2>5. Len(fw'.queue) = Len(fw.queue) BY <2>2
  <2> DEFINE l == Len(fw.queue)  u == Busy  d == Cmd  t == Cardinality(Tellings(toHost))
  <2>a. Held = l + u + d + t /\ l \in Nat /\ t \in Nat /\ d \in 0 .. 1 /\ u \in 0 .. 1
    BY <1>3, HeldParts
  <2>b. Held' = l + 0 + d + (t + 1) /\ u = 1 BY <2>3, <2>4, <2>5, HeldParts
  <2> HIDE DEF l, u, d, t
  <2> QED BY <2>a, <2>b
<1>7. CASE FwCommand
  <2>1. PICK a \in Answers :
             /\ fw.up /\ fw.cmd \in Ops /\ a.id = ReplyId(fw.cmd)
             /\ toHost' = Append(toHost, a)
             /\ fw' = [fw EXCEPT !.cmd = "NONE",
                                 !.queue = IF fw.cmd = "STOP" THEN << >> ELSE fw.queue,
                                 !.anchor = IF fw.cmd = "OPEN" THEN NONE ELSE fw.anchor]
    BY <1>7, FwCommands
  <2>2. fw'.busy = fw.busy /\ fw'.cmd = "NONE"
        /\ (fw'.queue = << >> \/ fw'.queue = fw.queue)
    BY <2>1 DEF CallInv, FwTypes
  <2>3. Busy' = Busy /\ Cmd = 1 /\ Cmd' = 0
    <3>1. fw.cmd # "NONE" BY <2>1 DEF Ops
    <3> QED BY <2>1, <2>2, <3>1 DEF Busy, Cmd
  <2>4. Cardinality(Tellings(toHost')) = Cardinality(Tellings(toHost)) + 1
    <3>1. a.id \in ReplyIds \cup {"NONE"} BY <2>1, OpFacts
    <3> QED BY <2>1, <3>1, ThoseCount DEF Tellings, CallInv, FwTypes
  <2>5. Len(fw'.queue) <= Len(fw.queue) /\ Len(fw'.queue) \in Nat
    <3>1. Len(<< >>) = 0 OBVIOUS
    <3> QED BY <1>3, <2>2, <3>1
  <2> DEFINE l == Len(fw.queue)  u == Busy  d == Cmd  t == Cardinality(Tellings(toHost))
  <2>a. Held = l + u + d + t /\ l \in Nat /\ t \in Nat /\ d \in 0 .. 1 /\ u \in 0 .. 1
    BY <1>3, HeldParts
  <2> DEFINE l2 == Len(fw'.queue)
  <2>b. Held' = l2 + u + 0 + (t + 1) /\ d = 1 /\ l2 \in Nat /\ l2 <= l
    BY <2>3, <2>4, <2>5, HeldParts
  <2> HIDE DEF l, u, d, t, l2
  <2> QED BY <2>a, <2>b
<1>8. CASE FwHang
  <2>1. fw' = [fw EXCEPT !.up = FALSE] /\ toHost' = toHost BY <1>8 DEF FwHang
  <2>2. fw'.busy = fw.busy /\ fw'.queue = fw.queue /\ ~fw'.up
    BY <2>1 DEF CallInv, FwTypes
  <2>3. Busy' = Busy /\ Cmd' = 0 /\ Len(fw'.queue) = Len(fw.queue) BY <2>2 DEF Busy, Cmd
  <2>4. Cardinality(Tellings(toHost')) = Cardinality(Tellings(toHost)) BY <2>1
  <2> DEFINE l == Len(fw.queue)  u == Busy  d == Cmd  t == Cardinality(Tellings(toHost))
  <2>a. Held = l + u + d + t /\ l \in Nat /\ t \in Nat /\ d \in 0 .. 1 /\ u \in 0 .. 1
    BY <1>3, HeldParts
  <2>b. Held' = l + u + 0 + t BY <2>3, <2>4, HeldParts
  <2> HIDE DEF l, u, d, t
  <2> QED BY <2>a, <2>b
<1> QED BY <1>5, <1>6, <1>7, <1>8

\* The frame of a Process.
LEMMA OneFrameNext == ASSUME CallInv, BoundInv, AloneInv, [Next]_vars PROVE OneFrame'
<1>1. CASE call'.pc \notin {"arm", "wait"} \/ call'.op # "PROCESS" BY <1>1 DEF OneFrame
<1>2. CASE EncEncode
  <2> DEFINE f == GopFrame(0, IF sess.frame_n = 0 THEN "IDR" ELSE "P", sess.frame_n)
  <2>1. call.pc = "idle" /\ OneByOne /\ fw' = fw /\ hdr' = Cleared(<< f >>)
        /\ Begin(rx, "PROCESS", << f >>)
    BY <1>2 DEF EncEncode, OneByOne
  <2>2. call'.frames[1] = f BY <2>1 DEF Begin, IdleCall
  <2>3. Pending <= 0 BY <2>1 DEF AloneInv, Alone
  <2>4. Len(fw.queue) = 0 /\ Busy = 0 BY <2>3, HeldParts, HeldTypes
  <2>5. fw.queue = << >> /\ fw.busy = {} BY <2>4 DEF Busy, CallInv, FwTypes
  <2>6. Idx(f.fn) \in DOMAIN hdr
    <3>1. f.fn \in Nat BY DEF GopFrame, CallInv, SessTypes
    <3> QED BY <3>1, BoundFacts DEF BoundInv, SlotBound
  <2> HIDE DEF f
  <2>7. \E g \in Range(<< f >>) : Idx(g.fn) = Idx(f.fn)
    <3>1. 1 \in DOMAIN << f >> /\ << f >>[1] = f OBVIOUS
    <3> QED BY <3>1 DEF Range
  <2>8. hdr'[Idx(f.fn)] = ClearHeader BY <2>1, <2>6, <2>7 DEF Cleared
  <2> QED BY <2>1, <2>2, <2>5, <2>8 DEF OneFrame
<1>3. CASE (\E b \in BFrames : EncStart(b)) \/ EncBatch
  <2>1. CASE \E b \in BFrames : EncStart(b)
    <3>1. Begin(rx, "OPEN", << >>) BY <2>1 DEF EncStart
    <3> QED BY <1>1, <3>1 DEF Begin, IdleCall
  <2>2. CASE EncBatch
    <3>1. PICK frames \in Seq(Frames), plan \in GopState : EncEncodeBatch(frames, plan)
      BY <2>2, BatchBegins
    <3>2. Begin([rx EXCEPT !.nq = 0], "BATCH", frames) BY <3>1 DEF EncEncodeBatch
    <3> QED BY <1>1, <3>2 DEF Begin, IdleCall
  <2> QED BY <1>3, <2>1, <2>2
<1>4. CASE EndSession
  <2>1. call.pc = "idle" /\ (call' = call \/ Begin(rx, "STOP", << >>))
    BY <1>4 DEF EndSession
  <2>2. call'.pc = "idle" \/ call'.op = "STOP" BY <2>1 DEF Begin, IdleCall
  <2> QED BY <1>1, <2>2
<1>5. CASE CmdSend \/ CmdAnswered \/ CmdTimeout
  <2>1. call.pc \in {"arm", "wait"} /\ call.op \in Ops /\ hdr' = hdr
    BY <1>5, CommandSteps
  <2>2. CASE /\ call.pc = "arm" /\ call' = [call EXCEPT !.pc = "wait"]
             /\ fw' = IF call.op = "PROCESS" THEN [fw EXCEPT !.queue = fw.queue \o call.frames]
                                             ELSE [fw EXCEPT !.cmd = call.op]
    <3>1. call'.op = call.op /\ call'.frames = call.frames BY <2>2 DEF CallInv, CallTypes
    <3>2. CASE call.op = "PROCESS"
      <4>1. fw'.queue = fw.queue \o call.frames /\ fw'.busy = fw.busy
        BY <2>2, <3>2 DEF CallInv, FwTypes
      <4>2. fw.queue \in Seq(Frames) /\ call.frames \in Seq(Frames)
        BY DEF CallInv, FwTypes, CallTypes
      <4>3. Len(call.frames) = 1 BY <2>1, <3>2 DEF CallInv, CallPlace
      <4>4. \A i \in DOMAIN (fw.queue \o call.frames) :
              (\E j \in DOMAIN fw.queue : (fw.queue \o call.frames)[i] = fw.queue[j])
              \/ (fw.queue \o call.frames)[i] = call.frames[1]
        <5>1. ASSUME NEW s \in Seq(Frames), NEW t \in Seq(Frames), Len(t) = 1,
                     NEW i \in DOMAIN (s \o t)
              PROVE  (\E j \in DOMAIN s : (s \o t)[i] = s[j]) \/ (s \o t)[i] = t[1]
          <6>1. DOMAIN (s \o t) = 1 .. Len(s) + 1 /\ DOMAIN s = 1 .. Len(s)
                /\ Len(s) \in Nat
            <7>1. s \o t \in Seq(Frames) /\ Len(s \o t) = Len(s) + Len(t) OBVIOUS
            <7>2. DOMAIN (s \o t) = 1 .. Len(s \o t) BY <7>1
            <7>3. DOMAIN s = 1 .. Len(s) /\ Len(s) \in Nat OBVIOUS
            <7> QED BY <5>1, <7>1, <7>2, <7>3
          <6>2. (s \o t)[i] = IF i <= Len(s) THEN s[i] ELSE t[i - Len(s)] BY <5>1, <6>1
          <6>3. CASE i \in DOMAIN s BY <6>1, <6>2, <6>3
          <6>4. CASE i = Len(s) + 1
            <7>1. i - Len(s) = 1 /\ ~(i <= Len(s)) BY <6>1, <6>4
            <7> QED BY <6>2, <7>1
          <6> QED BY <6>1, <6>3, <6>4
        <5> QED BY <4>2, <4>3, <5>1
      <4>5. \A i \in DOMAIN fw.queue : fw.queue[i].fn = call.frames[1].fn
        BY <2>1, <3>2 DEF AloneInv, OneFrame
      <4>6. \A i \in DOMAIN fw'.queue : fw'.queue[i].fn = call.frames[1].fn
        BY <4>1, <4>4, <4>5
      <4> QED BY <2>1, <3>1, <3>2, <4>1, <4>6 DEF AloneInv, OneFrame
    <3>3. CASE call.op # "PROCESS" BY <1>1, <3>1, <3>3
    <3> QED BY <3>2, <3>3
  <2>3. ASSUME NEW ret \in {"ok", "err", "timeout"}, NEW r \in Rx, NEW out,
               AfterCommand(ret, out, r)
        PROVE  OneFrame'
    <3>1. call'.pc = "idle" \/ call'.op # "PROCESS" BY <2>1, <2>3, CommandLeaves
    <3> QED BY <1>1, <3>1
  <2> QED BY <1>5, <2>2, <2>3, CommandSteps
<1>6. CASE BatchArm \/ BatchSend \/ BatchSent \/ BatchCollect \/ BatchTimeout \/ BatchDone
  <2>1. call'.op = "BATCH" BY <1>6, BatchSteps
  <2> QED BY <1>1, <2>1
<1>7. CASE FwBegin
  <2>1. PICK i \in DOMAIN fw.queue, c \in Coding :
             /\ c.f = fw.queue[i] /\ call' = call /\ hdr' = hdr
             /\ fw' = [fw EXCEPT !.busy = {c}, !.queue = RemoveAt(fw.queue, i)]
    BY <1>7, FwBegins
  <2>2. fw'.busy = {c} /\ fw'.queue = RemoveAt(fw.queue, i)
    BY <2>1 DEF CallInv, FwTypes
  <2>3. \A j \in DOMAIN RemoveAt(fw.queue, i) :
          \E m \in DOMAIN fw.queue : RemoveAt(fw.queue, i)[j] = fw.queue[m]
    <3>1. fw.queue \in Seq(Frames) BY DEF CallInv, FwTypes
    <3>2. /\ RemoveAt(fw.queue, i) \in Seq(Frames)
          /\ Len(RemoveAt(fw.queue, i)) = Len(fw.queue) - 1
          /\ \A j \in 1 .. Len(fw.queue) - 1 :
               RemoveAt(fw.queue, i)[j] = IF j < i THEN fw.queue[j] ELSE fw.queue[j + 1]
      BY <3>1, RemoveAtFacts
    <3>3. DOMAIN RemoveAt(fw.queue, i) = 1 .. Len(fw.queue) - 1 BY <3>2
    <3>4. ASSUME NEW j \in 1 .. Len(fw.queue) - 1
          PROVE  j \in DOMAIN fw.queue /\ j + 1 \in DOMAIN fw.queue
      BY <3>1
    <3> QED BY <3>2, <3>3, <3>4
  <2> QED BY <2>1, <2>2, <2>3 DEF AloneInv, OneFrame
<1>8. CASE FwFrame
  <2>1. call' = call /\ \E anchor \in Int : fw' = [fw EXCEPT !.busy = {}, !.anchor = anchor]
    BY <1>8, FwFrames
  <2>2. fw'.busy = {} /\ fw'.queue = fw.queue BY <2>1 DEF CallInv, FwTypes
  <2>3. PICK c \in fw.busy : \E h :
           /\ hdr' = [hdr EXCEPT ![Idx(c.f.fn)] = h]
           /\ h = hdr[Idx(c.f.fn)] \/ h.fn = DROPPED \/ h.fn = c.f.fn
           /\ Idx(c.f.fn) \in 0 .. CodedSlots - 1
    BY <1>8, FwWrites
  <2>4. PICK h :
           /\ hdr' = [hdr EXCEPT ![Idx(c.f.fn)] = h]
           /\ h = hdr[Idx(c.f.fn)] \/ h.fn = DROPPED \/ h.fn = c.f.fn
           /\ Idx(c.f.fn) \in 0 .. CodedSlots - 1
    BY <2>3
  <2>5. hdr'[Idx(c.f.fn)] = h BY <2>4 DEF BoundInv, SlotBound
  <2> QED BY <2>1, <2>2, <2>4, <2>5 DEF AloneInv, OneFrame
<1>9. CASE FwCommand
  <2>1. call' = call
        /\ fw' = [fw EXCEPT !.cmd = "NONE",
                            !.queue = IF fw.cmd = "STOP" THEN << >> ELSE fw.queue,
                            !.anchor = IF fw.cmd = "OPEN" THEN NONE ELSE fw.anchor]
    BY <1>9, FwCommands
  <2>2. fw'.busy = fw.busy /\ (fw'.queue = << >> \/ fw'.queue = fw.queue)
    BY <2>1 DEF CallInv, FwTypes
  <2>3. hdr' = hdr BY <1>9 DEF FwCommand
  <2> QED BY <2>1, <2>2, <2>3 DEF AloneInv, OneFrame
<1>10. CASE FwHang
  <2>1. fw' = [fw EXCEPT !.up = FALSE] /\ call' = call /\ hdr' = hdr BY <1>10 DEF FwHang
  <2>2. fw'.busy = fw.busy /\ fw'.queue = fw.queue BY <2>1 DEF CallInv, FwTypes
  <2> QED BY <2>1, <2>2 DEF AloneInv, OneFrame
<1>11. CASE IpcRx \/ UNCHANGED vars
  <2>1. fw' = fw /\ call' = call /\ hdr' = hdr BY <1>11 DEF IpcRx, vars
  <2> QED BY <2>1 DEF AloneInv, OneFrame
<1> QED BY <1>2, <1>3, <1>4, <1>5, <1>6, <1>7, <1>8, <1>9, <1>10, <1>11 DEF Next

\* Every step keeps the fifth layer.
LEMMA AloneNext == ASSUME CallInv, StopInv, BoundInv, AloneInv, [Next]_vars PROVE AloneInv'
<1>1. CallInv' BY CallNext
<1>2. Alone BY DEF AloneInv
<1>3. Alone'
  <2>1. CASE (\E b \in BFrames : EncStart(b)) \/ EndSession \/ EncEncode \/ EncBatch
    BY <1>1, <1>2, <2>1, AloneCalls
  <2>2. CASE CmdSend BY <1>1, <1>2, <2>2, AloneCmdSend
  <2>3. CASE CmdAnswered \/ CmdTimeout BY <1>1, <1>2, <2>3, AloneCmdOver
  <2>4. CASE BatchArm \/ BatchSend \/ BatchSent \/ BatchCollect \/ BatchTimeout \/ BatchDone
    BY <2>4, AloneBatch
  <2>5. CASE IpcRx BY <1>1, <1>2, <2>5, AloneIpcRx
  <2>6. CASE FwBegin \/ FwFrame \/ FwCommand \/ FwHang BY <1>1, <1>2, <2>6, AloneFirmware
  <2>7. CASE UNCHANGED vars
    BY <1>2, <2>7 DEF vars, Alone, OneByOne, Pending, Held, Busy, Cmd
  <2> QED BY <2>1, <2>2, <2>3, <2>4, <2>5, <2>6, <2>7 DEF Next
<1> QED BY <1>3, OneFrameNext DEF AloneInv

-----------------------------------------------------------------------------
\* The sixth layer.

\* One more result.
LEMMA AppendOut ==
  ASSUME NEW s, s \in Seq(Range(s)), NEW e
  PROVE  /\ Append(s, e) \in Seq(Range(Append(s, e)))
         /\ Range(Append(s, e)) = Range(s) \cup {e}
         /\ Len(s) \in Nat /\ DOMAIN s = 1 .. Len(s)
         /\ DOMAIN Append(s, e) = 1 .. Len(s) + 1
         /\ \A i \in 1 .. Len(s) : Append(s, e)[i] = s[i]
         /\ Append(s, e)[Len(s) + 1] = e
<1>1. /\ Len(s) \in Nat /\ DOMAIN s = 1 .. Len(s)
      /\ DOMAIN Append(s, e) = 1 .. Len(s) + 1
      /\ \A i \in 1 .. Len(s) : Append(s, e)[i] = s[i]
      /\ Append(s, e)[Len(s) + 1] = e
  OBVIOUS
<1>2. Range(Append(s, e)) = Range(s) \cup {e}
  <2>1. ASSUME NEW x \in Range(Append(s, e)) PROVE x \in Range(s) \cup {e}
    <3>1. PICK i \in 1 .. Len(s) + 1 : x = Append(s, e)[i] BY <1>1 DEF Range
    <3>2. CASE i = Len(s) + 1 BY <1>1, <3>1, <3>2
    <3>3. CASE i \in 1 .. Len(s) BY <1>1, <3>1, <3>3 DEF Range
    <3> QED BY <1>1, <3>2, <3>3
  <2>2. ASSUME NEW x \in Range(s) PROVE x \in Range(Append(s, e))
    <3>1. PICK i \in 1 .. Len(s) : x = s[i] BY <1>1 DEF Range
    <3>2. i \in 1 .. Len(s) + 1 /\ Append(s, e)[i] = x BY <1>1, <3>1
    <3> QED BY <1>1, <3>2 DEF Range
  <2>3. e \in Range(Append(s, e))
    <3>1. Len(s) + 1 \in DOMAIN Append(s, e) BY <1>1
    <3> QED BY <1>1, <3>1 DEF Range
  <2> QED BY <2>1, <2>2, <2>3
<1>3. Append(s, e) \in Seq(Range(s) \cup {e})
  <2>1. s \in Seq(Range(s) \cup {e}) OBVIOUS
  <2> QED BY <2>1
<1> QED BY <1>1, <1>2, <1>3

\* A header that nobody wrote gives no result.
LEMMA ClearFails == ~ResultOk(ClearHeader)
<1>1. {i \in Records : ClearHeader.recs[i].n = 0} = 1 .. 3 BY DEF ClearHeader, Records
<1>2. Min(1 .. 3) = 1
  <2>1. 1 \in 1 .. 3 /\ \A y \in 1 .. 3 : 1 <= y OBVIOUS
  <2>2. \A x \in 1 .. 3 : (\A y \in 1 .. 3 : x <= y) => x = 1 BY <2>1
  <2> QED BY <2>1, <2>2 DEF Min
<1>3. NSlice(ClearHeader) = 0
  <2> DEFINE E == {i \in Records : ClearHeader.recs[i].n = 0}
  <2>1. E = 1 .. 3 /\ E # {} BY <1>1
  <2>2. NSlice(ClearHeader) = Min(E) - 1 BY <2>1 DEF NSlice
  <2> HIDE DEF E
  <2> QED BY <1>2, <2>1, <2>2
<1> QED BY <1>3 DEF ResultOk

\* No results: of a call that has begun, and of one that failed.
LEMMA NoOut ==
  ASSUME call'.out = << >>, call'.done \subseteq Range(call'.frames)
  PROVE  OutOwn'
<1>1. << >> \in Seq(Range(<< >>)) /\ Range(<< >>) = {} BY DEF Range
<1> QED BY <1>1 DEF OutOwn

\* A command that ends.
LEMMA OutCommandEnds ==
  ASSUME CallInv, OutInv, call.pc \in {"arm", "wait"}, call.op \in Ops,
         NEW ret \in {"ok", "err", "timeout"}, NEW out, NEW r \in Rx,
         AfterCommand(ret, out, r),
         out \in Seq(Range(out)), \A s \in Range(out) : s.coded = s.fn,
         \A i, j \in DOMAIN out : out[i].fn = out[j].fn => i = j
  PROVE  OutInv'
<1>1. \/ call' = [call EXCEPT !.pc = "idle", !.ret = ret, !.out = out]
      \/ \E op \in {"START", "STOP", "CLOSE"} : Begin(r, op, << >>)
  BY CommandEnds
<1>2. CASE call' = [call EXCEPT !.pc = "idle", !.ret = ret, !.out = out]
  <2>1. call'.out = out /\ call'.frames = call.frames /\ call'.done = call.done
        /\ call'.op = call.op
    BY <1>2 DEF CallInv, CallTypes
  <2>2. call'.op # "BATCH" BY <2>1 DEF Ops
  <2> QED BY <2>1, <2>2 DEF OutInv, OutOwn, FramesDiffer
<1>3. CASE \E op \in {"START", "STOP", "CLOSE"} : Begin(r, op, << >>)
  <2>1. call'.out = << >> /\ call'.done = {} /\ call'.frames = << >>
    BY <1>3 DEF Begin, IdleCall
  <2>2. OutOwn' BY <2>1, NoOut
  <2>3. FramesDiffer' BY <2>1 DEF FramesDiffer, Range
  <2> QED BY <2>2, <2>3 DEF OutInv
<1> QED BY <1>1, <1>2, <1>3

\* The results of a command: of a Process, the frame that its slot is of.
LEMMA OutCommands ==
  ASSUME CallInv, BoundInv, AloneInv, OutInv, CmdSend \/ CmdAnswered \/ CmdTimeout
  PROVE  OutInv'
<1>1. << >> \in Seq(Range(<< >>)) /\ Range(<< >>) = {} /\ DOMAIN << >> = {} BY DEF Range
<1>2. call.pc \in {"arm", "wait"} /\ call.op \in Ops BY CommandSteps
<1>3. CASE CmdSend
  <2> DEFINE r == [rx EXCEPT !.want = ReplyId(call.op)]
  <2>1. CASE call' = [call EXCEPT !.pc = "wait"]
    <3>1. call'.out = call.out /\ call'.frames = call.frames /\ call'.done = call.done
          /\ call'.op = call.op
      BY <2>1 DEF CallInv, CallTypes
    <3> QED BY <3>1 DEF OutInv, OutOwn, FramesDiffer
  <2>2. CASE AfterCommand("err", << >>, r)
    <3>1. r \in Rx BY <1>2, OpFacts DEF CallInv, RxTypes, Rx
    <3> HIDE DEF r
    <3> QED BY <1>1, <1>2, <2>2, <3>1, OutCommandEnds
  <2> QED BY <1>3, <2>1, <2>2 DEF CmdSend
<1>4. CASE CmdTimeout
  <2>1. AfterCommand("timeout", << >>, rx) BY <1>4 DEF CmdTimeout
  <2>2. rx \in Rx BY DEF CallInv, RxTypes, Rx
  <2> QED BY <1>1, <1>2, <2>1, <2>2, OutCommandEnds
<1>5. CASE CmdAnswered
  <2> DEFINE r == [rx EXCEPT !.done = rx.done - 1]
             results == [i \in DOMAIN call.frames |-> Result(call.frames[i])]
  <2>1. r \in Rx
    <3>1. rx.done > 0 /\ rx.done \in Nat BY <1>5 DEF CmdAnswered, CallInv, RxTypes
    <3>2. rx.done - 1 \in Nat BY <3>1
    <3> QED BY <3>2 DEF CallInv, RxTypes, Rx
  <2>2. \/ AfterCommand("err", << >>, r)
        \/ /\ \A f \in Range(call.frames) : HasResult(f.fn)
           /\ AfterCommand("ok", results, r)
    BY <1>5 DEF CmdAnswered
  <2> HIDE DEF r
  <2>3. CASE AfterCommand("err", << >>, r) BY <1>1, <1>2, <2>1, <2>3, OutCommandEnds
  <2>4. CASE /\ \A f \in Range(call.frames) : HasResult(f.fn)
             /\ AfterCommand("ok", results, r)
    <3>1. CASE call.op # "PROCESS"
      <4>1. call.frames = << >> BY <1>2, <3>1 DEF CallInv, CallPlace, Ops
      <4>2. results = << >> BY <4>1
      <4> HIDE DEF results
      <4>3. AfterCommand("ok", << >>, r) BY <2>4, <4>2
      <4> QED BY <1>1, <1>2, <2>1, <4>3, OutCommandEnds
    <3>2. CASE call.op = "PROCESS"
      <4> DEFINE f == call.frames[1]
      <4>1. Len(call.frames) = 1 /\ call.frames \in Seq(Frames)
        BY <1>2, <3>2 DEF CallInv, CallPlace, CallTypes
      <4>2. DOMAIN call.frames = {1} BY <4>1
      <4>3. HasResult(f.fn)
        <5>1. f \in Range(call.frames) BY <4>2 DEF Range
        <5> QED BY <2>4, <5>1
      <4>4. hdr[Idx(f.fn)].fn = f.fn
        <5>1. hdr[Idx(f.fn)] = ClearHeader \/ hdr[Idx(f.fn)].fn \in {DROPPED, f.fn}
          BY <1>2, <3>2 DEF AloneInv, OneFrame
        <5>2. hdr[Idx(f.fn)] # ClearHeader BY <4>3, ClearFails DEF HasResult
        <5>3. hdr[Idx(f.fn)].fn # DROPPED BY <4>3 DEF HasResult, ResultOk
        <5> QED BY <5>1, <5>2, <5>3
      <4>5. Result(f).fn = f.fn /\ Result(f).coded = hdr[Idx(f.fn)].fn BY DEF Result
      <4>6. DOMAIN results = {1} /\ results[1] = Result(f) BY <4>2
      <4> HIDE DEF results, f
      <4>7. Range(results) = {Result(f)} BY <4>6 DEF Range
      <4>8. results \in Seq(Range(results))
        <5>1. results = << Result(f) >>
          <6>1. results = [i \in 1 .. 1 |-> Result(f)] BY <4>2, <4>6 DEF results, f
          <6> QED BY <6>1
        <5>2. << Result(f) >> \in Seq({Result(f)}) OBVIOUS
        <5> QED BY <4>7, <5>1, <5>2
      <4>9. \A i, j \in DOMAIN results : results[i].fn = results[j].fn => i = j BY <4>6
      <4>10. \A s \in Range(results) : s.coded = s.fn BY <4>4, <4>5, <4>7
      <4>11. AfterCommand("ok", results, r) BY <2>4
      <4> QED BY <1>2, <2>1, <4>8, <4>9, <4>10, <4>11, OutCommandEnds
    <3> QED BY <3>1, <3>2
  <2> QED BY <2>2, <2>3, <2>4
<1> QED BY <1>3, <1>4, <1>5

\* The results of a batch: each of a frame not done, whose number its header echoes.
LEMMA OutBatch ==
  ASSUME CallInv, OutInv,
         BatchArm \/ BatchSend \/ BatchSent \/ BatchCollect \/ BatchTimeout \/ BatchDone
  PROVE  OutInv'
<1>1. call.op = "BATCH" /\ call'.op = "BATCH" /\ call'.frames = call.frames BY BatchSteps
<1>2. FramesDiffer' BY <1>1 DEF OutInv, FramesDiffer
<1>3. CASE call'.out = call.out /\ call'.done = call.done
  BY <1>1, <1>2, <1>3 DEF OutInv, OutOwn
<1>4. ASSUME NEW ret, NEW r, BatchEnds(ret, r) PROVE OutInv'
  <2>1. call' = [call EXCEPT !.pc = "idle", !.ret = ret] BY <1>4 DEF BatchEnds
  <2>2. call'.out = call.out /\ call'.done = call.done BY <2>1 DEF CallInv, CallTypes
  <2> QED BY <1>3, <2>2
<1>5. CASE BatchArm \/ BatchSend \/ BatchSent
  <2>1. \/ call' = [call EXCEPT !.pc = "send"]
        \/ call' = [call EXCEPT !.k = call.k + 1]
        \/ call' = [call EXCEPT !.count = call.k, !.ret = "err"]
        \/ call' = [call EXCEPT !.pc = "collect", !.k = 0]
    BY <1>5 DEF BatchArm, BatchSend, BatchSent
  <2>2. call'.out = call.out /\ call'.done = call.done BY <2>1 DEF CallInv, CallTypes
  <2> QED BY <1>3, <2>2
<1>6. CASE BatchTimeout \/ BatchDone BY <1>4, <1>6 DEF BatchTimeout, BatchDone
<1>7. CASE BatchCollect
  <2> DEFINE a == rx.q[call.k + 1]
  <2>1. CASE \E f \in Named(a) :
               /\ Echoed(f)
               /\ call' = [call EXCEPT !.k = call.k + 1, !.done = call.done \cup {f},
                                       !.ret = "ok", !.out = Append(call.out, Result(f))]
    <3>1. PICK f \in Named(a) :
               /\ Echoed(f)
               /\ call' = [call EXCEPT !.k = call.k + 1, !.done = call.done \cup {f},
                                       !.ret = "ok", !.out = Append(call.out, Result(f))]
      BY <2>1
    <3>2. call'.done = call.done \cup {f} /\ call'.out = Append(call.out, Result(f))
      BY <3>1 DEF CallInv, CallTypes
    <3>3. f \in Range(call.frames) /\ f \notin call.done
      <4>1. PICK i \in 1 .. call.count : f = call.frames[i] BY DEF Named
      <4>2. i \in DOMAIN call.frames BY <4>1 DEF CallInv, CallTypes
      <4> QED BY <4>1, <4>2 DEF Named, Range
    <3>4. Result(f).fn = f.fn /\ Result(f).coded = f.fn
      <4>1. Result(f).fn = f.fn BY DEF Result
      <4> QED BY <3>1, <4>1 DEF Echoed
    <3>5. /\ call.out \in Seq(Range(call.out)) /\ call.done \subseteq Range(call.frames)
          /\ \A s \in Range(call.out) : s.coded = s.fn
          /\ \A i, j \in DOMAIN call.out : call.out[i].fn = call.out[j].fn => i = j
          /\ \A s \in Range(call.out) : \E g \in call.done : g.fn = s.fn
      BY <1>1 DEF OutInv, OutOwn
    <3> DEFINE out == Append(call.out, Result(f))
    <3>6. /\ out \in Seq(Range(out)) /\ Range(out) = Range(call.out) \cup {Result(f)}
          /\ Len(call.out) \in Nat /\ DOMAIN call.out = 1 .. Len(call.out)
          /\ DOMAIN out = 1 .. Len(call.out) + 1
          /\ \A i \in 1 .. Len(call.out) : out[i] = call.out[i]
          /\ out[Len(call.out) + 1] = Result(f)
      BY <3>5, AppendOut
    <3>7. \A i \in DOMAIN call.out : call.out[i].fn # f.fn
      <4> SUFFICES ASSUME NEW i \in DOMAIN call.out, call.out[i].fn = f.fn PROVE FALSE
        OBVIOUS
      <4>1. PICK g \in call.done : g.fn = call.out[i].fn BY <3>5 DEF Range
      <4>2. g \in Range(call.frames) BY <3>5
      <4>3. g = f BY <3>3, <4>1, <4>2 DEF OutInv, FramesDiffer
      <4> QED BY <3>3, <4>3
    <3> HIDE DEF out
    <3>8. ASSUME NEW i \in DOMAIN out, NEW j \in DOMAIN out, out[i].fn = out[j].fn
          PROVE  i = j
      <4>1. CASE i \in 1 .. Len(call.out) /\ j \in 1 .. Len(call.out)
        BY <3>5, <3>6, <3>8, <4>1
      <4>2. CASE i = Len(call.out) + 1 /\ j = Len(call.out) + 1 BY <4>2
      <4>3. CASE i \in 1 .. Len(call.out) /\ j = Len(call.out) + 1
        BY <3>4, <3>6, <3>7, <3>8, <4>3
      <4>4. CASE i = Len(call.out) + 1 /\ j \in 1 .. Len(call.out)
        BY <3>4, <3>6, <3>7, <3>8, <4>4
      <4> QED BY <3>6, <4>1, <4>2, <4>3, <4>4
    <3>9. \A s \in Range(out) : s.coded = s.fn BY <3>4, <3>5, <3>6
    <3>10. \A s \in Range(out) : \E g \in call.done \cup {f} : g.fn = s.fn
      BY <3>4, <3>5, <3>6
    <3>11. call'.out = out BY <3>2 DEF out
    <3>12. OutOwn' BY <1>1, <3>2, <3>3, <3>5, <3>6, <3>8, <3>9, <3>10, <3>11 DEF OutOwn
    <3> QED BY <1>2, <3>12 DEF OutInv
  <2>2. CASE \E r : BatchEnds("err", r) BY <1>4, <2>2
  <2> QED BY <1>7, <2>1, <2>2 DEF BatchCollect
<1> QED BY <1>5, <1>6, <1>7

\* Every step keeps the sixth layer.
LEMMA OutNext == ASSUME CallInv, BoundInv, AloneInv, OutInv, [Next]_vars PROVE OutInv'
<1>1. ASSUME call' = call PROVE OutInv' BY <1>1 DEF OutInv, OutOwn, FramesDiffer
<1>2. ASSUME NEW r, NEW op, NEW frames, Begin(r, op, frames),
             \A f, g \in Range(frames) : f.fn = g.fn => f = g
      PROVE  OutInv'
  <2>1. call'.out = << >> /\ call'.done = {} /\ call'.frames = frames
    BY <1>2 DEF Begin, IdleCall
  <2>2. OutOwn' BY <2>1, NoOut
  <2>3. FramesDiffer' BY <1>2, <2>1 DEF FramesDiffer
  <2> QED BY <2>2, <2>3 DEF OutInv
<1>3. CASE (\E b \in BFrames : EncStart(b)) \/ EndSession
  <2>1. call' = call \/ Begin(rx, "OPEN", << >>) \/ Begin(rx, "STOP", << >>)
    BY <1>3 DEF EncStart, EndSession
  <2>2. Range(<< >>) = {} BY DEF Range
  <2> QED BY <1>1, <1>2, <2>1, <2>2
<1>4. CASE EncEncode
  <2>1. PICK f : Begin(rx, "PROCESS", << f >>) BY <1>4 DEF EncEncode
  <2>2. Range(<< f >>) = {f} BY DEF Range
  <2> QED BY <1>2, <2>1, <2>2
<1>5. CASE EncBatch
  <2>1. PICK frames \in Seq(Frames), plan \in GopState :
          /\ EncEncodeBatch(frames, plan)
          /\ \A i, j \in DOMAIN frames : frames[i].fn = frames[j].fn => i = j
    BY <1>5, BatchBegins
  <2>2. Begin([rx EXCEPT !.nq = 0], "BATCH", frames) BY <2>1 DEF EncEncodeBatch
  <2>3. \A f, g \in Range(frames) : f.fn = g.fn => f = g BY <2>1 DEF Range
  <2> QED BY <1>2, <2>2, <2>3
<1>6. CASE CmdSend \/ CmdAnswered \/ CmdTimeout BY <1>6, OutCommands
<1>7. CASE BatchArm \/ BatchSend \/ BatchSent \/ BatchCollect \/ BatchTimeout \/ BatchDone
  BY <1>7, OutBatch
<1>8. CASE IpcRx \/ FwBegin \/ FwFrame \/ FwCommand \/ FwHang \/ UNCHANGED vars
  BY <1>1, <1>8 DEF IpcRx, FwBegin, FwFrame, FwCommand, FwHang, vars
<1> QED BY <1>3, <1>4, <1>5, <1>6, <1>7, <1>8 DEF Next

\* The last two layers hold at first.
LEMMA LastInit == ASSUME Init, CallInv PROVE AloneInv /\ OutInv
<1>1. Pending = 0
  <2>1. Tellings(toHost) = {} BY DEF Init, Tellings, Those
  <2>2. Cardinality(Tellings(toHost)) = 0 BY <2>1, FS_EmptySet
  <2>3. Len(fw.queue) = 0 /\ Busy = 0 /\ Cmd = 0 /\ rx.done = 0
    BY DEF Init, Busy, Cmd
  <2> QED BY <2>2, <2>3, HeldParts
<1>2. AloneInv BY <1>1 DEF Init, IdleCall, AloneInv, Alone, OneFrame
<1>3. << >> \in Seq(Range(<< >>)) /\ Range(<< >>) = {} /\ DOMAIN << >> = {} BY DEF Range
<1>4. call.out = << >> /\ call.frames = << >> /\ call.done = {} BY DEF Init, IdleCall
<1>5. OutInv BY <1>3, <1>4 DEF OutInv, FramesDiffer, OutOwn
<1> QED BY <1>2, <1>5

\* The layers give the type invariant.
LEMMA LayersType == ASSUME CallInv, BoundInv, OutInv PROVE TypeOK
<1>1. sess \in [open : BOOLEAN, bufs : BOOLEAN, hung : BOOLEAN, on : BOOLEAN,
                nb : BFrames \cup {0}, plan : GopState, frame_n : Nat,
                started : 0 .. MaxSessions, calls : 0 .. MostCalls]
  BY DEF CallInv, SessTypes, BoundInv, SessBound
<1>2. \A s : s \in Seq(Frame) => Range(s) \subseteq Frame BY DEF Range
<1>3. \A s : s \in Seq(AnswerSet) => Range(s) \subseteq AnswerSet BY DEF Range
<1>4. /\ call.pc \in {"idle", "arm", "wait", "send", "collect"}
      /\ call.op \in Ops \cup {"BATCH"} /\ call.ret \in {"ok", "err", "timeout"}
  BY DEF CallInv, CallTypes
<1>5. Range(call.frames) \subseteq Frame /\ call.done \subseteq Range(call.frames)
  BY <1>2 DEF BoundInv, FrameBound, OutInv, OutOwn
<1>6. call.k \in 0 .. call.count /\ call.count \in 0 .. Len(call.frames)
  BY DEF CallInv, CallTypes
<1>7. /\ rx.done \in Nat /\ rx.nq \in Nat /\ rx.batch \in BOOLEAN
      /\ rx.want \in ReplyIds \cup {"CONFIG_DONE"}
  BY DEF CallInv, RxTypes
<1>8. rx.buf \in AnswerSet /\ rx.q \in [1 .. RX_Q -> AnswerSet]
  BY DEF BoundInv, AnswerBound
<1>9. (\A i \in 0 .. CodedSlots - 1 : hdr[i].fn \in DROPPED .. MaxFn)
      /\ DOMAIN mem = 0 .. CodedSlots - 1
  BY DEF BoundInv, SlotBound
<1>10. fw.up \in BOOLEAN /\ fw.cmd \in Ops \cup {"NONE"} BY DEF CallInv, FwTypes
<1>11. Range(fw.queue) \subseteq Frame /\ \A b \in fw.busy : b.f \in Frame
  BY <1>2 DEF BoundInv, FrameBound
<1>12. Range(toHost) \subseteq AnswerSet BY <1>3 DEF BoundInv, AnswerBound
<1>13. faults \in 0 .. MaxFaults /\ own \in BOOLEAN BY DEF BoundInv, PastBound
<1> QED
  BY <1>1, <1>4, <1>5, <1>6, <1>7, <1>8, <1>9, <1>10, <1>11, <1>12, <1>13 DEF TypeOK

-----------------------------------------------------------------------------
\* The theorems.

\* The inductive invariant.
SessionInv == CallInv /\ StopInv /\ DueInv /\ BoundInv /\ AloneInv /\ OutInv

\* It holds at first.
LEMMA SessionInit == ASSUME Init PROVE SessionInv
<1>1. CallInv
  <2>1. SessTypes
    <3>1. ave_gop_init(1, 0) \in GopState BY DEF ave_gop_init, GopState, B_MAX
    <3> QED BY <3>1 DEF Init, SessTypes, B_MAX
  <2>2. CallTypes
    <3>1. << >> \in Seq(Frames) OBVIOUS
    <3> QED BY <3>1 DEF Init, CallTypes, IdleCall, Ops
  <2>3. RxTypes BY OpFacts DEF Init, RxTypes
  <2>4. FwTypes
    <3>1. << >> \in Seq(Frames) /\ << >> \in Seq(Answers) OBVIOUS
    <3> QED BY <3>1 DEF Init, FwTypes, NONE
  <2>5. CallPlace /\ StopIsLast BY DEF Init, IdleCall, CallPlace, StopIsLast
  <2> QED BY <2>1, <2>2, <2>3, <2>4, <2>5 DEF CallInv
<1>2. StopInv BY DEF Init, IdleCall, StopInv, StopTold, QuietHere, Quiet
<1>3. DueInv
  <2>1. Due = 0 BY DEF Init, IdleCall, Due
  <2>2. Armed /\ Hung BY DEF Init, IdleCall, Armed, Hung
  <2> QED BY <1>1, <2>1, <2>2, ComingTypes DEF DueInv
<1> QED BY <1>1, <1>2, <1>3, BoundInit, LastInit DEF SessionInv

\* The session's invariant holds in every state.
THEOREM SessionInvariant == Spec => []SessionInv
<1>1. Init => SessionInv BY SessionInit
<1>2. SessionInv /\ [Next]_vars => SessionInv'
  BY CallNext, StopNext, DueNext, BoundNext, AloneNext, OutNext DEF SessionInv
<1> QED BY <1>1, <1>2, PTL DEF Spec

\* The stream's buffers are freed only when the firmware has let go of every frame of
\* it: whatever went wrong before, ave_enc_stop frees nothing unless Stop was answered.
THEOREM SessionFreedIsQuiet == Spec => []FreedIsQuiet
<1>1. SessionInv => FreedIsQuiet
  BY DEF SessionInv, CallInv, CallPlace, StopInv, QuietHere, Quiet, FreedIsQuiet
<1> QED BY <1>1, SessionInvariant, PTL

\* A stream is given up as hung only when the firmware is down or keeps a frame that it
\* will not code: no answer to a Process is ever lost on the way.
THEOREM SessionHungIsTrue == Spec => []HungIsTrue
<1>1. SessionInv => HungIsTrue BY DEF SessionInv, DueInv, Hung, HungIsTrue
<1> QED BY <1>1, SessionInvariant, PTL

\* A result given to the caller is of the frame that its coded header names, and no
\* frame has two, whatever answers came late.
THEOREM SessionResultsOwn == Spec => []ResultsOwn
<1>1. SessionInv => ResultsOwn
  <2> SUFFICES ASSUME SessionInv PROVE ResultsOwn
    OBVIOUS
  <2>1. TypeOK BY LayersType DEF SessionInv
  <2>2. \A i, j \in DOMAIN call.out : call.out[i].fn = call.out[j].fn => i = j
    BY DEF SessionInv, OutInv, OutOwn
  <2>3. IsInjective(call.out) BY <2>2 DEF IsInjective
  <2> QED BY <2>1, <2>3 DEF SessionInv, OutInv, OutOwn, ResultsOwn
<1> QED BY <1>1, SessionInvariant, PTL
=============================================================================
