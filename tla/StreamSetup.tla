---------------------------- MODULE StreamSetup ----------------------------
(***************************************************************************)
(* How a client of the V4L2 node comes to a stream, changes it and starts  *)
(* the next (driver/ave_v4l2.c), down to the memory each stream publishes  *)
(* to the firmware (SessionBuffers) and the commands it is sent            *)
(* (Commands).  The ioctls of a file are serialised by dev_mutex, so each  *)
(* is one step; the run work is the Encode step.                           *)
(*                                                                         *)
(* A queue is the number of its buffers, their size, whether one is        *)
(* queued and whether it streams.  Colorimetry, the frame rate and the     *)
(* bitrate's value are left out; EncStream has the queues' contents,       *)
(* Session the exchange of commands and answers.                           *)
(***************************************************************************)
EXTENDS Commands

CONSTANTS
  Sizes,        \* what S_FMT(OUTPUT) and S_SELECTION may ask for: <<w, h>>
  Floors,       \* sizes S_FMT(CAPTURE) may ask for at least
  Settings,     \* <<control, value>>: what S_CTRL may set
  Labs,         \* module parameters of a start: "none", "mp" (final pass),
                \* "bufs" (macOS's buffers)
  TwoRefsWork,  \* ave_enc_two_refs_supported() for H.264
  Denied,       \* allocations the kernel may refuse
  MaxSets,      \* settings changed, and faults, before, between and in streams
  MaxBufs,      \* buffers of a queue that CREATE_BUFS still adds to
  MaxStarts,    \* sessions asked for
  MaxFaults,    \* allocations refused and commands not answered
  MaxFrames     \* frames of a stream

\* The controls' ranges, a level or a profile as ave_s_ctrl() stores it, where
\* the firmware has HEVC.
ControlRange ==
  [b_frames |-> 0 .. 2, p_refs |-> 1 .. 2, gop |-> 0 .. 65535, rc |-> BOOLEAN,
   profile |-> Profiles, level |-> {l \in Levels : l <= 52}, cabac |-> BOOLEAN,
   qp |-> 0 .. 51, qp_p |-> 0 .. 51, qp_b |-> 0 .. 51,
   qp_min |-> 0 .. 51, qp_max |-> 0 .. 51,
   main10 |-> BOOLEAN, hevc_level |-> HevcLevels,
   hevc_qp |-> 0 .. 51, hevc_qp_p |-> 0 .. 51, hevc_qp_b |-> 0 .. 51,
   hevc_qp_min |-> 0 .. 51, hevc_qp_max |-> 0 .. 51]

\* V4L2 gives a size as two unsigned numbers, a buffer's as one, and no
\* control a value out of its range.
ASSUME SizesAssumption == Sizes \subseteq Nat \X Nat
ASSUME FloorsAssumption == Floors \subseteq Nat
ASSUME SettingsAssumption ==
  \A s \in Settings :
    s[1] \in DOMAIN ControlRange /\ s[2] \in ControlRange[s[1]]
ASSUME BoundsAssumption ==
  {MaxSets, MaxBufs, MaxStarts, MaxFaults, MaxFrames} \subseteq Nat
\* TwoRefsWork is a fact of the SoC; a request names a table and an index.
ASSUME SocAssumption == TwoRefsWork \in BOOLEAN
ASSUME DeniedAssumption == Denied \subseteq Requests
ASSUME LabsAssumption == Labs \subseteq {"none", "mp", "bufs"}

VARIABLES
  fmt,      \* ctx: width, height, fourcc, codec, bytesperline, sizes, crop
  ctrl,     \* ctx: the controls
  q,        \* "out", "cap" |-> [n, size, queued, on]
  b,        \* ave->session_bufs
  told,     \* the memory the firmware was given and has not given back
  latched,  \* what the running session was started with, or NoSession
  client,   \* client_open
  fw_hung,
  refused,  \* why the last STREAMON that wanted a session got none
  cnt       \* bounds

vars == << fmt, ctrl, q, b, told, latched, client, fw_hung, refused, cnt >>

AVE_MIN_W == 192
AVE_MIN_H == 96
AVE_MAX_WH == 4096
NoSession == [bframes |-> 0]
Streaming == latched # NoSession
Other(t) == IF t = "out" THEN "cap" ELSE "out"
Busy(t) == q[t].n > 0

-----------------------------------------------------------------------------
(* Formats.                                                                *)

ave_clamp_size(s) == << Within(Align(s[1], 16), AVE_MIN_W, AVE_MAX_WH),
                        Within(Align(s[2], 16), AVE_MIN_H, AVE_MAX_WH) >>
ChromaRows(codec, h) == (IF codec = "HEVC" THEN Align(h, 64) ELSE h) \div 2
ave_out_size(codec, bpl, h) == bpl * h + bpl * ChromaRows(codec, h)
ave_cap_size(w, h) == Align((w * h * 3) \div 2 + 65536, 4096)
Bpl(w, p010) == Align(w, 64) * (IF p010 THEN 2 ELSE 1)

AVE_DEF_QP == 30
\* The controls' defaults; a QP of 0 follows another.  rc: FRAME_RC_ENABLE, in
\* VBR mode.
ave_init_ctrls ==
  [b_frames |-> 0, p_refs |-> 1, gop |-> 0, rc |-> FALSE,
   profile |-> 100, level |-> 40, cabac |-> TRUE,
   qp |-> AVE_DEF_QP, qp_p |-> 0, qp_b |-> 0, qp_min |-> 10, qp_max |-> 51,
   main10 |-> FALSE, hevc_level |-> 120,
   hevc_qp |-> AVE_DEF_QP, hevc_qp_p |-> 0, hevc_qp_b |-> 0,
   hevc_qp_min |-> 10, hevc_qp_max |-> 51]

\* ave_open()
Init ==
  /\ fmt = [w |-> 1280, h |-> 720, p010 |-> FALSE, codec |-> "H264",
            bpl |-> 1280, out_size |-> ave_out_size("H264", 1280, 720),
            cap_size |-> ave_cap_size(1280, 720), crop |-> << 1280, 720 >>]
  /\ ctrl = ave_init_ctrls
  /\ q = [t \in {"out", "cap"} |->
            [n |-> 0, size |-> 0, queued |-> FALSE, on |-> FALSE]]
  /\ b = AfterConfig
  /\ told = Live(AfterConfig)
  /\ latched = NoSession
  /\ client = FALSE /\ fw_hung = FALSE
  /\ refused = "no"
  /\ cnt = [sets |-> 0, starts |-> 0, faults |-> 0, frames |-> 0]

Memory == << b, told, latched, client, fw_hung, refused >>
Set == /\ cnt.sets + cnt.faults < MaxSets
       /\ cnt' = [cnt EXCEPT !.sets = @ + 1]
       /\ UNCHANGED Memory

\* The fields S_FMT(OUTPUT) fills from the size and the fourcc asked for;
\* colorimetry aside.
OutFmt(s, p010) ==
  LET z == ave_clamp_size(s)
  IN  [fmt EXCEPT !.w = z[1], !.h = z[2], !.p010 = p010,
         !.bpl = Bpl(z[1], p010),
         !.out_size = ave_out_size(fmt.codec, Bpl(z[1], p010), z[2]),
         !.crop = z,
         !.cap_size = Max({@, ave_cap_size(z[1], z[2])})]
\* P010 means Main 10; a client that wants another profile sets it after.
ProfileAfter(p010) == IF p010 THEN [ctrl EXCEPT !.main10 = TRUE] ELSE ctrl
SFmtOut(s, p010) ==
  /\ ~Busy("out")
  /\ fmt' = OutFmt(s, p010)
  /\ ctrl' = ProfileAfter(p010)
  /\ Set /\ UNCHANGED q

\* S_FMT(CAPTURE): a new codec resizes the OUTPUT buffers, so there must be
\* none; H.264 does not take P010.  The size asked for is a floor.
CodecFreeBug == TRUE
MayChangeCodec == ~Busy("out")
KeepsLinesBug(p010) == fmt.bpl
LinesAfter(p010) == IF fmt.p010 /\ ~p010 THEN Align(fmt.w, 64) ELSE fmt.bpl
CapFmt(codec, floor) ==
  LET p010 == fmt.p010 /\ codec = "HEVC"
      bpl == LinesAfter(p010)
      cap == Max({floor, ave_cap_size(fmt.w, fmt.h)})
  IN  IF codec = fmt.codec THEN [fmt EXCEPT !.cap_size = cap]
      ELSE [fmt EXCEPT !.codec = codec, !.p010 = p010, !.bpl = bpl,
                       !.out_size = ave_out_size(codec, bpl, fmt.h),
                       !.cap_size = cap]
SFmtCap(codec, floor) ==
  /\ ~Busy("cap")
  /\ codec # fmt.codec => MayChangeCodec
  /\ fmt' = CapFmt(codec, floor)
  /\ Set /\ UNCHANGED << ctrl, q >>

\* S_SELECTION(CROP): less than a macroblock off the right and the bottom.
Crop(s) ==
  << Within(Align(s[1], 2), Max({AVE_MIN_W, Align(fmt.w, 16) - 14}), fmt.w),
     Within(Align(s[2], 2), Max({AVE_MIN_H, Align(fmt.h, 16) - 14}), fmt.h) >>
SSelection(s) ==
  /\ ~q["out"].on
  /\ fmt' = [fmt EXCEPT !.crop = Crop(s)]
  /\ Set /\ UNCHANGED << ctrl, q >>

\* S_CTRL: at any time; STREAMON latches.
SCtrl ==
  /\ \E s \in Settings : ctrl' = [ctrl EXCEPT ![s[1]] = s[2]]
  /\ ctrl' # ctrl
  /\ Set /\ UNCHANGED << fmt, q >>

-----------------------------------------------------------------------------
(* Buffers.                                                                *)

Size(t) == IF t = "out" THEN fmt.out_size ELSE fmt.cap_size
\* ave_queue_setup() for REQBUFS: a B stream's buffers.
Enough(t, nb) == IF t = "out" THEN nb + 2 ELSE nb + 1
Granted(t, n) ==
  IF ctrl.b_frames = 0 THEN n ELSE Max({n, Enough(t, ctrl.b_frames)})

\* REQBUFS; 0 gives the buffers back.
ReqBufs(t, n) ==
  /\ ~q[t].on
  /\ q' = [q EXCEPT ![t] = [n |-> IF n = 0 THEN 0 ELSE Granted(t, n),
                            size |-> IF n = 0 THEN 0 ELSE Size(t),
                            queued |-> FALSE, on |-> FALSE]]
  /\ UNCHANGED << fmt, ctrl, cnt, Memory >>

\* CREATE_BUFS of one more buffer of the format's size; the queue's size is
\* its smallest buffer's.
CreateBufs(t) ==
  /\ q[t].n < MaxBufs
  /\ q' = [q EXCEPT ![t].n = @ + 1,
                    ![t].size = IF q[t].n = 0 THEN Size(t) ELSE Min({@, Size(t)})]
  /\ UNCHANGED << fmt, ctrl, cnt, Memory >>

\* QBUF: ave_buf_prepare() wants the format's size.
Qbuf(t) ==
  /\ Busy(t) /\ ~q[t].queued
  /\ q[t].size >= Size(t)
  /\ q' = [q EXCEPT ![t].queued = TRUE]
  /\ UNCHANGED << fmt, ctrl, cnt, Memory >>

-----------------------------------------------------------------------------
(* Sessions.                                                               *)

\* ave_latch_bframes()
BaselineTooBug == ctrl.b_frames
LatchedB ==
  LET nb == ctrl.b_frames
  IN  IF fmt.codec = "H264" /\ (ctrl.profile = 66 \/ ~TwoRefsWork) THEN 0
      ELSE IF nb > 0 /\ ctrl.gop > 0 /\ ctrl.gop < nb + 2
        THEN IF ctrl.gop >= 3 THEN ctrl.gop - 2 ELSE 0
      ELSE nb

AVE_B_QP_OFFSET == 3
\* struct ave_enc_cfg, as ave_start_streaming() fills it, and what the lab's
\* parameters add.
EncCfg(lab) ==
  LET hevc == fmt.codec = "HEVC"
      qp == IF hevc THEN ctrl.hevc_qp ELSE ctrl.qp
      qp_b == IF hevc THEN ctrl.hevc_qp_b ELSE ctrl.qp_b
  IN  [codec |-> fmt.codec, w |-> fmt.w, h |-> fmt.h, crop |-> fmt.crop,
       qp |-> qp, qp_p |-> IF hevc THEN ctrl.hevc_qp_p ELSE ctrl.qp_p,
       qp_b |-> IF LatchedB > 0 /\ qp_b = 0
                  THEN Min({qp + AVE_B_QP_OFFSET, 51}) ELSE qp_b,
       qp_min |-> IF hevc THEN ctrl.hevc_qp_min ELSE ctrl.qp_min,
       qp_max |-> IF hevc THEN ctrl.hevc_qp_max ELSE ctrl.qp_max,
       rc |-> ctrl.rc, slots |-> AVE_SESS_FRAMES_MAX,
       profile |-> IF hevc THEN 0 ELSE ctrl.profile,
       main10 |-> hevc /\ ctrl.main10, p010 |-> hevc /\ fmt.p010,
       level |-> IF hevc THEN ctrl.hevc_level ELSE ctrl.level,
       cabac |-> ~hevc /\ ctrl.cabac,
       bframes |-> LatchedB,
       p_refs |-> IF ~hevc /\ ~TwoRefsWork THEN 1 ELSE ctrl.p_refs,
       mp |-> IF lab = "mp" THEN 2 ELSE 0, bufs |-> lab = "bufs" /\ ~hevc]

\* What ave_enc_start() does not take.
EncRefuses(cfg) ==
  \/ cfg.w \notin AVE_MIN_W .. AVE_MAX_WH \/ cfg.h \notin AVE_MIN_H .. AVE_MAX_WH
  \/ cfg.w % 2 = 1 \/ cfg.h % 2 = 1
  \/ \E qp \in {cfg.qp, cfg.qp_p, cfg.qp_b, cfg.qp_min, cfg.qp_max} : qp > 51
  \/ cfg.bframes > 2 \/ cfg.p_refs > 2
  \/ cfg.codec = "H264" /\ \/ cfg.bframes > 0 /\ cfg.profile < 77
                           \/ TwoRefs(cfg) /\ ~TwoRefsWork

\* A final pass needs H.264 in bitrate mode.
PassRefused(cfg) == cfg.mp = 2 /\ (cfg.codec = "HEVC" \/ ~cfg.rc)

\* ave_enc_start() up to Start, from the tables on: [b, ok].
Built(codec, cfg) ==
  [b |-> codec.b,
   ok |-> codec.ok /\ RefsSuffice(codec.b, cfg) /\ BuilderAccepts(codec.b, cfg)]
Filled(prep, cfg, deny) ==
  IF prep.ok THEN Built(WithCodec(prep.b, cfg, deny), cfg) ELSE prep
ave_session_start(tables, cfg, deny) ==
  IF PassRefused(cfg) THEN [b |-> tables, ok |-> FALSE]
  ELSE Filled(ave_session_start_prep(tables, cfg, deny), cfg, deny)
Prepared(opened, cfg, deny) ==
  ave_session_start(ave_session_alloc_dpb(
               ave_session_alloc_entropy(
                 ave_session_alloc_nbr(opened, deny), deny), cfg, deny),
             cfg, deny)

\* ave_enc_stop(): Stop and Close answered, or not and nothing is freed.
FreesAnywayBug(bufs, closes) == Forget(ave_sess_free_to(bufs))
AfterStop(bufs, closes) ==
  IF closes THEN Forget(ave_sess_free_to(bufs)) ELSE bufs
Stop(bufs, given, closes) ==
  /\ b' = AfterStop(bufs, closes)
  /\ told' = IF closes THEN Live(AfterConfig) ELSE given
  /\ client' = ~closes
  /\ latched' = NoSession

\* What a step spends of the bounds.
Spend(faults, start, frame) ==
  /\ cnt.faults + faults <= MaxFaults
  /\ cnt.sets + cnt.faults + faults <= MaxSets
  /\ cnt.starts + start <= MaxStarts
  /\ cnt' = [cnt EXCEPT !.faults = @ + faults, !.starts = @ + start,
                        !.frames = IF start = 1 THEN 0 ELSE @ + frame]
Denials == {{}} \cup {{r} : r \in {d \in Denied : /\ cnt.faults < MaxFaults
                                              /\ cnt.sets + cnt.faults < MaxSets}}

StreamOnFirst(t) ==
  /\ Busy(t) /\ ~q[t].on /\ ~q[Other(t)].on
  /\ q' = [q EXCEPT ![t].on = TRUE]
  /\ UNCHANGED << fmt, ctrl, cnt, Memory >>

\* The second queue starts the session, or is not started either.
Second(t) == Busy(t) /\ ~q[t].on /\ q[Other(t)].on
Unfit == fmt.p010 /\ fmt.codec = "H264"

StreamOnRefused(t) ==
  /\ Second(t)
  /\ Unfit \/ fw_hung \/ client \/ EncRefuses(EncCfg("none"))
  /\ refused' = IF Unfit THEN "format" ELSE IF fw_hung THEN "hung"
                ELSE IF client THEN "busy" ELSE "settings"
  /\ UNCHANGED << fmt, ctrl, q, b, told, latched, client, fw_hung, cnt >>

Opened(deny) ==
  ave_sess_ipc_alloc([b EXCEPT !.stream = @ + 1], <<"open", 0>>, deny)

Opens(t) == /\ Second(t) /\ ~Unfit /\ ~fw_hung /\ ~client
            /\ ~EncRefuses(EncCfg("none")) /\ cnt.starts < MaxStarts

\* Open is not sent for want of memory, or the firmware does not answer it.
\* Nothing is freed.
OpenFails(t) ==
  /\ Opens(t)
  /\ \E deny \in Denials :
       LET sent == Has(Opened(deny), <<"open", 0>>)
       IN  /\ sent => deny = {}
           /\ b' = Opened(deny)
           /\ refused' = IF sent THEN "firmware"
                         ELSE IF deny # {} THEN "memory" ELSE "slots"
           /\ Spend(Cardinality(deny) + Bit(sent), 1, 0)
  /\ UNCHANGED << fmt, ctrl, q, told, latched, client, fw_hung >>

\* Why a session that was asked for did not start.
Reason(p, cfg, deny) ==
  IF p.ok THEN "firmware"
  ELSE IF PassRefused(cfg) THEN "pass"
  ELSE IF deny # {} THEN "memory"
  ELSE IF ~BuilderAccepts(p.b, cfg) THEN "settings"
  ELSE "slots"

\* Open answered; the tables, Start and its answer.  A refusal is of an
\* allocation that is asked for.
AsksFor(cfg, deny) == \A r \in deny : Has(Prepared(Opened({}), cfg, {}).b, r)
Started(t, p, cfg) ==
  /\ b' = p.b /\ told' = told \cup PublishedAtStart(p.b) /\ client' = TRUE
  /\ latched' = cfg
  /\ q' = [q EXCEPT ![t].on = TRUE]
  /\ refused' = "no"
StartSession(t) ==
  /\ Opens(t)
  /\ \E lab \in Labs : \E cfg \in {EncCfg(lab)}, deny \in Denials :
       /\ Has(Opened(deny), <<"open", 0>>) /\ AsksFor(cfg, deny)
       /\ \E p \in {Prepared(Opened(deny), cfg, deny)}, answered, closes \in BOOLEAN :
            /\ p.ok \/ answered   \* nothing sent, nothing to answer
            /\ p.ok /\ answered => closes
            /\ Spend(Cardinality(deny) + Bit(~answered) + Bit(~closes), 1, 0)
            /\ \/ p.ok /\ answered /\ Started(t, p, cfg)
               \/ /\ ~(p.ok /\ answered)
                  /\ Stop(p.b, told \cup (IF p.ok THEN PublishedAtStart(p.b) ELSE {}), closes)
                  /\ refused' = Reason(p, cfg, deny) /\ UNCHANGED q
  /\ UNCHANGED << fmt, ctrl, fw_hung >>

\* The types a stream's frame n may be asked for: <<type, force_idr>>.
Asked(cfg, n) ==
  IF cfg.bframes = 0 THEN {<< Default, FALSE >>, << Default, n > 0 >>}
  ELSE IF n = 0 THEN {<< "IDR", FALSE >>}
  ELSE {"IDR", "P", "B"} \X {FALSE}
\* Frame n's Process command, asked for like that, in the buffers bufs.
Process(bufs, n, a) ==
  ProcessCommand(bufs, latched, n,
                 ProcessType(bufs, latched, n, a[1], a[2]), fmt.bpl)

\* One frame of the run work: Process built and sent; its answer, or none.
Encode ==
  \E deny \in Denials, answered \in BOOLEAN, a \in Asked(latched, cnt.frames) :
    LET n == cnt.frames
        idx == n % AVE_SESS_FRAMES_MAX
        p == ave_session_process_build(b, idx, deny)
        cmd == Process(p.b, n, a)
        sent == p.ok /\ AcceptsProcess(cmd)
    IN  /\ Streaming /\ ~fw_hung
        /\ q["out"].queued /\ q["cap"].queued
        /\ n < MaxFrames
        /\ sent \/ answered
        /\ deny # {} => ~p.ok
        /\ b' = [p.b EXCEPT !.last_idr =
                           IF p.ok /\ cmd.codec = "HEVC" /\ cmd.type = "IDR"
                             THEN n ELSE @]
        /\ told' = IF sent THEN told \cup PublishedInProcess(p.b, idx) ELSE told
        /\ fw_hung' = ~answered
        /\ refused' = IF sent \/ deny # {} THEN refused
                      ELSE IF p.ok THEN "settings" ELSE "slots"
        /\ Spend(Cardinality(deny) + Bit(~answered), 0, Bit(sent /\ answered))
        /\ UNCHANGED << fmt, ctrl, q, latched, client >>

\* STREAMOFF of either queue ends the session; a hung firmware is not asked.
StreamOff(t) ==
  /\ q[t].on
  /\ q' = [q EXCEPT ![t].on = FALSE, ![t].queued = FALSE]
  /\ IF ~Streaming
       THEN UNCHANGED << b, told, latched, client, cnt >>
     ELSE IF fw_hung
       THEN latched' = NoSession /\ UNCHANGED << b, told, client, cnt >>
     ELSE \E closes \in BOOLEAN :
            Stop(b, told, closes) /\ Spend(Bit(~closes), 0, 0)
  /\ UNCHANGED << fmt, ctrl, fw_hung, refused >>

\* A system sleep resets the core under a context that lost its session:
\* ave_release_all(), and ave_enc_init() at the next boot.
Reboot ==
  /\ ~Streaming /\ (fw_hung \/ client)
  /\ b' = AfterConfig
  /\ told' = Live(AfterConfig)
  /\ client' = FALSE /\ fw_hung' = FALSE
  /\ UNCHANGED << fmt, ctrl, q, latched, refused, cnt >>

Next ==
  \/ \E s \in Sizes, p010 \in BOOLEAN : SFmtOut(s, p010)
  \/ \E codec \in {"H264", "HEVC"}, floor \in Floors : SFmtCap(codec, floor)
  \/ \E s \in Sizes : SSelection(s)
  \/ SCtrl
  \/ \E t \in {"out", "cap"} :
       \/ \E n \in 0 .. 1 : ReqBufs(t, n)
       \/ CreateBufs(t) \/ Qbuf(t)
       \/ StreamOnFirst(t) \/ StreamOnRefused(t) \/ OpenFails(t)
       \/ StartSession(t) \/ StreamOff(t)
  \/ Encode
  \/ Reboot

Spec == Init /\ [][Next]_vars

-----------------------------------------------------------------------------
(* What must hold.                                                         *)

\* Everything the firmware was given to read, write or run, and has not
\* given back, is still allocated: no Start or Process names memory of a
\* stream that is over, and nothing is freed under a client that did not
\* close (ave_session.c:4872, "pic_recon dangled in f60").
PublishedIsLive == told \subseteq Live(b)

\* While a session runs, the context the run work and G_FMT read is the
\* picture the session was started with.  Its lines hold a whole row, its
\* planes, luma at the buffer's start and chroma at bytesperline * height,
\* each as long as the codec reads it, lie in the OUTPUT buffer; and what a
\* decoder shows, the coded size less the crop of the SPS, is what the client
\* selected: less than a macroblock off the picture.
SessionGeometry ==
  Streaming =>
    /\ << fmt.w, fmt.h, fmt.crop, fmt.codec, fmt.p010 >>
         = << latched.w, latched.h, latched.crop, latched.codec, latched.p010 >>
    /\ fmt.bpl = Bpl(latched.w, latched.p010)
    /\ q["out"].queued =>
         q["out"].size >=
           fmt.bpl * (latched.h + ChromaRows(latched.codec, latched.h))
    /\ LET s == StartCommand(b, latched)
       IN  \A i \in 1 .. 2 :
             /\ s.vp.size[i] - 2 * s.crop[i] = fmt.crop[i]
             /\ 2 * s.crop[i] \in 0 .. 15

\* Whatever a client set, in whatever order, the session it asks for is not
\* refused for its settings (P010 with H.264 aside, which STREAMON says), nor
\* for want of a place in the driver's own tables; and a stream that started
\* can build every command it will ever send: each type of frame passes the
\* builder in each coded slot, and the tables of DMA and of command buffers
\* have room for what it has yet to ask.
NegotiatedStarts ==
  /\ refused \notin {"settings", "slots"}
  /\ Streaming =>
       /\ Len(b.ipc) + Cardinality({i \in Slots : b.proc[i] = None})
            <= AVE_SESS_MAX_IPC
       /\ Len(b.dma) + Bit(b.pic = None) <= AVE_SESS_MAX_DMA
       /\ \A n \in 0 .. AVE_SESS_FRAMES_MAX : \A a \in Asked(latched, n) :
            AcceptsProcess(Process(b, n, a))

\* References: the DPB has a slot beside them, the HEVC firmware is told of an
\* inter session, two references of a P frame come with the distance and the
\* second search unit they need, and no set names more pictures than fit.
ReferencesFit(s) ==
  /\ s.vp.tables.n_recon > s.refs
  /\ s.codec = "HEVC" => s.vp.key_interval # 1
  /\ s.ref_spacing = 2 <=>
       latched.p_refs = 2 /\ ~(s.codec = "HEVC" /\ latched.bframes > 0)
  /\ TwoRefs(latched) => s.refs >= 2 /\ s.vp.multi_me = 1
  /\ \A i \in DOMAIN s.sets : Cardinality(s.sets[i]) <= s.refs
\* B frames: the stream says that it reorders, its profile has them, and the
\* rate controller budgets for them.
ReorderFits(s) ==
  latched.bframes > 0 =>
    /\ s.reorders /\ s.refs >= 2
    /\ s.codec = "H264" => s.profile # 66
    /\ s.codec = "HEVC" \/ s.vp.rc => s.bframes = latched.bframes
\* The profile is one its tools belong to; the depth is the source's.
ToolsFit(s) ==
  /\ s.codec = "H264" /\ s.profile = 66 => ~s.entropy_coding_mode /\ ~s.mode_8x8
  /\ (s.vp.src_cfg = 1) <=> (s.input_bitdepth = 10)
  /\ s.bit_depth = 10 => s.codec = "HEVC" /\ s.profile = 2
\* Process and Start agree on the tables the firmware rebuilds one from; and
\* a frame that names a set of references names one the SPS has.
ProcessFits(s) ==
  \A n \in 0 .. 1 : \A a \in Asked(latched, n) :
    LET f == ProcessWire(Process(b, n, a))
    IN  /\ f.head.codec = s.codec /\ f.pic.out_index < s.vp.tables.n_coded
        /\ << f.pic.n_entropy, f.pic.n_entropy_cols, f.pic.n_src_nbr >>
             = << s.vp.tables.n_entropy, s.vp.tables.n_entropy_cols,
                  s.vp.tables.n_src_nbr >>
        /\ f.pic.in_stride
             = Align(latched.w, 64) * (IF s.input_bitdepth = 10 THEN 2 ELSE 1)
        /\ f.pic.type = "AUTO" <=> s.vp.mp_pass = 2
        /\ f.pic.type = "AUTO" => s.vp.key_interval > 1 /\ s.vp.rc
        /\ f.st_rps_sps_flag => s.sets # << >>

\* A running stream was started with a command whose parts fit each other,
\* by what the driver's comments say the firmware asserts, hangs on or codes
\* wrongly: each is set in another place, from controls set in any order
\* (driver/ave_session.c:2779, 2561, 2570, 4105).
FirmwareTakesIt ==
  Streaming =>
    LET s == StartCommand(b, latched)
    IN  /\ ReferencesFit(s) /\ ReorderFits(s) /\ ToolsFit(s) /\ ProcessFits(s)
        /\ s.vp.qp_limits[1] <= s.vp.qp_limits[2] /\ s.vp.qp_limits[2] <= 51
=============================================================================
