------------------------------ MODULE Commands ------------------------------
(***************************************************************************)
(* The Start and Process commands of a stream: what driver/ave_session.c   *)
(* takes from the stream's configuration and tables, what the builders of  *)
(* driver/ave_cmd.c refuse, and what they put on the wire.                 *)
(*                                                                         *)
(* A command is a record of what the firmware reads from it.  Addresses    *)
(* are SessionBuffers' regions, of which a command here has only the       *)
(* counts; their alignment, the lambda tables, the timeouts, the lab       *)
(* parameters (but the final pass and macOS's buffers) and what is the     *)
(* same in every command are left out.  The limits are the 13.5 ABI's.     *)
(***************************************************************************)
EXTENDS Integers, SessionBuffers, HevcSets

recon_max == 16
coded_max == 20
entropy_max == 4
entropy_cols_max == 4
hevc_entropy_rows == 2
src_nbr_max == 4
transcoded_max == 2
AVE_DPB_MAX == 17
AVE_LOW_RES_RESULT_MAX == 4
process_slot == 21
max_slot == 41
MpFrames == 2       \* mp_frames: records of the final pass's table

session_qp_min == 10
session_qp_max == 51
AVE_SESS_HEVC_IDR_PERIOD == 30

Bit(p) == IF p THEN 1 ELSE 0
Within(v, lo, hi) == Max({lo, Min({v, hi})})
Align(x, a) == ((x + a - 1) \div a) * a
ave_mb_align(x) == Align(x, 16)
Coded(s) == << ave_mb_align(s[1]), ave_mb_align(s[2]) >>
Or(v, default) == IF v # 0 THEN v ELSE default

-----------------------------------------------------------------------------
(* The half of Start that the codecs share: struct ave_avc_session as      *)
(* ave_session_start_prep() fills it.                                      *)

QpLimits(cfg) ==
  LET lo == Min({IF cfg.qp_max # 0 THEN cfg.qp_min ELSE session_qp_min, 51})
  IN  << lo, Within(Or(cfg.qp_max, session_qp_max), lo, 51) >>

EntropyRows(cfg) == IF cfg.codec = "HEVC" THEN hevc_entropy_rows ELSE entropy_max

\* Each table is whole or left out.
TablesOf(b, cfg) ==
  [n_recon |-> b.n_dpb,
   n_low_res_ref |-> IF b.low = None THEN 0 ELSE b.n_dpb,
   n_low_res_result |-> IF b.res = None THEN 0 ELSE AVE_LOW_RES_RESULT_MAX,
   n_colocated |-> Cardinality(b.coloc),
   n_entropy |-> IF b.entropy = None THEN 0 ELSE EntropyRows(cfg),
   n_entropy_cols |-> IF b.entropy = None THEN 0 ELSE entropy_cols_max,
   n_coded |-> Cardinality({r \in b.coded : r.of = "coded"}),
   n_src_nbr |-> IF b.nbr = None THEN 0 ELSE src_nbr_max]

VideoParams(b, cfg) ==
  LET qp_p == Or(cfg.qp_p, cfg.qp)
      lim == QpLimits(cfg)
  IN  [size |-> << cfg.w, cfg.h >>, crop |-> cfg.crop,
       rc_enable |-> cfg.rc, qp |-> << cfg.qp, qp_p, Or(cfg.qp_b, qp_p) >>,
       qp_min |-> lim[1], qp_max |-> lim[2],
       key_interval |-> IF cfg.mp = 2 THEN Max({2 * MpFrames, 2}) ELSE 1,
       src_cfg_byte |-> Bit(cfg.p010), multi_me |-> Bit(TwoRefs(cfg)),
       mp_pass |-> cfg.mp, tables |-> TablesOf(b, cfg)]

\* ave_vp_check()
ave_vp_check(s) ==
  /\ s.size[1] \in 192 .. 4096 /\ s.size[2] \in 96 .. 4096
  /\ \A i \in 1 .. 2 : s.size[i] % 2 = 0
  /\ s.key_interval # 0
  /\ \A i \in 1 .. 3 : s.qp[i] <= 51
  /\ s.qp_min <= 51 /\ s.qp_max <= 51 /\ (s.qp_max # 0 => s.qp_min <= s.qp_max)
  /\ s.mp_pass <= 2
  /\ LET t == s.tables
     IN  /\ t.n_recon \in 1 .. recon_max
         /\ t.n_coded \in 1 .. coded_max
         /\ {t.n_colocated, t.n_low_res_ref} \subseteq {0, t.n_recon}
         /\ t.n_recon <= AVE_DPB_MAX
         /\ t.n_low_res_result <= AVE_LOW_RES_RESULT_MAX
         /\ t.n_entropy <= entropy_max /\ t.n_entropy_cols <= entropy_cols_max
         /\ t.n_src_nbr <= src_nbr_max

\* The QP limits go on the wire only under rate control.
WireLimits(s) == IF s.rc_enable THEN << s.qp_min, s.qp_max >> ELSE << 0, 51 >>
\* The tables' entries: a row of entropy buffers has one column at least.
WireTables(t) ==
  [t EXCEPT !.n_entropy_cols = IF t.n_entropy > 0 THEN Or(@, 1) ELSE 0]
\* ave_vp_fill()
ave_vp_fill(s) ==
  [size |-> Coded(s.size), rc |-> s.rc_enable, qp |-> s.qp,
   qp_limits |-> WireLimits(s), key_interval |-> s.key_interval,
   src_cfg |-> s.src_cfg_byte, multi_me |-> s.multi_me, mp_pass |-> s.mp_pass,
   tables |-> WireTables(s.tables)]

\* Half the coded size past the crop, right and bottom: chroma samples.
CropOff(s) == << (ave_mb_align(s.size[1]) - s.crop[1]) \div 2,
                 (ave_mb_align(s.size[2]) - s.crop[2]) \div 2 >>

-----------------------------------------------------------------------------
(* H.264.                                                                  *)

Profiles == {66, 77, 100}
Levels == {10, 11, 12, 13, 20, 21, 22, 30, 31, 32, 40, 41, 42, 50, 51, 52,
           60, 61, 62}
ave_level_for(s) ==
  LET mbs == (Coded(s)[1] \div 16) * (Coded(s)[2] \div 16)
  IN  IF mbs <= 8192 THEN 40 ELSE IF mbs <= 8704 THEN 42
      ELSE IF mbs <= 22080 THEN 50 ELSE IF mbs <= 36864 THEN 51 ELSE 52

\* MAX_REFS: what the DPB leaves beside the picture being coded.
MaxRefs(b) == IF b.n_dpb > 2 THEN b.n_dpb - 1 ELSE 1

PocType2Bug(cfg) == FALSE
\* Type 2 cannot code a reordered picture.
poc_type0(cfg) == cfg.bframes > 0

OneColumn(tables) ==
  [tables EXCEPT !.n_entropy_cols = IF tables.n_entropy > 0 THEN 1 ELSE @]

\* ave_session_start_avc(), once its memory is there.
AvcSession(b, cfg) ==
  LET vp == VideoParams(b, cfg)
  IN  [vp |-> IF cfg.bufs THEN [vp EXCEPT !.tables = OneColumn(@)] ELSE vp,
       profile_idc |-> Or(cfg.profile, 66),
       level_idc |-> Within(Max({ave_level_for(vp.size), cfg.level}), 10, 52),
       n_transcoded |-> IF cfg.bufs THEN transcoded_max ELSE 0,
       cabac |-> cfg.cabac /\ cfg.profile # 66,
       poc_type0 |-> poc_type0(cfg),
       ref_spacing_p |-> IF cfg.p_refs >= 2 THEN 2 ELSE 0,
       bframes |-> IF cfg.rc THEN cfg.bframes ELSE 0,
       max_refs |-> MaxRefs(b)]

\* The checks of ave_cmd_build_start_avc().
AcceptsAvc(s) ==
  /\ ave_vp_check(s.vp)
  /\ s.profile_idc \in Profiles /\ s.level_idc \in Levels
  /\ ~(s.profile_idc = 66 /\ s.cabac)
  /\ s.max_refs <= 4
  /\ s.bframes <= 2 /\ ~(s.bframes > 0 /\ s.profile_idc = 66)
  /\ s.n_transcoded \in {0, transcoded_max}

\* And what it writes.  A set of references is HEVC's.
ave_cmd_build_start_avc(s) ==
  [codec |-> "H264", vp |-> ave_vp_fill(s.vp),
   profile |-> s.profile_idc, level |-> s.level_idc, compat |-> {},
   bit_depth |-> 8,
   input_bitdepth |-> 8, crop |-> CropOff(s.vp),
   reorders |-> s.poc_type0, refs |-> Or(s.max_refs, 1), sets |-> << >>,
   ref_spacing |-> s.ref_spacing_p, bframes |-> s.bframes,
   entropy_coding_mode |-> s.cabac, mode_8x8 |-> s.profile_idc >= 100,
   transcoded |-> s.n_transcoded]

-----------------------------------------------------------------------------
(* HEVC.                                                                   *)

HevcLevels == {30, 60, 63, 90, 93, 120, 123, 150, 153, 156, 180, 183, 186}
ave_hevc_level_for(s) ==
  LET ps == Coded(s)[1] * Coded(s)[2]
  IN  IF ps <= 2228224 THEN 120 ELSE IF ps <= 8912896 THEN 150 ELSE 180

\* hevc_refs
HevcRefs(b, cfg) ==
  IF b.n_dpb < 2 THEN 0
  ELSE Within(IF TwoRefs(cfg) THEN 2 ELSE 1, 1, b.n_dpb - 1)

\* n_st_rps
StRps(b, cfg) ==
  IF cfg.bframes > 0 THEN ave_hevc_b_sets(cfg.bframes)
  ELSE IF HevcRefs(b, cfg) > 0 THEN IPPP_SETS ELSE 0

AllIntraBug(key_interval, refs) == key_interval
\* ui32IdrPeriod 1 is an all-intra session to the HEVC firmware.
IdrPeriod(key_interval, refs) ==
  IF key_interval = 1 /\ refs > 0 THEN AVE_SESS_HEVC_IDR_PERIOD
  ELSE key_interval

\* ave_session_start_hevc(), once its memory is there.
HevcSession(b, cfg) ==
  LET vp == VideoParams(b, cfg)
      refs == HevcRefs(b, cfg)
  IN  [vp |-> [vp EXCEPT !.key_interval = IdrPeriod(@, refs)],
       level_idc |-> Max({ave_hevc_level_for(vp.size), cfg.level}),
       ref_spacing_p |-> IF cfg.p_refs >= 2 /\ cfg.bframes = 0 THEN 2 ELSE 0,
       bit_depth |-> IF cfg.main10 THEN 10 ELSE 8,
       input_bitdepth |-> IF cfg.p010 THEN 10 ELSE 8,
       max_num_ref_frames |-> refs, n_st_rps |-> StRps(b, cfg),
       st_rps_refs |-> IF refs >= 2 THEN 2 ELSE 1, bframes |-> cfg.bframes,
       n_transcoded |-> Cardinality(b.xc)]

\* The checks of ave_cmd_build_start_hevc().
AcceptsHevc(h) ==
  /\ ave_vp_check(h.vp)
  /\ h.level_idc \in HevcLevels
  /\ h.bframes <= 2
  /\ IF h.bframes > 0
       THEN /\ h.n_st_rps = ave_hevc_b_sets(h.bframes)
            /\ h.max_num_ref_frames >= 2
            /\ h.vp.key_interval # 1
       ELSE h.n_st_rps <= IPPP_SETS
  /\ h.n_st_rps > 0 => h.max_num_ref_frames > 0
  /\ h.st_rps_refs = 2 => h.max_num_ref_frames >= 2
  /\ h.max_num_ref_frames <= 15
  /\ h.vp.tables.n_recon >= h.max_num_ref_frames + 1
  /\ h.vp.tables.n_entropy >= hevc_entropy_rows
  /\ h.n_transcoded \in {0, transcoded_max}

\* One set of the SPS: a B stream's, or those of an IPPP stream.
StSet(h, idx) == IF h.bframes > 0 THEN ave_hevc_b_set(h.bframes, idx)
                 ELSE ippp_set(h.st_rps_refs, idx)

MainOnlyBug(h) == [profile |-> 1, compat |-> {1, 2}, level |-> h.level_idc]
\* profile_tier_level(): Main is Main 10 compatible too.
ave_hevc_ptl(h) ==
  [profile |-> IF h.bit_depth = 10 THEN 2 ELSE 1,
   compat |-> IF h.bit_depth = 10 THEN {2} ELSE {1, 2}, level |-> h.level_idc]

\* And what it writes: VPS, SPS and PPS, the sets, the HEVC-only parameters.
ave_cmd_build_start_hevc(h) ==
  [codec |-> "HEVC", vp |-> ave_vp_fill(h.vp),
   profile |-> ave_hevc_ptl(h).profile, level |-> ave_hevc_ptl(h).level,
   compat |-> ave_hevc_ptl(h).compat, bit_depth |-> h.bit_depth, input_bitdepth |-> h.input_bitdepth,
   crop |-> CropOff(h.vp),
   reorders |-> h.bframes > 0, refs |-> h.max_num_ref_frames,
   sets |-> [i \in 1 .. h.n_st_rps |-> StSet(h, i - 1)],
   ref_spacing |-> h.ref_spacing_p, bframes |-> h.bframes,
   entropy_coding_mode |-> TRUE, mode_8x8 |-> FALSE,
   transcoded |-> h.n_transcoded]

-----------------------------------------------------------------------------
(* Start.                                                                  *)

\* B frames and two references need three DPB slots.
RefsSuffice(b, cfg) ==
  TwoRefs(cfg) =>
    (IF cfg.codec = "HEVC" THEN HevcRefs(b, cfg) ELSE MaxRefs(b)) >= 2
BuilderAccepts(b, cfg) ==
  IF cfg.codec = "HEVC" THEN AcceptsHevc(HevcSession(b, cfg))
  ELSE AcceptsAvc(AvcSession(b, cfg))
StartCommand(b, cfg) ==
  IF cfg.codec = "HEVC" THEN ave_cmd_build_start_hevc(HevcSession(b, cfg))
  ELSE ave_cmd_build_start_avc(AvcSession(b, cfg))

-----------------------------------------------------------------------------
(* Process.                                                                *)

FrameType == {"I", "P", "B", "AUTO", "IDR"}
Default == "default"
\* The frame's type: the batch's, or an IDR and then P; without a reference
\* HEVC is all IDR; the final pass decides for itself.
ProcessType(b, cfg, n, given, force_idr) ==
  LET asked == IF given # Default THEN given
               ELSE IF force_idr \/ n = 0 THEN "IDR" ELSE "P"
  IN  IF cfg.mp = 2 THEN "AUTO"
      ELSE IF cfg.codec = "HEVC" /\ asked = "P" /\ HevcRefs(b, cfg) = 0
        THEN "IDR" ELSE asked

\* The command of frame n as ave_session_process_build() fills it; stride is
\* the OUTPUT buffer's, the POC counts from the last IDR in eight bits.
ProcessCommand(b, cfg, n, type, stride) ==
  LET idx == n % Cardinality({r \in b.coded : r.of = "coded"})
      t == TablesOf(b, cfg)
  IN  [codec |-> cfg.codec, slot |-> process_slot + idx, type |-> type,
       frame_num |-> n, force_key_frame |-> type = "IDR",
       stride |-> stride, index |-> idx,
       n_entropy |-> t.n_entropy,
       n_entropy_cols |-> IF cfg.bufs /\ t.n_entropy > 0 THEN 1
                          ELSE t.n_entropy_cols,
       n_src_nbr |-> t.n_src_nbr, stats |-> InSlot(b.mp, idx),
       poc_lsb |-> IF cfg.codec = "H264" \/ type = "IDR" THEN 0
                   ELSE (n - b.last_idr) % 256,
       headers |-> IF cfg.codec = "HEVC" THEN InSlot(b.slice, idx) ELSE {},
       bframes |-> IF cfg.codec = "HEVC" THEN cfg.bframes ELSE 0]

\* ave_pic_check(), ave_cmd_begin() and the two Process builders' checks.
AcceptsPicture(f) ==
  /\ f.type \in FrameType
  /\ f.stride > 0 /\ f.stride % 64 = 0
  /\ f.index < coded_max /\ f.slot < max_slot
  /\ f.n_entropy <= entropy_max /\ f.n_entropy_cols <= entropy_cols_max
  /\ f.n_src_nbr <= src_nbr_max
AcceptsProcess(f) ==
  /\ AcceptsPicture(f)
  /\ f.codec = "HEVC" =>
       /\ f.type = "B" => f.bframes > 0
       /\ f.headers # {}
       /\ f.type = "IDR" => f.poc_lsb = 0

\* PICMGMT, of both codecs.
ave_pic_fill(f) ==
  [type |-> f.type, frame_num |-> f.frame_num,
   force_key_frame |-> Bit(f.force_key_frame), in_stride |-> f.stride,
   out_index |-> f.index, stats |-> f.stats, n_entropy |-> f.n_entropy,
   n_entropy_cols |-> IF f.n_entropy > 0 THEN Or(f.n_entropy_cols, 1) ELSE 0,
   n_src_nbr |-> f.n_src_nbr]
\* ave_cmd_begin(): the command's header.
ave_cmd_begin(op, f) == [op |-> op, codec |-> f.codec, slot |-> f.slot]

\* A P or a B is coded with a reference set of the SPS.
NamesASet(f) == f.type \in {"P", "B"}

\* The two Process commands.  H.264 has no slice-header parameters.
ave_cmd_build_process_avc(f) ==
  [head |-> ave_cmd_begin("PROCESS_AVC", f), pic |-> ave_pic_fill(f),
   poc_lsb |-> 0, headers |-> {}, st_rps_sps_flag |-> FALSE]
ave_cmd_build_process_hevc(f) ==
  [head |-> ave_cmd_begin("PROCESS_HEVC", f), pic |-> ave_pic_fill(f),
   poc_lsb |-> f.poc_lsb, headers |-> f.headers,
   st_rps_sps_flag |-> NamesASet(f)]
ProcessWire(f) == IF f.codec = "HEVC" THEN ave_cmd_build_process_hevc(f)
                  ELSE ave_cmd_build_process_avc(f)
=============================================================================
