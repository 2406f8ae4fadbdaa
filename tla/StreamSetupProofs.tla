------------------------- MODULE StreamSetupProofs -------------------------
(***************************************************************************)
(* Proofs about StreamSetup, for every size a client may ask for, every    *)
(* setting in its control's range, and any number of buffers, streams and  *)
(* faults.                                                                 *)
(*                                                                         *)
(* The context first: its formats, controls and queues, and what a running *)
(* session was latched from them (CtxInv), which is all SessionGeometry    *)
(* needs.                                                                  *)
(*                                                                         *)
(* Then the memory: the two tables of allocations only grow while a stream *)
(* is set up, a table holds what its start asked for, and a running stream *)
(* has every buffer its commands name (MemInv). Then the commands: the     *)
(* firmware's tables accept each command built from a context and a memory *)
(* like that (FirmwareTakesIt), and the tables have room for what a client *)
(* may ask for (NegotiatedStarts).                                         *)
(***************************************************************************)
EXTENDS StreamSetup, TLAPS, FiniteSetTheorems, SequenceTheorems, WellFoundedInduction

-----------------------------------------------------------------------------
(* Numbers.                                                                *)

\* Max and Min of two numbers.
LEMMA MaxTwo ==
  ASSUME NEW x \in Int, NEW y \in Int
  PROVE  Max({x, y}) = IF x >= y THEN x ELSE y
<1> DEFINE m == IF x >= y THEN x ELSE y
<1>1. m \in {x, y} /\ \A z \in {x, y} : m >= z OBVIOUS
<1>2. \A n \in {x, y} : (\A z \in {x, y} : n >= z) => n = m OBVIOUS
<1> HIDE DEF m
<1> QED BY <1>1, <1>2 DEF Max, m

\* The same for Min.
LEMMA MinTwo ==
  ASSUME NEW x \in Int, NEW y \in Int
  PROVE  Min({x, y}) = IF x <= y THEN x ELSE y
<1> DEFINE m == IF x <= y THEN x ELSE y
<1>1. m \in {x, y} /\ \A z \in {x, y} : m <= z OBVIOUS
<1>2. \A n \in {x, y} : (\A z \in {x, y} : n <= z) => n = m OBVIOUS
<1> HIDE DEF m
<1> QED BY <1>1, <1>2 DEF Min, m

\* A clamp is the value or one of its bounds.
LEMMA WithinFacts ==
  ASSUME NEW v \in Int, NEW lo \in Int, NEW hi \in Int, lo <= hi
  PROVE  /\ Within(v, lo, hi) \in {v, lo, hi}
         /\ lo <= Within(v, lo, hi) /\ Within(v, lo, hi) <= hi
<1>1. Min({hi, v}) = IF hi <= v THEN hi ELSE v BY MinTwo
<1>2. Min({hi, v}) \in Int BY <1>1
<1>3. Within(v, lo, hi) = IF lo >= Min({hi, v}) THEN lo ELSE Min({hi, v})
  BY <1>2, MaxTwo DEF Within
<1> QED BY <1>1, <1>3

\* Rounding up to an even number, to a macroblock, a stride, a page.
LEMMA Align2 == \A x \in Nat : Align(x, 2) \in Nat /\ Align(x, 2) % 2 = 0
BY DEF Align
\* What rounding up gives at the three alignments the model uses.
LEMMA Align16 == \A x \in Nat : Align(x, 16) \in Nat /\ Align(x, 16) % 16 = 0
BY DEF Align
\* A multiple of 16 is left as it is.
LEMMA Aligned16 == \A x \in Nat : x % 16 = 0 => Align(x, 16) = x
BY DEF Align
\* Rounding up to 64, the alignment of a row.
LEMMA Align64 ==
  \A x \in Nat : Align(x, 64) \in Nat /\ Align(x, 64) % 64 = 0 /\ Align(x, 64) >= x
BY DEF Align
\* Rounding up to a page.
LEMMA Align4096 == \A x \in Nat : Align(x, 4096) \in Nat
BY DEF Align

-----------------------------------------------------------------------------
(* The context.                                                            *)

\* struct ave_ctx: formats, controls and queues.
Formats ==
  [w : Nat, h : Nat, p010 : BOOLEAN, codec : {"H264", "HEVC"}, bpl : Nat,
   out_size : Nat, cap_size : Nat, crop : Nat \X Nat]
\* What a queue and its buffers may be.
Queues ==
  [{"out", "cap"} -> [n : Nat, size : Nat, queued : BOOLEAN, on : BOOLEAN]]
\* The controls the model has a value of.
Controls ==
  {"b_frames", "p_refs", "gop", "rc", "profile", "level", "cabac", "qp", "qp_p", "qp_b",
   "qp_min", "qp_max", "main10", "hevc_level", "hevc_qp", "hevc_qp_p", "hevc_qp_b",
   "hevc_qp_min", "hevc_qp_max"}
\* Every setting is in its control's range.
CtrlTypes ==
  /\ ctrl = [c \in Controls |-> ctrl[c]]
  /\ \A c \in Controls : ctrl[c] \in ControlRange[c]
\* The types of the whole context.
CtxTypes == fmt \in Formats /\ q \in Queues /\ CtrlTypes

\* The picture is whole macroblocks, within what the hardware codes.
PictureFits(f) ==
  /\ f.w % 16 = 0 /\ AVE_MIN_W <= f.w /\ f.w <= AVE_MAX_WH
  /\ f.h % 16 = 0 /\ AVE_MIN_H <= f.h /\ f.h <= AVE_MAX_WH
\* The crop is even and less than a macroblock off.
CropFits(f) ==
  /\ f.crop[1] % 2 = 0 /\ f.w - 14 <= f.crop[1] /\ f.crop[1] <= f.w
  /\ f.crop[2] % 2 = 0 /\ f.h - 14 <= f.crop[2] /\ f.crop[2] <= f.h
\* A line and a buffer hold what their format says.
PlanesFit(f) ==
  /\ f.bpl = Bpl(f.w, f.p010)
  /\ f.out_size = ave_out_size(f.codec, f.bpl, f.h)
\* What the formats promise each other.
FormatInv == PictureFits(fmt) /\ CropFits(fmt) /\ PlanesFit(fmt)

\* A queue that streams, or has a buffer queued, has buffers; and a queued
\* OUTPUT buffer holds the frame of the format, which is not changed under it.
QueueInv ==
  /\ \A t \in {"out", "cap"} : q[t].on \/ q[t].queued => q[t].n > 0
  /\ q["out"].queued => q["out"].size >= fmt.out_size

\* What a session is latched from stays as it was: both queues stream.
LatchInv ==
  Streaming =>
    /\ q["out"].on /\ q["cap"].on
    /\ << fmt.w, fmt.h, fmt.crop, fmt.codec, fmt.p010 >>
         = << latched.w, latched.h, latched.crop, latched.codec, latched.p010 >>

\* The invariant of the context.
CtxInv == CtxTypes /\ FormatInv /\ QueueInv /\ LatchInv

\* The first format.
LEMMA CtxInit == Init => CtxInv
<1> SUFFICES ASSUME Init PROVE CtxInv OBVIOUS
<1>1. 1280 % 16 = 0 /\ 720 % 16 = 0 /\ 1280 % 2 = 0 /\ 720 % 2 = 0 OBVIOUS
<1>2. Bpl(1280, FALSE) = 1280 BY DEF Bpl, Align
<1>3. ave_out_size("H264", 1280, 720) \in Nat BY DEF ave_out_size, ChromaRows
<1>4. ave_cap_size(1280, 720) \in Nat BY DEF ave_cap_size, Align
<1>5. fmt \in Formats BY <1>3, <1>4 DEF Init, Formats
<1>6. FormatInv
  <2>1. /\ fmt.w = 1280 /\ fmt.h = 720 /\ fmt.p010 = FALSE /\ fmt.codec = "H264"
        /\ fmt.bpl = 1280
        /\ fmt.out_size = ave_out_size("H264", 1280, 720)
        /\ fmt.crop[1] = 1280 /\ fmt.crop[2] = 720
    BY DEF Init
  <2>2. PictureFits(fmt) /\ CropFits(fmt)
    BY <1>1, <2>1 DEF PictureFits, CropFits, AVE_MIN_W, AVE_MIN_H, AVE_MAX_WH
  <2>3. PlanesFit(fmt)
    <3>1. Bpl(fmt.w, fmt.p010) = Align(1280, 64) BY <2>1 DEF Bpl, Align
    <3>2. Align(1280, 64) = 1280 BY DEF Align
    <3>3. ave_out_size(fmt.codec, fmt.bpl, fmt.h) = fmt.out_size BY <2>1
    <3> QED BY <2>1, <3>1, <3>2, <3>3 DEF PlanesFit
  <2> QED BY <2>2, <2>3 DEF FormatInv
<1>7. q \in Queues /\ QueueInv BY DEF Init, Queues, QueueInv
<1>8. LatchInv BY DEF Init, LatchInv, Streaming
<1>9. CtrlTypes
  <2>1. ctrl = ave_init_ctrls BY DEF Init
  <2>2. DOMAIN ave_init_ctrls = Controls BY DEF ave_init_ctrls, Controls
  <2>3. DOMAIN ControlRange = Controls BY DEF ControlRange, Controls
  <2>4. ave_init_ctrls = [c \in Controls |-> ave_init_ctrls[c]]
    BY DEF ave_init_ctrls, Controls
  <2>5. /\ ave_init_ctrls.b_frames \in ControlRange.b_frames
        /\ ave_init_ctrls.p_refs \in ControlRange.p_refs
        /\ ave_init_ctrls.gop \in ControlRange.gop
        /\ ave_init_ctrls.profile \in ControlRange.profile
        /\ ave_init_ctrls.level \in ControlRange.level
        /\ ave_init_ctrls.hevc_level \in ControlRange.hevc_level
    BY DEF ave_init_ctrls, ControlRange, Profiles, Levels, HevcLevels
  <2>6. /\ ave_init_ctrls.rc \in ControlRange.rc
        /\ ave_init_ctrls.cabac \in ControlRange.cabac
        /\ ave_init_ctrls.main10 \in ControlRange.main10
    BY DEF ave_init_ctrls, ControlRange
  <2>7. /\ ave_init_ctrls.qp \in ControlRange.qp
        /\ ave_init_ctrls.qp_p \in ControlRange.qp_p
        /\ ave_init_ctrls.qp_b \in ControlRange.qp_b
        /\ ave_init_ctrls.qp_min \in ControlRange.qp_min
        /\ ave_init_ctrls.qp_max \in ControlRange.qp_max
        /\ ave_init_ctrls.hevc_qp \in ControlRange.hevc_qp
        /\ ave_init_ctrls.hevc_qp_p \in ControlRange.hevc_qp_p
        /\ ave_init_ctrls.hevc_qp_b \in ControlRange.hevc_qp_b
        /\ ave_init_ctrls.hevc_qp_min \in ControlRange.hevc_qp_min
        /\ ave_init_ctrls.hevc_qp_max \in ControlRange.hevc_qp_max
    BY DEF ave_init_ctrls, ControlRange, AVE_DEF_QP
  <2>8. \A c \in Controls : ave_init_ctrls[c] \in ControlRange[c]
    BY <2>5, <2>6, <2>7, Zenon DEF Controls
  <2> QED BY <2>1, <2>2, <2>3, <2>4, <2>8 DEF CtrlTypes
<1> QED BY <1>5, <1>6, <1>7, <1>8, <1>9 DEF CtxInv, CtxTypes

\* The fields of a size that is asked for.
LEMMA ClampFacts ==
  ASSUME NEW s \in Nat \X Nat
  PROVE  LET z == ave_clamp_size(s)
         IN  /\ z \in Nat \X Nat
             /\ z[1] % 16 = 0 /\ AVE_MIN_W <= z[1] /\ z[1] <= AVE_MAX_WH
             /\ z[2] % 16 = 0 /\ AVE_MIN_H <= z[2] /\ z[2] <= AVE_MAX_WH
<1> DEFINE x == Align(s[1], 16)
           y == Align(s[2], 16)
           zx == Within(x, AVE_MIN_W, AVE_MAX_WH)
           zy == Within(y, AVE_MIN_H, AVE_MAX_WH)
<1>1. x \in Nat /\ x % 16 = 0 /\ y \in Nat /\ y % 16 = 0
  <2>1. s[1] \in Nat /\ s[2] \in Nat OBVIOUS
  <2> QED BY <2>1, Align16
<1>2. ave_clamp_size(s) = << zx, zy >> BY DEF ave_clamp_size
<1> HIDE DEF x, y
<1>3. zx \in {x, 192, 4096} /\ 192 <= zx /\ zx <= 4096
  BY <1>1, WithinFacts DEF AVE_MIN_W, AVE_MAX_WH
<1>4. zy \in {y, 96, 4096} /\ 96 <= zy /\ zy <= 4096
  BY <1>1, WithinFacts DEF AVE_MIN_H, AVE_MAX_WH
<1> HIDE DEF zx, zy
<1>5. zx \in Nat /\ zx % 16 = 0 /\ zy \in Nat /\ zy % 16 = 0 BY <1>1, <1>3, <1>4
<1> QED BY <1>2, <1>3, <1>4, <1>5 DEF AVE_MIN_W, AVE_MIN_H, AVE_MAX_WH

\* Line lengths and sizes are numbers.
LEMMA SizeTypes ==
  ASSUME NEW w \in Nat, NEW h \in Nat, NEW p010 \in BOOLEAN, NEW codec
  PROVE  /\ Bpl(w, p010) \in Nat
         /\ \A bpl \in Nat : ave_out_size(codec, bpl, h) \in Nat
         /\ ave_cap_size(w, h) \in Nat
<1>1. Bpl(w, p010) \in Nat
  <2>1. Align(w, 64) \in Nat BY Align64
  <2> QED BY <2>1 DEF Bpl
<1>2. ChromaRows(codec, h) \in Nat
  <2>1. Align(h, 64) \in Nat BY Align64
  <2> QED BY <2>1 DEF ChromaRows
<1>3. \A bpl \in Nat : ave_out_size(codec, bpl, h) \in Nat
  <2>1. \A x, y, z \in Nat : x * y + x * z \in Nat OBVIOUS
  <2> QED BY <1>2, <2>1 DEF ave_out_size
<1>4. ave_cap_size(w, h) \in Nat
  <2>1. \A x, y \in Nat : (x * y * 3) \div 2 + 65536 \in Nat
    <3>1. \A x, y \in Nat : x * y * 3 \in Nat OBVIOUS
    <3>2. \A z \in Nat : z \div 2 + 65536 \in Nat OBVIOUS
    <3> QED BY <3>1, <3>2
  <2> DEFINE x == (w * h * 3) \div 2 + 65536
  <2>2. x \in Nat /\ ave_cap_size(w, h) = Align(x, 4096) BY <2>1 DEF ave_cap_size
  <2> HIDE DEF x
  <2> QED BY <2>2, Align4096
<1> QED BY <1>1, <1>3, <1>4

\* A step that leaves the context and the session's latch alone.
LEMMA CtxKept ==
  ASSUME CtxInv, UNCHANGED << fmt, ctrl, q, latched >>
  PROVE  CtxInv'
BY DEF CtxInv, CtxTypes, CtrlTypes, FormatInv, QueueInv, LatchInv, Streaming

\* Without an OUTPUT queue that streams there is no session.
LEMMA NotStreaming ==
  ASSUME CtxInv, ~q["out"].on \/ ~q["cap"].on \/ ~Busy("out")
  PROVE  ~Streaming
BY DEF CtxInv, LatchInv, QueueInv, Busy

\* S_FMT(OUTPUT).
LEMMA CtxFmtOut ==
  ASSUME CtxInv, NEW s \in Sizes, NEW p010 \in BOOLEAN, SFmtOut(s, p010)
  PROVE  CtxInv'
<1> DEFINE z == ave_clamp_size(s)
<1>1. /\ ~Busy("out") /\ fmt' = OutFmt(s, p010) /\ ctrl' = ProfileAfter(p010)
      /\ UNCHANGED << q, latched >>
  BY DEF SFmtOut, Set, Memory
<1>2. ~Streaming /\ ~Streaming' BY <1>1, NotStreaming DEF Streaming
<1>3. /\ z \in Nat \X Nat
      /\ z[1] % 16 = 0 /\ AVE_MIN_W <= z[1] /\ z[1] <= AVE_MAX_WH
      /\ z[2] % 16 = 0 /\ AVE_MIN_H <= z[2] /\ z[2] <= AVE_MAX_WH
  BY SizesAssumption, ClampFacts
<1>4. z[1] \in Nat /\ z[2] \in Nat BY <1>3
<1>5. fmt \in Formats BY DEF CtxInv, CtxTypes
<1> HIDE DEF z
<1> DEFINE bpl == Bpl(z[1], p010)
           size == ave_out_size(fmt.codec, bpl, z[2])
           cap == Max({fmt.cap_size, ave_cap_size(z[1], z[2])})
<1>6. fmt' = [fmt EXCEPT !.w = z[1], !.h = z[2], !.p010 = p010, !.bpl = bpl,
                         !.out_size = size, !.crop = z, !.cap_size = cap]
  BY <1>1 DEF OutFmt, z
<1>7. bpl \in Nat /\ size \in Nat /\ cap \in Nat
  <2>1. bpl \in Nat /\ ave_cap_size(z[1], z[2]) \in Nat BY <1>4, SizeTypes
  <2>2. size \in Nat BY <1>4, <2>1, SizeTypes
  <2>3. fmt.cap_size \in Nat BY <1>5 DEF Formats
  <2> QED BY <2>1, <2>2, <2>3, MaxTwo
<1> HIDE DEF bpl, size, cap
<1>8. fmt' \in Formats BY <1>3, <1>4, <1>5, <1>6, <1>7 DEF Formats
<1>9. /\ fmt'.w = z[1] /\ fmt'.h = z[2] /\ fmt'.p010 = p010 /\ fmt'.bpl = bpl
      /\ fmt'.out_size = size /\ fmt'.crop = z /\ fmt'.codec = fmt.codec
  BY <1>5, <1>6 DEF Formats
<1>10. FormatInv'
  <2>1. PictureFits(fmt') BY <1>3, <1>9 DEF PictureFits
  <2>2. CropFits(fmt')
    <3>1. z[1] % 2 = 0 /\ z[2] % 2 = 0 BY <1>3, <1>4
    <3> QED BY <1>4, <1>9, <3>1 DEF CropFits
  <2>3. PlanesFit(fmt') BY <1>9 DEF PlanesFit, bpl, size
  <2> QED BY <2>1, <2>2, <2>3 DEF FormatInv
<1>11. QueueInv'
  <2>1. ~q["out"].queued BY <1>1 DEF CtxInv, QueueInv, Busy
  <2> QED BY <1>1, <2>1 DEF CtxInv, QueueInv
<1>12. CtrlTypes'
  <2>1. CtrlTypes BY DEF CtxInv, CtxTypes
  <2>2. CASE p010
    <3>1. "main10" \in Controls /\ TRUE \in ControlRange["main10"]
      BY DEF Controls, ControlRange
    <3>2. ctrl' = [ctrl EXCEPT !["main10"] = TRUE] BY <1>1, <2>2 DEF ProfileAfter
    <3> QED BY <2>1, <3>1, <3>2 DEF CtrlTypes
  <2>3. CASE ~p010 BY <1>1, <2>1, <2>3 DEF ProfileAfter, CtrlTypes
  <2> QED BY <2>2, <2>3
<1> QED BY <1>1, <1>2, <1>8, <1>10, <1>11, <1>12 DEF CtxInv, CtxTypes, LatchInv

\* S_FMT(CAPTURE), of the same codec or of the other.
LEMMA CtxFmtCap ==
  ASSUME CtxInv, NEW codec \in {"H264", "HEVC"}, NEW floor \in Floors,
         SFmtCap(codec, floor)
  PROVE  CtxInv'
<1> DEFINE cap == Max({floor, ave_cap_size(fmt.w, fmt.h)})
           p010 == fmt.p010 /\ codec = "HEVC"
           bpl == LinesAfter(p010)
           size == ave_out_size(codec, bpl, fmt.h)
<1>1. /\ codec # fmt.codec => ~Busy("out")
      /\ fmt' = CapFmt(codec, floor) /\ UNCHANGED << ctrl, q, latched >>
  BY DEF SFmtCap, MayChangeCodec, Set, Memory
<1>2. fmt \in Formats /\ FormatInv BY DEF CtxInv, CtxTypes
<1>3. /\ fmt.w \in Nat /\ fmt.h \in Nat /\ fmt.p010 \in BOOLEAN /\ fmt.bpl \in Nat
      /\ fmt.bpl = Bpl(fmt.w, fmt.p010)
  BY <1>2 DEF Formats, FormatInv, PlanesFit
<1>4. cap \in Nat
  <2>1. floor \in Nat /\ ave_cap_size(fmt.w, fmt.h) \in Nat
    BY <1>3, SizeTypes, FloorsAssumption
  <2> QED BY <2>1, MaxTwo
<1>5. CASE codec = fmt.codec
  <2>1. fmt' = [fmt EXCEPT !.cap_size = cap] BY <1>1, <1>5 DEF CapFmt
  <2> HIDE DEF cap
  <2>2. fmt' \in Formats BY <1>2, <1>4, <2>1 DEF Formats
  <2>3. /\ fmt'.w = fmt.w /\ fmt'.h = fmt.h /\ fmt'.p010 = fmt.p010 /\ fmt'.bpl = fmt.bpl
        /\ fmt'.out_size = fmt.out_size /\ fmt'.crop = fmt.crop /\ fmt'.codec = fmt.codec
    BY <1>2, <2>1 DEF Formats
  <2>4. FormatInv'
    BY <1>2, <2>3, Zenon DEF FormatInv, PictureFits, CropFits, PlanesFit
  <2>5. QueueInv' BY <1>1, <2>3 DEF CtxInv, QueueInv
  <2>6. LatchInv' BY <1>1, <2>3 DEF CtxInv, LatchInv, Streaming
  <2> QED BY <1>1, <2>2, <2>4, <2>5, <2>6 DEF CtxInv, CtxTypes, CtrlTypes
<1>6. CASE codec # fmt.codec
  <2>1. ~Busy("out") /\ ~Streaming /\ ~Streaming' BY <1>1, <1>6, NotStreaming DEF Streaming
  <2>2. fmt' = [fmt EXCEPT !.codec = codec, !.p010 = p010, !.bpl = bpl,
                           !.out_size = size, !.cap_size = cap]
    BY <1>1, <1>6 DEF CapFmt
  <2>3. p010 \in BOOLEAN OBVIOUS
  <2>4. bpl = Bpl(fmt.w, p010)
    <3>1. CASE fmt.p010 /\ ~p010
      BY <3>1, <1>3 DEF LinesAfter, Bpl, Align
    <3>2. CASE ~(fmt.p010 /\ ~p010)
      <4>1. p010 = fmt.p010 BY <1>3, <3>2
      <4>2. bpl = fmt.bpl BY <3>2 DEF LinesAfter
      <4> HIDE DEF p010, bpl
      <4> QED BY <1>3, <4>1, <4>2
    <3> QED BY <3>1, <3>2
  <2> HIDE DEF p010
  <2>5. bpl \in Nat BY <1>3, <2>3, <2>4, SizeTypes
  <2> HIDE DEF bpl, cap
  <2>6. size \in Nat BY <1>3, <2>3, <2>5, SizeTypes
  <2> HIDE DEF size
  <2>7. fmt' \in Formats BY <1>2, <1>4, <2>2, <2>3, <2>5, <2>6 DEF Formats
  <2>8. /\ fmt'.w = fmt.w /\ fmt'.h = fmt.h /\ fmt'.p010 = p010 /\ fmt'.bpl = bpl
        /\ fmt'.out_size = size /\ fmt'.crop = fmt.crop /\ fmt'.codec = codec
    BY <1>2, <2>2 DEF Formats
  <2>9. PlanesFit(fmt') BY <2>4, <2>8, Zenon DEF PlanesFit, size
  <2>10. PictureFits(fmt') /\ CropFits(fmt')
    BY <1>2, <2>8, Zenon DEF FormatInv, PictureFits, CropFits
  <2>11. QueueInv'
    <3>1. ~q["out"].queued BY <2>1 DEF CtxInv, QueueInv, Busy
    <3> QED BY <1>1, <3>1 DEF CtxInv, QueueInv
  <2> QED BY <1>1, <2>1, <2>7, <2>9, <2>10, <2>11
          DEF CtxInv, CtxTypes, CtrlTypes, FormatInv, LatchInv
<1> QED BY <1>5, <1>6

\* S_SELECTION.
LEMMA CtxSelection ==
  ASSUME CtxInv, NEW s \in Sizes, SSelection(s)
  PROVE  CtxInv'
<1> DEFINE x == Align(s[1], 2)
           y == Align(s[2], 2)
           lox == Max({AVE_MIN_W, Align(fmt.w, 16) - 14})
           loy == Max({AVE_MIN_H, Align(fmt.h, 16) - 14})
           cx == Within(x, lox, fmt.w)
           cy == Within(y, loy, fmt.h)
<1>1. /\ ~q["out"].on /\ fmt' = [fmt EXCEPT !.crop = << cx, cy >>]
      /\ UNCHANGED << ctrl, q, latched >>
  BY DEF SSelection, Crop, Set, Memory
<1>2. fmt \in Formats /\ FormatInv BY DEF CtxInv, CtxTypes
<1>3. /\ fmt.w \in Nat /\ fmt.w % 16 = 0 /\ 192 <= fmt.w
      /\ fmt.h \in Nat /\ fmt.h % 16 = 0 /\ 96 <= fmt.h
  BY <1>2 DEF Formats, FormatInv, PictureFits, AVE_MIN_W, AVE_MIN_H
<1>4. x \in Nat /\ x % 2 = 0 /\ y \in Nat /\ y % 2 = 0
  <2>1. s[1] \in Nat /\ s[2] \in Nat BY SizesAssumption
  <2> QED BY <2>1, Align2
<1>5. /\ lox \in {192, fmt.w - 14} /\ fmt.w - 14 <= lox
      /\ loy \in {96, fmt.h - 14} /\ fmt.h - 14 <= loy
  <2>1. Align(fmt.w, 16) = fmt.w /\ Align(fmt.h, 16) = fmt.h BY <1>3, Aligned16
  <2>2. fmt.w - 14 \in Int /\ fmt.h - 14 \in Int BY <1>3
  <2>3. lox = (IF 192 >= fmt.w - 14 THEN 192 ELSE fmt.w - 14)
    BY <2>1, <2>2, MaxTwo DEF AVE_MIN_W
  <2>4. loy = (IF 96 >= fmt.h - 14 THEN 96 ELSE fmt.h - 14)
    BY <2>1, <2>2, MaxTwo DEF AVE_MIN_H
  <2> HIDE DEF lox, loy
  <2> QED BY <2>2, <2>3, <2>4
<1> HIDE DEF x, y, lox, loy
<1>6. lox \in Int /\ lox <= fmt.w /\ loy \in Int /\ loy <= fmt.h BY <1>3, <1>5
<1>7. cx \in {x, lox, fmt.w} /\ lox <= cx /\ cx <= fmt.w
  BY <1>3, <1>4, <1>6, WithinFacts
<1>8. cy \in {y, loy, fmt.h} /\ loy <= cy /\ cy <= fmt.h
  BY <1>3, <1>4, <1>6, WithinFacts
<1> HIDE DEF cx, cy
<1>9. lox % 2 = 0 /\ lox >= 0 /\ loy % 2 = 0 /\ loy >= 0 BY <1>3, <1>5
<1>10. fmt.w % 2 = 0 /\ fmt.h % 2 = 0 BY <1>3
<1>11. cx \in Nat /\ cx % 2 = 0 /\ cy \in Nat /\ cy % 2 = 0
  BY <1>3, <1>4, <1>6, <1>7, <1>8, <1>9, <1>10
<1>12. fmt.w - 14 <= cx /\ fmt.h - 14 <= cy
  BY <1>3, <1>5, <1>6, <1>7, <1>8, <1>11
<1>13. fmt' \in Formats BY <1>1, <1>2, <1>11 DEF Formats
<1>14. /\ fmt'.w = fmt.w /\ fmt'.h = fmt.h /\ fmt'.p010 = fmt.p010 /\ fmt'.bpl = fmt.bpl
       /\ fmt'.out_size = fmt.out_size /\ fmt'.codec = fmt.codec
       /\ fmt'.crop[1] = cx /\ fmt'.crop[2] = cy
  BY <1>1, <1>2 DEF Formats
<1>15. FormatInv'
  <2>1. PictureFits(fmt') /\ PlanesFit(fmt')
    BY <1>2, <1>14, Zenon DEF FormatInv, PictureFits, PlanesFit
  <2>2. CropFits(fmt') BY <1>7, <1>8, <1>11, <1>12, <1>14 DEF CropFits
  <2> QED BY <2>1, <2>2 DEF FormatInv
<1>16. QueueInv' BY <1>1, <1>14 DEF CtxInv, QueueInv
<1>17. ~Streaming /\ ~Streaming' BY <1>1, NotStreaming DEF Streaming
<1> QED BY <1>1, <1>13, <1>15, <1>16, <1>17 DEF CtxInv, CtxTypes, CtrlTypes, LatchInv

\* S_CTRL changes no format.
LEMMA CtxCtrl == ASSUME CtxInv, SCtrl PROVE CtxInv'
<1>1. PICK s \in Settings : ctrl' = [ctrl EXCEPT ![s[1]] = s[2]] BY DEF SCtrl
<1>2. UNCHANGED << fmt, q, latched >> BY DEF SCtrl, Set, Memory
<1>3. s[1] \in Controls /\ s[2] \in ControlRange[s[1]]
  <2>1. DOMAIN ControlRange = Controls BY DEF ControlRange, Controls
  <2> QED BY <2>1, SettingsAssumption
<1>4. CtrlTypes' BY <1>1, <1>3 DEF CtxInv, CtxTypes, CtrlTypes
<1> QED BY <1>2, <1>4 DEF CtxInv, CtxTypes, FormatInv, QueueInv, LatchInv, Streaming

\* The size of a format's buffers.
LEMMA SizeType == ASSUME CtxInv, NEW t \in {"out", "cap"} PROVE Size(t) \in Nat
BY DEF CtxInv, CtxTypes, Formats, Size

\* B frames ask for more buffers, never for fewer than one.
LEMMA GrantedFacts ==
  ASSUME CtxInv, NEW t \in {"out", "cap"}, NEW n \in Nat, n > 0
  PROVE  Granted(t, n) \in Nat /\ Granted(t, n) > 0
<1>1. ctrl["b_frames"] \in ControlRange["b_frames"]
  BY DEF CtxInv, CtxTypes, CtrlTypes, Controls
<1>2. ctrl.b_frames \in 0 .. 2 BY <1>1 DEF ControlRange
<1>3. Enough(t, ctrl.b_frames) \in Nat BY <1>2 DEF Enough
<1> QED BY <1>3, MaxTwo DEF Granted

\* REQBUFS.
LEMMA CtxReqBufs ==
  ASSUME CtxInv, NEW t \in {"out", "cap"}, NEW n \in 0 .. 1, ReqBufs(t, n)
  PROVE  CtxInv'
<1> DEFINE r == [n |-> IF n = 0 THEN 0 ELSE Granted(t, n),
                 size |-> IF n = 0 THEN 0 ELSE Size(t), queued |-> FALSE, on |-> FALSE]
<1>1. ~q[t].on /\ q' = [q EXCEPT ![t] = r] /\ UNCHANGED << fmt, ctrl, latched >>
  BY DEF ReqBufs, Memory
<1>2. r \in [n : Nat, size : Nat, queued : BOOLEAN, on : BOOLEAN]
  BY GrantedFacts, SizeType
<1>3. ~r.on /\ ~r.queued OBVIOUS
<1> HIDE DEF r
<1>4. q' \in Queues BY <1>1, <1>2 DEF CtxInv, CtxTypes, Queues
<1>5. QueueInv' BY <1>1, <1>3 DEF CtxInv, CtxTypes, Queues, QueueInv
<1>6. ~Streaming /\ ~Streaming' BY <1>1, NotStreaming DEF Streaming
<1> QED BY <1>1, <1>4, <1>5, <1>6 DEF CtxInv, CtxTypes, CtrlTypes, FormatInv, LatchInv

\* CREATE_BUFS: a queued OUTPUT buffer is still as long as its format says.
LEMMA CtxCreateBufs ==
  ASSUME CtxInv, NEW t \in {"out", "cap"}, CreateBufs(t)
  PROVE  CtxInv'
<1> DEFINE size == IF q[t].n = 0 THEN Size(t) ELSE Min({q[t].size, Size(t)})
<1>1. /\ q' = [q EXCEPT ![t].n = @ + 1, ![t].size = size]
      /\ UNCHANGED << fmt, ctrl, latched >>
  BY DEF CreateBufs, CtxInv, CtxTypes, Queues, Memory
<1>2. q \in Queues /\ q[t].n \in Nat /\ q[t].size \in Nat BY DEF CtxInv, CtxTypes, Queues
<1>3. size \in Nat /\ (q[t].n > 0 => size \in {q[t].size, Size(t)})
  BY <1>2, SizeType, MinTwo
<1> HIDE DEF size
<1>4. q' \in Queues BY <1>1, <1>2, <1>3 DEF Queues
<1>5. \A u \in {"out", "cap"} :
        /\ q'[u].on = q[u].on /\ q'[u].queued = q[u].queued
        /\ q'[u].n >= q[u].n
        /\ u # t => q'[u].size = q[u].size
  BY <1>1, <1>2 DEF Queues
<1>6. q'[t].size = size BY <1>1, <1>2 DEF Queues
<1>7. QueueInv'
  <2>1. \A u \in {"out", "cap"} : q'[u].n \in Nat /\ q[u].n \in Nat
    BY <1>2, <1>4 DEF Queues
  <2>2. \A u \in {"out", "cap"} : q'[u].on \/ q'[u].queued => q'[u].n > 0
    BY <1>5, <2>1 DEF CtxInv, QueueInv
  <2>3. ASSUME q'["out"].queued PROVE q'["out"].size >= fmt.out_size
    <3>1. q["out"].queued /\ q["out"].n > 0 /\ q["out"].size >= fmt.out_size
      BY <1>5, <2>3 DEF CtxInv, QueueInv
    <3>2. CASE t # "out" BY <1>5, <3>1, <3>2
    <3>3. CASE t = "out"
      <4>1. Size(t) = fmt.out_size /\ fmt.out_size \in Nat
        BY <3>3 DEF Size, CtxInv, CtxTypes, Formats
      <4> QED BY <1>3, <1>6, <3>1, <3>3, <4>1
    <3> QED BY <3>2, <3>3
  <2> QED BY <1>1, <2>2, <2>3 DEF QueueInv
<1>8. LatchInv' BY <1>1, <1>5 DEF CtxInv, LatchInv, Streaming
<1> QED BY <1>1, <1>4, <1>7, <1>8 DEF CtxInv, CtxTypes, CtrlTypes, FormatInv

\* A queue that starts, or has a buffer queued.
LEMMA CtxFlags ==
  ASSUME CtxInv, NEW t \in {"out", "cap"}, Busy(t), UNCHANGED << fmt, ctrl >>,
         \/ q' = [q EXCEPT ![t].on = TRUE]
         \/ q[t].size >= Size(t) /\ q' = [q EXCEPT ![t].queued = TRUE]
  PROVE  CtxTypes' /\ FormatInv' /\ QueueInv'
         /\ \A u \in {"out", "cap"} : q[u].on => q'[u].on
<1> DEFINE on == [q EXCEPT ![t].on = TRUE]
           filled == [q EXCEPT ![t].queued = TRUE]
<1>1. q \in Queues /\ fmt' = fmt /\ ctrl' = ctrl BY DEF CtxInv, CtxTypes
<1>2. /\ on \in Queues /\ filled \in Queues BY <1>1 DEF Queues
<1>3. \A u \in {"out", "cap"} :
        /\ on[u].n = q[u].n /\ on[u].size = q[u].size /\ on[u].queued = q[u].queued
        /\ q[u].on => on[u].on
        /\ u # t => on[u].on = q[u].on
  BY <1>1 DEF Queues
<1>4. \A u \in {"out", "cap"} :
        /\ filled[u].n = q[u].n /\ filled[u].size = q[u].size /\ filled[u].on = q[u].on
        /\ u # t => filled[u].queued = q[u].queued
  BY <1>1 DEF Queues
<1>5. q' = on \/ (q[t].size >= Size(t) /\ q' = filled) OBVIOUS
<1> HIDE DEF on, filled
<1>6. q' \in Queues /\ \A u \in {"out", "cap"} : q[u].on => q'[u].on
  BY <1>2, <1>3, <1>4, <1>5
<1>7. QueueInv'
  <2>1. \A u \in {"out", "cap"} : q'[u].on \/ q'[u].queued => q'[u].n > 0
    BY <1>3, <1>4, <1>5 DEF CtxInv, QueueInv, Busy
  <2>2. ASSUME q'["out"].queued PROVE q'["out"].size >= fmt.out_size
    BY <1>3, <1>4, <1>5, <2>2 DEF CtxInv, QueueInv, Size
  <2> QED BY <1>1, <2>1, <2>2 DEF QueueInv
<1> QED BY <1>1, <1>6, <1>7 DEF CtxInv, CtxTypes, CtrlTypes, FormatInv

\* QBUF.
LEMMA CtxQbuf == ASSUME CtxInv, NEW t \in {"out", "cap"}, Qbuf(t) PROVE CtxInv'
<1>1. /\ Busy(t) /\ UNCHANGED << fmt, ctrl, latched >>
      /\ q[t].size >= Size(t) /\ q' = [q EXCEPT ![t].queued = TRUE]
  BY DEF Qbuf, Memory
<1>2. CtxTypes' /\ FormatInv' /\ QueueInv' /\ \A u \in {"out", "cap"} : q[u].on => q'[u].on
  BY <1>1, CtxFlags
<1>3. LatchInv' BY <1>1, <1>2 DEF CtxInv, LatchInv, Streaming
<1> QED BY <1>2, <1>3 DEF CtxInv

\* STREAMON of the first queue.
LEMMA CtxOnFirst == ASSUME CtxInv, NEW t \in {"out", "cap"}, StreamOnFirst(t) PROVE CtxInv'
<1>1. /\ Busy(t) /\ UNCHANGED << fmt, ctrl, latched >> /\ q' = [q EXCEPT ![t].on = TRUE]
  BY DEF StreamOnFirst, Memory
<1>2. CtxTypes' /\ FormatInv' /\ QueueInv' /\ \A u \in {"out", "cap"} : q[u].on => q'[u].on
  BY <1>1, CtxFlags
<1>3. LatchInv' BY <1>1, <1>2 DEF CtxInv, LatchInv, Streaming
<1> QED BY <1>2, <1>3 DEF CtxInv

\* STREAMON of the second queue, where no P010 goes to H.264: what is latched is the
\* context's.
LEMMA CtxStart == ASSUME CtxInv, NEW t \in {"out", "cap"}, StartSession(t) PROVE CtxInv'
<1>1. /\ Second(t) /\ ~Unfit /\ UNCHANGED << fmt, ctrl >> BY DEF StartSession, Opens
<1>2. \/ /\ \E lab \in Labs : latched' = EncCfg(lab)
         /\ q' = [q EXCEPT ![t].on = TRUE]
      \/ latched' = NoSession /\ UNCHANGED q
  BY DEF StartSession, Started, Stop
<1>3. CASE latched' = NoSession /\ UNCHANGED q
  BY <1>1, <1>3 DEF CtxInv, CtxTypes, CtrlTypes, FormatInv, QueueInv, LatchInv, Streaming
<1>4. ASSUME NEW lab \in Labs, latched' = EncCfg(lab), q' = [q EXCEPT ![t].on = TRUE]
      PROVE  CtxInv'
  <2>1. Busy(t) /\ q[Other(t)].on BY <1>1 DEF Second
  <2>2. CtxTypes' /\ FormatInv' /\ QueueInv' /\ \A u \in {"out", "cap"} : q[u].on => q'[u].on
    BY <1>1, <1>4, <2>1, CtxFlags
  <2>3. q'["out"].on /\ q'["cap"].on
    BY <1>4, <2>1, <2>2 DEF Other, CtxInv, CtxTypes, Queues
  <2>4. fmt \in Formats BY DEF CtxInv, CtxTypes
  <2>5. (fmt.codec = "HEVC" /\ fmt.p010) = fmt.p010
    BY <1>1, <2>4 DEF Unfit, Formats
  <2>6. /\ latched'.w = fmt.w /\ latched'.h = fmt.h /\ latched'.crop = fmt.crop
        /\ latched'.codec = fmt.codec
        /\ latched'.p010 = (fmt.codec = "HEVC" /\ fmt.p010)
    BY <1>4 DEF EncCfg
  <2>7. LatchInv' BY <1>1, <2>3, <2>5, <2>6 DEF LatchInv
  <2> QED BY <2>2, <2>7 DEF CtxInv
<1> QED BY <1>2, <1>3, <1>4

\* STREAMOFF.
LEMMA CtxStreamOff == ASSUME CtxInv, NEW t \in {"out", "cap"}, StreamOff(t) PROVE CtxInv'
<1>1. /\ q' = [q EXCEPT ![t].on = FALSE, ![t].queued = FALSE] /\ UNCHANGED << fmt, ctrl >>
      /\ ~Streaming'
  BY DEF StreamOff, Stop, Streaming
<1>2. q \in Queues BY DEF CtxInv, CtxTypes
<1>3. q' \in Queues BY <1>1, <1>2 DEF Queues
<1>4. \A u \in {"out", "cap"} :
        /\ q'[u].n = q[u].n /\ q'[u].size = q[u].size
        /\ q'[u].on => q[u].on
        /\ q'[u].queued => q[u].queued
  BY <1>1, <1>2 DEF Queues
<1>5. QueueInv'
  <2>1. QueueInv /\ fmt' = fmt BY <1>1 DEF CtxInv
  <2>2. \A u \in {"out", "cap"} : q'[u].on \/ q'[u].queued => q'[u].n > 0
    BY <1>4, <2>1 DEF QueueInv
  <2>3. q'["out"].queued => q'["out"].size >= fmt.out_size BY <1>4, <2>1 DEF QueueInv
  <2> QED BY <2>1, <2>2, <2>3 DEF QueueInv
<1> QED BY <1>1, <1>3, <1>5 DEF CtxInv, CtxTypes, CtrlTypes, FormatInv, LatchInv

\* Every step of the client and of the run work keeps the context's invariant.
LEMMA CtxNext == ASSUME CtxInv, [Next]_vars PROVE CtxInv'
<1>1. CASE UNCHANGED vars BY <1>1, CtxKept DEF vars
<1>2. CASE \E s \in Sizes, p010 \in BOOLEAN : SFmtOut(s, p010) BY <1>2, CtxFmtOut
<1>3. CASE \E codec \in {"H264", "HEVC"}, floor \in Floors : SFmtCap(codec, floor)
  BY <1>3, CtxFmtCap
<1>4. CASE \E s \in Sizes : SSelection(s) BY <1>4, CtxSelection
<1>5. CASE SCtrl BY <1>5, CtxCtrl
<1>6. ASSUME NEW t \in {"out", "cap"},
             \/ \E n \in 0 .. 1 : ReqBufs(t, n)
             \/ CreateBufs(t) \/ Qbuf(t)
             \/ StreamOnFirst(t) \/ StreamOnRefused(t) \/ OpenFails(t)
             \/ StartSession(t) \/ StreamOff(t)
      PROVE  CtxInv'
  <2>1. CASE \E n \in 0 .. 1 : ReqBufs(t, n) BY <2>1, CtxReqBufs
  <2>2. CASE CreateBufs(t) BY <2>2, CtxCreateBufs
  <2>3. CASE Qbuf(t) BY <2>3, CtxQbuf
  <2>4. CASE StreamOnFirst(t) BY <2>4, CtxOnFirst
  <2>5. CASE StreamOnRefused(t) BY <2>5, CtxKept DEF StreamOnRefused
  <2>6. CASE OpenFails(t) BY <2>6, CtxKept DEF OpenFails
  <2>7. CASE StartSession(t) BY <2>7, CtxStart
  <2>8. CASE StreamOff(t) BY <2>8, CtxStreamOff
  <2> QED BY <1>6, <2>1, <2>2, <2>3, <2>4, <2>5, <2>6, <2>7, <2>8
<1>7. CASE Encode BY <1>7, CtxKept DEF Encode
<1>8. CASE Reboot BY <1>8, CtxKept DEF Reboot
<1> QED BY <1>1, <1>2, <1>3, <1>4, <1>5, <1>6, <1>7, <1>8 DEF Next

\* The context: types of its formats, controls and queues, a picture of whole macroblocks
\* within limits, a crop less than a macroblock off, lines and buffers that hold it, no
\* change of format under a queued buffer or a session.
THEOREM Context == Spec => []CtxInv
BY CtxInit, CtxNext, PTL DEF Spec

\* The geometry on the wire, of either codec: the coded size is the latched size, and the
\* SPS crops it to the selection.
LEMMA WireGeometry ==
  ASSUME NEW bufs, NEW cfg, cfg.w \in Nat, cfg.h \in Nat, cfg.w % 16 = 0, cfg.h % 16 = 0
  PROVE  LET s == StartCommand(bufs, cfg)
         IN  /\ s.vp.size[1] = cfg.w /\ s.vp.size[2] = cfg.h
             /\ s.crop[1] = (cfg.w - cfg.crop[1]) \div 2
             /\ s.crop[2] = (cfg.h - cfg.crop[2]) \div 2
<1> DEFINE vp == VideoParams(bufs, cfg)
           a == AvcSession(bufs, cfg)
           h == HevcSession(bufs, cfg)
<1>1. vp.size = << cfg.w, cfg.h >> /\ vp.crop = cfg.crop BY DEF VideoParams
<1>2. a.vp.size = vp.size /\ a.vp.crop = vp.crop BY DEF AvcSession, VideoParams
<1>3. h.vp.size = vp.size /\ h.vp.crop = vp.crop BY DEF HevcSession, VideoParams
<1> HIDE DEF vp, a, h
<1>4. PICK v : /\ v.size = << cfg.w, cfg.h >> /\ v.crop = cfg.crop
               /\ StartCommand(bufs, cfg).vp.size = Coded(v.size)
               /\ StartCommand(bufs, cfg).crop = CropOff(v)
  <2>1. CASE cfg.codec = "HEVC"
    <3>1. StartCommand(bufs, cfg) = ave_cmd_build_start_hevc(h)
      BY <2>1 DEF StartCommand, h
    <3>2. /\ ave_cmd_build_start_hevc(h).vp.size = Coded(h.vp.size)
          /\ ave_cmd_build_start_hevc(h).crop = CropOff(h.vp)
      BY DEF ave_cmd_build_start_hevc, ave_vp_fill
    <3> QED BY <1>1, <1>3, <3>1, <3>2
  <2>2. CASE cfg.codec # "HEVC"
    <3>1. StartCommand(bufs, cfg) = ave_cmd_build_start_avc(a)
      BY <2>2 DEF StartCommand, a
    <3>2. /\ ave_cmd_build_start_avc(a).vp.size = Coded(a.vp.size)
          /\ ave_cmd_build_start_avc(a).crop = CropOff(a.vp)
      BY DEF ave_cmd_build_start_avc, ave_vp_fill
    <3> QED BY <1>1, <1>2, <3>1, <3>2
  <2> QED BY <2>1, <2>2
<1>5. v.size[1] = cfg.w /\ v.size[2] = cfg.h BY <1>4
<1>6. ave_mb_align(v.size[1]) = cfg.w /\ ave_mb_align(v.size[2]) = cfg.h
  BY <1>5, Aligned16 DEF ave_mb_align
<1>7. Coded(v.size) = << cfg.w, cfg.h >> BY <1>6 DEF Coded
<1>8. CropOff(v) = << (cfg.w - cfg.crop[1]) \div 2, (cfg.h - cfg.crop[2]) \div 2 >>
  BY <1>4, <1>6 DEF CropOff
<1> QED BY <1>4, <1>7, <1>8

\* A running session's frames lie in their buffers and are cropped to what the client
\* selected, whatever it asked for and in whatever order.
THEOREM GeometryHolds == Spec => []SessionGeometry
<1>1. CtxInv => SessionGeometry
  <2> SUFFICES ASSUME CtxInv, Streaming PROVE SessionGeometry BY DEF SessionGeometry
  <2>1. << fmt.w, fmt.h, fmt.crop, fmt.codec, fmt.p010 >>
          = << latched.w, latched.h, latched.crop, latched.codec, latched.p010 >>
    BY DEF CtxInv, LatchInv
  <2>2. /\ fmt.w = latched.w /\ fmt.h = latched.h /\ fmt.crop = latched.crop
        /\ fmt.codec = latched.codec /\ fmt.p010 = latched.p010
    BY <2>1
  <2>3. fmt.bpl = Bpl(latched.w, latched.p010)
    <3>1. fmt.bpl = Bpl(fmt.w, fmt.p010) BY DEF CtxInv, FormatInv, PlanesFit
    <3>2. fmt.p010 \in BOOLEAN BY DEF CtxInv, CtxTypes, Formats
    <3> QED BY <2>2, <3>1, <3>2 DEF Bpl
  <2>4. ASSUME q["out"].queued
        PROVE  q["out"].size >= fmt.bpl * (latched.h + ChromaRows(latched.codec, latched.h))
    <3>1. fmt.out_size = fmt.bpl * fmt.h + fmt.bpl * ChromaRows(fmt.codec, fmt.h)
      BY DEF CtxInv, FormatInv, PlanesFit, ave_out_size
    <3>2. fmt.h \in Nat /\ fmt.bpl \in Nat BY DEF CtxInv, CtxTypes, Formats
    <3>3. ChromaRows(fmt.codec, fmt.h) \in Nat
      <4>1. Align(fmt.h, 64) \in Nat BY <3>2, Align64
      <4> QED BY <3>2, <4>1 DEF ChromaRows
    <3>4. \A x, y, z \in Nat : x * y + x * z = x * (y + z) OBVIOUS
    <3>5. fmt.out_size = fmt.bpl * (fmt.h + ChromaRows(fmt.codec, fmt.h))
      BY <3>1, <3>2, <3>3, <3>4
    <3>6. q["out"].size >= fmt.out_size BY <2>4 DEF CtxInv, QueueInv
    <3> QED BY <2>2, <3>5, <3>6
  <2>5. LET s == StartCommand(b, latched)
        IN  \A i \in 1 .. 2 : /\ s.vp.size[i] - 2 * s.crop[i] = fmt.crop[i]
                              /\ 2 * s.crop[i] \in 0 .. 15
    <3> DEFINE s == StartCommand(b, latched)
    <3>1. /\ fmt.w \in Nat /\ fmt.h \in Nat /\ fmt.w % 16 = 0 /\ fmt.h % 16 = 0
          /\ fmt.crop[1] \in Nat /\ fmt.crop[2] \in Nat
      BY DEF CtxInv, CtxTypes, Formats, FormatInv, PictureFits
    <3>2. /\ s.vp.size[1] = fmt.w /\ s.vp.size[2] = fmt.h
          /\ s.crop[1] = (fmt.w - fmt.crop[1]) \div 2
          /\ s.crop[2] = (fmt.h - fmt.crop[2]) \div 2
      BY <2>2, <3>1, WireGeometry
    <3>3. /\ fmt.crop[1] % 2 = 0 /\ fmt.w - 14 <= fmt.crop[1] /\ fmt.crop[1] <= fmt.w
          /\ fmt.crop[2] % 2 = 0 /\ fmt.h - 14 <= fmt.crop[2] /\ fmt.crop[2] <= fmt.h
      BY DEF CtxInv, FormatInv, CropFits
    <3>4. \A x, y \in Nat :
            x % 16 = 0 /\ y % 2 = 0 /\ x - 14 <= y /\ y <= x =>
              x - 2 * ((x - y) \div 2) = y /\ 2 * ((x - y) \div 2) \in 0 .. 15
      OBVIOUS
    <3> HIDE DEF s
    <3>5. s.vp.size[1] - 2 * s.crop[1] = fmt.crop[1] /\ 2 * s.crop[1] \in 0 .. 15
      <4>1. /\ fmt.w - 2 * ((fmt.w - fmt.crop[1]) \div 2) = fmt.crop[1]
            /\ 2 * ((fmt.w - fmt.crop[1]) \div 2) \in 0 .. 15
        BY <3>1, <3>3, <3>4
      <4> QED BY <3>2, <4>1, Zenon
    <3>6. s.vp.size[2] - 2 * s.crop[2] = fmt.crop[2] /\ 2 * s.crop[2] \in 0 .. 15
      <4>1. /\ fmt.h - 2 * ((fmt.h - fmt.crop[2]) \div 2) = fmt.crop[2]
            /\ 2 * ((fmt.h - fmt.crop[2]) \div 2) \in 0 .. 15
        BY <3>1, <3>3, <3>4
      <4> QED BY <3>2, <4>1, Zenon
    <3>7. \A i \in 1 .. 2 : i = 1 \/ i = 2 OBVIOUS
    <3> QED BY <3>5, <3>6, <3>7 DEF s
  <2> QED BY <2>1, <2>3, <2>4, <2>5 DEF SessionGeometry
<1> QED BY <1>1, Context, PTL

-----------------------------------------------------------------------------
(* The tables of allocations.                                              *)

\* A piece of memory, a request for one, a table.
Kinds ==
  {"none", "shmem", "config", "open", "start", "nbr", "entropy", "recon", "low", "res", "fwc",
   "fwcm", "psets", "pic", "coded", "hdr", "coloc", "slice", "xc", "mp", "proc"}
\* A region of memory: what it is for, which of its kind, and for what stream.
Regions == [of : Kinds, i : Nat, stream : Nat]
\* A request, before the stream is known.
Names == Kinds \X Nat
\* struct ave_sess_bufs.
Buffers ==
  [dma : Seq(Regions), ipc : Seq(Regions), stream : Nat,
   nbr : Regions, entropy : Regions, res : Regions, n_dpb : 0 .. 3,
   recon : Regions, low : Regions, coloc : SUBSET Regions, coded : SUBSET Regions,
   slice : SUBSET Regions, xc : SUBSET Regions, mp : SUBSET Regions,
   pic : Regions, last_idr : Nat, proc : [Slots -> Regions]]

\* A table only grows at its end, and so do the two of the session.
Longer(s, t) == Len(s) <= Len(t) /\ \A i \in 1 .. Len(s) : t[i] = s[i]
\* d is c with more memory, for the same stream.
Grows(c, d) == Longer(c.dma, d.dma) /\ Longer(c.ipc, d.ipc) /\ d.stream = c.stream

\* A set of numbers has a least.
LEMMA LeastNumber == ASSUME NEW S, S \subseteq Nat, S # {} PROVE Min(S) \in S
<1>1. PICK x \in S : \A y \in S : x <= y
  <2> DEFINE R == OpToRel(<, Nat)
  <2>1. IsWellFoundedOn(R, Nat) BY NatLessThanWellFounded
  <2>2. \A x, y \in Nat : x < y => << x, y >> \in R BY DEF OpToRel
  <2> HIDE DEF R
  <2>3. PICK x \in S : \A y \in S : << y, x >> \notin R BY <2>1, WFMin
  <2>4. ASSUME NEW y \in S PROVE x <= y
    <3>1. x \in Nat /\ y \in Nat OBVIOUS
    <3>2. ~ (y < x) BY <2>2, <2>3, <3>1
    <3> QED BY <3>1, <3>2
  <2> QED BY <2>4
<1> QED BY <1>1 DEF Min

\* A region is of a table, at an index, of a stream.
LEMMA MineType ==
  ASSUME NEW c \in Buffers, NEW k \in Kinds, NEW i \in Nat
  PROVE  /\ Mine(c, k, i) \in Regions
         /\ Mine(c, k, i).of = k /\ Mine(c, k, i).i = i /\ Mine(c, k, i).stream = c.stream
BY DEF Mine, Region, Regions, Buffers

\* None, Config's memory and its command are regions.
LEMMA NoneType == None \in Regions /\ Config \in Regions /\ Region("config", 0, 0) \in Regions
BY DEF None, Config, Region, Regions, Kinds

\* What is in a table, by its places.
LEMMA InTable ==
  ASSUME NEW s \in Seq(Regions), NEW r
  PROVE  r \in ToSet(s) <=> \E i \in 1 .. Len(s) : s[i] = r
BY DEF ToSet

\* A longer table has all that the shorter has.
LEMMA LongerHas ==
  ASSUME NEW s \in Seq(Regions), NEW t \in Seq(Regions), Longer(s, t)
  PROVE  ToSet(s) \subseteq ToSet(t)
<1>1. Len(s) \in Nat /\ Len(t) \in Nat OBVIOUS
<1>2. \A i \in 1 .. Len(s) : i \in 1 .. Len(t) /\ t[i] = s[i] BY <1>1 DEF Longer
<1> QED BY <1>2, InTable

\* One table after another.
LEMMA LongerTwice ==
  ASSUME NEW s \in Seq(Regions), NEW t \in Seq(Regions), NEW u \in Seq(Regions),
         Longer(s, t), Longer(t, u)
  PROVE  Longer(s, u)
<1>1. Len(s) \in Nat /\ Len(t) \in Nat /\ Len(u) \in Nat OBVIOUS
<1> QED BY <1>1 DEF Longer

\* What grows keeps what it had.
LEMMA GrowsLive ==
  ASSUME NEW c \in Buffers, NEW d \in Buffers, Grows(c, d)
  PROVE  Live(c) \subseteq Live(d)
<1>1. /\ c.dma \in Seq(Regions) /\ d.dma \in Seq(Regions)
      /\ c.ipc \in Seq(Regions) /\ d.ipc \in Seq(Regions)
  BY DEF Buffers
<1>2. ToSet(c.dma) \subseteq ToSet(d.dma) /\ ToSet(c.ipc) \subseteq ToSet(d.ipc)
  BY <1>1, LongerHas DEF Grows
<1> QED BY <1>2 DEF Live

\* Growing is transitive.
LEMMA GrowsTwice ==
  ASSUME NEW c \in Buffers, NEW d \in Buffers, NEW e \in Buffers, Grows(c, d), Grows(d, e)
  PROVE  Grows(c, e)
<1>1. /\ c.dma \in Seq(Regions) /\ d.dma \in Seq(Regions) /\ e.dma \in Seq(Regions)
      /\ c.ipc \in Seq(Regions) /\ d.ipc \in Seq(Regions) /\ e.ipc \in Seq(Regions)
  BY DEF Buffers
<1> QED BY <1>1, LongerTwice DEF Grows

\* One allocation of DMA memory, made, refused or without a place.
LEMMA DmaAlloc ==
  ASSUME NEW c \in Buffers, NEW r \in Names, NEW deny
  PROVE  LET d == ave_sess_dma_alloc(c, r, deny)
         IN  /\ d \in Buffers /\ d = [c EXCEPT !.dma = d.dma] /\ Grows(c, d)
             /\ Len(d.dma) <= Len(c.dma) + 1
             /\ d = c \/ Has(d, r)
             /\ r \notin deny /\ Len(c.dma) < AVE_SESS_MAX_DMA => Has(d, r)
<1> DEFINE d == ave_sess_dma_alloc(c, r, deny)
           x == Mine(c, r[1], r[2])
<1>1. c.dma \in Seq(Regions) /\ c.ipc \in Seq(Regions) /\ Len(c.dma) \in Nat
      /\ Len(c.ipc) \in Nat
  BY DEF Buffers
<1>2. x \in Regions
  <2>1. r[1] \in Kinds /\ r[2] \in Nat BY DEF Names
  <2> QED BY <2>1, MineType
<1>3. CASE DmaFull(c) \/ r \in deny
  <2>1. d = c BY <1>3 DEF ave_sess_dma_alloc
  <2>2. c = [c EXCEPT !.dma = c.dma] BY DEF Buffers
  <2>3. Grows(c, c) BY DEF Grows, Longer
  <2>4. ~(r \notin deny /\ Len(c.dma) < AVE_SESS_MAX_DMA)
    BY <1>1, <1>3 DEF DmaFull, AVE_SESS_MAX_DMA
  <2> QED BY <1>1, <2>1, <2>2, <2>3, <2>4
<1>4. CASE ~(DmaFull(c) \/ r \in deny)
  <2> HIDE DEF x
  <2>1. d = [c EXCEPT !.dma = Append(c.dma, x)] BY <1>4 DEF ave_sess_dma_alloc, x, Buffers
  <2>2. Append(c.dma, x) \in Seq(Regions) BY <1>1, <1>2
  <2> DEFINE t == Append(c.dma, x)
  <2>3. Len(t) = Len(c.dma) + 1 /\ t[Len(c.dma) + 1] = x /\ Longer(c.dma, t)
    BY <1>1, <1>2 DEF Longer
  <2> HIDE DEF t, d
  <2>4. d \in Buffers /\ d.dma = t /\ d.ipc = c.ipc /\ d.stream = c.stream
    BY <2>1, <2>2 DEF Buffers, t
  <2>5. Grows(c, d)
    <3>1. Longer(c.ipc, c.ipc) BY <1>1 DEF Longer
    <3> QED BY <2>3, <2>4, <3>1 DEF Grows
  <2>6. Has(d, r)
    <3>1. x \in ToSet(t)
      <4>1. Len(t) \in 1 .. Len(t) /\ t[Len(t)] = x BY <1>1, <2>3
      <4> QED BY <2>2, <4>1, InTable DEF t
    <3>2. Mine(d, r[1], r[2]) = x BY <2>4 DEF Mine, x
    <3> QED BY <2>4, <3>1, <3>2 DEF Has, Live
  <2>7. d = [c EXCEPT !.dma = d.dma] BY <2>1, <2>4 DEF t
  <2> QED BY <1>1, <2>3, <2>4, <2>5, <2>6, <2>7 DEF d
<1> QED BY <1>3, <1>4

\* One command buffer.
LEMMA IpcAlloc ==
  ASSUME NEW c \in Buffers, NEW r \in Names, NEW deny
  PROVE  LET d == ave_sess_ipc_alloc(c, r, deny)
         IN  /\ d \in Buffers /\ d = [c EXCEPT !.ipc = d.ipc] /\ Grows(c, d)
             /\ Len(d.ipc) <= Len(c.ipc) + 1
             /\ d = c \/ Has(d, r)
             /\ r \notin deny /\ Len(c.ipc) < AVE_SESS_MAX_IPC => Has(d, r)
<1> DEFINE d == ave_sess_ipc_alloc(c, r, deny)
           x == Mine(c, r[1], r[2])
<1>1. c.dma \in Seq(Regions) /\ c.ipc \in Seq(Regions) /\ Len(c.dma) \in Nat
      /\ Len(c.ipc) \in Nat
  BY DEF Buffers
<1>2. x \in Regions
  <2>1. r[1] \in Kinds /\ r[2] \in Nat BY DEF Names
  <2> QED BY <2>1, MineType
<1>3. CASE IpcFull(c) \/ r \in deny
  <2>1. d = c BY <1>3 DEF ave_sess_ipc_alloc
  <2>2. c = [c EXCEPT !.ipc = c.ipc] BY DEF Buffers
  <2>3. Grows(c, c) BY DEF Grows, Longer
  <2>4. ~(r \notin deny /\ Len(c.ipc) < AVE_SESS_MAX_IPC)
    BY <1>1, <1>3 DEF IpcFull, AVE_SESS_MAX_IPC
  <2> QED BY <1>1, <2>1, <2>2, <2>3, <2>4
<1>4. CASE ~(IpcFull(c) \/ r \in deny)
  <2> HIDE DEF x
  <2>1. d = [c EXCEPT !.ipc = Append(c.ipc, x)] BY <1>4 DEF ave_sess_ipc_alloc, x, Buffers
  <2>2. Append(c.ipc, x) \in Seq(Regions) BY <1>1, <1>2
  <2> DEFINE t == Append(c.ipc, x)
  <2>3. Len(t) = Len(c.ipc) + 1 /\ t[Len(c.ipc) + 1] = x /\ Longer(c.ipc, t)
    BY <1>1, <1>2 DEF Longer
  <2> HIDE DEF t, d
  <2>4. d \in Buffers /\ d.ipc = t /\ d.dma = c.dma /\ d.stream = c.stream
    BY <2>1, <2>2 DEF Buffers, t
  <2>5. Grows(c, d)
    <3>1. Longer(c.dma, c.dma) BY <1>1 DEF Longer
    <3> QED BY <2>3, <2>4, <3>1 DEF Grows
  <2>6. Has(d, r)
    <3>1. x \in ToSet(t)
      <4>1. Len(t) \in 1 .. Len(t) /\ t[Len(t)] = x BY <1>1, <2>3
      <4> QED BY <2>2, <4>1, InTable DEF t
    <3>2. Mine(d, r[1], r[2]) = x BY <2>4 DEF Mine, x
    <3> QED BY <2>4, <3>1, <3>2 DEF Has, Live
  <2>7. d = [c EXCEPT !.ipc = d.ipc] BY <2>1, <2>4 DEF t
  <2> QED BY <1>1, <2>3, <2>4, <2>5, <2>6, <2>7 DEF d
<1> QED BY <1>3, <1>4

\* The requests that are not denied: some of them, and all when none is.
LEMMA NotDeniedFacts ==
  ASSUME NEW reqs \in Seq(Names), NEW deny
  PROVE  /\ NotDenied(reqs, deny) \in Seq(Names)
         /\ Len(NotDenied(reqs, deny)) <= Len(reqs)
         /\ (\A j \in 1 .. Len(reqs) : reqs[j] \notin deny) => NotDenied(reqs, deny) = reqs
<1> DEFINE m == Len(reqs)
           kept == {j \in DOMAIN reqs : reqs[j] \notin deny}
           n == Cardinality(kept)
           rank == [j \in kept |-> Cardinality({i \in kept : i <= j})]
           nth(k) == CHOOSE j \in kept : Cardinality({i \in kept : i <= j}) = k
<1>1. m \in Nat /\ DOMAIN reqs = 1 .. m /\ kept \subseteq 1 .. m OBVIOUS
<1>2. IsFiniteSet(1 .. m) /\ Cardinality(1 .. m) = m
  <2>1. 1 \in Int /\ m \in Int BY <1>1
  <2>2. IsFiniteSet(1 .. m) /\ Cardinality(1 .. m) = IF 1 > m THEN 0 ELSE m - 1 + 1
    BY <2>1, FS_Interval
  <2> QED BY <1>1, <2>2
<1>3. IsFiniteSet(kept) /\ n <= m BY <1>1, <1>2, FS_Subset
<1>4. n \in Nat BY <1>3, FS_CardinalityType
<1>5. NotDenied(reqs, deny) = [k \in 1 .. n |-> reqs[nth(k)]] BY DEF NotDenied
<1>6. \A j \in kept : IsFiniteSet({i \in kept : i <= j}) /\ rank[j] \in 1 .. n
  <2> SUFFICES ASSUME NEW j \in kept
               PROVE  IsFiniteSet({i \in kept : i <= j}) /\ rank[j] \in 1 .. n
    OBVIOUS
  <2> DEFINE S == {i \in kept : i <= j}
  <2>1. S \subseteq kept /\ j \in S BY <1>1
  <2>2. rank[j] = Cardinality(S) OBVIOUS
  <2> HIDE DEF S, kept
  <2>3. IsFiniteSet(S) /\ Cardinality(S) <= n /\ Cardinality(S) \in Nat
    BY <1>3, <2>1, FS_Subset, FS_CardinalityType
  <2>4. Cardinality(S) # 0 BY <2>1, <2>3, FS_EmptySet
  <2>5. Cardinality(S) \in 1 .. n BY <1>4, <2>3, <2>4
  <2> QED BY <2>2, <2>3, <2>5 DEF S
<1>7. \A j, k \in kept : j < k => rank[j] # rank[k]
  <2> SUFFICES ASSUME NEW j \in kept, NEW k \in kept, j < k, rank[j] = rank[k] PROVE FALSE
    OBVIOUS
  <2> DEFINE S == {i \in kept : i <= j}
             T == {i \in kept : i <= k}
  <2>1. S \subseteq T /\ k \in T /\ k \notin S BY <1>1
  <2>2. Cardinality(S) = Cardinality(T) OBVIOUS
  <2>3. IsFiniteSet(T) BY <1>6
  <2> HIDE DEF S, T
  <2>4. S = T BY <2>1, <2>2, <2>3, FS_Subset
  <2> QED BY <2>1, <2>4
<1>8. \A k \in 1 .. n : nth(k) \in kept /\ Cardinality({i \in kept : i <= nth(k)}) = k
  <2>1. \A j, k \in kept : rank[j] = rank[k] => j = k
    <3>1. \A j, k \in kept : j < k \/ k < j \/ j = k BY <1>1
    <3> HIDE DEF kept, rank
    <3> QED BY <1>7, <3>1
  <2>2. rank \in [kept -> 1 .. n]
    <3>1. rank = [j \in kept |-> rank[j]] OBVIOUS
    <3> HIDE DEF kept, rank
    <3> QED BY <1>6, <3>1
  <2>3. rank \in Injection(kept, 1 .. n)
    <3> HIDE DEF kept, rank, n
    <3> QED BY <2>1, <2>2 DEF Injection, IsInjective
  <2>4. IsFiniteSet(1 .. n) /\ Cardinality(1 .. n) = n
    <3>1. 1 \in Int /\ n \in Int BY <1>4
    <3>2. IsFiniteSet(1 .. n) /\ Cardinality(1 .. n) = IF 1 > n THEN 0 ELSE n - 1 + 1
      BY <3>1, FS_Interval
    <3> HIDE DEF n
    <3> QED BY <1>4, <3>2
  <2>5. rank \in Surjection(kept, 1 .. n)
    <3> HIDE DEF rank
    <3> QED BY <2>3, <2>4, FS_Injection
  <2>6. \A k \in 1 .. n : \E j \in kept : rank[j] = k BY <2>5 DEF Surjection
  <2>7. \A j \in kept : rank[j] = Cardinality({i \in kept : i <= j}) OBVIOUS
  <2> HIDE DEF rank, kept
  <2>8. \A k \in 1 .. n : \E j \in kept : Cardinality({i \in kept : i <= j}) = k
    BY <2>6, <2>7
  <2> QED BY <2>8
<1>9. \A k \in 1 .. n : reqs[nth(k)] \in Names
  <2>1. \A j \in 1 .. m : reqs[j] \in Names OBVIOUS
  <2> HIDE DEF nth, kept, n
  <2> QED BY <1>1, <1>8, <2>1
<1>10. [k \in 1 .. n |-> reqs[nth(k)]] \in Seq(Names)
  <2> HIDE DEF nth, n
  <2> QED BY <1>4, <1>9
<1>11. Len([k \in 1 .. n |-> reqs[nth(k)]]) = n
  <2> HIDE DEF nth, n
  <2> QED BY <1>4
<1>12. ASSUME \A j \in 1 .. m : reqs[j] \notin deny PROVE NotDenied(reqs, deny) = reqs
  <2>1. kept = 1 .. m BY <1>1, <1>12
  <2>2. n = m BY <1>2, <2>1
  <2>3. ASSUME NEW k \in 1 .. m PROVE nth(k) = k
    <3>1. nth(k) \in 1 .. m /\ Cardinality({i \in kept : i <= nth(k)}) = k
      <4> HIDE DEF nth, n
      <4> QED BY <1>1, <1>8, <2>2, <2>3
    <3> HIDE DEF nth
    <3>2. {i \in kept : i <= nth(k)} = 1 .. nth(k) BY <1>1, <2>1, <3>1
    <3>3. Cardinality(1 .. nth(k)) = nth(k)
      <4>1. 1 \in Int /\ nth(k) \in Int /\ nth(k) >= 1 BY <1>1, <3>1
      <4>2. Cardinality(1 .. nth(k)) = IF 1 > nth(k) THEN 0 ELSE nth(k) - 1 + 1
        BY <4>1, FS_Interval
      <4> QED BY <4>1, <4>2
    <3> QED BY <3>1, <3>2, <3>3
  <2>4. NotDenied(reqs, deny) = [k \in 1 .. m |-> reqs[k]]
    <3> HIDE DEF nth, n, kept
    <3> QED BY <1>5, <2>2, <2>3
  <2> QED BY <1>1, <2>4
<1> HIDE DEF nth, n, kept
<1> QED BY <1>3, <1>5, <1>10, <1>11, <1>12

\* One table after the other, place by place.
LEMMA TwoTables ==
  ASSUME NEW s \in Seq(Regions), NEW t \in Seq(Regions)
  PROVE  /\ s \o t \in Seq(Regions) /\ Len(s \o t) = Len(s) + Len(t)
         /\ \A i \in 1 .. Len(s) + Len(t) :
               (s \o t)[i] = IF i <= Len(s) THEN s[i] ELSE t[i - Len(s)]
BY ConcatProperties

\* A group sequence of requests: what was there stays, the bounds hold, and when it
\* succeeds, which is when nothing is denied and all of it has a place, all was given.
LEMMA TakeFacts ==
  ASSUME NEW c \in Buffers, Len(c.dma) <= AVE_SESS_MAX_DMA,
         NEW reqs \in Seq(Names), NEW size \in 1 .. 2, NEW deny
  PROVE  LET t == Take(c, reqs, size, deny)
         IN  /\ t.b \in Buffers /\ t.b = [c EXCEPT !.dma = t.b.dma] /\ Grows(c, t.b)
             /\ Len(t.b.dma) <= Len(c.dma) + Len(reqs)
             /\ Len(t.b.dma) <= AVE_SESS_MAX_DMA
             /\ t.ok <=> \A j \in 1 .. Len(reqs) :
                          reqs[j] \notin deny /\ Len(c.dma) + j <= AVE_SESS_MAX_DMA
             /\ t.ok => \A j \in 1 .. Len(reqs) : Has(t.b, reqs[j])
<1> DEFINE bad == {j \in DOMAIN reqs :
                     reqs[j] \in deny \/ Len(c.dma) + j > AVE_SESS_MAX_DMA}
           asked == IF bad = {} THEN Len(reqs)
                    ELSE Min({Len(reqs), ((Min(bad) + size - 1) \div size) * size})
           part == SubSeq(reqs, 1, asked)
           got == NotDenied(part, deny)
           x == [j \in DOMAIN got |-> Mine(c, got[j][1], got[j][2])]
           all == c.dma \o x
           m == Min({Len(all), AVE_SESS_MAX_DMA})
           dma == SubSeq(all, 1, m)
           t == Take(c, reqs, size, deny)
<1>1. t = [b |-> [c EXCEPT !.dma = dma], ok |-> bad = {}] BY DEF Take
<1>2. c.dma \in Seq(Regions) /\ c.ipc \in Seq(Regions) /\ Len(c.dma) \in Nat
      /\ c = [c EXCEPT !.dma = c.dma]
  BY DEF Buffers
<1>3. Len(reqs) \in Nat /\ DOMAIN reqs = 1 .. Len(reqs) /\ bad \subseteq 1 .. Len(reqs)
  OBVIOUS
<1>4. asked \in 0 .. Len(reqs) /\ (bad = {} => asked = Len(reqs))
  <2>1. CASE bad = {} BY <1>3, <2>1
  <2>2. CASE bad # {}
    <3>1. bad \subseteq Nat BY <1>3
    <3>2. Min(bad) \in bad BY <2>2, <3>1, LeastNumber
    <3> DEFINE k == Min(bad)
               y == ((k + size - 1) \div size) * size
    <3>3. k \in Nat BY <3>1, <3>2
    <3> HIDE DEF k
    <3>4. y \in Nat
      <4>1. CASE size = 1
        <5>1. y = ((k + 1 - 1) \div 1) * 1 BY <4>1
        <5> QED BY <3>3, <5>1
      <4>2. CASE size = 2
        <5>1. y = ((k + 2 - 1) \div 2) * 2 BY <4>2
        <5> QED BY <3>3, <5>1
      <4> QED BY <4>1, <4>2
    <3>5. asked = Min({Len(reqs), y}) BY <2>2 DEF k
    <3> HIDE DEF y, asked
    <3> QED BY <1>3, <2>2, <3>4, <3>5, MinTwo
  <2> QED BY <2>1, <2>2
<1>5. part \in Seq(Names) /\ Len(part) = asked /\ (bad = {} => part = reqs)
  <2>1. \A i \in 1 .. asked : reqs[i] \in Names
    <3>1. \A i \in 1 .. Len(reqs) : reqs[i] \in Names OBVIOUS
    <3>2. asked \in 0 .. Len(reqs) BY <1>4
    <3> HIDE DEF asked
    <3> QED BY <1>3, <3>1, <3>2
  <2>2. 1 \in Int /\ asked \in Int BY <1>4
  <2> HIDE DEF asked, bad
  <2>3. part \in Seq(Names) /\ Len(part) = IF 1 <= asked THEN asked - 1 + 1 ELSE 0
    BY <2>1, <2>2, SubSeqProperties
  <2>4. \A i \in 1 .. asked - 1 + 1 : part[i] = reqs[1 + i - 1]
    BY <2>1, <2>2, SubSeqProperties
  <2>5. Len(part) = asked BY <1>4, <2>3
  <2> HIDE DEF part
  <2>6. ASSUME bad = {} PROVE part = reqs
    <3>1. Len(part) = Len(reqs) BY <1>4, <2>5, <2>6
    <3>2. \A i \in 1 .. Len(reqs) : part[i] = reqs[i]
      <4>1. \A i \in 1 .. Len(reqs) : 1 + i - 1 = i /\ i \in 1 .. asked - 1 + 1
        BY <1>3, <1>4, <2>6
      <4> QED BY <2>4, <4>1
    <3> QED BY <2>3, <3>1, <3>2, <1>3
  <2> QED BY <2>3, <2>5, <2>6
<1> HIDE DEF part
<1>6. /\ got \in Seq(Names) /\ Len(got) <= asked
      /\ bad = {} => got = reqs
  <2>1. got \in Seq(Names) /\ Len(got) <= Len(part) BY <1>5, NotDeniedFacts
  <2>2. ASSUME bad = {} PROVE got = reqs
    <3>1. part = reqs BY <1>5, <2>2
    <3>2. \A j \in 1 .. Len(reqs) : reqs[j] \notin deny BY <1>3, <2>2
    <3> QED BY <3>1, <3>2, NotDeniedFacts
  <2> HIDE DEF bad, asked, got
  <2> QED BY <1>5, <2>1, <2>2
<1> HIDE DEF asked, got, bad
<1>7. /\ x \in Seq(Regions) /\ Len(x) = Len(got) /\ Len(got) \in Nat
      /\ \A j \in 1 .. Len(got) : x[j] = Mine(c, got[j][1], got[j][2])
  <2>1. DOMAIN got = 1 .. Len(got) /\ Len(got) \in Nat
        /\ \A j \in 1 .. Len(got) : got[j] \in Names
    BY <1>6
  <2>2. \A r \in Names : r[1] \in Kinds /\ r[2] \in Nat BY DEF Names
  <2>3. \A j \in 1 .. Len(got) : Mine(c, got[j][1], got[j][2]) \in Regions
    BY <2>1, <2>2, MineType
  <2>4. x = [j \in 1 .. Len(got) |-> Mine(c, got[j][1], got[j][2])] BY <2>1
  <2> QED BY <2>1, <2>3, <2>4
<1> HIDE DEF x
<1>8. /\ all \in Seq(Regions) /\ Len(all) = Len(c.dma) + Len(got)
      /\ \A i \in 1 .. Len(c.dma) : all[i] = c.dma[i]
      /\ \A j \in 1 .. Len(got) : all[Len(c.dma) + j] = x[j]
  <2>1. /\ all \in Seq(Regions) /\ Len(all) = Len(c.dma) + Len(x)
        /\ \A i \in 1 .. Len(c.dma) + Len(x) :
              all[i] = IF i <= Len(c.dma) THEN c.dma[i] ELSE x[i - Len(c.dma)]
    BY <1>2, <1>7, TwoTables
  <2> HIDE DEF all
  <2>2. \A i \in 1 .. Len(c.dma) : i \in 1 .. Len(c.dma) + Len(x) /\ i <= Len(c.dma)
    BY <1>2, <1>7
  <2>3. \A j \in 1 .. Len(got) :
          /\ Len(c.dma) + j \in 1 .. Len(c.dma) + Len(x) /\ ~(Len(c.dma) + j <= Len(c.dma))
          /\ (Len(c.dma) + j) - Len(c.dma) = j
    BY <1>2, <1>7
  <2> QED BY <1>7, <2>1, <2>2, <2>3
<1> HIDE DEF all
<1>9. m \in Nat /\ m <= Len(all) /\ m <= 48 /\ Len(c.dma) <= m
      /\ (Len(all) <= 48 => m = Len(all))
  <2>1. Len(all) \in Int BY <1>2, <1>7, <1>8
  <2>2. m = IF Len(all) <= 48 THEN Len(all) ELSE 48 BY <2>1, MinTwo DEF AVE_SESS_MAX_DMA
  <2> HIDE DEF m
  <2> QED BY <1>2, <1>7, <1>8, <2>2 DEF AVE_SESS_MAX_DMA
<1> HIDE DEF m
<1>10. /\ dma \in Seq(Regions) /\ Len(dma) = m
       /\ \A i \in 1 .. m : dma[i] = all[i]
  <2>1. \A i \in 1 .. m : all[i] \in Regions
    <3>1. \A i \in 1 .. m : i \in 1 .. Len(all) BY <1>9, <1>8
    <3> QED BY <1>8, <3>1
  <2>2. 1 \in Int /\ m \in Int BY <1>9
  <2>3. /\ dma \in Seq(Regions) /\ Len(dma) = (IF 1 <= m THEN m - 1 + 1 ELSE 0)
        /\ \A i \in 1 .. m - 1 + 1 : dma[i] = all[1 + i - 1]
    BY <2>1, <2>2, SubSeqProperties
  <2> HIDE DEF dma
  <2>4. \A i \in 1 .. m : i \in 1 .. m - 1 + 1 /\ 1 + i - 1 = i BY <1>9
  <2> QED BY <1>9, <2>3, <2>4
<1> HIDE DEF dma
<1> DEFINE d == [c EXCEPT !.dma = dma]
<1>11. /\ d \in Buffers /\ d.dma = dma /\ d.ipc = c.ipc /\ d.stream = c.stream
       /\ t.b = d /\ t.ok = (bad = {})
  <2>1. /\ d \in Buffers /\ d.dma = dma /\ d.ipc = c.ipc /\ d.stream = c.stream
    BY <1>10 DEF Buffers
  <2> HIDE DEF d
  <2>2. t = [b |-> d, ok |-> bad = {}] BY <1>1 DEF d
  <2> HIDE DEF t
  <2>3. t.b = d /\ t.ok = (bad = {}) BY <2>2
  <2> QED BY <2>1, <2>3
<1>12. Grows(c, d)
  <2>1. Longer(c.dma, dma)
    <3>1. \A i \in 1 .. Len(c.dma) : i \in 1 .. m BY <1>2, <1>9
    <3> QED BY <1>8, <1>9, <1>10, <3>1 DEF Longer
  <2>2. Longer(c.ipc, c.ipc) BY <1>2 DEF Longer
  <2> QED BY <1>11, <2>1, <2>2 DEF Grows
<1>13. Len(dma) <= Len(c.dma) + Len(reqs) /\ Len(dma) <= AVE_SESS_MAX_DMA
  <2>1. Len(got) <= Len(reqs)
    <3>1. Len(got) <= asked /\ asked \in 0 .. Len(reqs) BY <1>4, <1>6
    <3> QED BY <1>3, <1>7, <3>1
  <2> QED BY <1>2, <1>3, <1>7, <1>8, <1>9, <1>10, <2>1 DEF AVE_SESS_MAX_DMA
<1>14. bad = {} <=> \A j \in 1 .. Len(reqs) :
                     reqs[j] \notin deny /\ Len(c.dma) + j <= AVE_SESS_MAX_DMA
  <2>1. \A j \in 1 .. Len(reqs) :
          ~(Len(c.dma) + j > AVE_SESS_MAX_DMA) <=> Len(c.dma) + j <= AVE_SESS_MAX_DMA
    BY <1>2 DEF AVE_SESS_MAX_DMA
  <2> QED BY <1>3, <2>1 DEF bad
<1>15. ASSUME bad = {}, NEW j \in 1 .. Len(reqs) PROVE Has(d, reqs[j])
  <2>1. got = reqs BY <1>6, <1>15
  <2>2. Len(all) <= 48
    <3>1. CASE Len(reqs) = 0 BY <1>2, <1>8, <2>1, <3>1 DEF AVE_SESS_MAX_DMA
    <3>2. CASE Len(reqs) # 0
      <4>1. Len(reqs) \in 1 .. Len(reqs) BY <1>3, <3>2
      <4> QED BY <1>8, <1>14, <1>15, <2>1, <4>1 DEF AVE_SESS_MAX_DMA
    <3> QED BY <3>1, <3>2
  <2>3. m = Len(c.dma) + Len(reqs) BY <1>8, <1>9, <2>1, <2>2
  <2>4. Len(c.dma) + j \in 1 .. m BY <1>2, <1>3, <2>3
  <2>5. dma[Len(c.dma) + j] = Mine(c, reqs[j][1], reqs[j][2])
    BY <1>7, <1>8, <1>10, <2>1, <2>4
  <2>6. Mine(c, reqs[j][1], reqs[j][2]) \in ToSet(dma) BY <1>10, <2>4, <2>5, InTable
  <2>7. Mine(d, reqs[j][1], reqs[j][2]) = Mine(c, reqs[j][1], reqs[j][2])
    BY <1>11 DEF Mine
  <2> QED BY <1>11, <2>6, <2>7 DEF Has, Live
<1>16. d = [c EXCEPT !.dma = d.dma] BY <1>11
<1> HIDE DEF d, t
<1> QED BY <1>11, <1>12, <1>13, <1>14, <1>15, <1>16 DEF t

-----------------------------------------------------------------------------
(* The buffers of a session that starts.                                   *)

\* A configuration as ave_start_streaming() makes it, in what the buffers depend on.
Sizing(cfg) ==
  /\ cfg.codec \in {"H264", "HEVC"} /\ cfg.bufs \in BOOLEAN /\ cfg.mp \in {0, 2}
  /\ cfg.slots = AVE_SESS_FRAMES_MAX /\ cfg.bframes \in 0 .. 2 /\ cfg.p_refs \in 1 .. 2

\* What the stream keeps through its allocations.
SameStream(c, d) ==
  d.slice = c.slice /\ d.xc = c.xc /\ d.pic = c.pic /\ d.proc = c.proc

\* Live memory depends on the two tables alone, and so does what is there.
LEMMA SameLive ==
  ASSUME NEW c, NEW d, d.dma = c.dma, d.ipc = c.ipc, d.stream = c.stream
  PROVE  /\ Live(d) = Live(c)
         /\ \A r : Has(d, r) <=> Has(c, r)
         /\ \A k, i : Mine(d, k, i) = Mine(c, k, i)
BY DEF Live, Has, Mine

\* The tables and the fields of a session's buffers.
LEMMA TableTypes ==
  ASSUME NEW c \in Buffers
  PROVE  /\ c.dma \in Seq(Regions) /\ c.ipc \in Seq(Regions) /\ c.stream \in Nat
         /\ Len(c.dma) \in Nat /\ Len(c.ipc) \in Nat
         /\ c.nbr \in Regions /\ c.entropy \in Regions /\ c.res \in Regions
         /\ c.recon \in Regions /\ c.low \in Regions /\ c.pic \in Regions
BY DEF Buffers

\* What a change of one table leaves.
LEMMA DmaOnly ==
  ASSUME NEW c \in Buffers, NEW d \in Buffers, d = [c EXCEPT !.dma = d.dma]
  PROVE  /\ d.ipc = c.ipc /\ d.stream = c.stream /\ d.nbr = c.nbr /\ d.entropy = c.entropy
         /\ d.res = c.res /\ d.n_dpb = c.n_dpb /\ d.recon = c.recon /\ d.low = c.low
         /\ d.coloc = c.coloc /\ d.coded = c.coded /\ d.mp = c.mp /\ d.last_idr = c.last_idr
         /\ SameStream(c, d)
BY DEF Buffers, SameStream

\* The same of the command buffers.
LEMMA IpcOnly ==
  ASSUME NEW c \in Buffers, NEW d \in Buffers, d = [c EXCEPT !.ipc = d.ipc]
  PROVE  /\ d.dma = c.dma /\ d.stream = c.stream /\ d.nbr = c.nbr /\ d.entropy = c.entropy
         /\ d.res = c.res /\ d.n_dpb = c.n_dpb /\ d.recon = c.recon /\ d.low = c.low
         /\ d.coloc = c.coloc /\ d.coded = c.coded /\ d.mp = c.mp /\ d.last_idr = c.last_idr
         /\ SameStream(c, d)
BY DEF Buffers, SameStream

\* A region of a kind is not None.
LEMMA NotNone ==
  ASSUME NEW c \in Buffers, NEW k \in Kinds, k # "none", NEW i \in Nat
  PROVE  Mine(c, k, i) # None
<1>1. None.of = "none" BY DEF None, Region
<1> QED BY <1>1, MineType

\* The SrcNeighbor arena: given, unless it is denied or has no place; its field keeps
\* what it was when it is not.
LEMMA NbrFacts ==
  ASSUME NEW c \in Buffers, NEW deny
  PROVE  LET d == ave_session_alloc_nbr(c, deny)
         IN  /\ d \in Buffers /\ d = [c EXCEPT !.dma = d.dma, !.nbr = d.nbr] /\ Grows(c, d)
             /\ Len(d.dma) <= Len(c.dma) + 1
             /\ << "nbr", 0 >> \notin deny /\ Len(c.dma) < AVE_SESS_MAX_DMA =>
                  d.nbr \in Live(d) /\ d.nbr # None
<1> DEFINE e == ave_sess_dma_alloc(c, << "nbr", 0 >>, deny)
           d == ave_session_alloc_nbr(c, deny)
           x == Mine(c, "nbr", 0)
<1>1. << "nbr", 0 >> \in Names /\ "nbr" \in Kinds BY DEF Names, Kinds
<1>2. /\ e \in Buffers /\ e = [c EXCEPT !.dma = e.dma] /\ Grows(c, e)
      /\ Len(e.dma) <= Len(c.dma) + 1
      /\ << "nbr", 0 >> \notin deny /\ Len(c.dma) < AVE_SESS_MAX_DMA => Has(e, << "nbr", 0 >>)
  BY <1>1, DmaAlloc
<1>3. x \in Regions /\ x # None BY <1>1, MineType, NotNone
<1>4. d = IF Has(e, << "nbr", 0 >>) THEN [e EXCEPT !.nbr = x] ELSE e
  BY DEF ave_session_alloc_nbr
<1>5. Has(e, << "nbr", 0 >>) => x \in Live(e)
  <2>1. e.stream = c.stream BY <1>2 DEF Grows
  <2> QED BY <2>1 DEF Has, Mine
<1> HIDE DEF e, x, d
<1>6. CASE Has(e, << "nbr", 0 >>)
  <2>1. d = [e EXCEPT !.nbr = x] BY <1>4, <1>6
  <2>2. /\ d \in Buffers /\ d.dma = e.dma /\ d.ipc = e.ipc /\ d.stream = e.stream /\ d.nbr = x
    BY <1>2, <1>3, <2>1 DEF Buffers
  <2>3. d = [c EXCEPT !.dma = d.dma, !.nbr = d.nbr] BY <1>2, <2>1, <2>2 DEF Buffers
  <2>4. Grows(c, d) BY <1>2, <2>2 DEF Grows
  <2>5. d.nbr \in Live(d) BY <1>5, <1>6, <2>2, SameLive
  <2> QED BY <1>2, <1>3, <2>2, <2>3, <2>4, <2>5 DEF d
<1>7. CASE ~Has(e, << "nbr", 0 >>)
  <2>1. d = e BY <1>4, <1>7
  <2>2. d = [c EXCEPT !.dma = d.dma, !.nbr = d.nbr] BY <1>2, <2>1 DEF Buffers
  <2> QED BY <1>2, <1>7, <2>1, <2>2 DEF d
<1> QED BY <1>6, <1>7

\* The arena of entropy buffers.
LEMMA EntropyFacts ==
  ASSUME NEW c \in Buffers, NEW deny
  PROVE  LET d == ave_session_alloc_entropy(c, deny)
         IN  /\ d \in Buffers /\ d = [c EXCEPT !.dma = d.dma, !.entropy = d.entropy]
             /\ Grows(c, d) /\ Len(d.dma) <= Len(c.dma) + 1
             /\ << "entropy", 0 >> \notin deny /\ Len(c.dma) < AVE_SESS_MAX_DMA =>
                  d.entropy \in Live(d) /\ d.entropy # None
<1> DEFINE e == ave_sess_dma_alloc(c, << "entropy", 0 >>, deny)
           d == ave_session_alloc_entropy(c, deny)
           x == Mine(c, "entropy", 0)
<1>1. << "entropy", 0 >> \in Names /\ "entropy" \in Kinds BY DEF Names, Kinds
<1>2. /\ e \in Buffers /\ e = [c EXCEPT !.dma = e.dma] /\ Grows(c, e)
      /\ Len(e.dma) <= Len(c.dma) + 1
      /\ << "entropy", 0 >> \notin deny /\ Len(c.dma) < AVE_SESS_MAX_DMA =>
           Has(e, << "entropy", 0 >>)
  BY <1>1, DmaAlloc
<1>3. x \in Regions /\ x # None BY <1>1, MineType, NotNone
<1>4. d = IF Has(e, << "entropy", 0 >>) THEN [e EXCEPT !.entropy = x] ELSE e
  BY DEF ave_session_alloc_entropy
<1>5. Has(e, << "entropy", 0 >>) => x \in Live(e)
  <2>1. e.stream = c.stream BY <1>2 DEF Grows
  <2> QED BY <2>1 DEF Has, Mine
<1> HIDE DEF e, x, d
<1>6. CASE Has(e, << "entropy", 0 >>)
  <2>1. d = [e EXCEPT !.entropy = x] BY <1>4, <1>6
  <2>2. /\ d \in Buffers /\ d.dma = e.dma /\ d.ipc = e.ipc /\ d.stream = e.stream
        /\ d.entropy = x
    BY <1>2, <1>3, <2>1 DEF Buffers
  <2>3. d = [c EXCEPT !.dma = d.dma, !.entropy = d.entropy] BY <1>2, <2>1, <2>2 DEF Buffers
  <2>4. Grows(c, d) BY <1>2, <2>2 DEF Grows
  <2>5. d.entropy \in Live(d) BY <1>5, <1>6, <2>2, SameLive
  <2> QED BY <1>2, <1>3, <2>2, <2>3, <2>4, <2>5 DEF d
<1>7. CASE ~Has(e, << "entropy", 0 >>)
  <2>1. d = e BY <1>4, <1>7
  <2>2. d = [c EXCEPT !.dma = d.dma, !.entropy = d.entropy] BY <1>2, <2>1 DEF Buffers
  <2> QED BY <1>2, <1>7, <2>1, <2>2 DEF d
<1> QED BY <1>6, <1>7

\* The slots of a DPB.
LEMMA SlotsFacts == ASSUME NEW cfg PROVE DpbSlots(cfg) = IF TwoRefs(cfg) THEN 3 ELSE 2
<1>1. Max({2, 3}) = 3 BY MaxTwo
<1> QED BY <1>1 DEF DpbSlots, session_dpb

\* The DPB's arenas: all or nothing of the reconstruction surfaces.
LEMMA DpbFacts ==
  ASSUME NEW c \in Buffers, Len(c.dma) <= AVE_SESS_MAX_DMA - 3, NEW cfg, NEW deny
  PROVE  LET d == ave_session_alloc_dpb(c, cfg, deny)
         IN  /\ d \in Buffers /\ Grows(c, d) /\ Len(d.dma) <= Len(c.dma) + 3
             /\ d.ipc = c.ipc /\ d.nbr = c.nbr /\ d.entropy = c.entropy /\ SameStream(c, d)
             /\ << "recon", 0 >> \notin deny => d.n_dpb # 0
             /\ d.n_dpb # 0 =>
                  /\ d.n_dpb = DpbSlots(cfg) /\ d.recon \in Live(d)
                  /\ Some(d.low) \subseteq Live(d)
                  /\ << "res", 0 >> \notin deny => Some(d.res) \subseteq Live(d)
<1> DEFINE z == [c EXCEPT !.n_dpb = 0]
           r == ave_sess_dma_alloc(z, << "recon", 0 >>, deny)
           l == ave_sess_dma_alloc(r, << "low", 0 >>, deny)
           s == ave_sess_dma_alloc(l, << "res", 0 >>, deny)
           d == ave_session_alloc_dpb(c, cfg, deny)
           recon == Mine(c, "recon", 0)
           low == IF Has(l, << "low", 0 >>) THEN Mine(c, "low", 0) ELSE None
           res == IF Has(s, << "res", 0 >>) THEN Mine(c, "res", 0) ELSE s.res
           n == DpbSlots(cfg)
<1>1. /\ << "recon", 0 >> \in Names /\ << "low", 0 >> \in Names /\ << "res", 0 >> \in Names
      /\ {"recon", "low", "res"} \subseteq Kinds
  BY DEF Names, Kinds
<1>2. /\ z \in Buffers /\ z.dma = c.dma /\ z.ipc = c.ipc /\ z.stream = c.stream /\ z.n_dpb = 0
      /\ z.nbr = c.nbr /\ z.entropy = c.entropy /\ SameStream(c, z)
      /\ Len(c.dma) \in Nat
  <2>1. 0 \in 0 .. 3 OBVIOUS
  <2>2. z \in Buffers BY <2>1 DEF Buffers
  <2>3. /\ z.dma = c.dma /\ z.ipc = c.ipc /\ z.stream = c.stream /\ z.n_dpb = 0
        /\ z.nbr = c.nbr /\ z.entropy = c.entropy
    BY DEF Buffers
  <2>4. SameStream(c, z) BY DEF Buffers, SameStream
  <2> QED BY <2>2, <2>3, <2>4, TableTypes
<1>3. d = IF ~Has(r, << "recon", 0 >>) THEN r
          ELSE [s EXCEPT !.n_dpb = n, !.recon = recon, !.low = low, !.res = res]
  BY DEF ave_session_alloc_dpb, Buffers
<1> HIDE DEF z
<1>4. /\ r \in Buffers /\ r = [z EXCEPT !.dma = r.dma] /\ Grows(z, r)
      /\ Len(r.dma) <= Len(z.dma) + 1
      /\ << "recon", 0 >> \notin deny /\ Len(z.dma) < AVE_SESS_MAX_DMA =>
           Has(r, << "recon", 0 >>)
  <2>1. z \in Buffers /\ << "recon", 0 >> \in Names BY <1>1, <1>2
  <2> QED BY <2>1, DmaAlloc
<1>5. Has(r, << "recon", 0 >>) <=> recon \in Live(r)
  <2>1. r.stream = c.stream BY <1>2, <1>4 DEF Grows
  <2> QED BY <2>1 DEF Has, Mine
<1> HIDE DEF r
<1>6. /\ l \in Buffers /\ l = [r EXCEPT !.dma = l.dma] /\ Grows(r, l)
      /\ Len(l.dma) <= Len(r.dma) + 1
  <2>1. r \in Buffers /\ << "low", 0 >> \in Names BY <1>1, <1>4
  <2> QED BY <2>1, DmaAlloc
<1>7. Has(l, << "low", 0 >>) => Mine(c, "low", 0) \in Live(l)
  <2>1. l.stream = c.stream BY <1>2, <1>4, <1>6 DEF Grows
  <2> QED BY <2>1 DEF Has, Mine
<1> HIDE DEF l
<1>8. /\ s \in Buffers /\ s = [l EXCEPT !.dma = s.dma] /\ Grows(l, s)
      /\ Len(s.dma) <= Len(l.dma) + 1
      /\ << "res", 0 >> \notin deny /\ Len(l.dma) < AVE_SESS_MAX_DMA => Has(s, << "res", 0 >>)
  <2>1. l \in Buffers /\ << "res", 0 >> \in Names BY <1>1, <1>6
  <2> QED BY <2>1, DmaAlloc
<1>9. Has(s, << "res", 0 >>) => Mine(c, "res", 0) \in Live(s)
  <2>1. s.stream = c.stream BY <1>2, <1>4, <1>6, <1>8 DEF Grows
  <2> QED BY <2>1 DEF Has, Mine
<1> HIDE DEF s
<1>10. /\ r.ipc = z.ipc /\ r.stream = z.stream /\ r.n_dpb = z.n_dpb /\ r.nbr = z.nbr
       /\ r.entropy = z.entropy /\ SameStream(z, r)
  BY <1>2, <1>4, DmaOnly
<1>11. /\ l.ipc = r.ipc /\ l.stream = r.stream /\ l.nbr = r.nbr
       /\ l.entropy = r.entropy /\ SameStream(r, l)
  BY <1>4, <1>6, DmaOnly
<1>12. /\ s.ipc = l.ipc /\ s.stream = l.stream /\ s.nbr = l.nbr
       /\ s.entropy = l.entropy /\ SameStream(l, s)
  BY <1>6, <1>8, DmaOnly
<1>13. Len(r.dma) \in Nat /\ Len(l.dma) \in Nat /\ Len(s.dma) \in Nat
  <2>1. r \in Buffers /\ l \in Buffers /\ s \in Buffers BY <1>4, <1>6, <1>8
  <2> QED BY <2>1, TableTypes
<1>14. Len(c.dma) <= 45 BY DEF AVE_SESS_MAX_DMA
<1>15. Len(z.dma) < AVE_SESS_MAX_DMA /\ Len(l.dma) < AVE_SESS_MAX_DMA
       /\ Len(s.dma) <= Len(c.dma) + 3 /\ Len(r.dma) <= Len(c.dma) + 3
  <2> DEFINE nc == Len(c.dma)
             nz == Len(z.dma)
             nr == Len(r.dma)
             nl == Len(l.dma)
             ns == Len(s.dma)
  <2>1. nz = nc /\ nr <= nz + 1 /\ nl <= nr + 1 /\ ns <= nl + 1 /\ nc <= 45
    BY <1>2, <1>4, <1>6, <1>8, <1>14, Zenon
  <2>2. nc \in Nat /\ nr \in Nat /\ nl \in Nat /\ ns \in Nat BY <1>2, <1>13
  <2> HIDE DEF nc, nz, nr, nl, ns
  <2>3. nz < AVE_SESS_MAX_DMA /\ nl < AVE_SESS_MAX_DMA /\ ns <= nc + 3 /\ nr <= nc + 3
    BY <2>1, <2>2 DEF AVE_SESS_MAX_DMA
  <2> QED BY <2>3, Zenon DEF nc, nz, nr, nl, ns
<1>16. Grows(c, z) BY <1>2 DEF Grows, Longer
<1>17. Grows(c, r) BY <1>2, <1>4, <1>16, GrowsTwice
<1>18. CASE ~Has(r, << "recon", 0 >>)
  <2>1. d = r BY <1>3, <1>18
  <2>2. d.n_dpb = 0 /\ << "recon", 0 >> \in deny BY <1>2, <1>4, <1>10, <1>15, <1>18, <2>1
  <2> HIDE DEF d
  <2> QED BY <1>2, <1>4, <1>10, <1>15, <1>17, <2>1, <2>2 DEF SameStream, d
<1>19. CASE Has(r, << "recon", 0 >>)
  <2>1. recon \in Regions /\ Mine(c, "low", 0) \in Regions /\ Mine(c, "res", 0) \in Regions
    BY <1>1, MineType
  <2>2. low \in Regions BY <2>1, NoneType
  <2>3. res \in Regions BY <1>8, <2>1 DEF Buffers
  <2>4. n \in 1 .. 3 BY SlotsFacts
  <2>5. d = [s EXCEPT !.n_dpb = n, !.recon = recon, !.low = low, !.res = res]
    BY <1>3, <1>19
  <2>6. Some(low) \subseteq Live(l) BY <1>7 DEF Some
  <2>7. << "res", 0 >> \notin deny => res \in Live(s) BY <1>8, <1>9, <1>15
  <2> HIDE DEF recon, low, res, n, d
  <2>8. d \in Buffers
    <3>1. s \in Buffers /\ n \in 0 .. 3 BY <1>8, <2>4
    <3> QED BY <2>1, <2>2, <2>3, <2>5, <3>1 DEF Buffers
  <2>9. /\ d.dma = s.dma /\ d.ipc = s.ipc /\ d.stream = s.stream /\ d.nbr = s.nbr
        /\ d.entropy = s.entropy /\ SameStream(s, d)
        /\ d.n_dpb = n /\ d.recon = recon /\ d.low = low /\ d.res = res
    BY <1>8, <2>5 DEF Buffers, SameStream
  <2>10. Grows(c, s) BY <1>4, <1>6, <1>8, <1>17, GrowsTwice
  <2>11. Grows(c, d) BY <2>9, <2>10 DEF Grows
  <2>12. Live(d) = Live(s) BY <2>9, SameLive
  <2>13. Live(r) \subseteq Live(l) /\ Live(l) \subseteq Live(s)
    BY <1>4, <1>6, <1>8, GrowsLive
  <2>14. d.recon \in Live(d) BY <1>5, <1>19, <2>9, <2>12, <2>13
  <2>15. Some(d.low) \subseteq Live(d) BY <2>6, <2>9, <2>12, <2>13
  <2>16. << "res", 0 >> \notin deny => Some(d.res) \subseteq Live(d)
    BY <2>7, <2>9, <2>12 DEF Some
  <2>17. /\ d.ipc = c.ipc /\ d.nbr = c.nbr /\ d.entropy = c.entropy /\ SameStream(c, d)
    BY <1>2, <1>10, <1>11, <1>12, <2>9 DEF SameStream
  <2> QED BY <1>15, <2>4, <2>8, <2>9, <2>11, <2>14, <2>15, <2>16, <2>17 DEF n, d
<1> QED BY <1>18, <1>19

\* The tables before Start, of any configuration.
LEMMA TablesFacts ==
  ASSUME NEW o \in Buffers, Len(o.dma) = 1, NEW cfg, NEW deny
  PROVE  LET d == ave_session_alloc_dpb(
                    ave_session_alloc_entropy(ave_session_alloc_nbr(o, deny), deny), cfg, deny)
         IN  /\ d \in Buffers /\ Grows(o, d) /\ Len(d.dma) <= 6
             /\ d.ipc = o.ipc /\ SameStream(o, d)
             /\ << "nbr", 0 >> \notin deny => d.nbr \in Live(d) /\ d.nbr # None
             /\ << "entropy", 0 >> \notin deny => d.entropy \in Live(d) /\ d.entropy # None
             /\ << "recon", 0 >> \notin deny => d.n_dpb # 0
             /\ d.n_dpb # 0 =>
                  /\ d.n_dpb = DpbSlots(cfg) /\ d.recon \in Live(d)
                  /\ Some(d.low) \subseteq Live(d)
                  /\ << "res", 0 >> \notin deny => Some(d.res) \subseteq Live(d)
<1> DEFINE n == ave_session_alloc_nbr(o, deny)
           e == ave_session_alloc_entropy(n, deny)
           d == ave_session_alloc_dpb(e, cfg, deny)
<1>1. /\ n \in Buffers /\ n = [o EXCEPT !.dma = n.dma, !.nbr = n.nbr] /\ Grows(o, n)
      /\ Len(n.dma) <= Len(o.dma) + 1
      /\ << "nbr", 0 >> \notin deny /\ Len(o.dma) < AVE_SESS_MAX_DMA =>
           n.nbr \in Live(n) /\ n.nbr # None
  BY NbrFacts
<1> HIDE DEF n
<1>2. /\ e \in Buffers /\ e = [n EXCEPT !.dma = e.dma, !.entropy = e.entropy]
      /\ Grows(n, e) /\ Len(e.dma) <= Len(n.dma) + 1
      /\ << "entropy", 0 >> \notin deny /\ Len(n.dma) < AVE_SESS_MAX_DMA =>
           e.entropy \in Live(e) /\ e.entropy # None
  BY <1>1, EntropyFacts
<1> HIDE DEF e
<1>3. Len(n.dma) \in Nat /\ Len(e.dma) \in Nat BY <1>1, <1>2 DEF Buffers
<1>4. Len(n.dma) <= 2 /\ Len(e.dma) <= 3 BY <1>1, <1>2, <1>3
<1>5. Len(e.dma) <= AVE_SESS_MAX_DMA - 3 BY <1>3, <1>4 DEF AVE_SESS_MAX_DMA
<1>6. /\ d \in Buffers /\ Grows(e, d) /\ Len(d.dma) <= Len(e.dma) + 3
      /\ d.ipc = e.ipc /\ d.nbr = e.nbr /\ d.entropy = e.entropy /\ SameStream(e, d)
      /\ << "recon", 0 >> \notin deny => d.n_dpb # 0
      /\ d.n_dpb # 0 =>
           /\ d.n_dpb = DpbSlots(cfg) /\ d.recon \in Live(d)
           /\ Some(d.low) \subseteq Live(d)
           /\ << "res", 0 >> \notin deny => Some(d.res) \subseteq Live(d)
  BY <1>2, <1>5, DpbFacts
<1> HIDE DEF d
<1>7. Grows(o, d) BY <1>1, <1>2, <1>6, GrowsTwice
<1>8. Live(n) \subseteq Live(e) /\ Live(e) \subseteq Live(d) BY <1>1, <1>2, <1>6, GrowsLive
<1>9. e.nbr = n.nbr /\ e.ipc = n.ipc /\ SameStream(n, e)
  BY <1>1, <1>2 DEF Buffers, SameStream
<1>10. n.ipc = o.ipc /\ SameStream(o, n) BY <1>1 DEF Buffers, SameStream
<1>11. Len(d.dma) <= 6
  <2>1. Len(d.dma) \in Nat BY <1>6 DEF Buffers
  <2> QED BY <1>3, <1>4, <1>6, <2>1
<1>12. << "nbr", 0 >> \notin deny => d.nbr \in Live(d) /\ d.nbr # None
  BY <1>1, <1>6, <1>8, <1>9 DEF AVE_SESS_MAX_DMA
<1>13. << "entropy", 0 >> \notin deny => d.entropy \in Live(d) /\ d.entropy # None
  BY <1>2, <1>3, <1>4, <1>6, <1>8 DEF AVE_SESS_MAX_DMA
<1>14. d.ipc = o.ipc /\ SameStream(o, d) BY <1>6, <1>9, <1>10 DEF SameStream
<1> QED BY <1>6, <1>7, <1>11, <1>12, <1>13, <1>14 DEF d, e, n
\* Requests of one kind, and what they name.
LEMMA EachFacts ==
  ASSUME NEW k \in Kinds, NEW n \in 0 .. 4
  PROVE  /\ Each(k, n) \in Seq(Names) /\ Len(Each(k, n)) = n
         /\ \A j \in 1 .. n : Each(k, n)[j] = << k, j - 1 >>
<1>1. \A j \in 1 .. n : << k, j - 1 >> \in Names BY DEF Names
<1>2. n \in Nat OBVIOUS
<1> QED BY <1>1, <1>2 DEF Each

\* What all of a kind's requests were given is live.
LEMMA AllLive ==
  ASSUME NEW c, NEW d, d.stream = c.stream, NEW k, NEW n \in 0 .. 4,
         \A i \in 0 .. n - 1 : Has(d, << k, i >>)
  PROVE  All(c, k, n) \subseteq Live(d)
BY DEF All, Has, Mine

\* And regions.
LEMMA AllType ==
  ASSUME NEW c \in Buffers, NEW k \in Kinds, NEW n \in 0 .. 4
  PROVE  All(c, k, n) \in SUBSET Regions
<1>1. \A i \in 0 .. n - 1 : i \in Nat OBVIOUS
<1> QED BY <1>1, MineType DEF All

\* A sequence of requests of one kind.
LEMMA TakeEach ==
  ASSUME NEW c \in Buffers, Len(c.dma) <= 24, NEW k \in Kinds, NEW n \in 0 .. 4, NEW deny
  PROVE  LET t == Take(c, Each(k, n), 1, deny)
         IN  /\ t.b \in Buffers /\ t.b = [c EXCEPT !.dma = t.b.dma] /\ Grows(c, t.b)
             /\ Len(t.b.dma) <= Len(c.dma) + n
             /\ deny = {} => t.ok
             /\ t.ok => All(c, k, n) \subseteq Live(t.b)
<1> DEFINE e == Each(k, n)
           t == Take(c, e, 1, deny)
<1>1. e \in Seq(Names) /\ Len(e) = n /\ \A j \in 1 .. n : e[j] = << k, j - 1 >>
  BY EachFacts
<1>2. Len(c.dma) \in Nat /\ n \in Nat BY TableTypes
<1>3. Len(c.dma) <= AVE_SESS_MAX_DMA /\ 1 \in 1 .. 2 BY <1>2 DEF AVE_SESS_MAX_DMA
<1> HIDE DEF e
<1>4. /\ t.b \in Buffers /\ t.b = [c EXCEPT !.dma = t.b.dma] /\ Grows(c, t.b)
      /\ Len(t.b.dma) <= Len(c.dma) + Len(e)
      /\ t.ok <=> \A j \in 1 .. Len(e) :
                   e[j] \notin deny /\ Len(c.dma) + j <= AVE_SESS_MAX_DMA
      /\ t.ok => \A j \in 1 .. Len(e) : Has(t.b, e[j])
  BY <1>1, <1>3, TakeFacts
<1> HIDE DEF t
<1>5. ASSUME deny = {} PROVE t.ok
  <2>1. \A j \in 1 .. n : Len(c.dma) + j <= AVE_SESS_MAX_DMA
    BY <1>2 DEF AVE_SESS_MAX_DMA
  <2> QED BY <1>1, <1>4, <1>5, <2>1
<1>6. ASSUME t.ok PROVE All(c, k, n) \subseteq Live(t.b)
  <2>1. \A j \in 1 .. n : Has(t.b, << k, j - 1 >>) BY <1>1, <1>4, <1>6
  <2>2. \A i \in 0 .. n - 1 : i + 1 \in 1 .. n /\ (i + 1) - 1 = i BY <1>2
  <2>3. \A i \in 0 .. n - 1 : Has(t.b, << k, i >>) BY <2>1, <2>2
  <2>4. t.b.stream = c.stream BY <1>4 DEF Grows
  <2> QED BY <2>3, <2>4, AllLive
<1> QED BY <1>1, <1>4, <1>5, <1>6 DEF t, e

\* What Start itself needs: eleven requests.
LEMMA StartNeedsFacts ==
  /\ StartNeeds(4) \in Seq(Names) /\ Len(StartNeeds(4)) = 11
  /\ \A r \in {<< "fwc", 0 >>, << "fwcm", 0 >>, << "psets", 0 >>}
              \cup ({"coded", "hdr"} \X (0 .. 3)) :
        \E j \in 1 .. 11 : StartNeeds(4)[j] = r
<1> DEFINE a == << << "fwc", 0 >>, << "fwcm", 0 >> >>
           m == [j \in 1 .. 2 * 4 |-> << IF j % 2 = 1 THEN "coded" ELSE "hdr", (j - 1) \div 2 >>]
           z == << << "psets", 0 >> >>
<1>1. StartNeeds(4) = (a \o m) \o z BY DEF StartNeeds
<1>2. a \in Seq(Names) /\ Len(a) = 2 /\ a[1] = << "fwc", 0 >> /\ a[2] = << "fwcm", 0 >>
  BY DEF Names, Kinds
<1>3. z \in Seq(Names) /\ Len(z) = 1 /\ z[1] = << "psets", 0 >> BY DEF Names, Kinds
<1>4. m \in Seq(Names) /\ Len(m) = 8
      /\ \A j \in 1 .. 8 : m[j] = << IF j % 2 = 1 THEN "coded" ELSE "hdr", (j - 1) \div 2 >>
  <2>1. \A j \in 1 .. 8 : << IF j % 2 = 1 THEN "coded" ELSE "hdr", (j - 1) \div 2 >> \in Names
    <3>1. \A j \in 1 .. 8 : (j - 1) \div 2 \in Nat OBVIOUS
    <3>2. {"coded", "hdr"} \subseteq Kinds BY DEF Kinds
    <3> QED BY <3>1, <3>2 DEF Names
  <2>2. 2 * 4 = 8 /\ 8 \in Nat OBVIOUS
  <2> QED BY <2>1, <2>2
<1> HIDE DEF a, m, z
<1> DEFINE s == a \o m
           t == s \o z
<1>5. /\ s \in Seq(Names) /\ Len(s) = 10
      /\ \A i \in 1 .. 10 : s[i] = IF i <= 2 THEN a[i] ELSE m[i - 2]
  <2>1. /\ s \in Seq(Names) /\ Len(s) = Len(a) + Len(m)
        /\ \A i \in 1 .. Len(a) + Len(m) :
              s[i] = IF i <= Len(a) THEN a[i] ELSE m[i - Len(a)]
    BY <1>2, <1>4, ConcatProperties
  <2>2. 2 + 8 = 10 OBVIOUS
  <2> HIDE DEF s
  <2> QED BY <1>2, <1>4, <2>1, <2>2
<1> HIDE DEF s
<1>6. /\ t \in Seq(Names) /\ Len(t) = 11
      /\ \A i \in 1 .. 11 : t[i] = IF i <= 10 THEN s[i] ELSE z[i - 10]
  <2>1. /\ t \in Seq(Names) /\ Len(t) = Len(s) + Len(z)
        /\ \A i \in 1 .. Len(s) + Len(z) :
              t[i] = IF i <= Len(s) THEN s[i] ELSE z[i - Len(s)]
    BY <1>3, <1>5, ConcatProperties
  <2>2. 10 + 1 = 11 OBVIOUS
  <2> HIDE DEF t
  <2> QED BY <1>3, <1>5, <2>1, <2>2
<1> HIDE DEF t
<1>7. t[1] = << "fwc", 0 >> /\ t[2] = << "fwcm", 0 >> /\ t[11] = << "psets", 0 >>
  BY <1>2, <1>3, <1>5, <1>6
<1>8. ASSUME NEW i \in 0 .. 3 
      PROVE  t[2 * i + 3] = << "coded", i >> /\ t[2 * i + 4] = << "hdr", i >>
  <2>1. /\ 2 * i + 3 \in 1 .. 10 /\ 2 * i + 4 \in 1 .. 10
        /\ ~(2 * i + 3 <= 2) /\ ~(2 * i + 4 <= 2)
        /\ (2 * i + 3) - 2 = 2 * i + 1 /\ (2 * i + 4) - 2 = 2 * i + 2
        /\ 2 * i + 1 \in 1 .. 8 /\ 2 * i + 2 \in 1 .. 8
    OBVIOUS
  <2>2. /\ (2 * i + 1) % 2 = 1 /\ ((2 * i + 1) - 1) \div 2 = i
        /\ (2 * i + 2) % 2 # 1 /\ ((2 * i + 2) - 1) \div 2 = i
    OBVIOUS
  <2>3. m[2 * i + 1] = << "coded", i >> /\ m[2 * i + 2] = << "hdr", i >> BY <1>4, <2>1, <2>2
  <2>4. s[2 * i + 3] = m[2 * i + 1] /\ s[2 * i + 4] = m[2 * i + 2] BY <1>5, <2>1
  <2>5. \A x \in 1 .. 10 : x \in 1 .. 11 /\ x <= 10 OBVIOUS
  <2> QED BY <1>6, <2>1, <2>3, <2>4, <2>5
<1>9. ASSUME NEW r \in {<< "fwc", 0 >>, << "fwcm", 0 >>, << "psets", 0 >>}
                       \cup ({"coded", "hdr"} \X (0 .. 3))
      PROVE  \E j \in 1 .. 11 : t[j] = r
  <2>1. CASE r \in {<< "fwc", 0 >>, << "fwcm", 0 >>, << "psets", 0 >>}
    <3>1. 1 \in 1 .. 11 /\ 2 \in 1 .. 11 /\ 11 \in 1 .. 11 OBVIOUS
    <3> QED BY <1>7, <2>1, <3>1
  <2>2. CASE r \in {"coded", "hdr"} \X (0 .. 3)
    <3>1. PICK i \in 0 .. 3 : r = << "coded", i >> \/ r = << "hdr", i >> BY <2>2
    <3>2. 2 * i + 3 \in 1 .. 11 /\ 2 * i + 4 \in 1 .. 11 OBVIOUS
    <3> QED BY <1>8, <3>1, <3>2
  <2> QED BY <2>1, <2>2
<1> QED BY <1>1, <1>6, <1>9 DEF t, s

\* The memory of Start, before a codec's: it is all there or there is no Start.
LEMMA NeedsGiven ==
  ASSUME NEW c \in Buffers, Len(c.dma) <= 10, NEW deny
  PROVE  LET t == Take(c, StartNeeds(4), 2, deny)
         IN  /\ t.b \in Buffers /\ t.b = [c EXCEPT !.dma = t.b.dma] /\ Grows(c, t.b)
             /\ Len(t.b.dma) <= Len(c.dma) + 11
             /\ deny = {} => t.ok
             /\ t.ok =>
                  /\ \A k \in {"fwc", "fwcm", "psets"} : Has(t.b, << k, 0 >>)
                  /\ All(c, "coded", 4) \cup All(c, "hdr", 4) \subseteq Live(t.b)
<1> DEFINE e == StartNeeds(4)
           t == Take(c, e, 2, deny)
<1>1. e \in Seq(Names) /\ Len(e) = 11 BY StartNeedsFacts
<1>2. Len(c.dma) \in Nat BY TableTypes
<1>3. Len(c.dma) <= AVE_SESS_MAX_DMA /\ 2 \in 1 .. 2 BY <1>2 DEF AVE_SESS_MAX_DMA
<1>4. \A r \in {<< "fwc", 0 >>, << "fwcm", 0 >>, << "psets", 0 >>}
               \cup ({"coded", "hdr"} \X (0 .. 3)) : \E j \in 1 .. 11 : e[j] = r
  BY StartNeedsFacts
<1> HIDE DEF e
<1>5. /\ t.b \in Buffers /\ t.b = [c EXCEPT !.dma = t.b.dma] /\ Grows(c, t.b)
      /\ Len(t.b.dma) <= Len(c.dma) + Len(e)
      /\ t.ok <=> \A j \in 1 .. Len(e) :
                   e[j] \notin deny /\ Len(c.dma) + j <= AVE_SESS_MAX_DMA
      /\ t.ok => \A j \in 1 .. Len(e) : Has(t.b, e[j])
  <2>1. e \in Seq(Names) BY <1>1
  <2> QED BY <1>3, <2>1, TakeFacts
<1> HIDE DEF t
<1>6. ASSUME deny = {} PROVE t.ok
  <2>1. \A j \in 1 .. 11 : Len(c.dma) + j <= AVE_SESS_MAX_DMA BY <1>2 DEF AVE_SESS_MAX_DMA
  <2> QED BY <1>1, <1>5, <1>6, <2>1
<1>7. ASSUME t.ok
      PROVE  /\ \A k \in {"fwc", "fwcm", "psets"} : Has(t.b, << k, 0 >>)
             /\ All(c, "coded", 4) \cup All(c, "hdr", 4) \subseteq Live(t.b)
  <2>1. \A j \in 1 .. 11 : Has(t.b, e[j]) BY <1>1, <1>5, <1>7
  <2>2. Has(t.b, << "fwc", 0 >>) /\ Has(t.b, << "fwcm", 0 >>) /\ Has(t.b, << "psets", 0 >>)
    BY <1>4, <2>1
  <2>3. \A i \in 0 .. 3 : Has(t.b, << "coded", i >>) /\ Has(t.b, << "hdr", i >>)
    <3>1. \A i \in 0 .. 3 : << "coded", i >> \in {"coded", "hdr"} \X (0 .. 3)
                          /\ << "hdr", i >> \in {"coded", "hdr"} \X (0 .. 3)
      OBVIOUS
    <3> QED BY <1>4, <2>1, <3>1
  <2>4. t.b.stream = c.stream /\ 4 \in 0 .. 4 /\ 4 - 1 = 3 BY <1>5 DEF Grows
  <2>5. All(c, "coded", 4) \subseteq Live(t.b) /\ All(c, "hdr", 4) \subseteq Live(t.b)
    BY <2>3, <2>4, AllLive
  <2> QED BY <2>2, <2>5
<1> QED BY <1>1, <1>5, <1>6, <1>7 DEF t, e

\* The tables that are allocated before Start, and stay.
SameTables(c, d) ==
  /\ d.nbr = c.nbr /\ d.entropy = c.entropy /\ d.res = c.res
  /\ d.n_dpb = c.n_dpb /\ d.recon = c.recon /\ d.low = c.low

\* The colocated buffers: one per DPB slot, or none is named.
LEMMA ColocFacts ==
  ASSUME NEW c \in Buffers, Len(c.dma) <= 24, NEW deny
  PROVE  LET d == AllocColoc(c, deny)
         IN  /\ d \in Buffers /\ Grows(c, d) /\ Len(d.dma) <= Len(c.dma) + 3
             /\ d.ipc = c.ipc /\ SameTables(c, d) /\ SameStream(c, d)
             /\ d.coded = c.coded /\ d.mp = c.mp
             /\ d.coloc \in {{}, All(c, "coloc", c.n_dpb)} /\ d.coloc \subseteq Live(d)
<1> DEFINE n == c.n_dpb
           t == Take(c, Each("coloc", n), 1, deny)
           x == IF t.ok THEN All(c, "coloc", n) ELSE {}
           d == AllocColoc(c, deny)
<1>1. n \in 0 .. 3 BY DEF Buffers
<1>2. n \in 0 .. 4 /\ "coloc" \in Kinds BY <1>1 DEF Kinds
<1>3. d = [t.b EXCEPT !.coloc = x] BY DEF AllocColoc
<1> HIDE DEF n
<1>4. /\ t.b \in Buffers /\ t.b = [c EXCEPT !.dma = t.b.dma] /\ Grows(c, t.b)
      /\ Len(t.b.dma) <= Len(c.dma) + n
      /\ t.ok => All(c, "coloc", n) \subseteq Live(t.b)
  BY <1>2, TakeEach
<1>5. x \in SUBSET Regions /\ x \in {{}, All(c, "coloc", n)} BY <1>2, AllType
<1>6. x \subseteq Live(t.b) BY <1>4
<1> HIDE DEF t, x, d
<1> DEFINE e == t.b
<1>7. /\ e \in Buffers /\ e = [c EXCEPT !.dma = e.dma] /\ Grows(c, e) BY <1>4
<1>8. /\ e.ipc = c.ipc /\ e.nbr = c.nbr /\ e.entropy = c.entropy
      /\ e.res = c.res /\ e.n_dpb = c.n_dpb /\ e.recon = c.recon /\ e.low = c.low
      /\ e.coded = c.coded /\ e.mp = c.mp /\ SameStream(c, e)
  BY <1>7, DmaOnly
<1>9. Len(e.dma) \in Nat /\ Len(c.dma) \in Nat BY <1>7, TableTypes
<1>10. Len(e.dma) <= Len(c.dma) + n BY <1>4
<1>11. x \subseteq Live(e) /\ d = [e EXCEPT !.coloc = x] BY <1>3, <1>6
<1> HIDE DEF e
<1>12. /\ d \in Buffers /\ d.dma = e.dma /\ d.ipc = e.ipc /\ d.stream = e.stream
       /\ d.coloc = x /\ d.coded = e.coded /\ d.mp = e.mp
  BY <1>5, <1>7, <1>11 DEF Buffers
<1>13. /\ d.nbr = e.nbr /\ d.entropy = e.entropy /\ d.res = e.res /\ d.n_dpb = e.n_dpb
       /\ d.recon = e.recon /\ d.low = e.low /\ SameStream(e, d)
  BY <1>7, <1>11 DEF Buffers, SameStream
<1>14. Len(d.dma) <= Len(c.dma) + 3 BY <1>1, <1>9, <1>10, <1>12
<1>15. Grows(c, d) BY <1>7, <1>12 DEF Grows
<1>16. d.coloc \subseteq Live(d)
  <2>1. Live(d) = Live(e) BY <1>12, SameLive
  <2> QED BY <1>11, <1>12, <2>1
<1>17. SameTables(c, d) /\ SameStream(c, d) BY <1>8, <1>13 DEF SameTables, SameStream
<1> QED BY <1>5, <1>8, <1>12, <1>14, <1>15, <1>16, <1>17 DEF d, n

\* The inputs of the final pass are four requests, or none is made.
LEMMA MpGiven ==
  ASSUME NEW c \in Buffers, Len(c.dma) <= 6, NEW cfg, Sizing(cfg), NEW deny
  PROVE  LET t == Take(c, MpInputs(cfg), 1, deny)
         IN  /\ t.b \in Buffers /\ t.b = [c EXCEPT !.dma = t.b.dma] /\ Grows(c, t.b)
             /\ Len(t.b.dma) <= Len(c.dma) + 4
             /\ deny = {} => t.ok
             /\ t.ok /\ cfg.mp = 2 => All(c, "mp", 4) \subseteq Live(t.b)
<1>1. Len(c.dma) \in Nat BY TableTypes
<1>2. "mp" \in Kinds BY DEF Kinds
<1>3. Len(c.dma) <= 24 BY <1>1
<1>4. CASE cfg.mp = 2
  <2>1. MpInputs(cfg) = Each("mp", 4) BY <1>4 DEF MpInputs, AVE_SESS_FRAMES_MAX
  <2>2. 4 \in 0 .. 4 OBVIOUS
  <2>3. LET t == Take(c, Each("mp", 4), 1, deny)
        IN  /\ t.b \in Buffers /\ t.b = [c EXCEPT !.dma = t.b.dma] /\ Grows(c, t.b)
            /\ Len(t.b.dma) <= Len(c.dma) + 4
            /\ deny = {} => t.ok
            /\ t.ok => All(c, "mp", 4) \subseteq Live(t.b)
    BY <1>2, <1>3, <2>2, TakeEach
  <2> QED BY <2>1, <2>3
<1>5. CASE cfg.mp # 2
  <2> DEFINE t == Take(c, Each("mp", 0), 1, deny)
  <2>1. MpInputs(cfg) = Each("mp", 0) BY <1>5 DEF MpInputs, Each
  <2>2. 0 \in 0 .. 4 OBVIOUS
  <2>3. /\ t.b \in Buffers /\ t.b = [c EXCEPT !.dma = t.b.dma] /\ Grows(c, t.b)
        /\ Len(t.b.dma) <= Len(c.dma) + 0
        /\ deny = {} => t.ok
    BY <1>2, <1>3, <2>2, TakeEach
  <2> HIDE DEF t
  <2>4. Len(t.b.dma) \in Nat BY <2>3, TableTypes
  <2>5. Len(t.b.dma) <= Len(c.dma) + 4 BY <1>1, <2>3, <2>4
  <2> QED BY <1>5, <2>1, <2>3, <2>5 DEF t
<1> QED BY <1>4, <1>5

\* What a sequence of allocations leaves, whether it came to its end or not.
Progress(c, d, more) ==
  /\ d \in Buffers /\ Grows(c, d) /\ SameTables(c, d) /\ SameStream(c, d)
  /\ Len(d.dma) <= Len(c.dma) + more /\ Len(d.ipc) <= Len(c.ipc) + 1
\* The memory of a Start command of either codec is there.
PrepHas(c, d, cfg) ==
  /\ \A k \in {"start", "fwc", "fwcm", "psets"} : Has(d, << k, 0 >>)
  /\ d.coded = All(c, "coded", 4) \cup All(c, "hdr", 4) /\ d.coded \subseteq Live(d)
  /\ d.coloc \in {{}, All(c, "coloc", c.n_dpb)} /\ d.coloc \subseteq Live(d)
  /\ d.mp = (IF cfg.mp = 2 THEN All(c, "mp", 4) ELSE {}) /\ d.mp \subseteq Live(d)

\* What is live stays live where the tables grow.
LEMMA HasLater ==
  ASSUME NEW c \in Buffers, NEW d \in Buffers, Grows(c, d), NEW r, Has(c, r)
  PROVE  Has(d, r)
<1>1. Live(c) \subseteq Live(d) BY GrowsLive
<1>2. d.stream = c.stream BY DEF Grows
<1> QED BY <1>1, <1>2 DEF Has, Mine

\* ave_session_start_prep(): all of Start's memory, or no Start.
LEMMA PrepFacts ==
  ASSUME NEW c \in Buffers, Len(c.dma) <= 6, NEW cfg, Sizing(cfg), NEW deny
  PROVE  LET p == ave_session_start_prep(c, cfg, deny)
         IN  /\ Progress(c, p.b, 18)
             /\ deny = {} /\ c.n_dpb # 0 /\ Len(c.ipc) < AVE_SESS_MAX_IPC => p.ok
             /\ p.ok => c.n_dpb # 0 /\ PrepHas(c, p.b, cfg)
<1> DEFINE m == Take(c, MpInputs(cfg), 1, deny)
           n == m.b
           e == ave_sess_ipc_alloc(n, << "start", 0 >>, deny)
           mp == IF cfg.mp = 2 THEN All(c, "mp", 4) ELSE {}
           w == [e EXCEPT !.mp = mp]
           t == Take(w, StartNeeds(4), 2, deny)
           u == t.b
           coded == All(c, "coded", 4) \cup All(c, "hdr", 4)
           v == [u EXCEPT !.coded = coded]
           d == AllocColoc(v, deny)
           p == ave_session_start_prep(c, cfg, deny)
<1>1. p = IF ~m.ok THEN m
          ELSE IF ~Has(e, << "start", 0 >>) \/ c.n_dpb = 0 THEN [b |-> e, ok |-> FALSE]
          ELSE IF ~t.ok THEN t
          ELSE [b |-> d, ok |-> TRUE]
  BY DEF ave_session_start_prep, Sizing, AVE_SESS_FRAMES_MAX
<1>2. Len(c.dma) \in Nat /\ Len(c.ipc) \in Nat BY TableTypes
<1>3. /\ n \in Buffers /\ n = [c EXCEPT !.dma = n.dma] /\ Grows(c, n)
      /\ Len(n.dma) <= Len(c.dma) + 4
      /\ deny = {} => m.ok
      /\ m.ok /\ cfg.mp = 2 => All(c, "mp", 4) \subseteq Live(n)
  BY MpGiven
<1> HIDE DEF m
<1>4. m.ok => mp \subseteq Live(n) BY <1>3
<1> HIDE DEF n
<1>5. << "start", 0 >> \in Names BY DEF Names, Kinds
<1>6. n \in Buffers BY <1>3
<1>7. /\ e \in Buffers /\ e = [n EXCEPT !.ipc = e.ipc] /\ Grows(n, e)
      /\ Len(e.ipc) <= Len(n.ipc) + 1
      /\ << "start", 0 >> \notin deny /\ Len(n.ipc) < AVE_SESS_MAX_IPC =>
           Has(e, << "start", 0 >>)
  BY <1>5, <1>6, IpcAlloc
<1> HIDE DEF e
<1>8. mp \in SUBSET Regions /\ coded \in SUBSET Regions
  <2>1. "mp" \in Kinds /\ "coded" \in Kinds /\ "hdr" \in Kinds /\ 4 \in 0 .. 4 BY DEF Kinds
  <2> QED BY <2>1, AllType
<1> HIDE DEF mp, coded
<1>9. /\ w \in Buffers /\ w.dma = e.dma /\ w.ipc = e.ipc /\ w.stream = e.stream /\ w.mp = mp
  BY <1>7, <1>8 DEF Buffers
<1>10. SameTables(e, w) /\ SameStream(e, w) BY <1>7 DEF Buffers, SameTables, SameStream
<1> HIDE DEF w
<1>11. n.ipc = c.ipc /\ SameTables(c, n) /\ SameStream(c, n)
  BY <1>3, DmaOnly DEF SameTables
<1>12. e.dma = n.dma /\ SameTables(n, e) /\ SameStream(n, e)
  BY <1>6, <1>7, IpcOnly DEF SameTables
<1>13. Len(n.dma) \in Nat /\ Len(e.ipc) \in Nat BY <1>3, <1>7, TableTypes
<1>14. Len(w.dma) <= 10 BY <1>2, <1>3, <1>9, <1>12, <1>13
<1>15. /\ u \in Buffers /\ u = [w EXCEPT !.dma = u.dma] /\ Grows(w, u)
       /\ Len(u.dma) <= Len(w.dma) + 11
       /\ deny = {} => t.ok
       /\ t.ok =>
            /\ \A k \in {"fwc", "fwcm", "psets"} : Has(u, << k, 0 >>)
            /\ All(w, "coded", 4) \cup All(w, "hdr", 4) \subseteq Live(u)
  BY <1>9, <1>14, NeedsGiven
<1> HIDE DEF t
<1>16. w.stream = c.stream BY <1>3, <1>7, <1>9 DEF Grows
<1>17. t.ok => coded \subseteq Live(u) BY <1>15, <1>16 DEF coded, All, Mine
<1> HIDE DEF u
<1>18. u.ipc = w.ipc /\ u.mp = w.mp /\ SameTables(w, u) /\ SameStream(w, u)
  BY <1>9, <1>15, DmaOnly DEF SameTables
<1>19. Len(u.dma) \in Nat /\ Len(w.dma) \in Nat BY <1>9, <1>15, TableTypes
<1>20. Len(u.dma) <= 21 BY <1>14, <1>15, <1>19
<1>21. /\ v \in Buffers /\ v.dma = u.dma /\ v.ipc = u.ipc /\ v.stream = u.stream
       /\ v.mp = u.mp /\ v.coded = coded
  BY <1>8, <1>15 DEF Buffers
<1>22. SameTables(u, v) /\ SameStream(u, v) BY <1>15 DEF Buffers, SameTables, SameStream
<1> HIDE DEF v
<1>23. Len(v.dma) <= 24 BY <1>19, <1>20, <1>21
<1>24. /\ d \in Buffers /\ Grows(v, d) /\ Len(d.dma) <= Len(v.dma) + 3
       /\ d.ipc = v.ipc /\ SameTables(v, d) /\ SameStream(v, d)
       /\ d.coded = v.coded /\ d.mp = v.mp
       /\ d.coloc \in {{}, All(v, "coloc", v.n_dpb)} /\ d.coloc \subseteq Live(d)
  BY <1>21, <1>23, ColocFacts
<1> HIDE DEF d
<1>25. Grows(c, e) BY <1>3, <1>7, GrowsTwice
<1>26. Grows(c, w) BY <1>9, <1>25 DEF Grows
<1>27. Grows(c, u) BY <1>9, <1>15, <1>26, GrowsTwice
<1>28. Grows(c, v) BY <1>21, <1>27 DEF Grows
<1>29. Grows(c, d) BY <1>21, <1>24, <1>28, GrowsTwice
<1>30. SameTables(c, e) /\ SameStream(c, e) BY <1>11, <1>12 DEF SameTables, SameStream
<1>31. SameTables(c, u) /\ SameStream(c, u)
  BY <1>10, <1>18, <1>30 DEF SameTables, SameStream
<1>32. SameTables(c, d) /\ SameStream(c, d)
  BY <1>22, <1>24, <1>31 DEF SameTables, SameStream
<1>33. Len(d.dma) \in Nat BY <1>24, TableTypes
<1>34. CASE ~m.ok
  <2>1. p = m BY <1>1, <1>34
  <2>2. p.b = n /\ ~p.ok BY <1>34, <2>1 DEF n
  <2>3. Progress(c, n, 18) BY <1>2, <1>3, <1>11, <1>13 DEF Progress
  <2> HIDE DEF p
  <2>4. deny # {} BY <1>3, <1>34
  <2> QED BY <2>2, <2>3, <2>4 DEF p
<1>35. CASE m.ok /\ (~Has(e, << "start", 0 >>) \/ c.n_dpb = 0)
  <2>1. p = [b |-> e, ok |-> FALSE] BY <1>1, <1>35
  <2>2. p.b = e /\ ~p.ok BY <2>1
  <2>3. Progress(c, e, 18) BY <1>2, <1>3, <1>7, <1>11, <1>12, <1>13, <1>25, <1>30 DEF Progress
  <2> HIDE DEF p
  <2>4. ~(deny = {} /\ c.n_dpb # 0 /\ Len(c.ipc) < AVE_SESS_MAX_IPC) BY <1>7, <1>11, <1>35
  <2> QED BY <2>2, <2>3, <2>4 DEF p
<1>36. CASE m.ok /\ Has(e, << "start", 0 >>) /\ c.n_dpb # 0 /\ ~t.ok
  <2>1. p = t BY <1>1, <1>36
  <2>2. p.b = u /\ ~p.ok BY <1>36, <2>1 DEF u
  <2>3. Len(u.dma) <= Len(c.dma) + 18
    BY <1>2, <1>3, <1>9, <1>12, <1>13, <1>15, <1>19
  <2>4. u.ipc = e.ipc /\ n.ipc = c.ipc /\ u \in Buffers BY <1>9, <1>11, <1>15, <1>18
  <2>5. Progress(c, u, 18) BY <1>7, <1>27, <1>31, <2>3, <2>4 DEF Progress
  <2> HIDE DEF p
  <2>6. deny # {} BY <1>15, <1>36
  <2> QED BY <2>2, <2>5, <2>6 DEF p
<1>37. CASE m.ok /\ Has(e, << "start", 0 >>) /\ c.n_dpb # 0 /\ t.ok
  <2>1. p = [b |-> d, ok |-> TRUE] BY <1>1, <1>37
  <2>2. p.b = d /\ p.ok BY <2>1
  <2>3. Len(d.dma) <= Len(c.dma) + 18
    BY <1>2, <1>3, <1>9, <1>12, <1>13, <1>15, <1>19, <1>21, <1>24, <1>33
  <2>4. d.ipc = e.ipc /\ n.ipc = c.ipc /\ d \in Buffers
    BY <1>9, <1>11, <1>18, <1>21, <1>24
  <2>5. Progress(c, d, 18) BY <1>7, <1>29, <1>32, <2>3, <2>4 DEF Progress
  <2>6. Grows(e, u) /\ Grows(u, d) /\ Grows(n, e)
    <3>1. Grows(e, u) BY <1>9, <1>15 DEF Grows
    <3>2. Grows(u, d) BY <1>21, <1>24 DEF Grows
    <3> QED BY <1>7, <3>1, <3>2
  <2>7. Live(n) \subseteq Live(e) /\ Live(e) \subseteq Live(u) /\ Live(u) \subseteq Live(d)
    BY <1>3, <1>7, <1>15, <1>24, <2>6, GrowsLive
  <2>8. Grows(e, d) BY <1>7, <1>15, <1>24, <2>6, GrowsTwice
  <2>9. Has(d, << "start", 0 >>) BY <1>7, <1>24, <1>37, <2>8, HasLater
  <2>10. \A k \in {"fwc", "fwcm", "psets"} : Has(d, << k, 0 >>)
    BY <1>15, <1>24, <1>37, <2>6, HasLater
  <2>11. d.coded = coded /\ d.coded \subseteq Live(d) BY <1>17, <1>21, <1>24, <1>37, <2>7
  <2>12. d.mp = mp /\ d.mp \subseteq Live(d) BY <1>4, <1>9, <1>18, <1>21, <1>24, <1>37, <2>7
  <2>13. All(v, "coloc", v.n_dpb) = All(c, "coloc", c.n_dpb)
    <3>1. v.stream = c.stream BY <1>28 DEF Grows
    <3>2. v.n_dpb = c.n_dpb BY <1>22, <1>31 DEF SameTables
    <3> QED BY <3>1, <3>2 DEF All, Mine
  <2>14. PrepHas(c, d, cfg)
    BY <1>24, <2>9, <2>10, <2>11, <2>12, <2>13 DEF PrepHas, coded, mp
  <2> HIDE DEF p
  <2> QED BY <1>37, <2>2, <2>5, <2>14 DEF p
<1> QED BY <1>34, <1>35, <1>36, <1>37

\* What the codec asks for.
LEMMA CodecNeedsFacts ==
  ASSUME NEW cfg, Sizing(cfg)
  PROVE  LET e == CodecNeeds(cfg)
         IN  /\ e \in Seq(Names) /\ Len(e) \in 0 .. 6
             /\ cfg.codec = "HEVC" =>
                  \A i \in 0 .. 3 : \E j \in 1 .. Len(e) : e[j] = << "slice", i >>
             /\ cfg.codec = "HEVC" \/ cfg.bufs =>
                  \A i \in 0 .. 1 : \E j \in 1 .. Len(e) : e[j] = << "xc", i >>
<1> DEFINE a == IF cfg.codec = "HEVC" THEN Each("slice", 4) ELSE << >>
           z == IF cfg.codec = "HEVC" \/ cfg.bufs THEN Each("xc", 2) ELSE << >>
           na == IF cfg.codec = "HEVC" THEN 4 ELSE 0
           nz == IF cfg.codec = "HEVC" \/ cfg.bufs THEN 2 ELSE 0
           e == a \o z
<1>1. CodecNeeds(cfg) = e BY DEF CodecNeeds, Sizing, AVE_SESS_FRAMES_MAX
<1>2. /\ a \in Seq(Names) /\ Len(a) = na
      /\ \A j \in 1 .. na : a[j] = << "slice", j - 1 >>
  <2>1. "slice" \in Kinds /\ 4 \in 0 .. 4 BY DEF Kinds
  <2>2. /\ Each("slice", 4) \in Seq(Names) /\ Len(Each("slice", 4)) = 4
        /\ \A j \in 1 .. 4 : Each("slice", 4)[j] = << "slice", j - 1 >>
    BY <2>1, EachFacts
  <2>3. << >> \in Seq(Names) /\ Len(<< >>) = 0 /\ 1 .. 0 = {} OBVIOUS
  <2>4. CASE cfg.codec = "HEVC"
    <3>1. a = Each("slice", 4) /\ na = 4 BY <2>4
    <3> HIDE DEF a, na
    <3> QED BY <2>2, <3>1
  <2>5. CASE cfg.codec # "HEVC"
    <3>1. a = << >> /\ na = 0 BY <2>5
    <3> HIDE DEF a, na
    <3> QED BY <2>3, <3>1
  <2> QED BY <2>4, <2>5
<1>3. /\ z \in Seq(Names) /\ Len(z) = nz
      /\ \A j \in 1 .. nz : z[j] = << "xc", j - 1 >>
  <2>1. "xc" \in Kinds /\ 2 \in 0 .. 4 BY DEF Kinds
  <2>2. /\ Each("xc", 2) \in Seq(Names) /\ Len(Each("xc", 2)) = 2
        /\ \A j \in 1 .. 2 : Each("xc", 2)[j] = << "xc", j - 1 >>
    BY <2>1, EachFacts
  <2>3. << >> \in Seq(Names) /\ Len(<< >>) = 0 /\ 1 .. 0 = {} OBVIOUS
  <2>4. CASE cfg.codec = "HEVC" \/ cfg.bufs
    <3>1. z = Each("xc", 2) /\ nz = 2 BY <2>4
    <3> HIDE DEF z, nz
    <3> QED BY <2>2, <3>1
  <2>5. CASE ~(cfg.codec = "HEVC" \/ cfg.bufs)
    <3>1. z = << >> /\ nz = 0 BY <2>5
    <3> HIDE DEF z, nz
    <3> QED BY <2>3, <3>1
  <2> QED BY <2>4, <2>5
<1>4. na \in {0, 4} /\ nz \in {0, 2} OBVIOUS
<1>5. (cfg.codec = "HEVC" => na = 4) /\ (cfg.codec = "HEVC" \/ cfg.bufs => nz = 2) OBVIOUS
<1> HIDE DEF a, z, na, nz
<1>6. /\ e \in Seq(Names) /\ Len(e) = na + nz
      /\ \A i \in 1 .. na + nz : e[i] = IF i <= na THEN a[i] ELSE z[i - na]
  BY <1>2, <1>3, ConcatProperties
<1> HIDE DEF e
<1>7. Len(e) \in 0 .. 6 BY <1>4, <1>6
<1>8. ASSUME cfg.codec = "HEVC", NEW i \in 0 .. 3
      PROVE  \E j \in 1 .. Len(e) : e[j] = << "slice", i >>
  <2>1. na = 4 BY <1>5, <1>8
  <2>2. i + 1 \in 1 .. na /\ i + 1 \in 1 .. na + nz /\ i + 1 <= na /\ (i + 1) - 1 = i
    BY <1>4, <2>1
  <2> QED BY <1>2, <1>6, <2>2
<1>9. ASSUME cfg.codec = "HEVC" \/ cfg.bufs, NEW i \in 0 .. 1
      PROVE  \E j \in 1 .. Len(e) : e[j] = << "xc", i >>
  <2>1. nz = 2 BY <1>5, <1>9
  <2>2. /\ i + 1 \in 1 .. nz /\ na + (i + 1) \in 1 .. na + nz /\ ~(na + (i + 1) <= na)
        /\ (i + 1) - 1 = i /\ (na + (i + 1)) - na = i + 1
    BY <1>4, <2>1
  <2> QED BY <1>3, <1>6, <2>2
<1> QED BY <1>1, <1>6, <1>7, <1>8, <1>9

\* The codec's memory.  Whether it is all there decides whether Start is sent.
LEMMA WithCodecFacts ==
  ASSUME NEW c \in Buffers, Len(c.dma) <= 24, NEW cfg, Sizing(cfg), NEW deny
  PROVE  LET p == WithCodec(c, cfg, deny)
             d == p.b
         IN  /\ d \in Buffers /\ Grows(c, d) /\ Len(d.dma) <= Len(c.dma) + 6
             /\ d.ipc = c.ipc /\ SameTables(c, d) /\ d.coded = c.coded /\ d.coloc = c.coloc
             /\ d.mp = c.mp /\ d.pic = c.pic /\ d.proc = c.proc
             /\ deny = {} => p.ok
             /\ d.slice = (IF cfg.codec = "HEVC" THEN All(c, "slice", 4) ELSE c.slice)
             /\ d.xc = (IF cfg.codec = "HEVC" \/ cfg.bufs THEN All(c, "xc", 2) ELSE {})
             /\ p.ok => d.xc \subseteq Live(d)
             /\ p.ok /\ cfg.codec = "HEVC" => d.slice \subseteq Live(d)
<1> DEFINE e == CodecNeeds(cfg)
           t == Take(c, e, 1, deny)
           u == t.b
           slice == IF cfg.codec = "HEVC" THEN All(c, "slice", 4) ELSE c.slice
           xc == IF cfg.codec = "HEVC" \/ cfg.bufs THEN All(c, "xc", 2) ELSE {}
           idr == IF cfg.codec = "HEVC" THEN 0 ELSE u.last_idr
           d == [u EXCEPT !.slice = slice, !.xc = xc, !.last_idr = idr]
           p == WithCodec(c, cfg, deny)
<1>1. /\ e \in Seq(Names) /\ Len(e) \in 0 .. 6
      /\ cfg.codec = "HEVC" =>
           \A i \in 0 .. 3 : \E j \in 1 .. Len(e) : e[j] = << "slice", i >>
      /\ cfg.codec = "HEVC" \/ cfg.bufs =>
           \A i \in 0 .. 1 : \E j \in 1 .. Len(e) : e[j] = << "xc", i >>
  BY CodecNeedsFacts
<1> HIDE DEF e
<1>2. Len(c.dma) \in Nat /\ Len(e) \in Nat /\ Len(e) <= 6
  <2>1. Len(e) \in 0 .. 6 BY <1>1
  <2>2. Len(c.dma) \in Nat BY TableTypes
  <2>3. \A x \in 0 .. 6 : x \in Nat /\ x <= 6 OBVIOUS
  <2>4. Len(e) \in Nat /\ Len(e) <= 6 BY <2>1, <2>3, Zenon
  <2> QED BY <2>2, <2>4
<1>3. Len(c.dma) <= AVE_SESS_MAX_DMA /\ 1 \in 1 .. 2 BY <1>2 DEF AVE_SESS_MAX_DMA
<1>4. p = [b |-> [u EXCEPT !.slice = IF cfg.codec = "HEVC" THEN All(c, "slice", 4) ELSE u.slice,
                          !.xc = xc, !.last_idr = idr],
           ok |-> t.ok]
  BY DEF WithCodec, Sizing, AVE_SESS_FRAMES_MAX, e
<1>5. e \in Seq(Names) BY <1>1
<1>6. /\ t.b \in Buffers /\ t.b = [c EXCEPT !.dma = t.b.dma] /\ Grows(c, t.b)
      /\ Len(t.b.dma) <= Len(c.dma) + Len(e)
      /\ t.ok <=> \A j \in 1 .. Len(e) :
                   e[j] \notin deny /\ Len(c.dma) + j <= AVE_SESS_MAX_DMA
      /\ t.ok => \A j \in 1 .. Len(e) : Has(t.b, e[j])
  BY <1>3, <1>5, TakeFacts
<1>7. u \in Buffers /\ u = [c EXCEPT !.dma = u.dma] /\ Grows(c, u) BY <1>6
<1>8. /\ u.ipc = c.ipc /\ SameTables(c, u) /\ SameStream(c, u) /\ u.coded = c.coded
      /\ u.coloc = c.coloc /\ u.mp = c.mp
  BY <1>7, DmaOnly DEF SameTables
<1>9. u.slice = c.slice BY <1>8 DEF SameStream
<1> HIDE DEF p
<1>10. p = [b |-> d, ok |-> t.ok] BY <1>4, <1>9
<1>11. ASSUME deny = {} PROVE t.ok
  <2>1. \A j \in 1 .. Len(e) : Len(c.dma) + j <= AVE_SESS_MAX_DMA
    BY <1>2 DEF AVE_SESS_MAX_DMA
  <2> QED BY <1>6, <1>11, <2>1
<1>12. u.stream = c.stream BY <1>7 DEF Grows
<1>13. ASSUME t.ok, cfg.codec = "HEVC" \/ cfg.bufs PROVE All(c, "xc", 2) \subseteq Live(u)
  <2>1. \A i \in 0 .. 1 : Has(u, << "xc", i >>) BY <1>1, <1>6, <1>13
  <2>2. 2 \in 0 .. 4 /\ 2 - 1 = 1 OBVIOUS
  <2> HIDE DEF u
  <2> QED BY <1>12, <2>1, <2>2, AllLive
<1>14. ASSUME t.ok, cfg.codec = "HEVC" PROVE All(c, "slice", 4) \subseteq Live(u)
  <2>1. \A i \in 0 .. 3 : Has(u, << "slice", i >>) BY <1>1, <1>6, <1>14
  <2>2. 4 \in 0 .. 4 /\ 4 - 1 = 3 OBVIOUS
  <2> HIDE DEF u
  <2> QED BY <1>12, <2>1, <2>2, AllLive
<1>15. Len(u.dma) <= Len(c.dma) + 6
  <2>1. Len(u.dma) \in Nat BY <1>7, TableTypes
  <2>2. Len(u.dma) <= Len(c.dma) + Len(e) BY <1>6
  <2> HIDE DEF u
  <2> QED BY <1>2, <2>1, <2>2
<1>16. (t.ok => xc \subseteq Live(u)) /\ (t.ok /\ cfg.codec = "HEVC" => slice \subseteq Live(u))
  BY <1>13, <1>14
<1>17. slice \in SUBSET Regions /\ xc \in SUBSET Regions
  <2>1. "slice" \in Kinds /\ "xc" \in Kinds /\ 4 \in 0 .. 4 /\ 2 \in 0 .. 4 BY DEF Kinds
  <2>2. c.slice \in SUBSET Regions BY DEF Buffers
  <2> QED BY <2>1, <2>2, AllType
<1>18. idr \in Nat BY <1>7 DEF Buffers
<1> HIDE DEF t, u, slice, xc, idr
<1>19. /\ d \in Buffers /\ d.dma = u.dma /\ d.ipc = u.ipc /\ d.stream = u.stream
       /\ d.coded = u.coded /\ d.coloc = u.coloc /\ d.mp = u.mp
       /\ d.slice = slice /\ d.xc = xc
  BY <1>7, <1>17, <1>18 DEF Buffers
<1>20. SameTables(u, d) /\ d.pic = u.pic /\ d.proc = u.proc
  BY <1>7 DEF Buffers, SameTables
<1> HIDE DEF d
<1>21. p.b = d /\ p.ok = t.ok BY <1>10
<1>22. Live(d) = Live(u) BY <1>19, SameLive
<1>23. Grows(c, d) BY <1>7, <1>19 DEF Grows
<1>24. SameTables(c, d) /\ d.pic = c.pic /\ d.proc = c.proc
  BY <1>8, <1>20 DEF SameTables, SameStream
<1>25. d.slice = (IF cfg.codec = "HEVC" THEN All(c, "slice", 4) ELSE c.slice)
       /\ d.xc = (IF cfg.codec = "HEVC" \/ cfg.bufs THEN All(c, "xc", 2) ELSE {})
  BY <1>19 DEF slice, xc
<1>26. /\ t.ok => d.xc \subseteq Live(d)
       /\ (t.ok /\ cfg.codec = "HEVC" => d.slice \subseteq Live(d))
  BY <1>16, <1>19, <1>22
<1>27. deny = {} => t.ok BY <1>11
<1> QED BY <1>8, <1>15, <1>19, <1>21, <1>23, <1>24, <1>25, <1>26, <1>27 DEF p

\* The memory of a stream: what Start and every Process name, but the SrcNeighbor and
\* entropy arenas and LowResResults, which another stream's address may stand for.
StreamMem(d, cfg) ==
  /\ d.n_dpb = DpbSlots(cfg) /\ d.recon \in Live(d) /\ Some(d.low) \subseteq Live(d)
  /\ \A k \in {"start", "fwc", "fwcm", "psets"} : Has(d, << k, 0 >>)
  /\ d.coded = All(d, "coded", 4) \cup All(d, "hdr", 4) /\ d.coded \subseteq Live(d)
  /\ d.coloc \in {{}, All(d, "coloc", d.n_dpb)} /\ d.coloc \subseteq Live(d)
  /\ d.mp = (IF cfg.mp = 2 THEN All(d, "mp", 4) ELSE {}) /\ d.mp \subseteq Live(d)
  /\ cfg.codec = "HEVC" => d.slice = All(d, "slice", 4)
  /\ d.slice \subseteq Live(d)
  /\ d.xc = (IF cfg.codec = "HEVC" \/ cfg.bufs THEN All(d, "xc", 2) ELSE {})
  /\ d.xc \subseteq Live(d)
\* Those three.
Given(d) ==
  /\ d.nbr \in Live(d) /\ d.nbr # None /\ d.entropy \in Live(d) /\ d.entropy # None
  /\ Some(d.res) \subseteq Live(d)

\* The requests whose refusal leaves a stale address in the next Start.
StaleTables == {<< "nbr", 0 >>, << "entropy", 0 >>, << "res", 0 >>}

\* What Start's memory was, the codec's does not change.
LEMMA PrepLater ==
  ASSUME NEW c \in Buffers, NEW d \in Buffers, NEW e \in Buffers, NEW cfg,
         Grows(c, d), Grows(d, e), SameTables(c, d), SameTables(d, e),
         e.coded = d.coded, e.coloc = d.coloc, e.mp = d.mp, PrepHas(c, d, cfg)
  PROVE  /\ \A k \in {"start", "fwc", "fwcm", "psets"} : Has(e, << k, 0 >>)
         /\ e.coded = All(e, "coded", 4) \cup All(e, "hdr", 4) /\ e.coded \subseteq Live(e)
         /\ e.coloc \in {{}, All(e, "coloc", e.n_dpb)} /\ e.coloc \subseteq Live(e)
         /\ e.mp = (IF cfg.mp = 2 THEN All(e, "mp", 4) ELSE {}) /\ e.mp \subseteq Live(e)
<1>1. Live(d) \subseteq Live(e) BY GrowsLive
<1>2. e.stream = c.stream BY DEF Grows
<1>3. \A k, n : All(e, k, n) = All(c, k, n) BY <1>2 DEF All, Mine
<1>4. e.n_dpb = c.n_dpb BY DEF SameTables
<1>5. \A k \in {"start", "fwc", "fwcm", "psets"} : Has(e, << k, 0 >>)
  BY HasLater DEF PrepHas
<1>6. e.coded = All(c, "coded", 4) \cup All(c, "hdr", 4) /\ e.coded \subseteq Live(e)
  BY <1>1 DEF PrepHas
<1>7. e.coloc \in {{}, All(c, "coloc", c.n_dpb)} /\ e.coloc \subseteq Live(e)
  BY <1>1 DEF PrepHas
<1>8. e.mp = (IF cfg.mp = 2 THEN All(c, "mp", 4) ELSE {}) /\ e.mp \subseteq Live(e)
  BY <1>1 DEF PrepHas
<1> QED BY <1>3, <1>4, <1>5, <1>6, <1>7, <1>8

\* ave_enc_start(), from the answer of Open to the Start command.
LEMMA PreparedFacts ==
  ASSUME NEW o \in Buffers, Len(o.dma) = 1, o.slice = {}, NEW cfg, Sizing(cfg), NEW deny
  PROVE  LET p == Prepared(o, cfg, deny)
             d == p.b
         IN  /\ d \in Buffers /\ Grows(o, d) /\ Len(d.dma) <= 30
             /\ Len(d.ipc) <= Len(o.ipc) + 1 /\ d.pic = o.pic /\ d.proc = o.proc
             /\ p.ok => StreamMem(d, cfg) /\ RefsSuffice(d, cfg) /\ BuilderAccepts(d, cfg)
             /\ p.ok /\ deny \cap StaleTables = {} => Given(d)
             /\ deny = {} /\ Len(o.ipc) < AVE_SESS_MAX_IPC /\ ~PassRefused(cfg) =>
                  /\ StreamMem(d, cfg) /\ Given(d)
                  /\ RefsSuffice(d, cfg) /\ BuilderAccepts(d, cfg) => p.ok
<1> DEFINE c == ave_session_alloc_dpb(
                  ave_session_alloc_entropy(ave_session_alloc_nbr(o, deny), deny), cfg, deny)
           r == ave_session_start_prep(c, cfg, deny)
           s == r.b
           w == WithCodec(s, cfg, deny)
           e == w.b
           p == Prepared(o, cfg, deny)
<1>1. /\ c \in Buffers /\ Grows(o, c) /\ Len(c.dma) <= 6
      /\ c.ipc = o.ipc /\ SameStream(o, c)
      /\ << "nbr", 0 >> \notin deny => c.nbr \in Live(c) /\ c.nbr # None
      /\ << "entropy", 0 >> \notin deny => c.entropy \in Live(c) /\ c.entropy # None
      /\ << "recon", 0 >> \notin deny => c.n_dpb # 0
      /\ c.n_dpb # 0 =>
           /\ c.n_dpb = DpbSlots(cfg) /\ c.recon \in Live(c)
           /\ Some(c.low) \subseteq Live(c)
           /\ << "res", 0 >> \notin deny => Some(c.res) \subseteq Live(c)
  BY TablesFacts
<1>2. p = IF PassRefused(cfg) THEN [b |-> c, ok |-> FALSE]
          ELSE IF r.ok
             THEN [b |-> e, ok |-> w.ok /\ RefsSuffice(e, cfg) /\ BuilderAccepts(e, cfg)]
          ELSE r
  BY DEF Prepared, ave_session_start, Filled, Built
<1> HIDE DEF c
<1>3. /\ Progress(c, s, 18)
      /\ deny = {} /\ c.n_dpb # 0 /\ Len(c.ipc) < AVE_SESS_MAX_IPC => r.ok
      /\ r.ok => c.n_dpb # 0 /\ PrepHas(c, s, cfg)
  <2>1. c \in Buffers /\ Len(c.dma) <= 6 BY <1>1
  <2> QED BY <2>1, PrepFacts
<1>4. /\ s \in Buffers /\ Grows(c, s) /\ SameTables(c, s) /\ SameStream(c, s)
      /\ Len(s.dma) <= Len(c.dma) + 18 /\ Len(s.ipc) <= Len(c.ipc) + 1
  BY <1>3 DEF Progress
<1> HIDE DEF r
<1>5. Len(c.dma) \in Nat /\ Len(s.dma) \in Nat /\ Len(o.ipc) \in Nat
  <2>1. c \in Buffers /\ s \in Buffers BY <1>1, <1>4
  <2> HIDE DEF s
  <2> QED BY <2>1, TableTypes
<1>6. Len(s.dma) <= 24 BY <1>1, <1>4, <1>5
<1>7. s \in Buffers BY <1>4
<1> HIDE DEF s
<1>8. /\ e \in Buffers /\ Grows(s, e) /\ Len(e.dma) <= Len(s.dma) + 6
      /\ e.ipc = s.ipc /\ SameTables(s, e) /\ e.coded = s.coded /\ e.coloc = s.coloc
      /\ e.mp = s.mp /\ e.pic = s.pic /\ e.proc = s.proc
      /\ deny = {} => w.ok
      /\ e.slice = (IF cfg.codec = "HEVC" THEN All(s, "slice", 4) ELSE s.slice)
      /\ e.xc = (IF cfg.codec = "HEVC" \/ cfg.bufs THEN All(s, "xc", 2) ELSE {})
      /\ w.ok => e.xc \subseteq Live(e)
      /\ w.ok /\ cfg.codec = "HEVC" => e.slice \subseteq Live(e)
  BY <1>6, <1>7, WithCodecFacts
<1> HIDE DEF w
<1>9. e \in Buffers BY <1>8
<1> HIDE DEF e
<1>10. Len(e.dma) \in Nat BY <1>9, TableTypes
<1>11. Grows(o, s) BY <1>1, <1>4, GrowsTwice
<1>12. Grows(o, e) BY <1>7, <1>8, <1>9, <1>11, GrowsTwice
<1>13. s.slice = {} BY <1>1, <1>4 DEF SameStream
<1>14. Live(c) \subseteq Live(s) /\ Live(s) \subseteq Live(e) BY <1>1, <1>4, <1>8, GrowsLive
<1>15. SameTables(c, e) BY <1>4, <1>8 DEF SameTables
<1>16. ASSUME r.ok, w.ok PROVE StreamMem(e, cfg)
  <2>1. PrepHas(c, s, cfg) /\ c.n_dpb # 0 BY <1>3, <1>16 DEF s
  <2>2. /\ \A k \in {"start", "fwc", "fwcm", "psets"} : Has(e, << k, 0 >>)
        /\ e.coded = All(e, "coded", 4) \cup All(e, "hdr", 4) /\ e.coded \subseteq Live(e)
        /\ e.coloc \in {{}, All(e, "coloc", e.n_dpb)} /\ e.coloc \subseteq Live(e)
        /\ e.mp = (IF cfg.mp = 2 THEN All(e, "mp", 4) ELSE {}) /\ e.mp \subseteq Live(e)
    BY <1>1, <1>4, <1>8, <2>1, PrepLater
  <2>3. e.n_dpb = DpbSlots(cfg) /\ e.recon \in Live(e) /\ Some(e.low) \subseteq Live(e)
    BY <1>1, <1>14, <1>15, <2>1 DEF SameTables
  <2>4. e.stream = s.stream BY <1>8 DEF Grows
  <2>5. \A k, n : All(e, k, n) = All(s, k, n) BY <2>4 DEF All, Mine
  <2>6. (cfg.codec = "HEVC" => e.slice = All(e, "slice", 4)) /\ e.slice \subseteq Live(e)
    BY <1>8, <1>13, <1>16, <2>5
  <2>7. e.xc = (IF cfg.codec = "HEVC" \/ cfg.bufs THEN All(e, "xc", 2) ELSE {})
        /\ e.xc \subseteq Live(e)
    BY <1>8, <1>16, <2>5
  <2> QED BY <2>2, <2>3, <2>6, <2>7 DEF StreamMem
<1>17. ASSUME r.ok, deny \cap StaleTables = {} PROVE Given(e)
  <2>1. c.n_dpb # 0 BY <1>3, <1>17
  <2>2. << "nbr", 0 >> \notin deny /\ << "entropy", 0 >> \notin deny /\ << "res", 0 >> \notin deny
    BY <1>17 DEF StaleTables
  <2> QED BY <1>1, <1>14, <1>15, <2>1, <2>2 DEF Given, SameTables
<1>18. ASSUME deny = {}, Len(o.ipc) < AVE_SESS_MAX_IPC PROVE r.ok /\ w.ok
  <2>1. c.n_dpb # 0 /\ Len(c.ipc) < AVE_SESS_MAX_IPC BY <1>1, <1>18
  <2> QED BY <1>3, <1>8, <1>18, <2>1
<1>19. CASE PassRefused(cfg)
  <2>1. p = [b |-> c, ok |-> FALSE] BY <1>2, <1>19
  <2>2. p.b = c /\ ~p.ok BY <2>1
  <2>3. Len(c.dma) <= 30 /\ Len(c.ipc) <= Len(o.ipc) + 1 BY <1>1, <1>5
  <2>4. c.pic = o.pic /\ c.proc = o.proc BY <1>1 DEF SameStream
  <2> HIDE DEF p
  <2> QED BY <1>1, <1>19, <2>2, <2>3, <2>4 DEF p
<1>20. CASE ~PassRefused(cfg) /\ r.ok
  <2>1. p = [b |-> e, ok |-> w.ok /\ RefsSuffice(e, cfg) /\ BuilderAccepts(e, cfg)]
    BY <1>2, <1>20
  <2>2. p.b = e /\ (p.ok <=> w.ok /\ RefsSuffice(e, cfg) /\ BuilderAccepts(e, cfg))
    <3> DEFINE ok == w.ok /\ RefsSuffice(e, cfg) /\ BuilderAccepts(e, cfg)
    <3>1. ok \in BOOLEAN OBVIOUS
    <3>2. p = [b |-> e, ok |-> ok] BY <2>1
    <3> HIDE DEF p, ok
    <3>3. p.b = e /\ p.ok = ok BY <3>2
    <3> QED BY <3>1, <3>3 DEF ok
  <2>3. Len(e.dma) <= 30 BY <1>5, <1>6, <1>8, <1>10
  <2>4. Len(e.ipc) <= Len(o.ipc) + 1 BY <1>1, <1>4, <1>8
  <2>5. e.pic = o.pic /\ e.proc = o.proc BY <1>1, <1>4, <1>8 DEF SameStream
  <2> HIDE DEF p
  <2>6. p.ok => StreamMem(e, cfg) BY <1>16, <1>20, <2>2
  <2>7. p.ok /\ deny \cap StaleTables = {} => Given(e) BY <1>17, <1>20
  <2>8. deny = {} => w.ok BY <1>8
  <2>9. deny = {} => StreamMem(e, cfg) /\ Given(e) BY <1>16, <1>17, <1>20, <2>8
  <2> QED BY <1>9, <1>12, <2>2, <2>3, <2>4, <2>5, <2>6, <2>7, <2>8, <2>9 DEF p
<1>21. CASE ~PassRefused(cfg) /\ ~r.ok
  <2>1. p = r BY <1>2, <1>21
  <2>2. p.b = s /\ ~p.ok BY <1>21, <2>1 DEF s
  <2>3. Len(s.dma) <= 30 BY <1>5, <1>6
  <2>4. Len(s.ipc) <= Len(o.ipc) + 1 BY <1>1, <1>4
  <2>5. s.pic = o.pic /\ s.proc = o.proc BY <1>1, <1>4 DEF SameStream
  <2> HIDE DEF p
  <2>6. ~(deny = {} /\ Len(o.ipc) < AVE_SESS_MAX_IPC) BY <1>18, <1>21
  <2> QED BY <1>7, <1>11, <2>2, <2>3, <2>4, <2>5, <2>6 DEF p
<1> QED BY <1>19, <1>20, <1>21

-----------------------------------------------------------------------------
(* A frame's memory, and the end of a stream.                              *)

\* The scratch and the slots' commands are live once they are there.
AllocInv(c) ==
  /\ c.pic = None \/ c.pic \in Live(c)
  /\ \A i \in Slots : c.proc[i] = None \/ c.proc[i] \in Live(c)
\* The slots whose command is yet to be allocated.
Missing(c) == {i \in Slots : c.proc[i] = None}

\* Slots are a finite set.
LEMMA MissingFacts ==
  ASSUME NEW c
  PROVE  IsFiniteSet(Missing(c)) /\ Cardinality(Missing(c)) \in 0 .. 4
<1>1. Slots = 0 .. 3 BY DEF Slots, AVE_SESS_FRAMES_MAX
<1>2. IsFiniteSet(0 .. 3) /\ Cardinality(0 .. 3) = 4
  <2>1. 0 \in Int /\ 3 \in Int OBVIOUS
  <2>2. IsFiniteSet(0 .. 3) /\ Cardinality(0 .. 3) = IF 0 > 3 THEN 0 ELSE 3 - 0 + 1
    BY <2>1, FS_Interval
  <2> QED BY <2>2
<1>3. Missing(c) \subseteq 0 .. 3 BY <1>1 DEF Missing
<1>4. IsFiniteSet(Missing(c)) /\ Cardinality(Missing(c)) <= Cardinality(0 .. 3)
  BY <1>2, <1>3, FS_Subset
<1>5. Cardinality(Missing(c)) \in Nat BY <1>4, FS_CardinalityType
<1> QED BY <1>2, <1>4, <1>5

\* A Process command is built: nothing is allocated twice, and what is allocated is
\* what was missing.
LEMMA BuildFacts ==
  ASSUME NEW c \in Buffers, NEW idx \in Slots, NEW deny, AllocInv(c)
  PROVE  LET p == ave_session_process_build(c, idx, deny)
             d == p.b
         IN  /\ d \in Buffers /\ Grows(c, d) /\ SameTables(c, d) /\ AllocInv(d)
             /\ d.coded = c.coded /\ d.coloc = c.coloc /\ d.mp = c.mp
             /\ d.slice = c.slice /\ d.xc = c.xc
             /\ p.ok => d.pic \in Live(d) /\ d.proc[idx] \in Live(d)
             /\ Len(d.dma) + Bit(d.pic = None) <= Len(c.dma) + Bit(c.pic = None)
             /\ Len(d.ipc) + Cardinality(Missing(d)) <= Len(c.ipc) + Cardinality(Missing(c))
             /\ /\ deny = {}
                /\ Len(c.dma) + Bit(c.pic = None) <= AVE_SESS_MAX_DMA
                /\ Len(c.ipc) + Cardinality(Missing(c)) <= AVE_SESS_MAX_IPC
                => p.ok
<1> DEFINE m == IF c.pic # None THEN c ELSE ave_sess_dma_alloc(c, << "pic", 0 >>, deny)
           e == IF c.proc[idx] # None THEN m
                ELSE ave_sess_ipc_alloc(m, << "proc", idx >>, deny)
           pic == IF c.pic # None THEN c.pic ELSE Mine(c, "pic", 0)
           cmd == IF c.proc[idx] # None THEN c.proc[idx] ELSE Mine(c, "proc", idx)
           np == Bit(c.pic = None)
           p == ave_session_process_build(c, idx, deny)
<1>1. p = IF pic \notin Live(m) /\ c.pic = None THEN [b |-> m, ok |-> FALSE]
          ELSE IF cmd \notin Live(e) /\ c.proc[idx] = None
            THEN [b |-> [m EXCEPT !.pic = pic], ok |-> FALSE]
          ELSE [b |-> [e EXCEPT !.pic = pic, !.proc = [@ EXCEPT ![idx] = cmd]], ok |-> TRUE]
  BY DEF ave_session_process_build
<1>2. "pic" \in Kinds /\ "proc" \in Kinds /\ idx \in 0 .. 3
  BY DEF Kinds, Slots, AVE_SESS_FRAMES_MAX
<1>3. << "pic", 0 >> \in Names /\ << "proc", idx >> \in Names BY <1>2 DEF Names
<1>4. pic \in Regions /\ cmd \in Regions /\ pic # None /\ cmd # None
  <2>1. c.pic \in Regions BY DEF Buffers
  <2>2. c.proc[idx] \in Regions BY DEF Buffers
  <2>3. Mine(c, "pic", 0) \in Regions /\ Mine(c, "pic", 0) # None BY <1>2, MineType, NotNone
  <2>4. Mine(c, "proc", idx) \in Regions /\ Mine(c, "proc", idx) # None
    BY <1>2, MineType, NotNone
  <2> QED BY <2>1, <2>2, <2>3, <2>4
<1>5. Len(c.dma) \in Nat /\ Len(c.ipc) \in Nat BY TableTypes
<1>6. np \in {0, 1} /\ (np = 1 <=> c.pic = None) BY DEF Bit
<1>7. /\ m \in Buffers /\ m = [c EXCEPT !.dma = m.dma] /\ Grows(c, m)
      /\ Len(m.dma) <= Len(c.dma) + np
      /\ m = c \/ pic \in Live(m)
      /\ c.pic = None /\ deny = {} /\ Len(c.dma) < AVE_SESS_MAX_DMA => pic \in Live(m)
      /\ c.pic # None => pic \in Live(m)
  <2>1. CASE c.pic # None
    <3>1. m = c /\ pic = c.pic BY <2>1
    <3>2. c = [c EXCEPT !.dma = c.dma] BY DEF Buffers
    <3>3. Grows(c, c) BY <1>5 DEF Grows, Longer
    <3>4. c.pic \in Live(c) BY <2>1 DEF AllocInv
    <3> HIDE DEF np, m, pic
    <3> QED BY <1>5, <1>6, <2>1, <3>1, <3>2, <3>3, <3>4
  <2>2. CASE c.pic = None
    <3> DEFINE a == ave_sess_dma_alloc(c, << "pic", 0 >>, deny)
    <3>1. m = a /\ pic = Mine(c, "pic", 0) /\ np = 1 BY <2>2 DEF Bit
    <3>2. /\ a \in Buffers /\ a = [c EXCEPT !.dma = a.dma] /\ Grows(c, a)
          /\ Len(a.dma) <= Len(c.dma) + 1
          /\ a = c \/ Has(a, << "pic", 0 >>)
          /\ << "pic", 0 >> \notin deny /\ Len(c.dma) < AVE_SESS_MAX_DMA =>
               Has(a, << "pic", 0 >>)
      BY <1>3, DmaAlloc
    <3> HIDE DEF a, m, pic, np
    <3>3. Has(a, << "pic", 0 >>) <=> pic \in Live(a)
      <4>1. a.stream = c.stream BY <3>2 DEF Grows
      <4> QED BY <3>1, <4>1 DEF Has, Mine
    <3> QED BY <2>2, <3>1, <3>2, <3>3
  <2> QED BY <2>1, <2>2
<1> HIDE DEF m, pic, np
<1>8. /\ m.ipc = c.ipc /\ m.stream = c.stream /\ SameTables(c, m) /\ SameStream(c, m)
      /\ m.coded = c.coded /\ m.coloc = c.coloc /\ m.mp = c.mp
  BY <1>7, DmaOnly DEF SameTables
<1>9. /\ e \in Buffers /\ e = [m EXCEPT !.ipc = e.ipc] /\ Grows(m, e)
      /\ Len(e.ipc) <= Len(m.ipc) + 1
      /\ e = m \/ (c.proc[idx] = None /\ cmd \in Live(e))
      /\ c.proc[idx] = None /\ deny = {} /\ Len(c.ipc) < AVE_SESS_MAX_IPC => cmd \in Live(e)
      /\ c.proc[idx] # None => cmd \in Live(e)
  <2>1. CASE c.proc[idx] # None
    <3>1. e = m /\ cmd = c.proc[idx] BY <2>1
    <3>2. m = [m EXCEPT !.ipc = m.ipc] BY <1>7 DEF Buffers
    <3>3. Len(m.dma) \in Nat /\ Len(m.ipc) \in Nat BY <1>7, TableTypes
    <3>4. Grows(m, m) BY <3>3 DEF Grows, Longer
    <3>5. c.proc[idx] \in Live(c) BY <2>1 DEF AllocInv
    <3>6. cmd \in Live(m) BY <1>7, <3>1, <3>5, GrowsLive
    <3> HIDE DEF e, cmd
    <3> QED BY <1>7, <2>1, <3>1, <3>2, <3>3, <3>4, <3>6
  <2>2. CASE c.proc[idx] = None
    <3> DEFINE a == ave_sess_ipc_alloc(m, << "proc", idx >>, deny)
    <3>1. e = a /\ cmd = Mine(c, "proc", idx) BY <2>2
    <3>2. m \in Buffers BY <1>7
    <3>3. /\ a \in Buffers /\ a = [m EXCEPT !.ipc = a.ipc] /\ Grows(m, a)
          /\ Len(a.ipc) <= Len(m.ipc) + 1
          /\ a = m \/ Has(a, << "proc", idx >>)
          /\ << "proc", idx >> \notin deny /\ Len(m.ipc) < AVE_SESS_MAX_IPC =>
               Has(a, << "proc", idx >>)
      BY <1>3, <3>2, IpcAlloc
    <3> HIDE DEF a, e, cmd
    <3>4. Has(a, << "proc", idx >>) <=> cmd \in Live(a)
      <4>1. a.stream = c.stream BY <1>8, <3>3 DEF Grows
      <4> QED BY <3>1, <4>1 DEF Has, Mine
    <3> QED BY <1>8, <2>2, <3>1, <3>3, <3>4
  <2> QED BY <2>1, <2>2
<1> HIDE DEF e, cmd
<1>10. /\ e.dma = m.dma /\ SameTables(m, e) /\ SameStream(m, e)
       /\ e.coded = m.coded /\ e.coloc = m.coloc /\ e.mp = m.mp
  BY <1>7, <1>9, IpcOnly DEF SameTables
<1>11. Grows(c, e) BY <1>7, <1>9, GrowsTwice
<1>12. Len(m.dma) \in Nat /\ Len(e.ipc) \in Nat BY <1>7, <1>9, TableTypes
<1>13. Live(c) \subseteq Live(m) /\ Live(m) \subseteq Live(e) BY <1>7, <1>9, GrowsLive
<1>14. /\ IsFiniteSet(Missing(c)) /\ Cardinality(Missing(c)) \in 0 .. 4
  BY MissingFacts
<1>15. pic \in Live(m) \/ m = c BY <1>7
<1>16. CASE pic \notin Live(m) /\ c.pic = None
  <2>1. p = [b |-> m, ok |-> FALSE] BY <1>1, <1>16
  <2>2. p.b = c /\ ~p.ok BY <1>7, <1>16, <2>1
  <2>3. ~(deny = {} /\ Len(c.dma) + Bit(c.pic = None) <= AVE_SESS_MAX_DMA)
    BY <1>5, <1>6, <1>7, <1>16 DEF np, AVE_SESS_MAX_DMA
  <2>4. Grows(c, c) /\ SameTables(c, c) BY <1>5 DEF Grows, Longer, SameTables
  <2>5. /\ Len(c.dma) + Bit(c.pic = None) <= Len(c.dma) + Bit(c.pic = None)
        /\ Len(c.ipc) + Cardinality(Missing(c)) <= Len(c.ipc) + Cardinality(Missing(c))
    BY <1>5, <1>6, <1>14 DEF np
  <2> HIDE DEF p
  <2> QED BY <2>2, <2>3, <2>4, <2>5 DEF p
<1>17. CASE ~(pic \notin Live(m) /\ c.pic = None) /\ cmd \notin Live(e) /\ c.proc[idx] = None
  <2> DEFINE d == [m EXCEPT !.pic = pic]
  <2>1. p = [b |-> d, ok |-> FALSE] BY <1>1, <1>17
  <2>2. /\ d \in Buffers /\ d.dma = m.dma /\ d.ipc = m.ipc /\ d.stream = m.stream
        /\ d.pic = pic /\ d.proc = m.proc
    BY <1>4, <1>7 DEF Buffers
  <2>3. /\ d.coded = m.coded /\ d.coloc = m.coloc /\ d.mp = m.mp
        /\ d.slice = m.slice /\ d.xc = m.xc /\ SameTables(m, d)
    BY <1>7 DEF Buffers, SameTables
  <2> HIDE DEF d
  <2>4. p.b = d /\ ~p.ok BY <2>1
  <2>5. Live(d) = Live(m) BY <2>2, SameLive
  <2>6. pic \in Live(m) BY <1>7, <1>17
  <2>7. AllocInv(d) BY <1>8, <1>13, <2>2, <2>5, <2>6 DEF AllocInv, SameStream
  <2>8. Grows(c, d) BY <1>7, <2>2 DEF Grows
  <2>9. SameTables(c, d) BY <1>8, <2>3 DEF SameTables
  <2>10. Missing(d) = Missing(c) BY <1>8, <2>2 DEF Missing, SameStream
  <2>11. Bit(d.pic = None) = 0 BY <1>4, <2>2 DEF Bit
  <2>12. Len(d.dma) + Bit(d.pic = None) <= Len(c.dma) + Bit(c.pic = None)
    BY <1>5, <1>6, <1>7, <1>12, <2>2, <2>11 DEF np
  <2>13. Len(d.ipc) + Cardinality(Missing(d)) <= Len(c.ipc) + Cardinality(Missing(c))
    BY <1>5, <1>8, <1>14, <2>2, <2>10
  <2>14. ~(deny = {} /\ Len(c.ipc) + Cardinality(Missing(c)) <= AVE_SESS_MAX_IPC)
    <3>1. idx \in Missing(c) BY <1>17 DEF Missing
    <3>2. Cardinality(Missing(c)) # 0 BY <1>14, <3>1, FS_EmptySet
    <3>3. Len(c.ipc) + Cardinality(Missing(c)) <= 8 => Len(c.ipc) < 8 BY <1>5, <1>14, <3>2
    <3> QED BY <1>9, <1>17, <3>3 DEF AVE_SESS_MAX_IPC
  <2>15. /\ d.coded = c.coded /\ d.coloc = c.coloc /\ d.mp = c.mp
         /\ d.slice = c.slice /\ d.xc = c.xc
    BY <1>8, <2>3 DEF SameStream
  <2> HIDE DEF p
  <2> QED BY <2>2, <2>4, <2>7, <2>8, <2>9, <2>12, <2>13, <2>14, <2>15 DEF p
<1>18. CASE ~(pic \notin Live(m) /\ c.pic = None) /\ ~(cmd \notin Live(e) /\ c.proc[idx] = None)
  <2> DEFINE proc == [e.proc EXCEPT ![idx] = cmd]
             d == [e EXCEPT !.pic = pic, !.proc = proc]
  <2>1. p = [b |-> d, ok |-> TRUE] BY <1>1, <1>18
  <2>2. e.proc \in [Slots -> Regions] BY <1>9 DEF Buffers
  <2>3. /\ proc \in [Slots -> Regions] /\ proc[idx] = cmd
        /\ \A i \in Slots : i # idx => proc[i] = e.proc[i]
    BY <1>4, <2>2
  <2> HIDE DEF proc
  <2>4. /\ d \in Buffers /\ d.dma = e.dma /\ d.ipc = e.ipc /\ d.stream = e.stream
        /\ d.pic = pic /\ d.proc = proc
    BY <1>4, <1>9, <2>3 DEF Buffers
  <2>5. /\ d.coded = e.coded /\ d.coloc = e.coloc /\ d.mp = e.mp
        /\ d.slice = e.slice /\ d.xc = e.xc /\ SameTables(e, d)
    BY <1>9 DEF Buffers, SameTables
  <2> HIDE DEF d
  <2>6. p.b = d /\ p.ok BY <2>1
  <2>7. Live(d) = Live(e) BY <2>4, SameLive
  <2>8. pic \in Live(e) /\ cmd \in Live(e) BY <1>7, <1>9, <1>13, <1>18
  <2>9. e.proc = c.proc BY <1>8, <1>10 DEF SameStream
  <2>10. \A i \in Slots : c.proc[i] = None \/ c.proc[i] \in Live(e)
    BY <1>13 DEF AllocInv
  <2>11. AllocInv(d) BY <2>3, <2>4, <2>7, <2>8, <2>9, <2>10 DEF AllocInv
  <2>12. Grows(c, d) BY <1>11, <2>4 DEF Grows
  <2>13. SameTables(c, d) BY <1>8, <1>10, <2>5 DEF SameTables
  <2>14. Bit(d.pic = None) = 0 BY <1>4, <2>4 DEF Bit
  <2>15. Len(d.dma) + Bit(d.pic = None) <= Len(c.dma) + Bit(c.pic = None)
    BY <1>5, <1>6, <1>7, <1>10, <1>12, <2>4, <2>14 DEF np
  <2>16. Missing(d) = Missing(c) \ {idx} BY <1>4, <2>3, <2>4, <2>9 DEF Missing
  <2>17. Len(d.ipc) + Cardinality(Missing(d)) <= Len(c.ipc) + Cardinality(Missing(c))
    <3>1. CASE idx \in Missing(c)
      <4>1. Cardinality(Missing(d)) = Cardinality(Missing(c)) - 1
        BY <1>14, <2>16, <3>1, FS_RemoveElement
      <4> QED BY <1>5, <1>8, <1>9, <1>12, <1>14, <2>4, <4>1
    <3>2. CASE idx \notin Missing(c)
      <4>1. Missing(d) = Missing(c) BY <2>16, <3>2
      <4>2. e = m BY <1>9, <3>2 DEF Missing
      <4> QED BY <1>5, <1>8, <1>14, <2>4, <4>1, <4>2
    <3> QED BY <3>1, <3>2
  <2>18. /\ d.coded = c.coded /\ d.coloc = c.coloc /\ d.mp = c.mp
         /\ d.slice = c.slice /\ d.xc = c.xc
    BY <1>8, <1>10, <2>5 DEF SameStream
  <2>19. d.pic \in Live(d) /\ d.proc[idx] \in Live(d) BY <2>3, <2>4, <2>7, <2>8
  <2> HIDE DEF p
  <2> QED BY <2>4, <2>6, <2>11, <2>12, <2>13, <2>15, <2>17, <2>18, <2>19 DEF p
<1> QED BY <1>16, <1>17, <1>18

\* What Config left at the bottom of the tables is there as long as the firmware runs.
Marked(c) ==
  /\ Len(c.dma) >= 1 /\ c.dma[1] = Config
  /\ Len(c.ipc) >= 1 /\ c.ipc[1] = Region("config", 0, 0)
\* No stream has memory, and nothing of one is remembered that the next would name.
Idle(c) ==
  Len(c.dma) = 1 /\ c.slice = {} /\ c.pic = None /\ \A i \in Slots : c.proc[i] = None

\* What Config left, in the tables.
LEMMA MarkedLive ==
  ASSUME NEW c \in Buffers, Marked(c)
  PROVE  {Config, Region("config", 0, 0)} \subseteq Live(c)
<1>1. c.dma \in Seq(Regions) /\ c.ipc \in Seq(Regions) /\ Len(c.dma) \in Nat
      /\ Len(c.ipc) \in Nat
  BY TableTypes
<1>2. 1 \in 1 .. Len(c.dma) /\ 1 \in 1 .. Len(c.ipc) BY <1>1 DEF Marked
<1>3. Config \in ToSet(c.dma) BY <1>1, <1>2, InTable DEF Marked
<1>4. Region("config", 0, 0) \in ToSet(c.ipc) BY <1>1, <1>2, InTable DEF Marked
<1> QED BY <1>3, <1>4 DEF Live

\* It stays there as the tables grow.
LEMMA MarkedGrows ==
  ASSUME NEW c \in Buffers, NEW d \in Buffers, Marked(c), Grows(c, d)
  PROVE  Marked(d)
<1>1. /\ Len(c.dma) \in Nat /\ Len(c.ipc) \in Nat /\ Len(d.dma) \in Nat /\ Len(d.ipc) \in Nat
  BY TableTypes
<1>2. 1 \in 1 .. Len(c.dma) /\ 1 \in 1 .. Len(c.ipc) BY <1>1 DEF Marked
<1> QED BY <1>1, <1>2 DEF Marked, Grows, Longer

\* The firmware is given these two at boot.
LEMMA BootLive == Live(AfterConfig) = {Config, Region("config", 0, 0)}
<1> DEFINE s == << Config >>
           t == << Region("config", 0, 0) >>
<1>1. s \in Seq(Regions) /\ t \in Seq(Regions) /\ Len(s) = 1 /\ Len(t) = 1
      /\ s[1] = Config /\ t[1] = Region("config", 0, 0)
  BY NoneType
<1>2. AfterConfig.dma = s /\ AfterConfig.ipc = t BY DEF AfterConfig
<1> HIDE DEF s, t
<1>3. ToSet(s) = {Config} BY <1>1, InTable
<1>4. ToSet(t) = {Region("config", 0, 0)} BY <1>1, InTable
<1> QED BY <1>2, <1>3, <1>4 DEF Live

\* The buffers after boot.
LEMMA BootFacts ==
  AfterConfig \in Buffers /\ Marked(AfterConfig) /\ Idle(AfterConfig) /\ Len(AfterConfig.ipc) = 1
<1>1. << Config >> \in Seq(Regions) /\ << Region("config", 0, 0) >> \in Seq(Regions)
  BY NoneType
<1>2. [i \in Slots |-> None] \in [Slots -> Regions] BY NoneType
<1>3. AfterConfig \in Buffers BY <1>1, <1>2, NoneType DEF AfterConfig, Buffers
<1>4. Marked(AfterConfig) /\ Idle(AfterConfig) /\ Len(AfterConfig.ipc) = 1
  BY DEF AfterConfig, Marked, Idle
<1> QED BY <1>3, <1>4

\* The end of a stream that closes: everything but Config's memory is given back.
LEMMA FreedFacts ==
  ASSUME NEW c \in Buffers, Marked(c)
  PROVE  LET d == Forget(ave_sess_free_to(c))
         IN  /\ d \in Buffers /\ Marked(d) /\ Idle(d) /\ Len(d.ipc) = 1
             /\ Live(AfterConfig) \subseteq Live(d)
<1> DEFINE s == SubSeq(c.dma, 1, 1)
           t == SubSeq(c.ipc, 1, 1)
           proc == [i \in Slots |-> None]
           d == Forget(ave_sess_free_to(c))
<1>1. c.dma \in Seq(Regions) /\ c.ipc \in Seq(Regions) /\ Len(c.dma) \in Nat
      /\ Len(c.ipc) \in Nat
  BY TableTypes
<1>2. c.dma[1] \in Regions /\ c.ipc[1] \in Regions BY NoneType DEF Marked
<1>3. s \in Seq(Regions) /\ Len(s) = 1 /\ s[1] = Config
  <2>1. /\ s \in Seq(Regions) /\ Len(s) = (IF 1 <= 1 THEN 1 - 1 + 1 ELSE 0)
        /\ \A i \in 1 .. 1 - 1 + 1 : s[i] = c.dma[1 + i - 1]
    <3>1. 1 \in Int /\ \A i \in 1 .. 1 : c.dma[i] \in Regions BY <1>2
    <3> QED BY <3>1, SubSeqProperties
  <2> HIDE DEF s
  <2>2. 1 \in 1 .. 1 - 1 + 1 /\ 1 + 1 - 1 = 1 OBVIOUS
  <2> QED BY <2>1, <2>2 DEF Marked
<1>4. t \in Seq(Regions) /\ Len(t) = 1 /\ t[1] = Region("config", 0, 0)
  <2>1. /\ t \in Seq(Regions) /\ Len(t) = (IF 1 <= 1 THEN 1 - 1 + 1 ELSE 0)
        /\ \A i \in 1 .. 1 - 1 + 1 : t[i] = c.ipc[1 + i - 1]
    <3>1. 1 \in Int /\ \A i \in 1 .. 1 : c.ipc[i] \in Regions BY <1>2
    <3> QED BY <3>1, SubSeqProperties
  <2> HIDE DEF t
  <2>2. 1 \in 1 .. 1 - 1 + 1 /\ 1 + 1 - 1 = 1 OBVIOUS
  <2> QED BY <2>1, <2>2 DEF Marked
<1>5. proc \in [Slots -> Regions] /\ \A i \in Slots : proc[i] = None BY NoneType
<1>6. d = [c EXCEPT !.dma = s, !.ipc = t, !.proc = proc, !.pic = None, !.slice = {}, !.xc = {}]
  BY DEF Forget, ave_sess_free_to, IpcAfterFree, mark_dma, mark_ipc, Buffers
<1> HIDE DEF s, t, proc, d
<1>7. /\ d \in Buffers /\ d.dma = s /\ d.ipc = t /\ d.proc = proc /\ d.pic = None
      /\ d.slice = {}
  BY <1>3, <1>4, <1>5, <1>6, NoneType DEF Buffers
<1>8. Marked(d)
  <2>1. Len(d.dma) = 1 /\ d.dma[1] = Config BY <1>3, <1>7
  <2>2. Len(d.ipc) = 1 /\ d.ipc[1] = Region("config", 0, 0) BY <1>4, <1>7
  <2> QED BY <2>1, <2>2 DEF Marked
<1>9. Idle(d) BY <1>3, <1>5, <1>7 DEF Idle
<1>10. Live(AfterConfig) \subseteq Live(d) BY <1>7, <1>8, BootLive, MarkedLive
<1> QED BY <1>4, <1>7, <1>8, <1>9, <1>10 DEF d

-----------------------------------------------------------------------------
(* What a session is started with.                                         *)

\* The configuration of a session, as ave_start_streaming() fills it from the context.
CfgInv(cfg) ==
  /\ Sizing(cfg)
  /\ cfg.w \in Nat /\ cfg.w % 16 = 0 /\ AVE_MIN_W <= cfg.w /\ cfg.w <= AVE_MAX_WH
  /\ cfg.h \in Nat /\ cfg.h % 16 = 0 /\ AVE_MIN_H <= cfg.h /\ cfg.h <= AVE_MAX_WH
  /\ cfg.qp \in 0 .. 51 /\ cfg.qp_p \in 0 .. 51 /\ cfg.qp_b \in 0 .. 51
  /\ cfg.qp_min \in 0 .. 51 /\ cfg.qp_max \in 0 .. 51
  /\ cfg.rc \in BOOLEAN /\ cfg.cabac \in BOOLEAN /\ cfg.main10 \in BOOLEAN /\ cfg.p010 \in BOOLEAN
  /\ cfg.codec = "H264" =>
       /\ cfg.profile \in Profiles /\ cfg.level \in {l \in Levels : l <= 52}
       /\ ~cfg.p010 /\ (cfg.bframes > 0 => cfg.profile # 66)
  /\ cfg.codec = "HEVC" => cfg.level \in HevcLevels /\ ~cfg.bufs

\* The controls are in their ranges: the numbers,
LEMMA CtrlNumbers ==
  ASSUME CtxInv
  PROVE  ctrl.b_frames \in 0 .. 2 /\ ctrl.p_refs \in 1 .. 2 /\ ctrl.gop \in Nat
<1>1. \A c \in Controls : ctrl[c] \in ControlRange[c] BY DEF CtxInv, CtxTypes, CtrlTypes
<1>2. /\ ctrl["b_frames"] \in ControlRange["b_frames"]
      /\ ctrl["p_refs"] \in ControlRange["p_refs"] /\ ctrl["gop"] \in ControlRange["gop"]
  BY <1>1, Zenon DEF Controls
<1>3. ControlRange["b_frames"] = 0 .. 2 /\ ControlRange["p_refs"] = 1 .. 2
  BY DEF ControlRange
<1>4. ControlRange["gop"] \subseteq Nat BY SMT DEF ControlRange
<1> QED BY <1>2, <1>3, <1>4, Zenon

\* the QPs of H.264,
LEMMA CtrlQps ==
  ASSUME CtxInv
  PROVE  /\ ctrl.qp \in 0 .. 51 /\ ctrl.qp_p \in 0 .. 51 /\ ctrl.qp_b \in 0 .. 51
         /\ ctrl.qp_min \in 0 .. 51 /\ ctrl.qp_max \in 0 .. 51
<1>1. \A c \in Controls : ctrl[c] \in ControlRange[c] BY DEF CtxInv, CtxTypes, CtrlTypes
<1>2. /\ ctrl["qp"] \in ControlRange["qp"] /\ ctrl["qp_p"] \in ControlRange["qp_p"]
      /\ ctrl["qp_b"] \in ControlRange["qp_b"] /\ ctrl["qp_min"] \in ControlRange["qp_min"]
      /\ ctrl["qp_max"] \in ControlRange["qp_max"]
  BY <1>1, Zenon DEF Controls
<1>3. /\ ControlRange["qp"] = 0 .. 51 /\ ControlRange["qp_p"] = 0 .. 51
      /\ ControlRange["qp_b"] = 0 .. 51 /\ ControlRange["qp_min"] = 0 .. 51
      /\ ControlRange["qp_max"] = 0 .. 51
  BY DEF ControlRange
<1> QED BY <1>2, <1>3

\* those of HEVC,
LEMMA CtrlHevcQps ==
  ASSUME CtxInv
  PROVE  /\ ctrl.hevc_qp \in 0 .. 51 /\ ctrl.hevc_qp_p \in 0 .. 51
         /\ ctrl.hevc_qp_b \in 0 .. 51 /\ ctrl.hevc_qp_min \in 0 .. 51
         /\ ctrl.hevc_qp_max \in 0 .. 51
<1>1. \A c \in Controls : ctrl[c] \in ControlRange[c] BY DEF CtxInv, CtxTypes, CtrlTypes
<1>2. /\ ctrl["hevc_qp"] \in ControlRange["hevc_qp"]
      /\ ctrl["hevc_qp_p"] \in ControlRange["hevc_qp_p"]
      /\ ctrl["hevc_qp_b"] \in ControlRange["hevc_qp_b"]
      /\ ctrl["hevc_qp_min"] \in ControlRange["hevc_qp_min"]
      /\ ctrl["hevc_qp_max"] \in ControlRange["hevc_qp_max"]
  BY <1>1, Zenon DEF Controls
<1>3. /\ ControlRange["hevc_qp"] = 0 .. 51 /\ ControlRange["hevc_qp_p"] = 0 .. 51
      /\ ControlRange["hevc_qp_b"] = 0 .. 51 /\ ControlRange["hevc_qp_min"] = 0 .. 51
      /\ ControlRange["hevc_qp_max"] = 0 .. 51
  BY DEF ControlRange
<1> QED BY <1>2, <1>3

\* the switches, profiles and levels.
LEMMA CtrlMenus ==
  ASSUME CtxInv
  PROVE  /\ ctrl.rc \in BOOLEAN /\ ctrl.cabac \in BOOLEAN /\ ctrl.main10 \in BOOLEAN
         /\ ctrl.profile \in Profiles /\ ctrl.level \in {l \in Levels : l <= 52}
         /\ ctrl.hevc_level \in HevcLevels
<1>1. \A c \in Controls : ctrl[c] \in ControlRange[c] BY DEF CtxInv, CtxTypes, CtrlTypes
<1>2. /\ ctrl["rc"] \in ControlRange["rc"] /\ ctrl["cabac"] \in ControlRange["cabac"]
      /\ ctrl["main10"] \in ControlRange["main10"]
      /\ ctrl["profile"] \in ControlRange["profile"]
      /\ ctrl["level"] \in ControlRange["level"]
      /\ ctrl["hevc_level"] \in ControlRange["hevc_level"]
  BY <1>1, Zenon DEF Controls
<1>3. /\ ControlRange["rc"] = BOOLEAN /\ ControlRange["cabac"] = BOOLEAN
      /\ ControlRange["main10"] = BOOLEAN
  BY DEF ControlRange
<1>4. /\ ControlRange["profile"] = Profiles
      /\ ControlRange["level"] = {l \in Levels : l <= 52}
      /\ ControlRange["hevc_level"] = HevcLevels
  BY DEF ControlRange
<1> QED BY <1>2, <1>3, <1>4, Zenon

\* B frames as latched: none where the profile or the SoC has none.
LEMMA LatchedFacts ==
  ASSUME CtxInv
  PROVE  /\ LatchedB \in 0 .. 2
         /\ fmt.codec = "H264" /\ (ctrl.profile = 66 \/ ~TwoRefsWork) => LatchedB = 0
<1>1. ctrl.b_frames \in 0 .. 2 /\ ctrl.gop \in Nat BY CtrlNumbers
<1> DEFINE nb == ctrl.b_frames
           gop == ctrl.gop
           none == fmt.codec = "H264" /\ (ctrl.profile = 66 \/ ~TwoRefsWork)
<1>2. LatchedB = IF none THEN 0
                 ELSE IF nb > 0 /\ gop > 0 /\ gop < nb + 2
                   THEN IF gop >= 3 THEN gop - 2 ELSE 0
                 ELSE nb
  BY DEF LatchedB
<1> HIDE DEF nb, gop, none
<1>3. nb \in 0 .. 2 /\ gop \in Nat BY <1>1 DEF nb, gop
<1>4. LatchedB \in 0 .. 2 /\ (none => LatchedB = 0) BY <1>2, <1>3
<1> QED BY <1>4 DEF none

\* The configuration a context that fits the codec gives.
LEMMA EncCfgFacts ==
  ASSUME CtxInv, ~Unfit, NEW lab \in Labs \cup {"none"}
  PROVE  CfgInv(EncCfg(lab))
<1> DEFINE cfg == EncCfg(lab)
           hevc == fmt.codec = "HEVC"
           qp == IF hevc THEN ctrl.hevc_qp ELSE ctrl.qp
           qp_b == IF hevc THEN ctrl.hevc_qp_b ELSE ctrl.qp_b
           off == Min({qp + AVE_B_QP_OFFSET, 51})
<1>1. /\ cfg.codec = fmt.codec /\ cfg.w = fmt.w /\ cfg.h = fmt.h
      /\ cfg.qp = qp /\ cfg.qp_p = (IF hevc THEN ctrl.hevc_qp_p ELSE ctrl.qp_p)
      /\ cfg.qp_b = (IF LatchedB > 0 /\ qp_b = 0 THEN off ELSE qp_b)
      /\ cfg.qp_min = (IF hevc THEN ctrl.hevc_qp_min ELSE ctrl.qp_min)
      /\ cfg.qp_max = (IF hevc THEN ctrl.hevc_qp_max ELSE ctrl.qp_max)
  BY DEF EncCfg
<1>2. /\ cfg.rc = ctrl.rc /\ cfg.slots = AVE_SESS_FRAMES_MAX
      /\ cfg.profile = (IF hevc THEN 0 ELSE ctrl.profile)
      /\ cfg.level = (IF hevc THEN ctrl.hevc_level ELSE ctrl.level)
      /\ cfg.bframes = LatchedB
      /\ cfg.p_refs = (IF ~hevc /\ ~TwoRefsWork THEN 1 ELSE ctrl.p_refs)
      /\ cfg.mp = (IF lab = "mp" THEN 2 ELSE 0)
  BY DEF EncCfg
<1>3. /\ cfg.main10 = (hevc /\ ctrl.main10) /\ cfg.p010 = (hevc /\ fmt.p010)
      /\ cfg.cabac = (~hevc /\ ctrl.cabac) /\ cfg.bufs = (lab = "bufs" /\ ~hevc)
  BY DEF EncCfg
<1>4. ctrl.p_refs \in 1 .. 2 BY CtrlNumbers
<1>17. /\ ctrl.rc \in BOOLEAN /\ ctrl.cabac \in BOOLEAN /\ ctrl.main10 \in BOOLEAN
      /\ ctrl.profile \in Profiles /\ ctrl.level \in {l \in Levels : l <= 52}
      /\ ctrl.hevc_level \in HevcLevels
  BY CtrlMenus, Zenon
<1>5. /\ ctrl.qp \in 0 .. 51 /\ ctrl.qp_p \in 0 .. 51 /\ ctrl.qp_b \in 0 .. 51
      /\ ctrl.qp_min \in 0 .. 51 /\ ctrl.qp_max \in 0 .. 51
      /\ ctrl.hevc_qp \in 0 .. 51 /\ ctrl.hevc_qp_p \in 0 .. 51 /\ ctrl.hevc_qp_b \in 0 .. 51
      /\ ctrl.hevc_qp_min \in 0 .. 51 /\ ctrl.hevc_qp_max \in 0 .. 51
  BY CtrlQps, CtrlHevcQps
<1>6. LatchedB \in 0 .. 2 /\ (~hevc /\ ctrl.profile = 66 => LatchedB = 0)
  <2>1. fmt.codec \in {"H264", "HEVC"} BY DEF CtxInv, CtxTypes, Formats
  <2> QED BY <2>1, LatchedFacts
<1>7. fmt.codec \in {"H264", "HEVC"} /\ fmt.p010 \in BOOLEAN /\ fmt.w \in Nat /\ fmt.h \in Nat
  BY DEF CtxInv, CtxTypes, Formats
<1>8. /\ fmt.w % 16 = 0 /\ AVE_MIN_W <= fmt.w /\ fmt.w <= AVE_MAX_WH
      /\ fmt.h % 16 = 0 /\ AVE_MIN_H <= fmt.h /\ fmt.h <= AVE_MAX_WH
  BY DEF CtxInv, FormatInv, PictureFits
<1>9. qp \in 0 .. 51 /\ qp_b \in 0 .. 51 BY <1>5
<1> HIDE DEF cfg, qp, qp_b
<1>10. off \in 0 .. 51
  <2>1. qp + 3 \in Int /\ 51 \in Int /\ qp + 3 >= 0 BY <1>9
  <2>2. off = IF qp + 3 <= 51 THEN qp + 3 ELSE 51 BY <2>1, MinTwo DEF AVE_B_QP_OFFSET
  <2> HIDE DEF off
  <2> QED BY <1>9, <2>2
<1> HIDE DEF off
<1>11. Sizing(cfg)
  <2>1. cfg.codec \in {"H264", "HEVC"} /\ cfg.slots = AVE_SESS_FRAMES_MAX BY <1>1, <1>2, <1>7
  <2>2. cfg.bufs \in BOOLEAN BY <1>3
  <2>3. cfg.mp \in {0, 2} BY <1>2
  <2>4. cfg.bframes \in 0 .. 2 BY <1>2, <1>6
  <2>5. cfg.p_refs \in 1 .. 2 BY <1>2, <1>4
  <2> QED BY <2>1, <2>2, <2>3, <2>4, <2>5 DEF Sizing
<1>12. /\ cfg.w \in Nat /\ cfg.w % 16 = 0 /\ AVE_MIN_W <= cfg.w /\ cfg.w <= AVE_MAX_WH
       /\ cfg.h \in Nat /\ cfg.h % 16 = 0 /\ AVE_MIN_H <= cfg.h /\ cfg.h <= AVE_MAX_WH
  BY <1>1, <1>7, <1>8
<1>13. /\ cfg.qp \in 0 .. 51 /\ cfg.qp_p \in 0 .. 51 /\ cfg.qp_b \in 0 .. 51
       /\ cfg.qp_min \in 0 .. 51 /\ cfg.qp_max \in 0 .. 51
  BY <1>1, <1>5, <1>9, <1>10
<1>14. /\ cfg.rc \in BOOLEAN /\ cfg.cabac \in BOOLEAN /\ cfg.main10 \in BOOLEAN
       /\ cfg.p010 \in BOOLEAN
  BY <1>2, <1>3, <1>17
<1>15. ASSUME cfg.codec = "H264"
       PROVE  /\ cfg.profile \in Profiles /\ cfg.level \in {l \in Levels : l <= 52}
              /\ ~cfg.p010 /\ (cfg.bframes > 0 => cfg.profile # 66)
  <2>1. ~hevc BY <1>1, <1>15
  <2>2. cfg.profile = ctrl.profile /\ cfg.level = ctrl.level BY <1>2, <2>1
  <2>3. ~cfg.p010 BY <1>3, <2>1
  <2>4. cfg.bframes > 0 => cfg.profile # 66 BY <1>2, <1>6, <2>1, <2>2
  <2> QED BY <1>17, <2>2, <2>3, <2>4
<1>16. ASSUME cfg.codec = "HEVC" PROVE cfg.level \in HevcLevels /\ ~cfg.bufs
  <2>1. hevc BY <1>1, <1>16
  <2>2. cfg.level = ctrl.hevc_level BY <1>2, <2>1
  <2>3. ~cfg.bufs BY <1>3, <2>1
  <2> QED BY <1>17, <2>2, <2>3
<1> QED BY <1>11, <1>12, <1>13, <1>14, <1>15, <1>16 DEF CfgInv, cfg

\* Its size is in the range the driver offers.
LEMMA SizeInRange ==
  ASSUME NEW cfg, CfgInv(cfg)
  PROVE  cfg.w \in AVE_MIN_W .. AVE_MAX_WH /\ cfg.h \in AVE_MIN_H .. AVE_MAX_WH
<1>1. /\ AVE_MIN_W <= cfg.w /\ cfg.w <= AVE_MAX_WH
      /\ AVE_MIN_H <= cfg.h /\ cfg.h <= AVE_MAX_WH
      /\ cfg.w \in Nat /\ cfg.h \in Nat
  BY Zenon DEF CfgInv
<1>2. AVE_MIN_W \in Nat /\ AVE_MIN_H \in Nat /\ AVE_MAX_WH \in Nat
  BY DEF AVE_MIN_W, AVE_MIN_H, AVE_MAX_WH
<1>3. \A x, lo, hi \in Nat : lo <= x /\ x <= hi => x \in lo .. hi OBVIOUS
<1> QED BY <1>1, <1>2, <1>3, Zenon

\* ave_enc_start() refuses none of them.
LEMMA NeverRefused ==
  ASSUME CtxInv, ~Unfit PROVE ~EncRefuses(EncCfg("none"))
<1> DEFINE cfg == EncCfg("none")
<1>1. CfgInv(cfg) BY EncCfgFacts
<1>2. cfg.codec = "H264" /\ TwoRefs(cfg) => TwoRefsWork
  <2>1. /\ cfg.codec = fmt.codec /\ cfg.bframes = LatchedB
        /\ cfg.p_refs = (IF fmt.codec # "HEVC" /\ ~TwoRefsWork THEN 1 ELSE ctrl.p_refs)
    BY DEF EncCfg
  <2>2. fmt.codec = "H264" /\ ~TwoRefsWork => LatchedB = 0 BY LatchedFacts
  <2> HIDE DEF cfg
  <2> QED BY <2>1, <2>2 DEF TwoRefs
<1> HIDE DEF cfg
<1>3. cfg.w \in AVE_MIN_W .. AVE_MAX_WH /\ cfg.h \in AVE_MIN_H .. AVE_MAX_WH
  BY <1>1, SizeInRange
<1>4. cfg.w % 2 # 1 /\ cfg.h % 2 # 1
  <2>1. \A x \in Nat : x % 16 = 0 => x % 2 # 1 OBVIOUS
  <2> QED BY <1>1, <2>1 DEF CfgInv
<1>5. \A qp \in {cfg.qp, cfg.qp_p, cfg.qp_b, cfg.qp_min, cfg.qp_max} : ~(qp > 51)
  BY <1>1 DEF CfgInv
<1>6. ~(cfg.bframes > 2) /\ ~(cfg.p_refs > 2) BY <1>1 DEF CfgInv, Sizing
<1>7. ~(cfg.codec = "H264" /\ cfg.bframes > 0 /\ cfg.profile < 77)
  BY <1>1 DEF CfgInv, Profiles
<1> QED BY <1>2, <1>3, <1>4, <1>5, <1>6, <1>7 DEF EncRefuses, cfg

-----------------------------------------------------------------------------
(* The memory of the streams.                                              *)

\* The bounds' counters.
Counts == [sets : Nat, starts : Nat, faults : Nat, frames : Nat]
\* The memory a running stream was started with, and what its frames added.
StreamInv ==
  /\ client /\ CfgInv(latched) /\ ~PassRefused(latched)
  /\ StreamMem(b, latched) /\ AllocInv(b)
  /\ Len(b.dma) + Bit(b.pic = None) <= 31
  /\ RefsSuffice(b, latched) /\ BuilderAccepts(b, latched)
\* The kernel never refuses a table whose field then keeps another stream's address.
TablesGranted == Denied \cap StaleTables = {}
\* A session's tables, between streams and in one, and what the firmware knows of them.
MemInv ==
  /\ cnt \in Counts /\ client \in BOOLEAN
  /\ b \in Buffers /\ Marked(b)
  /\ ~client => Idle(b) /\ Len(b.ipc) <= 1 + cnt.faults
  /\ Streaming => StreamInv
  /\ TablesGranted => told \subseteq Live(b) /\ (Streaming => Given(b))

\* At boot.
LEMMA MemInit == Init => MemInv
<1> SUFFICES ASSUME Init PROVE MemInv OBVIOUS
<1>1. cnt \in Counts /\ client \in BOOLEAN /\ ~client BY DEF Init, Counts
<1>2. cnt.faults = 0 BY DEF Init
<1>3. b = AfterConfig /\ told = Live(AfterConfig) BY DEF Init
<1>4. ~Streaming BY DEF Init, Streaming
<1> QED BY <1>1, <1>2, <1>3, <1>4, BootFacts DEF MemInv

\* What leaves the memory alone.
LEMMA MemKept ==
  ASSUME MemInv, cnt' \in Counts, cnt'.faults = cnt.faults,
         UNCHANGED << b, told, latched, client >>
  PROVE  MemInv'
<1>1. Streaming' <=> Streaming BY DEF Streaming
<1>2. StreamInv => StreamInv' BY DEF StreamInv
<1>3. TablesGranted' <=> TablesGranted BY DEF TablesGranted
<1> QED BY <1>1, <1>2, <1>3 DEF MemInv

\* The end of a stream, whether its client closes or not.
LEMMA MemStop ==
  ASSUME NEW c \in Buffers, Marked(c), NEW given, NEW closes \in BOOLEAN,
         Stop(c, given, closes), cnt' \in Counts, TablesGranted => given \subseteq Live(c)
  PROVE  MemInv'
<1>1. ~Streaming' BY DEF Stop, Streaming
<1>2. TablesGranted' <=> TablesGranted BY DEF TablesGranted
<1>3. CASE closes
  <2> DEFINE d == Forget(ave_sess_free_to(c))
  <2>1. /\ d \in Buffers /\ Marked(d) /\ Idle(d) /\ Len(d.ipc) = 1
        /\ Live(AfterConfig) \subseteq Live(d)
    BY FreedFacts
  <2>2. b' = d /\ told' = Live(AfterConfig) /\ client' \in BOOLEAN
    BY <1>3 DEF Stop, AfterStop
  <2> HIDE DEF d
  <2>3. Len(b'.ipc) <= 1 + cnt'.faults
    <3>1. cnt'.faults \in Nat BY DEF Counts
    <3>2. Len(b'.ipc) = 1 BY <2>1, <2>2
    <3> HIDE <2>1, <2>2
    <3> QED BY <3>1, <3>2
  <2>4. b' \in Buffers /\ Marked(b') /\ Idle(b') /\ told' \subseteq Live(b') BY <2>1, <2>2
  <2> QED BY <1>1, <2>2, <2>3, <2>4 DEF MemInv
<1>4. CASE ~closes
  <2>1. b' = c /\ told' = given /\ client' BY <1>4 DEF Stop, AfterStop
  <2>2. client' \in BOOLEAN BY DEF Stop
  <2> QED BY <1>1, <1>2, <2>1, <2>2 DEF MemInv
<1> QED BY <1>3, <1>4

\* The kernel refuses at most one allocation, and none of those it never refuses.
LEMMA DenialFacts ==
  ASSUME NEW deny \in Denials
  PROVE  /\ deny = {} \/ \E r \in Denied : deny = {r}
         /\ Cardinality(deny) \in {0, 1} /\ (deny = {} => Cardinality(deny) = 0)
         /\ TablesGranted => deny \cap StaleTables = {}
<1>1. deny = {} \/ \E r \in Denied : deny = {r} BY DEF Denials
<1>2. Cardinality(deny) \in {0, 1} /\ (deny = {} => Cardinality(deny) = 0)
  BY <1>1, FS_EmptySet, FS_Singleton
<1>3. TablesGranted => deny \cap StaleTables = {} BY <1>1 DEF TablesGranted
<1> QED BY <1>1, <1>2, <1>3

\* The bounds' counters count.
LEMMA SpendFacts ==
  ASSUME cnt \in Counts, NEW faults \in Nat, NEW start \in {0, 1}, NEW frame \in {0, 1},
         Spend(faults, start, frame)
  PROVE  cnt' \in Counts /\ cnt'.faults = cnt.faults + faults /\ cnt'.faults <= MaxFaults
<1>1. cnt' = [cnt EXCEPT !.faults = @ + faults, !.starts = @ + start,
                         !.frames = IF start = 1 THEN 0 ELSE @ + frame]
  BY DEF Spend
<1>2. cnt.faults + faults \in Nat /\ cnt.starts + start \in Nat
      /\ (IF start = 1 THEN 0 ELSE cnt.frames + frame) \in Nat
  BY DEF Counts
<1>3. cnt' \in Counts /\ cnt'.faults = cnt.faults + faults BY <1>1, <1>2 DEF Counts
<1> QED BY <1>3 DEF Spend

\* Another stream's number, and Open's command buffer.
LEMMA OpenedFacts ==
  ASSUME MemInv, ~client, NEW deny
  PROVE  LET o == Opened(deny)
         IN  /\ o \in Buffers /\ Marked(o) /\ Idle(o) /\ Live(b) \subseteq Live(o)
             /\ Len(o.ipc) <= Len(b.ipc) + 1
             /\ Has(o, << "open", 0 >>) \/ Len(o.ipc) = Len(b.ipc)
             /\ << "open", 0 >> \notin deny /\ Len(b.ipc) < AVE_SESS_MAX_IPC =>
                  Has(o, << "open", 0 >>)
<1> DEFINE c == [b EXCEPT !.stream = @ + 1]
           o == Opened(deny)
<1>1. b \in Buffers /\ Marked(b) /\ Idle(b) BY DEF MemInv
<1>2. /\ c \in Buffers /\ c.dma = b.dma /\ c.ipc = b.ipc
      /\ c.slice = b.slice /\ c.pic = b.pic /\ c.proc = b.proc
  <2> DEFINE n == b.stream + 1
  <2>1. n \in Nat BY <1>1 DEF Buffers
  <2>2. c = [b EXCEPT !.stream = n] OBVIOUS
  <2> HIDE DEF n, c
  <2>3. c \in Buffers BY <1>1, <2>1, <2>2 DEF Buffers
  <2>4. /\ c.dma = b.dma /\ c.ipc = b.ipc
        /\ c.slice = b.slice /\ c.pic = b.pic /\ c.proc = b.proc
    BY <1>1, <2>2 DEF Buffers
  <2> QED BY <2>3, <2>4
<1>3. o = ave_sess_ipc_alloc(c, << "open", 0 >>, deny) BY DEF Opened
<1> HIDE DEF c
<1>4. << "open", 0 >> \in Names BY DEF Names, Kinds
<1>5. /\ o \in Buffers /\ o = [c EXCEPT !.ipc = o.ipc] /\ Grows(c, o)
      /\ Len(o.ipc) <= Len(c.ipc) + 1
      /\ o = c \/ Has(o, << "open", 0 >>)
      /\ << "open", 0 >> \notin deny /\ Len(c.ipc) < AVE_SESS_MAX_IPC =>
           Has(o, << "open", 0 >>)
  <2>1. c \in Buffers BY <1>2
  <2> QED BY <1>3, <1>4, <2>1, IpcAlloc
<1> HIDE DEF o
<1>6. Marked(c) /\ Live(c) = Live(b) BY <1>1, <1>2 DEF Marked, Live
<1>7. Marked(o) BY <1>2, <1>5, <1>6, MarkedGrows
<1>8. Live(b) \subseteq Live(o) BY <1>2, <1>5, <1>6, GrowsLive
<1>9. o.dma = c.dma /\ SameStream(c, o) BY <1>2, <1>5, IpcOnly
<1>10. Idle(o) BY <1>1, <1>2, <1>9 DEF Idle, SameStream
<1> QED BY <1>2, <1>5, <1>7, <1>8, <1>10 DEF o

\* Start names what the stream has.
LEMMA StartLive ==
  ASSUME NEW c, NEW cfg, StreamMem(c, cfg), Given(c)
  PROVE  PublishedAtStart(c) \subseteq Live(c)
<1>1. \A k \in {"start", "fwc", "fwcm", "psets"} : Mine(c, k, 0) \in Live(c)
  BY DEF StreamMem, Has
<1>2. {Mine(c, k, 0) : k \in {"start", "fwc", "fwcm", "psets"}} \subseteq Live(c) BY <1>1
<1>3. Tables(c) \subseteq Live(c) BY DEF Given, Tables, Some
<1>4. /\ c.recon \in Live(c) /\ c.coded \subseteq Live(c) /\ c.coloc \subseteq Live(c)
      /\ c.xc \subseteq Live(c) /\ Some(c.low) \subseteq Live(c)
  BY DEF StreamMem
<1>5. Some(c.res) \subseteq Live(c) BY DEF Given
<1> QED BY <1>2, <1>3, <1>4, <1>5 DEF PublishedAtStart

\* And so does Process.
LEMMA ProcessLive ==
  ASSUME NEW c, NEW cfg, StreamMem(c, cfg), Given(c), NEW idx,
         c.pic \in Live(c), c.proc[idx] \in Live(c)
  PROVE  PublishedInProcess(c, idx) \subseteq Live(c)
<1>1. \A S : InSlot(S, idx) \subseteq S BY DEF InSlot
<1>2. Tables(c) \subseteq Live(c) BY DEF Given, Tables, Some
<1>3. /\ c.coded \subseteq Live(c) /\ c.slice \subseteq Live(c) /\ c.mp \subseteq Live(c)
      /\ Some(c.low) \subseteq Live(c)
  BY DEF StreamMem
<1> QED BY <1>1, <1>2, <1>3 DEF PublishedInProcess

\* What a frame allocates is none of the stream's.
LEMMA StreamLater ==
  ASSUME NEW c \in Buffers, NEW d \in Buffers, NEW cfg, Grows(c, d), SameTables(c, d),
         d.coded = c.coded, d.coloc = c.coloc, d.mp = c.mp, d.slice = c.slice, d.xc = c.xc
  PROVE  /\ StreamMem(c, cfg) => StreamMem(d, cfg)
         /\ Given(c) => Given(d)
         /\ RefsSuffice(d, cfg) <=> RefsSuffice(c, cfg)
         /\ BuilderAccepts(d, cfg) <=> BuilderAccepts(c, cfg)
<1>1. Live(c) \subseteq Live(d) /\ d.stream = c.stream BY GrowsLive DEF Grows
<1>2. \A k, n : All(d, k, n) = All(c, k, n) BY <1>1 DEF All, Mine
<1>3. /\ d.nbr = c.nbr /\ d.entropy = c.entropy /\ d.res = c.res
      /\ d.n_dpb = c.n_dpb /\ d.recon = c.recon /\ d.low = c.low
  BY DEF SameTables
<1>4. ASSUME StreamMem(c, cfg) PROVE StreamMem(d, cfg)
  <2>1. \A k \in {"start", "fwc", "fwcm", "psets"} : Has(d, << k, 0 >>)
    BY <1>4, HasLater DEF StreamMem
  <2>2. d.n_dpb = DpbSlots(cfg) /\ d.recon \in Live(d) /\ Some(d.low) \subseteq Live(d)
    BY <1>1, <1>3, <1>4 DEF StreamMem
  <2>3. d.coded = All(d, "coded", 4) \cup All(d, "hdr", 4) /\ d.coded \subseteq Live(d)
    BY <1>1, <1>2, <1>4 DEF StreamMem
  <2>4. d.coloc \in {{}, All(d, "coloc", d.n_dpb)} /\ d.coloc \subseteq Live(d)
    BY <1>1, <1>2, <1>3, <1>4 DEF StreamMem
  <2>5. d.mp = (IF cfg.mp = 2 THEN All(d, "mp", 4) ELSE {}) /\ d.mp \subseteq Live(d)
    BY <1>1, <1>2, <1>4 DEF StreamMem
  <2>6. /\ cfg.codec = "HEVC" => d.slice = All(d, "slice", 4)
        /\ d.slice \subseteq Live(d)
    BY <1>1, <1>2, <1>4 DEF StreamMem
  <2>7. d.xc = (IF cfg.codec = "HEVC" \/ cfg.bufs THEN All(d, "xc", 2) ELSE {})
        /\ d.xc \subseteq Live(d)
    BY <1>1, <1>2, <1>4 DEF StreamMem
  <2> QED BY <2>1, <2>2, <2>3, <2>4, <2>5, <2>6, <2>7 DEF StreamMem
<1>5. Given(c) => Given(d) BY <1>1, <1>3 DEF Given
<1>6. HevcRefs(d, cfg) = HevcRefs(c, cfg) /\ MaxRefs(d) = MaxRefs(c)
  BY <1>3 DEF HevcRefs, MaxRefs
<1>7. TablesOf(d, cfg) = TablesOf(c, cfg) BY <1>3 DEF TablesOf
<1>8. VideoParams(d, cfg) = VideoParams(c, cfg) BY <1>7 DEF VideoParams
<1>9. AvcSession(d, cfg) = AvcSession(c, cfg) BY <1>6, <1>8 DEF AvcSession
<1>10. StRps(d, cfg) = StRps(c, cfg) BY <1>6 DEF StRps
<1>11. HevcSession(d, cfg) = HevcSession(c, cfg) BY <1>6, <1>8, <1>10 DEF HevcSession
<1> QED BY <1>4, <1>5, <1>6, <1>9, <1>11 DEF RefsSuffice, BuilderAccepts

\* A setting is changed.
LEMMA MemSet == ASSUME MemInv, Set PROVE MemInv'
<1>1. cnt' = [cnt EXCEPT !.sets = @ + 1] /\ UNCHANGED << b, told, latched, client >>
  BY DEF Set, Memory
<1>2. cnt' \in Counts /\ cnt'.faults = cnt.faults BY <1>1 DEF MemInv, Counts
<1> QED BY <1>1, <1>2, MemKept

\* Buffers and queues: the session's memory is not theirs.
LEMMA MemQueues ==
  ASSUME MemInv, UNCHANGED << b, told, latched, client, cnt >> PROVE MemInv'
<1>1. cnt' \in Counts /\ cnt'.faults = cnt.faults BY DEF MemInv
<1> QED BY <1>1, MemKept

\* Open is not sent, or not answered: its command buffer stays.
LEMMA MemOpenFails ==
  ASSUME MemInv, NEW t \in {"out", "cap"}, OpenFails(t) PROVE MemInv'
<1>1. ~client BY DEF OpenFails, Opens
<1>2. PICK deny \in Denials :
        LET sent == Has(Opened(deny), << "open", 0 >>)
        IN  /\ sent => deny = {}
            /\ b' = Opened(deny)
            /\ Spend(Cardinality(deny) + Bit(sent), 1, 0)
  BY DEF OpenFails
<1> DEFINE o == Opened(deny)
           sent == Has(o, << "open", 0 >>)
           f == Cardinality(deny) + Bit(sent)
<1>3. /\ o \in Buffers /\ Marked(o) /\ Idle(o) /\ Live(b) \subseteq Live(o)
      /\ Len(o.ipc) <= Len(b.ipc) + 1
      /\ sent \/ Len(o.ipc) = Len(b.ipc)
  BY <1>1, OpenedFacts
<1>4. b' = o /\ (sent => deny = {}) /\ Spend(f, 1, 0) BY <1>2
<1>5. Bit(sent) \in {0, 1} /\ (sent => Bit(sent) = 1) BY DEF Bit
<1> HIDE DEF sent, o
<1>6. f \in Nat /\ (sent => f = 1) BY <1>4, <1>5, DenialFacts
<1> HIDE DEF f
<1>7. cnt \in Counts BY DEF MemInv
<1>8. cnt' \in Counts /\ cnt'.faults = cnt.faults + f BY <1>4, <1>6, <1>7, SpendFacts
<1>9. Len(o.ipc) <= 1 + cnt'.faults
  <2>1. Len(b.ipc) <= 1 + cnt.faults BY <1>1 DEF MemInv
  <2>2. Len(b.ipc) \in Nat /\ Len(o.ipc) \in Nat
    <3>1. b \in Buffers BY DEF MemInv
    <3> QED BY <1>3, <3>1, TableTypes
  <2>3. cnt.faults \in Nat BY <1>7 DEF Counts
  <2> QED BY <1>3, <1>6, <1>8, <2>1, <2>2, <2>3
<1>10. told' = told /\ latched' = latched /\ client' = client BY DEF OpenFails
<1>11. ~Streaming' BY <1>1, <1>10 DEF MemInv, StreamInv, Streaming
<1>12. TablesGranted => told' \subseteq Live(b') BY <1>3, <1>4, <1>10 DEF MemInv
<1> QED BY <1>1, <1>3, <1>4, <1>8, <1>9, <1>10, <1>11, <1>12 DEF MemInv, TablesGranted

\* Open is answered: Start is sent and answered and the stream runs, or it does not.
LEMMA MemStart ==
  ASSUME CtxInv, MemInv, NEW t \in {"out", "cap"}, StartSession(t) PROVE MemInv'
<1>1. ~client /\ ~Unfit BY DEF StartSession, Opens
<1>2. PICK lab \in Labs :
        \E cfg \in {EncCfg(lab)}, deny \in Denials :
          /\ Has(Opened(deny), <<"open", 0>>) /\ AsksFor(cfg, deny)
          /\ \E p \in {Prepared(Opened(deny), cfg, deny)}, answered, closes \in BOOLEAN :
               /\ p.ok \/ answered
               /\ p.ok /\ answered => closes
               /\ Spend(Cardinality(deny) + Bit(~answered) + Bit(~closes), 1, 0)
               /\ \/ p.ok /\ answered /\ Started(t, p, cfg)
                  \/ /\ ~(p.ok /\ answered)
                     /\ Stop(p.b, told \cup (IF p.ok THEN PublishedAtStart(p.b) ELSE {}),
                             closes)
                     /\ refused' = Reason(p, cfg, deny) /\ UNCHANGED q
  BY Zenon DEF StartSession
<1>3. PICK cfg \in {EncCfg(lab)}, deny \in Denials :
          \E p \in {Prepared(Opened(deny), cfg, deny)}, answered, closes \in BOOLEAN :
             /\ p.ok \/ answered
             /\ p.ok /\ answered => closes
             /\ Spend(Cardinality(deny) + Bit(~answered) + Bit(~closes), 1, 0)
             /\ \/ p.ok /\ answered /\ Started(t, p, cfg)
                \/ /\ ~(p.ok /\ answered)
                   /\ Stop(p.b, told \cup (IF p.ok THEN PublishedAtStart(p.b) ELSE {}),
                           closes)
                   /\ refused' = Reason(p, cfg, deny) /\ UNCHANGED q
  BY <1>2, Zenon
<1>4. PICK p \in {Prepared(Opened(deny), cfg, deny)},
           answered \in BOOLEAN, closes \in BOOLEAN :
             /\ p.ok \/ answered
             /\ p.ok /\ answered => closes
             /\ Spend(Cardinality(deny) + Bit(~answered) + Bit(~closes), 1, 0)
             /\ \/ p.ok /\ answered /\ Started(t, p, cfg)
                \/ /\ ~(p.ok /\ answered)
                   /\ Stop(p.b, told \cup (IF p.ok THEN PublishedAtStart(p.b) ELSE {}),
                           closes)
                   /\ refused' = Reason(p, cfg, deny) /\ UNCHANGED q
  BY <1>3, Zenon
<1> DEFINE o == Opened(deny)
           d == p.b
           f == Cardinality(deny) + Bit(~answered) + Bit(~closes)
<1>21. cfg = EncCfg(lab) /\ p = Prepared(o, cfg, deny) OBVIOUS
<1>22. CfgInv(cfg) /\ Sizing(cfg) BY <1>21, <1>1, EncCfgFacts DEF CfgInv
<1>5. /\ o \in Buffers /\ Marked(o) /\ Idle(o) /\ Live(b) \subseteq Live(o)
  BY <1>1, OpenedFacts
<1>6. Spend(f, 1, 0) BY <1>4
<1>7. \/ p.ok /\ answered /\ Started(t, p, cfg)
      \/ Stop(d, told \cup (IF p.ok THEN PublishedAtStart(d) ELSE {}), closes)
  BY <1>4
<1> HIDE DEF o
<1>8. o \in Buffers /\ Len(o.dma) = 1 /\ o.slice = {} BY <1>5 DEF Idle
<1>9. /\ d \in Buffers /\ Grows(o, d) /\ Len(d.dma) <= 30
      /\ d.pic = o.pic /\ d.proc = o.proc
      /\ p.ok => StreamMem(d, cfg) /\ RefsSuffice(d, cfg) /\ BuilderAccepts(d, cfg)
      /\ p.ok /\ deny \cap StaleTables = {} => Given(d)
  BY <1>21, <1>22, <1>8, PreparedFacts
<1>10. p.ok => ~PassRefused(cfg)
  BY <1>21 DEF Prepared, ave_session_start
<1>11. Marked(d) BY <1>5, <1>9, MarkedGrows
<1>12. Live(b) \subseteq Live(d) BY <1>5, <1>9, GrowsLive
<1>13. f \in Nat
  <2>1. Bit(~answered) \in {0, 1} /\ Bit(~closes) \in {0, 1} BY DEF Bit
  <2> QED BY <2>1, DenialFacts
<1> HIDE DEF f
<1>14. cnt \in Counts BY DEF MemInv
<1>15. cnt' \in Counts BY <1>6, <1>13, <1>14, SpendFacts
<1>16. TablesGranted => (p.ok => Given(d)) BY <1>9, DenialFacts
<1>17. TablesGranted => (p.ok => PublishedAtStart(d) \subseteq Live(d))
  BY <1>9, <1>16, StartLive
<1>18. TablesGranted => told \subseteq Live(d) BY <1>12 DEF MemInv
<1>19. CASE Stop(d, told \cup (IF p.ok THEN PublishedAtStart(d) ELSE {}), closes)
  <2> DEFINE given == told \cup (IF p.ok THEN PublishedAtStart(d) ELSE {})
  <2>1. TablesGranted => given \subseteq Live(d) BY <1>17, <1>18
  <2>2. Stop(d, given, closes) BY <1>19
  <2>3. d \in Buffers BY <1>9
  <2> HIDE DEF given, d
  <2> QED BY <1>11, <1>15, <2>1, <2>2, <2>3, MemStop
<1>20. CASE p.ok /\ Started(t, p, cfg)
  <2>1. /\ b' = d /\ told' = told \cup PublishedAtStart(d) /\ client' = TRUE
        /\ latched' = cfg
    BY <1>20 DEF Started
  <2> HIDE DEF d
  <2>2. AllocInv(d) /\ d.pic = None BY <1>5, <1>9 DEF AllocInv, Idle
  <2>3. Len(d.dma) + Bit(d.pic = None) <= 31
    <3>1. Len(d.dma) \in Nat BY <1>9, TableTypes
    <3>2. Bit(d.pic = None) = 1 BY <2>2 DEF Bit
    <3> QED BY <1>9, <3>1, <3>2
  <2>4. client' BY <2>1
  <2>5. StreamInv' BY <1>22, <1>9, <1>10, <1>20, <2>1, <2>2, <2>3, <2>4 DEF StreamInv
  <2>6. TablesGranted' => told' \subseteq Live(b') /\ Given(b')
    BY <1>16, <1>17, <1>18, <1>20, <2>1 DEF TablesGranted
  <2>7. client' \in BOOLEAN BY <2>1
  <2> QED BY <1>9, <1>11, <1>15, <2>1, <2>4, <2>5, <2>6, <2>7 DEF MemInv
<1> QED BY <1>7, <1>19, <1>20

\* A frame.
LEMMA MemEncode == ASSUME CtxInv, MemInv, Encode PROVE MemInv'
<1>1. PICK deny \in Denials, answered \in BOOLEAN, a \in Asked(latched, cnt.frames) :
    LET n == cnt.frames
        idx == n % AVE_SESS_FRAMES_MAX
        p == ave_session_process_build(b, idx, deny)
        cmd == Process(p.b, n, a)
        sent == p.ok /\ AcceptsProcess(cmd)
    IN  /\ Streaming /\ ~fw_hung
        /\ q["out"].queued /\ q["cap"].queued
        /\ n < MaxFrames
        /\ sent \/ answered
        /\ deny # {} => ~p.ok
        /\ b' = [p.b EXCEPT !.last_idr =
                           IF p.ok /\ cmd.codec = "HEVC" /\ cmd.type = "IDR"
                             THEN n ELSE @]
        /\ told' = IF sent THEN told \cup PublishedInProcess(p.b, idx) ELSE told
        /\ fw_hung' = ~answered
        /\ refused' = IF sent \/ deny # {} THEN refused
                      ELSE IF p.ok THEN "settings" ELSE "slots"
        /\ Spend(Cardinality(deny) + Bit(~answered), 0, Bit(sent /\ answered))
        /\ UNCHANGED << fmt, ctrl, q, latched, client >>
  BY Zenon DEF Encode
<1> DEFINE n == cnt.frames
           idx == n % AVE_SESS_FRAMES_MAX
           p == ave_session_process_build(b, idx, deny)
           d == p.b
           cmd == Process(d, n, a)
           sent == p.ok /\ AcceptsProcess(cmd)
           idr == IF p.ok /\ cmd.codec = "HEVC" /\ cmd.type = "IDR" THEN n ELSE d.last_idr
           f == Cardinality(deny) + Bit(~answered)
           done == Bit(sent /\ answered)
<1>2. Streaming /\ latched' = latched /\ client' = client /\ Spend(f, 0, done) BY <1>1
<1>3. told' = IF sent THEN told \cup PublishedInProcess(d, idx) ELSE told BY <1>1
<1>4. b' = [d EXCEPT !.last_idr = idr] BY <1>1
<1>5. StreamInv /\ b \in Buffers /\ Marked(b) /\ cnt \in Counts BY <1>2 DEF MemInv
<1>6. n \in Nat BY <1>5 DEF Counts
<1> HIDE DEF n
<1>7. idx \in Slots BY <1>6 DEF Slots, AVE_SESS_FRAMES_MAX
<1> HIDE DEF idx
<1>8. AllocInv(b) BY <1>5 DEF StreamInv
<1>9. /\ d \in Buffers /\ Grows(b, d) /\ SameTables(b, d) /\ AllocInv(d)
      /\ d.coded = b.coded /\ d.coloc = b.coloc /\ d.mp = b.mp
      /\ d.slice = b.slice /\ d.xc = b.xc
      /\ p.ok => d.pic \in Live(d) /\ d.proc[idx] \in Live(d)
      /\ Len(d.dma) + Bit(d.pic = None) <= Len(b.dma) + Bit(b.pic = None)
  BY <1>5, <1>7, <1>8, BuildFacts
<1> HIDE DEF p
<1>10. d \in Buffers BY <1>9
<1> HIDE DEF d
<1>11. idr \in Nat BY <1>6, <1>10 DEF Buffers
<1>12. sent => p.ok OBVIOUS
<1> HIDE DEF idr, sent
<1>13. f \in Nat
  <2>1. Bit(~answered) \in {0, 1} BY DEF Bit
  <2> QED BY <2>1, DenialFacts
<1>14. done \in {0, 1} BY DEF Bit
<1> HIDE DEF f, done
<1>15. cnt' \in Counts BY <1>2, <1>5, <1>13, <1>14, SpendFacts
<1>16. /\ StreamMem(d, latched)
       /\ RefsSuffice(d, latched) /\ BuilderAccepts(d, latched)
  BY <1>5, <1>9, <1>10, StreamLater DEF StreamInv
<1>17. Given(b) => Given(d) BY <1>5, <1>9, <1>10, StreamLater
<1>18. Live(b) \subseteq Live(d) BY <1>5, <1>9, <1>10, GrowsLive
<1>19. Marked(d) BY <1>5, <1>9, <1>10, MarkedGrows
<1> DEFINE e == b'
<1>20. /\ e \in Buffers /\ e.dma = d.dma /\ e.ipc = d.ipc /\ e.stream = d.stream
       /\ e.pic = d.pic /\ e.proc = d.proc
       /\ e.coded = d.coded /\ e.coloc = d.coloc /\ e.mp = d.mp
       /\ e.slice = d.slice /\ e.xc = d.xc
  BY <1>4, <1>10, <1>11 DEF Buffers
<1>21. SameTables(d, e) BY <1>4, <1>10 DEF Buffers, SameTables
<1> HIDE DEF e
<1>22. Grows(d, e)
  <2>1. Len(d.dma) \in Nat /\ Len(d.ipc) \in Nat BY <1>10, TableTypes
  <2> QED BY <1>20, <2>1 DEF Grows, Longer
<1>23. /\ StreamMem(e, latched) /\ (Given(d) => Given(e))
       /\ RefsSuffice(e, latched) /\ BuilderAccepts(e, latched)
  BY <1>10, <1>16, <1>20, <1>21, <1>22, StreamLater
<1>24. Live(e) = Live(d) BY <1>20, SameLive
<1>25. AllocInv(e) BY <1>9, <1>20, <1>24 DEF AllocInv
<1>26. Len(e.dma) + Bit(e.pic = None) <= 31
  <2>1. Len(d.dma) \in Nat /\ Len(b.dma) \in Nat BY <1>5, <1>10, TableTypes
  <2>2. Bit(d.pic = None) \in {0, 1} /\ Bit(b.pic = None) \in {0, 1} BY DEF Bit
  <2>3. Len(b.dma) + Bit(b.pic = None) <= 31 BY <1>5 DEF StreamInv
  <2> QED BY <1>9, <1>20, <2>1, <2>2, <2>3
<1>27. StreamInv' BY <1>2, <1>5, <1>23, <1>25, <1>26 DEF StreamInv, e
<1>28. Marked(e) BY <1>19, <1>20 DEF Marked
<1>29. ASSUME TablesGranted PROVE told' \subseteq Live(e) /\ Given(e)
  <2>1. told \subseteq Live(b) /\ Given(b) BY <1>2, <1>29 DEF MemInv
  <2>2. sent => PublishedInProcess(d, idx) \subseteq Live(d)
    BY <1>9, <1>12, <1>16, <1>17, <2>1, ProcessLive
  <2> QED BY <1>3, <1>17, <1>18, <1>23, <1>24, <2>1, <2>2
<1>30. client /\ client \in BOOLEAN BY <1>5 DEF StreamInv, MemInv
<1> QED BY <1>2, <1>15, <1>20, <1>27, <1>28, <1>29, <1>30 DEF MemInv, TablesGranted, e

\* STREAMOFF.
LEMMA MemStreamOff ==
  ASSUME MemInv, NEW t \in {"out", "cap"}, StreamOff(t) PROVE MemInv'
<1>1. CASE ~Streaming
  <2>1. UNCHANGED << b, told, latched, client, cnt >> BY <1>1 DEF StreamOff
  <2> QED BY <2>1, MemQueues
<1>2. CASE Streaming /\ fw_hung
  <2>1. latched' = NoSession /\ UNCHANGED << b, told, client, cnt >> BY <1>2 DEF StreamOff
  <2>2. ~Streaming' BY <2>1 DEF Streaming
  <2> QED BY <2>1, <2>2 DEF MemInv, TablesGranted
<1>3. CASE Streaming /\ ~fw_hung
  <2>1. PICK closes \in BOOLEAN : Stop(b, told, closes) /\ Spend(Bit(~closes), 0, 0)
    BY <1>3 DEF StreamOff
  <2>2. Bit(~closes) \in Nat BY DEF Bit
  <2>3. cnt' \in Counts BY <2>1, <2>2, SpendFacts DEF MemInv
  <2>4. b \in Buffers /\ Marked(b) /\ (TablesGranted => told \subseteq Live(b)) BY DEF MemInv
  <2> QED BY <2>1, <2>3, <2>4, MemStop
<1> QED BY <1>1, <1>2, <1>3

\* Reset.
LEMMA MemReboot == ASSUME MemInv, Reboot PROVE MemInv'
<1>1. /\ ~Streaming /\ b' = AfterConfig /\ told' = Live(AfterConfig)
      /\ client' = FALSE /\ latched' = latched /\ cnt' = cnt
  BY DEF Reboot
<1>2. ~Streaming' BY <1>1 DEF Streaming
<1>3. cnt \in Counts /\ client' \in BOOLEAN BY <1>1 DEF MemInv
<1>4. Len(b'.ipc) <= 1 + cnt'.faults
  <2>1. cnt.faults \in Nat BY <1>3 DEF Counts
  <2> QED BY <1>1, <2>1, BootFacts
<1>5. b' \in Buffers /\ Marked(b') /\ Idle(b') /\ told' \subseteq Live(b') BY <1>1, BootFacts
<1> QED BY <1>1, <1>2, <1>3, <1>4, <1>5 DEF MemInv

\* Every step.
LEMMA MemNext == ASSUME CtxInv, MemInv, [Next]_vars PROVE MemInv'
<1>1. ASSUME NEW s \in Sizes, NEW p010 \in BOOLEAN, SFmtOut(s, p010) PROVE MemInv'
  BY <1>1, MemSet DEF SFmtOut
<1>2. ASSUME NEW codec \in {"H264", "HEVC"}, NEW floor \in Floors,
             SFmtCap(codec, floor)
      PROVE  MemInv'
  BY <1>2, MemSet DEF SFmtCap
<1>3. ASSUME NEW s \in Sizes, SSelection(s) PROVE MemInv' BY <1>3, MemSet DEF SSelection
<1>4. CASE SCtrl BY <1>4, MemSet DEF SCtrl
<1>5. ASSUME NEW t \in {"out", "cap"}, NEW n \in 0 .. 1, ReqBufs(t, n) PROVE MemInv'
  BY <1>5, MemQueues DEF ReqBufs, Memory
<1>6. ASSUME NEW t \in {"out", "cap"}, CreateBufs(t) PROVE MemInv'
  BY <1>6, MemQueues DEF CreateBufs, Memory
<1>7. ASSUME NEW t \in {"out", "cap"}, Qbuf(t) PROVE MemInv'
  BY <1>7, MemQueues DEF Qbuf, Memory
<1>8. ASSUME NEW t \in {"out", "cap"}, StreamOnFirst(t) PROVE MemInv'
  BY <1>8, MemQueues DEF StreamOnFirst, Memory
<1>9. ASSUME NEW t \in {"out", "cap"}, StreamOnRefused(t) PROVE MemInv'
  BY <1>9, MemQueues DEF StreamOnRefused
<1>10. CASE UNCHANGED vars BY <1>10, MemQueues DEF vars
<1>11. ASSUME NEW t \in {"out", "cap"},
              OpenFails(t) \/ StartSession(t) \/ StreamOff(t)
       PROVE  MemInv'
  BY <1>11, MemOpenFails, MemStart, MemStreamOff
<1> QED BY <1>1, <1>2, <1>3, <1>4, <1>5, <1>6, <1>7, <1>8, <1>9, <1>10, <1>11,
           MemEncode, MemReboot
        DEF Next

\* The memory of the streams, whatever a client asks for and the kernel or the firmware
\* refuses: Config's stays at the bottom of the tables, between streams only Open's
\* command buffers are left over, and a running stream has all that Start and its frames
\* name, was built from a configuration of the context and has room for its frames.
THEOREM StreamsKeepMemory == Spec => []MemInv
<1>1. Init => MemInv BY MemInit
<1>2. CtxInv /\ MemInv /\ [Next]_vars => MemInv' BY MemNext
<1> QED BY <1>1, <1>2, Context, PTL DEF Spec

\* Where the kernel does not refuse one of the three tables whose field keeps the last
\* stream's address (run SetupStale shows what then happens), everything the firmware was
\* given and has not given back is still allocated.
THEOREM PublishedHolds == TablesGranted => (Spec => []PublishedIsLive)
<1>1. SUFFICES ASSUME TablesGranted PROVE Spec => []PublishedIsLive OBVIOUS
<1>2. MemInv => PublishedIsLive BY <1>1 DEF MemInv, PublishedIsLive
<1> QED BY <1>2, StreamsKeepMemory, PTL

-----------------------------------------------------------------------------
(* The commands of a stream.                                               *)

\* As many regions as indices.
LEMMA AllCount ==
  ASSUME NEW c, NEW k, NEW n \in {2, 3, 4}
  PROVE  Cardinality(All(c, k, n)) = n
<1> DEFINE S == 0 .. n - 1
           T == All(c, k, n)
           f == [i \in S |-> Mine(c, k, i)]
<1>1. IsFiniteSet(S) /\ Cardinality(S) = n
  <2>1. 0 \in Int /\ n - 1 \in Int OBVIOUS
  <2>2. IsFiniteSet(S) /\ Cardinality(S) = IF 0 > n - 1 THEN 0 ELSE (n - 1) - 0 + 1
    BY <2>1, FS_Interval
  <2> QED BY <2>2
<1>2. T = {f[i] : i \in S} BY DEF All
<1>3. \A i, j \in S : f[i] = f[j] => i = j BY DEF Mine, Region
<1> HIDE DEF S, T
<1>4. ExistsBijection(S, T)
  <2>1. f \in [S -> T] BY <1>2
  <2>2. IsInjective(f) BY <1>3 DEF IsInjective
  <2>3. \A t \in T : \E i \in S : f[i] = t BY <1>2
  <2> HIDE DEF f
  <2> QED BY <2>1, <2>2, <2>3 DEF ExistsBijection, Bijection, Injection, Surjection
<1>5. Cardinality(T) = Cardinality(S) BY <1>1, <1>4, FS_Bijection
<1> QED BY <1>1, <1>5 DEF T

\* The tables of a stream, as Start and Process count them.
LEMMA TablesOfFacts ==
  ASSUME NEW c \in Buffers, NEW cfg, CfgInv(cfg), StreamMem(c, cfg)
  PROVE  LET t == TablesOf(c, cfg)
         IN  /\ t.n_recon = c.n_dpb /\ c.n_dpb = IF TwoRefs(cfg) THEN 3 ELSE 2
             /\ t.n_low_res_ref \in {0, c.n_dpb} /\ t.n_colocated \in {0, c.n_dpb}
             /\ t.n_low_res_result \in {0, 4}
             /\ t.n_coded = 4 /\ Cardinality({r \in c.coded : r.of = "coded"}) = 4
             /\ t.n_entropy \in {0, 2, 4} /\ t.n_entropy_cols \in {0, 4}
             /\ c.entropy # None /\ cfg.codec = "HEVC" => t.n_entropy = 2
             /\ t.n_src_nbr \in {0, 4}
<1> DEFINE t == TablesOf(c, cfg)
<1>1. c.n_dpb = IF TwoRefs(cfg) THEN 3 ELSE 2 BY SlotsFacts DEF StreamMem
<1>2. Cardinality(c.coloc) \in {0, c.n_dpb}
  <2>1. CASE c.coloc = {} BY <2>1, FS_EmptySet
  <2>2. CASE c.coloc = All(c, "coloc", c.n_dpb)
    <3>1. c.n_dpb \in {2, 3, 4} BY <1>1
    <3> QED BY <2>2, <3>1, AllCount
  <2> QED BY <2>1, <2>2 DEF StreamMem
<1>3. Cardinality({r \in c.coded : r.of = "coded"}) = 4
  <2>1. \A r \in All(c, "coded", 4) : r.of = "coded" BY DEF All, Mine, Region
  <2>2. \A r \in All(c, "hdr", 4) : r.of = "hdr" BY DEF All, Mine, Region
  <2>3. {r \in c.coded : r.of = "coded"} = All(c, "coded", 4) BY <2>1, <2>2 DEF StreamMem
  <2> QED BY <2>3, AllCount
<1>4. t.n_recon = c.n_dpb /\ t.n_low_res_ref \in {0, c.n_dpb}
  BY DEF TablesOf
<1>5. t.n_colocated = Cardinality(c.coloc)
      /\ t.n_coded = Cardinality({r \in c.coded : r.of = "coded"})
  BY DEF TablesOf
<1>6. t.n_low_res_result \in {0, 4} /\ t.n_src_nbr \in {0, 4}
  BY DEF TablesOf, AVE_LOW_RES_RESULT_MAX, src_nbr_max
<1>7. t.n_entropy \in {0, 2, 4} /\ t.n_entropy_cols \in {0, 4}
      /\ (c.entropy # None /\ cfg.codec = "HEVC" => t.n_entropy = 2)
  BY DEF TablesOf, EntropyRows, hevc_entropy_rows, entropy_max, entropy_cols_max
<1> HIDE DEF t
<1> QED BY <1>1, <1>2, <1>3, <1>4, <1>5, <1>6, <1>7 DEF t

\* The QP limits do not cross.
LEMMA LimitFacts ==
  ASSUME NEW cfg, CfgInv(cfg)
  PROVE  /\ QpLimits(cfg)[1] \in 0 .. 51 /\ QpLimits(cfg)[2] \in 0 .. 51
         /\ QpLimits(cfg)[1] <= QpLimits(cfg)[2]
<1> DEFINE m == IF cfg.qp_max # 0 THEN cfg.qp_min ELSE session_qp_min
           lo == Min({m, 51})
           x == Or(cfg.qp_max, session_qp_max)
           hi == Within(x, lo, 51)
<1>1. QpLimits(cfg) = << lo, hi >> BY DEF QpLimits
<1>2. m \in 0 .. 51 /\ x \in 0 .. 51
  BY DEF CfgInv, session_qp_min, session_qp_max, Or
<1> HIDE DEF m, x
<1>3. lo = IF m <= 51 THEN m ELSE 51
  <2>1. m \in Int /\ 51 \in Int BY <1>2
  <2> QED BY <2>1, MinTwo
<1>4. lo \in 0 .. 51 BY <1>2, <1>3
<1> HIDE DEF lo
<1>5. hi \in Nat /\ lo <= hi /\ hi <= 51
  <2>1. x \in Nat /\ lo \in Nat /\ 51 \in Nat /\ lo <= 51 BY <1>2, <1>4
  <2> QED BY <2>1, WithinFacts
<1> HIDE DEF hi
<1> QED BY <1>1, <1>4, <1>5

\* References beside the picture that is coded.
LEMMA RefFacts ==
  ASSUME NEW c, NEW cfg, c.n_dpb = IF TwoRefs(cfg) THEN 3 ELSE 2
  PROVE  /\ MaxRefs(c) = (IF TwoRefs(cfg) THEN 2 ELSE 1)
         /\ HevcRefs(c, cfg) = (IF TwoRefs(cfg) THEN 2 ELSE 1)
<1>1. MaxRefs(c) = (IF TwoRefs(cfg) THEN 2 ELSE 1) BY DEF MaxRefs
<1>2. Within(2, 1, 2) = 2 /\ Within(1, 1, 1) = 1
  <2>1. Within(2, 1, 2) = 2
    <3>1. Min({2, 2}) = 2 /\ Max({1, 2}) = 2 BY MinTwo, MaxTwo
    <3> QED BY <3>1 DEF Within
  <2>2. Within(1, 1, 1) = 1
    <3>1. Min({1, 1}) = 1 /\ Max({1, 1}) = 1 BY MinTwo, MaxTwo
    <3> QED BY <3>1 DEF Within
  <2> QED BY <2>1, <2>2
<1>3. HevcRefs(c, cfg) = (IF TwoRefs(cfg) THEN 2 ELSE 1)
  <2>1. CASE TwoRefs(cfg)
    <3>1. c.n_dpb = 3 /\ ~(c.n_dpb < 2) /\ c.n_dpb - 1 = 2 BY <2>1
    <3>2. HevcRefs(c, cfg) = Within(2, 1, 2) BY <2>1, <3>1 DEF HevcRefs
    <3> QED BY <1>2, <2>1, <3>2
  <2>2. CASE ~TwoRefs(cfg)
    <3>1. c.n_dpb = 2 /\ ~(c.n_dpb < 2) /\ c.n_dpb - 1 = 1 BY <2>2
    <3>2. HevcRefs(c, cfg) = Within(1, 1, 1) BY <2>2, <3>1 DEF HevcRefs
    <3> QED BY <1>2, <2>2, <3>2
  <2> QED BY <2>1, <2>2
<1> QED BY <1>1, <1>3
\* One column of entropy buffers, and the rest as it was.
LEMMA OneColumnFacts ==
  ASSUME NEW c, NEW cfg
  PROVE  LET t == TablesOf(c, cfg)
             u == OneColumn(t)
         IN  /\ u.n_recon = t.n_recon /\ u.n_low_res_ref = t.n_low_res_ref
             /\ u.n_low_res_result = t.n_low_res_result /\ u.n_colocated = t.n_colocated
             /\ u.n_entropy = t.n_entropy /\ u.n_coded = t.n_coded
             /\ u.n_src_nbr = t.n_src_nbr
             /\ u.n_entropy_cols = IF t.n_entropy > 0 THEN 1 ELSE t.n_entropy_cols
BY DEF OneColumn, TablesOf

\* The shared half of Start, in its fields.
LEMMA VpFacts ==
  ASSUME NEW c, NEW cfg
  PROVE  LET v == VideoParams(c, cfg)
             qp_p == Or(cfg.qp_p, cfg.qp)
         IN  /\ v.size = << cfg.w, cfg.h >> /\ v.crop = cfg.crop
             /\ v.qp = << cfg.qp, qp_p, Or(cfg.qp_b, qp_p) >>
             /\ v.qp_min = QpLimits(cfg)[1] /\ v.qp_max = QpLimits(cfg)[2]
             /\ v.key_interval = IF cfg.mp = 2 THEN 4 ELSE 1
             /\ v.src_cfg_byte = Bit(cfg.p010) /\ v.multi_me = Bit(TwoRefs(cfg))
             /\ v.mp_pass = cfg.mp /\ v.tables = TablesOf(c, cfg)
<1> DEFINE v == VideoParams(c, cfg)
           qp_p == Or(cfg.qp_p, cfg.qp)
<1>1. /\ v.size = << cfg.w, cfg.h >> /\ v.crop = cfg.crop
      /\ v.qp = << cfg.qp, qp_p, Or(cfg.qp_b, qp_p) >>
      /\ v.qp_min = QpLimits(cfg)[1] /\ v.qp_max = QpLimits(cfg)[2]
  BY DEF VideoParams
<1>2. /\ v.src_cfg_byte = Bit(cfg.p010) /\ v.multi_me = Bit(TwoRefs(cfg))
      /\ v.mp_pass = cfg.mp /\ v.tables = TablesOf(c, cfg)
  BY DEF VideoParams
<1>3. v.key_interval = IF cfg.mp = 2 THEN 4 ELSE 1
  <2>1. Max({2 * MpFrames, 2}) = 4
    <3>1. 2 * MpFrames = 4 BY DEF MpFrames
    <3>2. Max({4, 2}) = 4 BY MaxTwo
    <3> QED BY <3>1, <3>2
  <2> QED BY <2>1 DEF VideoParams
<1> QED BY <1>1, <1>2, <1>3

\* What the builders check, in the driver's names for the sizes.
LEMMA VpCheckIs ==
  ASSUME NEW v
  PROVE  ave_vp_check(v) <=>
           /\ v.size[1] \in AVE_MIN_W .. AVE_MAX_WH /\ v.size[2] \in AVE_MIN_H .. AVE_MAX_WH
           /\ \A i \in 1 .. 2 : v.size[i] % 2 = 0
           /\ v.key_interval # 0
           /\ \A i \in 1 .. 3 : v.qp[i] <= 51
           /\ v.qp_min <= 51 /\ v.qp_max <= 51 /\ (v.qp_max # 0 => v.qp_min <= v.qp_max)
           /\ v.mp_pass <= 2
           /\ LET t == v.tables
              IN  /\ t.n_recon \in 1 .. recon_max
                  /\ t.n_coded \in 1 .. coded_max
                  /\ {t.n_colocated, t.n_low_res_ref} \subseteq {0, t.n_recon}
                  /\ t.n_recon <= AVE_DPB_MAX
                  /\ t.n_low_res_result <= AVE_LOW_RES_RESULT_MAX
                  /\ t.n_entropy <= entropy_max /\ t.n_entropy_cols <= entropy_cols_max
                  /\ t.n_src_nbr <= src_nbr_max
BY DEF ave_vp_check, AVE_MIN_W, AVE_MIN_H, AVE_MAX_WH

\* The builders' check of it accepts every configuration of the context.
LEMMA VpAccepted ==
  ASSUME NEW c \in Buffers, NEW cfg, CfgInv(cfg), StreamMem(c, cfg), NEW v,
         v.size = << cfg.w, cfg.h >>, v.key_interval # 0,
         v.qp = VideoParams(c, cfg).qp, v.mp_pass = cfg.mp,
         v.qp_min = QpLimits(cfg)[1], v.qp_max = QpLimits(cfg)[2],
         v.tables \in {TablesOf(c, cfg), OneColumn(TablesOf(c, cfg))}
  PROVE  ave_vp_check(v)
<1> DEFINE t == TablesOf(c, cfg)
           u == v.tables
<1>1. /\ v.size[1] \in AVE_MIN_W .. AVE_MAX_WH /\ v.size[2] \in AVE_MIN_H .. AVE_MAX_WH
      /\ \A i \in 1 .. 2 : v.size[i] % 2 = 0
  <2>1. cfg.w \in Nat /\ cfg.h \in Nat /\ cfg.w % 16 = 0 /\ cfg.h % 16 = 0 BY DEF CfgInv
  <2>2. cfg.w % 2 = 0 /\ cfg.h % 2 = 0
    <3>1. \A x \in Nat : x % 16 = 0 => x % 2 = 0 OBVIOUS
    <3> QED BY <2>1, <3>1
  <2>3. cfg.w \in AVE_MIN_W .. AVE_MAX_WH /\ cfg.h \in AVE_MIN_H .. AVE_MAX_WH
    BY SizeInRange
  <2>4. \A i \in 1 .. 2 : i = 1 \/ i = 2 OBVIOUS
  <2>5. v.size[1] = cfg.w /\ v.size[2] = cfg.h OBVIOUS
  <2>6. v.size[1] \in AVE_MIN_W .. AVE_MAX_WH /\ v.size[2] \in AVE_MIN_H .. AVE_MAX_WH
    BY <2>3, <2>5, Zenon
  <2>7. \A i \in 1 .. 2 : v.size[i] % 2 = 0 BY <2>2, <2>4, <2>5
  <2> QED BY <2>6, <2>7
<1>2. \A i \in 1 .. 3 : v.qp[i] <= 51
  <2> DEFINE qp_p == Or(cfg.qp_p, cfg.qp)
             qp_b == Or(cfg.qp_b, qp_p)
  <2>1. v.qp = << cfg.qp, qp_p, qp_b >> BY VpFacts
  <2>2. cfg.qp <= 51 /\ qp_p <= 51 BY DEF CfgInv, Or
  <2>3. qp_b <= 51
    <3> HIDE DEF qp_p
    <3> QED BY <2>2 DEF CfgInv, Or
  <2>4. v.qp[1] = cfg.qp /\ v.qp[2] = qp_p /\ v.qp[3] = qp_b BY <2>1
  <2>5. \A i \in 1 .. 3 : i = 1 \/ i = 2 \/ i = 3 OBVIOUS
  <2> HIDE DEF qp_p, qp_b
  <2> QED BY <2>2, <2>3, <2>4, <2>5
<1>3. /\ v.qp_min <= 51 /\ v.qp_max <= 51
      /\ v.qp_max # 0 => v.qp_min <= v.qp_max
  BY LimitFacts
<1>4. v.mp_pass <= 2 BY DEF CfgInv, Sizing
<1>5. /\ t.n_recon = c.n_dpb /\ c.n_dpb \in {2, 3}
      /\ t.n_low_res_ref \in {0, c.n_dpb} /\ t.n_colocated \in {0, c.n_dpb}
      /\ t.n_low_res_result \in {0, 4} /\ t.n_coded = 4
      /\ t.n_entropy \in {0, 2, 4} /\ t.n_entropy_cols \in {0, 4}
      /\ t.n_src_nbr \in {0, 4}
  BY TablesOfFacts
<1>6. /\ u.n_recon = t.n_recon /\ u.n_low_res_ref = t.n_low_res_ref
      /\ u.n_low_res_result = t.n_low_res_result /\ u.n_colocated = t.n_colocated
      /\ u.n_entropy = t.n_entropy /\ u.n_coded = t.n_coded
      /\ u.n_src_nbr = t.n_src_nbr
      /\ u.n_entropy_cols \in {0, 1, 4}
  <2>1. CASE u = t BY <1>5, <2>1
  <2>2. CASE u = OneColumn(t) BY <1>5, <2>2, OneColumnFacts
  <2> QED BY <2>1, <2>2
<1> HIDE DEF t, u
<1>7. /\ u.n_recon \in 1 .. recon_max
      /\ u.n_coded \in 1 .. coded_max
      /\ {u.n_colocated, u.n_low_res_ref} \subseteq {0, u.n_recon}
      /\ u.n_recon <= AVE_DPB_MAX
  BY <1>5, <1>6 DEF recon_max, coded_max, AVE_DPB_MAX
<1>8. /\ u.n_low_res_result <= AVE_LOW_RES_RESULT_MAX
      /\ u.n_entropy <= entropy_max /\ u.n_entropy_cols <= entropy_cols_max
      /\ u.n_src_nbr <= src_nbr_max
  BY <1>5, <1>6 DEF AVE_LOW_RES_RESULT_MAX, entropy_max, entropy_cols_max, src_nbr_max
<1>9. u = v.tables BY DEF u
<1>10. v.key_interval # 0 OBVIOUS
<1>11. LET x == v.tables
       IN  /\ x.n_recon \in 1 .. recon_max
           /\ x.n_coded \in 1 .. coded_max
           /\ {x.n_colocated, x.n_low_res_ref} \subseteq {0, x.n_recon}
           /\ x.n_recon <= AVE_DPB_MAX
           /\ x.n_low_res_result <= AVE_LOW_RES_RESULT_MAX
           /\ x.n_entropy <= entropy_max /\ x.n_entropy_cols <= entropy_cols_max
           /\ x.n_src_nbr <= src_nbr_max
  BY <1>7, <1>8, <1>9, Zenon
<1> QED BY <1>1, <1>2, <1>3, <1>4, <1>10, <1>11, VpCheckIs, Zenon

\* The level is one of H.264's.
LEMMA AvcLevel ==
  ASSUME NEW s, NEW level \in {l \in Levels : l <= 52}
  PROVE  Within(Max({ave_level_for(s), level}), 10, 52) \in Levels
<1> DEFINE a == ave_level_for(s)
           m == Max({a, level})
<1>1. a \in {40, 42, 50, 51, 52} BY DEF ave_level_for
<1>2. level \in Nat /\ level >= 10 BY DEF Levels
<1>3. m = IF a >= level THEN a ELSE level
  <2>1. a \in Int /\ level \in Int BY <1>1, <1>2
  <2> QED BY <2>1, MaxTwo
<1> HIDE DEF a
<1>4. m \in Nat /\ 10 <= m /\ m <= 52 /\ m \in Levels BY <1>1, <1>2, <1>3 DEF Levels
<1> HIDE DEF m
<1>5. Within(m, 10, 52) = m
  <2>1. Min({52, m}) = m
    <3>1. m \in Int /\ 52 \in Int BY <1>4
    <3>2. Min({52, m}) = IF 52 <= m THEN 52 ELSE m BY <3>1, MinTwo
    <3> QED BY <1>4, <3>2
  <2>2. Max({10, m}) = m
    <3>1. m \in Int /\ 10 \in Int BY <1>4
    <3>2. Max({10, m}) = IF 10 >= m THEN 10 ELSE m BY <3>1, MaxTwo
    <3> QED BY <1>4, <3>2
  <2> QED BY <2>1, <2>2 DEF Within
<1> QED BY <1>4, <1>5 DEF m, a

\* And HEVC's.
LEMMA HevcLevel ==
  ASSUME NEW s, NEW level \in HevcLevels
  PROVE  Max({ave_hevc_level_for(s), level}) \in HevcLevels
<1> DEFINE a == ave_hevc_level_for(s)
<1>1. a \in {120, 150, 180} BY DEF ave_hevc_level_for
<1>2. level \in Nat BY DEF HevcLevels
<1>3. Max({a, level}) = IF a >= level THEN a ELSE level
  <2>1. a \in Int /\ level \in Int BY <1>1, <1>2
  <2> QED BY <2>1, MaxTwo
<1> HIDE DEF a
<1>4. Max({a, level}) \in {a, level} BY <1>3
<1>5. a \in HevcLevels BY <1>1 DEF HevcLevels
<1> QED BY <1>4, <1>5 DEF a
\* The builder of an H.264 Start accepts every configuration of the context,
LEMMA AvcAccepted ==
  ASSUME NEW c \in Buffers, NEW cfg, CfgInv(cfg), StreamMem(c, cfg), cfg.codec = "H264"
  PROVE  AcceptsAvc(AvcSession(c, cfg))
<1> DEFINE s == AvcSession(c, cfg)
           v == VideoParams(c, cfg)
<1>1. s.vp = IF cfg.bufs THEN [v EXCEPT !.tables = OneColumn(@)] ELSE v BY DEF AvcSession
<1>2. /\ s.profile_idc = Or(cfg.profile, 66)
      /\ s.level_idc = Within(Max({ave_level_for(v.size), cfg.level}), 10, 52)
      /\ s.n_transcoded = (IF cfg.bufs THEN transcoded_max ELSE 0)
      /\ s.bframes = (IF cfg.rc THEN cfg.bframes ELSE 0)
      /\ s.max_refs = MaxRefs(c)
  BY DEF AvcSession
<1>3. s.profile_idc = 66 /\ s.cabac => FALSE
  <2>1. s.profile_idc = 66 => cfg.profile = 66 BY <1>2 DEF CfgInv, Profiles, Or
  <2> QED BY <2>1 DEF AvcSession
<1>4. ave_vp_check(s.vp)
  <2>1. /\ s.vp.size = v.size /\ s.vp.key_interval = v.key_interval /\ s.vp.qp = v.qp
        /\ s.vp.mp_pass = v.mp_pass /\ s.vp.qp_min = v.qp_min /\ s.vp.qp_max = v.qp_max
        /\ s.vp.tables \in {v.tables, OneColumn(v.tables)}
    BY <1>1 DEF VideoParams
  <2>2. /\ v.size = << cfg.w, cfg.h >> /\ v.qp_min = QpLimits(cfg)[1]
        /\ v.qp_max = QpLimits(cfg)[2] /\ v.key_interval = (IF cfg.mp = 2 THEN 4 ELSE 1)
        /\ v.mp_pass = cfg.mp /\ v.tables = TablesOf(c, cfg)
    BY VpFacts
  <2>3. v.key_interval # 0 BY <2>2
  <2> HIDE DEF s
  <2> QED BY <2>1, <2>2, <2>3, VpAccepted
<1>5. s.level_idc \in Levels BY <1>2, AvcLevel DEF CfgInv
<1>6. s.max_refs <= 4
  <2>1. c.n_dpb = IF TwoRefs(cfg) THEN 3 ELSE 2 BY TablesOfFacts
  <2> QED BY <1>2, <2>1, RefFacts
<1> HIDE DEF s, v
<1>7. s.profile_idc \in Profiles /\ (s.bframes > 0 => s.profile_idc # 66) /\ s.bframes <= 2
  <2>1. cfg.profile \in Profiles /\ cfg.bframes \in 0 .. 2
        /\ (cfg.bframes > 0 => cfg.profile # 66)
    BY DEF CfgInv, Sizing
  <2>2. Or(cfg.profile, 66) = cfg.profile BY <2>1 DEF Profiles, Or
  <2> QED BY <1>2, <2>1, <2>2
<1>8. s.n_transcoded \in {0, transcoded_max} BY <1>2
<1> QED BY <1>3, <1>4, <1>5, <1>6, <1>7, <1>8 DEF AcceptsAvc, s

\* and so does that of HEVC, where the entropy arena is there.
LEMMA HevcAccepted ==
  ASSUME NEW c \in Buffers, NEW cfg, CfgInv(cfg), StreamMem(c, cfg), c.entropy # None,
         cfg.codec = "HEVC", ~PassRefused(cfg)
  PROVE  AcceptsHevc(HevcSession(c, cfg))
<1> DEFINE h == HevcSession(c, cfg)
           v == VideoParams(c, cfg)
           refs == HevcRefs(c, cfg)
<1>1. h.vp = [v EXCEPT !.key_interval = IdrPeriod(@, refs)] BY DEF HevcSession
<1>2. /\ h.level_idc = Max({ave_hevc_level_for(v.size), cfg.level})
      /\ h.max_num_ref_frames = refs /\ h.n_st_rps = StRps(c, cfg)
      /\ h.st_rps_refs = (IF refs >= 2 THEN 2 ELSE 1) /\ h.bframes = cfg.bframes
      /\ h.n_transcoded = Cardinality(c.xc)
  BY DEF HevcSession
<1>3. refs = (IF TwoRefs(cfg) THEN 2 ELSE 1)
  <2>1. c.n_dpb = IF TwoRefs(cfg) THEN 3 ELSE 2 BY TablesOfFacts
  <2> QED BY <2>1, RefFacts
<1>4. /\ v.size = << cfg.w, cfg.h >> /\ v.qp_min = QpLimits(cfg)[1]
      /\ v.qp_max = QpLimits(cfg)[2] /\ v.key_interval = (IF cfg.mp = 2 THEN 4 ELSE 1)
      /\ v.mp_pass = cfg.mp /\ v.tables = TablesOf(c, cfg)
  BY VpFacts
<1>5. v.key_interval = 1 BY <1>4 DEF PassRefused
<1> HIDE DEF refs
<1>6. IdrPeriod(v.key_interval, refs) = 30
  BY <1>3, <1>5 DEF IdrPeriod, AVE_SESS_HEVC_IDR_PERIOD
<1>7. /\ h.vp.size = v.size /\ h.vp.key_interval = 30 /\ h.vp.qp = v.qp
      /\ h.vp.mp_pass = v.mp_pass /\ h.vp.qp_min = v.qp_min /\ h.vp.qp_max = v.qp_max
      /\ h.vp.tables = v.tables
  BY <1>1, <1>6 DEF VideoParams
<1> HIDE DEF h
<1>8. ave_vp_check(h.vp) BY <1>4, <1>7, VpAccepted
<1>9. h.level_idc \in HevcLevels BY <1>2, HevcLevel DEF CfgInv
<1>10. cfg.bframes \in 0 .. 2 BY DEF CfgInv, Sizing
<1>11. /\ h.vp.tables.n_recon >= h.max_num_ref_frames + 1
       /\ h.vp.tables.n_entropy >= hevc_entropy_rows
  <2> DEFINE t == TablesOf(c, cfg)
  <2>1. t.n_recon = (IF TwoRefs(cfg) THEN 3 ELSE 2) /\ t.n_entropy = 2 BY TablesOfFacts
  <2>2. h.vp.tables = t BY <1>4, <1>7
  <2> HIDE DEF t
  <2> QED BY <1>2, <1>3, <2>1, <2>2 DEF hevc_entropy_rows
<1>12. h.n_transcoded \in {0, transcoded_max}
  <2>1. Cardinality(c.xc) = 2 BY AllCount DEF StreamMem
  <2> QED BY <1>2, <2>1 DEF transcoded_max
<1>13. StRps(c, cfg) = (IF cfg.bframes > 0 THEN ave_hevc_b_sets(cfg.bframes) ELSE 4)
  BY <1>3 DEF StRps, IPPP_SETS, refs
<1>14. cfg.bframes > 0 => refs = 2 BY <1>3 DEF TwoRefs
<1>15. IF h.bframes > 0
         THEN /\ h.n_st_rps = ave_hevc_b_sets(h.bframes)
              /\ h.max_num_ref_frames >= 2
              /\ h.vp.key_interval # 1
         ELSE h.n_st_rps <= IPPP_SETS
  BY <1>2, <1>7, <1>13, <1>14 DEF IPPP_SETS
<1>16. /\ h.n_st_rps > 0 => h.max_num_ref_frames > 0
       /\ h.st_rps_refs = 2 => h.max_num_ref_frames >= 2
       /\ h.max_num_ref_frames <= 15
  BY <1>2, <1>3
<1> QED BY <1>2, <1>8, <1>9, <1>10, <1>11, <1>12, <1>15, <1>16 DEF AcceptsHevc, h

\* Start is not refused for what a configuration of the context asks.
LEMMA StartAccepted ==
  ASSUME NEW c \in Buffers, NEW cfg, CfgInv(cfg), StreamMem(c, cfg), c.entropy # None,
         ~PassRefused(cfg)
  PROVE  RefsSuffice(c, cfg) /\ BuilderAccepts(c, cfg)
<1>1. c.n_dpb = IF TwoRefs(cfg) THEN 3 ELSE 2 BY TablesOfFacts
<1>2. RefsSuffice(c, cfg) BY <1>1, RefFacts DEF RefsSuffice
<1>3. cfg.codec \in {"H264", "HEVC"} BY DEF CfgInv, Sizing
<1>4. BuilderAccepts(c, cfg) BY <1>3, AvcAccepted, HevcAccepted DEF BuilderAccepts
<1> QED BY <1>2, <1>4
\* The type of a frame, whatever the batch or the client asks for.
LEMMA TypeFacts ==
  ASSUME NEW c, NEW cfg, Sizing(cfg), NEW n \in Nat, NEW a \in Asked(cfg, n)
  PROVE  LET type == ProcessType(c, cfg, n, a[1], a[2])
         IN  /\ type \in {"IDR", "P", "B", "AUTO"} /\ (type = "AUTO" <=> cfg.mp = 2)
             /\ type = "B" => cfg.bframes > 0
             /\ cfg.codec = "HEVC" /\ type = "P" => HevcRefs(c, cfg) # 0
<1> DEFINE asked == IF a[1] # Default THEN a[1]
                    ELSE IF a[2] \/ n = 0 THEN "IDR" ELSE "P"
           type == ProcessType(c, cfg, n, a[1], a[2])
<1>1. a[1] \in {Default, "IDR", "P", "B"} /\ (a[1] = "B" => cfg.bframes > 0)
  <2>1. CASE cfg.bframes = 0
    <3>1. a \in {<< Default, FALSE >>, << Default, n > 0 >>} BY <2>1, Zenon DEF Asked
    <3>2. << Default, FALSE >>[1] = Default /\ << Default, n > 0 >>[1] = Default OBVIOUS
    <3>3. a = << Default, FALSE >> \/ a = << Default, n > 0 >> BY <3>1, Zenon
    <3>4. a[1] = Default BY <3>2, <3>3
    <3> QED BY <3>4 DEF Default
  <2>2. CASE cfg.bframes # 0
    <3>1. cfg.bframes > 0 BY <2>2 DEF Sizing
    <3>2. a \in {<< "IDR", FALSE >>} \cup ({"IDR", "P", "B"} \X {FALSE})
      BY <2>2 DEF Asked
    <3>3. a[1] \in {"IDR", "P", "B"}
      <4>1. << "IDR", FALSE >>[1] = "IDR" OBVIOUS
      <4>2. CASE a = << "IDR", FALSE >> BY <4>1, <4>2
      <4>3. CASE a \in {"IDR", "P", "B"} \X {FALSE} BY <4>3
      <4> QED BY <3>2, <4>2, <4>3, Zenon
    <3> QED BY <3>1, <3>3
  <2> QED BY <2>1, <2>2
<1>2. asked \in {"IDR", "P", "B"} /\ (asked = "B" => cfg.bframes > 0) BY <1>1 DEF Default
<1>3. type = IF cfg.mp = 2 THEN "AUTO"
             ELSE IF cfg.codec = "HEVC" /\ asked = "P" /\ HevcRefs(c, cfg) = 0
               THEN "IDR" ELSE asked
  BY DEF ProcessType
<1> HIDE DEF asked, type
<1>4. /\ type \in {"IDR", "P", "B", "AUTO"} /\ (type = "AUTO" <=> cfg.mp = 2)
      /\ type = "B" => cfg.bframes > 0
      /\ cfg.codec = "HEVC" /\ type = "P" => HevcRefs(c, cfg) # 0
  BY <1>2, <1>3
<1> QED BY <1>4 DEF type

\* A Process command, in its fields.
LEMMA ProcessFields ==
  ASSUME NEW c \in Buffers, NEW cfg, CfgInv(cfg), StreamMem(c, cfg), NEW n \in Nat,
         NEW type, NEW stride
  PROVE  LET f == ProcessCommand(c, cfg, n, type, stride)
             t == TablesOf(c, cfg)
         IN  /\ f.codec = cfg.codec /\ f.slot = 21 + (n % 4) /\ f.type = type
             /\ f.stride = stride /\ f.index = n % 4 /\ f.n_entropy = t.n_entropy
             /\ f.n_entropy_cols =
                  IF cfg.bufs /\ t.n_entropy > 0 THEN 1 ELSE t.n_entropy_cols
             /\ f.n_src_nbr = t.n_src_nbr
             /\ type = "IDR" => f.poc_lsb = 0
             /\ cfg.codec = "HEVC" =>
                  f.headers = InSlot(c.slice, n % 4) /\ f.bframes = cfg.bframes
<1>1. Cardinality({r \in c.coded : r.of = "coded"}) = 4 BY TablesOfFacts
<1> DEFINE t == TablesOf(c, cfg)
           f == ProcessCommand(c, cfg, n, type, stride)
<1>2. /\ f.codec = cfg.codec /\ f.slot = 21 + (n % 4) /\ f.type = type
      /\ f.stride = stride /\ f.index = n % 4
  BY <1>1 DEF ProcessCommand, process_slot
<1>3. /\ f.n_entropy = t.n_entropy /\ f.n_src_nbr = t.n_src_nbr
      /\ f.n_entropy_cols =
           IF cfg.bufs /\ t.n_entropy > 0 THEN 1 ELSE t.n_entropy_cols
  BY DEF ProcessCommand
<1>4. type = "IDR" => f.poc_lsb = 0 BY DEF ProcessCommand
<1>5. cfg.codec = "HEVC" => f.headers = InSlot(c.slice, n % 4) /\ f.bframes = cfg.bframes
  BY <1>1 DEF ProcessCommand
<1> QED BY <1>2, <1>3, <1>4, <1>5

\* What of it goes on the wire, of either codec.
LEMMA WireFields ==
  ASSUME NEW f
  PROVE  LET w == ProcessWire(f)
         IN  /\ w.head.codec = f.codec /\ w.pic.type = f.type
             /\ w.pic.in_stride = f.stride /\ w.pic.out_index = f.index
             /\ w.pic.n_entropy = f.n_entropy /\ w.pic.n_src_nbr = f.n_src_nbr
             /\ w.pic.n_entropy_cols =
                  IF f.n_entropy > 0 THEN Or(f.n_entropy_cols, 1) ELSE 0
             /\ w.st_rps_sps_flag => f.codec = "HEVC" /\ f.type \in {"P", "B"}
<1> DEFINE w == ProcessWire(f)
<1>1. w.head = [op |-> w.head.op, codec |-> f.codec, slot |-> f.slot]
      /\ w.pic = ave_pic_fill(f)
  BY DEF ProcessWire, ave_cmd_build_process_avc, ave_cmd_build_process_hevc, ave_cmd_begin
<1>2. w.st_rps_sps_flag => f.codec = "HEVC" /\ f.type \in {"P", "B"}
  BY Zenon DEF ProcessWire, ave_cmd_build_process_avc, ave_cmd_build_process_hevc, NamesASet
<1> HIDE DEF w
<1>3. w.head.codec = f.codec BY <1>1
<1>4. /\ w.pic.type = f.type
      /\ w.pic.in_stride = f.stride /\ w.pic.out_index = f.index
      /\ w.pic.n_entropy = f.n_entropy /\ w.pic.n_src_nbr = f.n_src_nbr
      /\ w.pic.n_entropy_cols =
           IF f.n_entropy > 0 THEN Or(f.n_entropy_cols, 1) ELSE 0
  BY <1>1 DEF ave_pic_fill
<1> QED BY <1>2, <1>3, <1>4 DEF w

\* A line is whole strides of the hardware's.
LEMMA StrideFacts ==
  ASSUME CtxInv
  PROVE  /\ fmt.bpl \in Nat /\ fmt.bpl > 0 /\ fmt.bpl % 64 = 0
         /\ fmt.bpl = Align(fmt.w, 64) * (IF fmt.p010 THEN 2 ELSE 1)
<1>1. fmt.w \in Nat /\ fmt.p010 \in BOOLEAN BY DEF CtxInv, CtxTypes, Formats
<1>2. fmt.bpl = Align(fmt.w, 64) * (IF fmt.p010 THEN 2 ELSE 1)
  BY DEF CtxInv, FormatInv, PlanesFit, Bpl
<1> DEFINE x == Align(fmt.w, 64)
<1>3. x \in Nat /\ x % 64 = 0 /\ x >= fmt.w BY <1>1, Align64
<1>4. fmt.w > 0 BY <1>1 DEF CtxInv, FormatInv, PictureFits, AVE_MIN_W
<1> HIDE DEF x
<1>5. x > 0 BY <1>1, <1>3, <1>4
<1>6. \A y \in Nat : y % 64 = 0 => (y * 2) % 64 = 0 OBVIOUS
<1>7. fmt.bpl = x \/ fmt.bpl = x * 2 BY <1>1, <1>2, <1>3 DEF x
<1>8. x * 2 \in Nat /\ x * 2 > 0 /\ (x * 2) % 64 = 0 BY <1>3, <1>5, <1>6
<1> QED BY <1>2, <1>3, <1>5, <1>7, <1>8

\* Every frame a stream may be asked for passes the builder of its command.
LEMMA FrameAccepted ==
  ASSUME CtxInv, NEW c \in Buffers, CfgInv(latched), StreamMem(c, latched),
         NEW n \in Nat, NEW a \in Asked(latched, n)
  PROVE  AcceptsProcess(Process(c, n, a))
<1> DEFINE cfg == latched
           type == ProcessType(c, cfg, n, a[1], a[2])
           f == Process(c, n, a)
           t == TablesOf(c, cfg)
           idx == n % 4
<1>1. f = ProcessCommand(c, cfg, n, type, fmt.bpl) BY DEF Process
<1>2. /\ type \in {"IDR", "P", "B", "AUTO"}
      /\ type = "B" => cfg.bframes > 0
  BY TypeFacts DEF CfgInv
<1> HIDE DEF type
<1>3. /\ f.codec = cfg.codec /\ f.slot = 21 + idx /\ f.type = type
      /\ f.stride = fmt.bpl /\ f.index = idx /\ f.n_entropy = t.n_entropy
      /\ f.n_entropy_cols = (IF cfg.bufs /\ t.n_entropy > 0 THEN 1 ELSE t.n_entropy_cols)
      /\ f.n_src_nbr = t.n_src_nbr
      /\ type = "IDR" => f.poc_lsb = 0
      /\ cfg.codec = "HEVC" => f.headers = InSlot(c.slice, idx) /\ f.bframes = cfg.bframes
  BY <1>1, ProcessFields
<1> HIDE DEF f
<1>4. idx \in 0 .. 3 OBVIOUS
<1> HIDE DEF idx
<1>5. t.n_entropy \in {0, 2, 4} /\ t.n_entropy_cols \in {0, 4} /\ t.n_src_nbr \in {0, 4}
  BY TablesOfFacts
<1> HIDE DEF t
<1>6. f.type \in FrameType BY <1>2, <1>3 DEF FrameType
<1>7. f.stride > 0 /\ f.stride % 64 = 0 BY <1>3, StrideFacts
<1>8. f.index < coded_max /\ f.slot < max_slot BY <1>3, <1>4 DEF coded_max, max_slot
<1>9. f.n_entropy <= entropy_max /\ f.n_entropy_cols <= entropy_cols_max
      /\ f.n_src_nbr <= src_nbr_max
  BY <1>3, <1>5 DEF entropy_max, entropy_cols_max, src_nbr_max
<1>10. ASSUME f.codec = "HEVC"
       PROVE  /\ f.type = "B" => f.bframes > 0
              /\ f.headers # {}
              /\ f.type = "IDR" => f.poc_lsb = 0
  <2>1. f.headers = InSlot(c.slice, idx) /\ f.bframes = cfg.bframes BY <1>3, <1>10
  <2>2. c.slice = All(c, "slice", 4) BY <1>3, <1>10 DEF StreamMem
  <2>3. Mine(c, "slice", idx) \in c.slice
    <3>1. idx \in 0 .. 4 - 1 BY <1>4
    <3> QED BY <2>2, <3>1 DEF All
  <2>4. Mine(c, "slice", idx).i = idx BY DEF Mine, Region
  <2>5. InSlot(c.slice, idx) # {} BY <2>3, <2>4 DEF InSlot
  <2> QED BY <1>2, <1>3, <2>1, <2>5
<1> QED BY <1>6, <1>7, <1>8, <1>9, <1>10 DEF AcceptsProcess, AcceptsPicture, f
\* The tables on the wire.
LEMMA WireTablesFacts ==
  ASSUME NEW c, NEW cfg, NEW u, u \in {TablesOf(c, cfg), OneColumn(TablesOf(c, cfg))}
  PROVE  LET w == WireTables(u)
         IN  /\ w.n_recon = u.n_recon /\ w.n_coded = u.n_coded
             /\ w.n_entropy = u.n_entropy /\ w.n_src_nbr = u.n_src_nbr
             /\ w.n_entropy_cols =
                  IF u.n_entropy > 0 THEN Or(u.n_entropy_cols, 1) ELSE 0
<1>1. CASE u = TablesOf(c, cfg) BY <1>1 DEF WireTables, TablesOf
<1>2. CASE u = OneColumn(TablesOf(c, cfg)) BY <1>2 DEF WireTables, OneColumn, TablesOf
<1> QED BY <1>1, <1>2

\* What of Start the codecs share, on the wire.
LEMMA SharedStart ==
  ASSUME NEW c \in Buffers, NEW cfg, CfgInv(cfg), StreamMem(c, cfg), NEW v,
         v.rc_enable = cfg.rc, v.src_cfg_byte = Bit(cfg.p010),
         v.multi_me = Bit(TwoRefs(cfg)), v.mp_pass = cfg.mp,
         v.qp_min = QpLimits(cfg)[1], v.qp_max = QpLimits(cfg)[2],
         cfg.codec = "HEVC" => ~cfg.bufs,
         v.tables = IF cfg.bufs THEN OneColumn(TablesOf(c, cfg)) ELSE TablesOf(c, cfg)
  PROVE  LET w == ave_vp_fill(v)
             t == TablesOf(c, cfg)
         IN  /\ w.rc = cfg.rc /\ w.key_interval = v.key_interval
             /\ w.src_cfg = Bit(cfg.p010) /\ w.multi_me = Bit(TwoRefs(cfg))
             /\ w.mp_pass = cfg.mp
             /\ w.qp_limits[1] <= w.qp_limits[2] /\ w.qp_limits[2] <= 51
             /\ w.tables.n_recon = c.n_dpb /\ w.tables.n_coded = 4
             /\ w.tables.n_entropy = t.n_entropy /\ w.tables.n_src_nbr = t.n_src_nbr
             /\ w.tables.n_entropy_cols =
                  IF t.n_entropy > 0
                    THEN Or(IF cfg.bufs THEN 1 ELSE t.n_entropy_cols, 1) ELSE 0
<1> DEFINE w == ave_vp_fill(v)
           t == TablesOf(c, cfg)
           u == v.tables
<1>1. /\ w.rc = cfg.rc /\ w.key_interval = v.key_interval
      /\ w.src_cfg = Bit(cfg.p010) /\ w.multi_me = Bit(TwoRefs(cfg))
      /\ w.mp_pass = cfg.mp /\ w.qp_limits = WireLimits(v) /\ w.tables = WireTables(u)
  BY DEF ave_vp_fill
<1>2. /\ t.n_recon = c.n_dpb /\ t.n_coded = 4 BY TablesOfFacts
<1>3. /\ u.n_recon = t.n_recon /\ u.n_coded = t.n_coded /\ u.n_entropy = t.n_entropy
      /\ u.n_src_nbr = t.n_src_nbr
      /\ t.n_entropy > 0 =>
           u.n_entropy_cols = IF cfg.bufs THEN 1 ELSE t.n_entropy_cols
  <2>1. CASE cfg.bufs
    <3>1. u = OneColumn(t) BY <2>1
    <3> QED BY <2>1, <3>1, OneColumnFacts
  <2>2. CASE ~cfg.bufs
    <3>1. u = t BY <2>2
    <3> HIDE DEF t
    <3> QED BY <2>2, <3>1
  <2> QED BY <2>1, <2>2
<1>4. u \in {t, OneColumn(t)} OBVIOUS
<1>5. /\ w.tables.n_recon = u.n_recon /\ w.tables.n_coded = u.n_coded
      /\ w.tables.n_entropy = u.n_entropy /\ w.tables.n_src_nbr = u.n_src_nbr
      /\ w.tables.n_entropy_cols =
           IF u.n_entropy > 0 THEN Or(u.n_entropy_cols, 1) ELSE 0
  BY <1>1, <1>4, WireTablesFacts
<1>6. w.qp_limits[1] <= w.qp_limits[2] /\ w.qp_limits[2] <= 51
  <2> HIDE DEF w
  <2>1. QpLimits(cfg)[1] <= QpLimits(cfg)[2] /\ QpLimits(cfg)[2] <= 51 BY LimitFacts
  <2>2. w.qp_limits = << v.qp_min, v.qp_max >> \/ w.qp_limits = << 0, 51 >>
    BY <1>1 DEF WireLimits
  <2> QED BY <2>1, <2>2
<1> HIDE DEF w, t, u
<1> QED BY <1>1, <1>2, <1>3, <1>5, <1>6 DEF w, t

\* An H.264 Start, field by field,
LEMMA AvcStart ==
  ASSUME NEW c \in Buffers, NEW cfg, CfgInv(cfg), StreamMem(c, cfg), cfg.codec = "H264"
  PROVE  LET s == StartCommand(c, cfg)
         IN  /\ s.codec = "H264" /\ s.profile = cfg.profile /\ s.bit_depth = 8
             /\ s.input_bitdepth = 8 /\ (s.reorders <=> cfg.bframes > 0)
             /\ s.refs = (IF TwoRefs(cfg) THEN 2 ELSE 1) /\ s.sets = << >>
             /\ s.ref_spacing = (IF cfg.p_refs >= 2 THEN 2 ELSE 0)
             /\ s.bframes = (IF cfg.rc THEN cfg.bframes ELSE 0)
             /\ (s.entropy_coding_mode => cfg.profile # 66)
             /\ (s.mode_8x8 <=> cfg.profile >= 100)
             /\ s.vp.key_interval = (IF cfg.mp = 2 THEN 4 ELSE 1)
             /\ \E v : /\ s.vp = ave_vp_fill(v)
                       /\ v.rc_enable = cfg.rc /\ v.src_cfg_byte = Bit(cfg.p010)
                       /\ v.multi_me = Bit(TwoRefs(cfg)) /\ v.mp_pass = cfg.mp
                       /\ v.qp_min = QpLimits(cfg)[1] /\ v.qp_max = QpLimits(cfg)[2]
                       /\ v.tables = IF cfg.bufs THEN OneColumn(TablesOf(c, cfg))
                                     ELSE TablesOf(c, cfg)
<1> DEFINE a == AvcSession(c, cfg)
           v == VideoParams(c, cfg)
           s == StartCommand(c, cfg)
<1>1. s = ave_cmd_build_start_avc(a) BY DEF StartCommand
<1>2. a.vp = IF cfg.bufs THEN [v EXCEPT !.tables = OneColumn(@)] ELSE v BY DEF AvcSession
<1>3. /\ a.profile_idc = Or(cfg.profile, 66)
      /\ a.ref_spacing_p = (IF cfg.p_refs >= 2 THEN 2 ELSE 0)
      /\ a.bframes = (IF cfg.rc THEN cfg.bframes ELSE 0)
      /\ a.max_refs = MaxRefs(c)
  BY DEF AvcSession
<1>4. (a.cabac => cfg.profile # 66) /\ (a.poc_type0 <=> cfg.bframes > 0)
  BY DEF AvcSession, poc_type0
<1>5. /\ a.vp.rc_enable = v.rc_enable /\ a.vp.src_cfg_byte = v.src_cfg_byte
      /\ a.vp.multi_me = v.multi_me /\ a.vp.mp_pass = v.mp_pass
      /\ a.vp.qp_min = v.qp_min /\ a.vp.qp_max = v.qp_max
      /\ a.vp.key_interval = v.key_interval
      /\ a.vp.tables = IF cfg.bufs THEN OneColumn(v.tables) ELSE v.tables
  BY <1>2 DEF VideoParams
<1>6. /\ v.rc_enable = cfg.rc /\ v.qp_min = QpLimits(cfg)[1]
      /\ v.qp_max = QpLimits(cfg)[2] /\ v.key_interval = (IF cfg.mp = 2 THEN 4 ELSE 1)
      /\ v.mp_pass = cfg.mp /\ v.tables = TablesOf(c, cfg)
      /\ v.src_cfg_byte = Bit(cfg.p010) /\ v.multi_me = Bit(TwoRefs(cfg))
  <2>1. v.rc_enable = cfg.rc BY DEF VideoParams
  <2> QED BY <2>1, VpFacts
<1> HIDE DEF a, v
<1>7. /\ s.codec = "H264" /\ s.vp = ave_vp_fill(a.vp) /\ s.profile = a.profile_idc
      /\ s.bit_depth = 8 /\ s.input_bitdepth = 8 /\ s.refs = Or(a.max_refs, 1)
      /\ s.sets = << >> /\ s.ref_spacing = a.ref_spacing_p /\ s.bframes = a.bframes
  BY <1>1 DEF ave_cmd_build_start_avc
<1>8. /\ s.reorders = a.poc_type0 /\ s.entropy_coding_mode = a.cabac
      /\ s.mode_8x8 = (a.profile_idc >= 100)
  BY <1>1 DEF ave_cmd_build_start_avc
<1> HIDE DEF s
<1>9. s.vp.key_interval = a.vp.key_interval BY <1>7 DEF ave_vp_fill
<1>10. a.max_refs = (IF TwoRefs(cfg) THEN 2 ELSE 1)
  <2>1. c.n_dpb = IF TwoRefs(cfg) THEN 3 ELSE 2 BY TablesOfFacts
  <2> QED BY <1>3, <2>1, RefFacts
<1>11. a.profile_idc = cfg.profile BY <1>3 DEF CfgInv, Profiles, Or
<1>12. Or(a.max_refs, 1) = (IF TwoRefs(cfg) THEN 2 ELSE 1) BY <1>10 DEF Or
<1>13. \E x : /\ s.vp = ave_vp_fill(x)
              /\ x.rc_enable = cfg.rc /\ x.src_cfg_byte = Bit(cfg.p010)
              /\ x.multi_me = Bit(TwoRefs(cfg)) /\ x.mp_pass = cfg.mp
              /\ x.qp_min = QpLimits(cfg)[1] /\ x.qp_max = QpLimits(cfg)[2]
              /\ x.tables = IF cfg.bufs THEN OneColumn(TablesOf(c, cfg))
                            ELSE TablesOf(c, cfg)
  <2> WITNESS a.vp
  <2> QED BY <1>5, <1>6, <1>7
<1>14. /\ s.codec = "H264" /\ s.profile = cfg.profile /\ s.bit_depth = 8
       /\ s.input_bitdepth = 8 /\ s.sets = << >>
       /\ s.refs = (IF TwoRefs(cfg) THEN 2 ELSE 1)
       /\ s.ref_spacing = (IF cfg.p_refs >= 2 THEN 2 ELSE 0)
       /\ s.bframes = (IF cfg.rc THEN cfg.bframes ELSE 0)
  BY <1>3, <1>7, <1>11, <1>12
<1>15. s.reorders <=> cfg.bframes > 0 BY <1>4, <1>8
<1>16. s.entropy_coding_mode => cfg.profile # 66 BY <1>4, <1>8
<1>17. s.mode_8x8 <=> cfg.profile >= 100 BY <1>8, <1>11
<1>18. s.vp.key_interval = (IF cfg.mp = 2 THEN 4 ELSE 1) BY <1>5, <1>6, <1>9
<1> QED BY <1>13, <1>14, <1>15, <1>16, <1>17, <1>18, Zenon DEF s
\* and an HEVC Start.
LEMMA HevcStart ==
  ASSUME NEW c \in Buffers, NEW cfg, CfgInv(cfg), StreamMem(c, cfg), cfg.codec = "HEVC",
         ~PassRefused(cfg)
  PROVE  LET s == StartCommand(c, cfg)
             refs == IF TwoRefs(cfg) THEN 2 ELSE 1
         IN  /\ s.codec = "HEVC" /\ (s.bit_depth = 10 => s.profile = 2)
             /\ s.input_bitdepth = (IF cfg.p010 THEN 10 ELSE 8)
             /\ (s.reorders <=> cfg.bframes > 0)
             /\ s.refs = refs /\ s.bframes = cfg.bframes
             /\ s.ref_spacing = (IF cfg.p_refs >= 2 /\ cfg.bframes = 0 THEN 2 ELSE 0)
             /\ s.sets # << >> /\ \A i \in DOMAIN s.sets : Cardinality(s.sets[i]) <= refs
             /\ s.vp.key_interval = 30
             /\ \E v : /\ s.vp = ave_vp_fill(v)
                       /\ v.rc_enable = cfg.rc /\ v.src_cfg_byte = Bit(cfg.p010)
                       /\ v.multi_me = Bit(TwoRefs(cfg)) /\ v.mp_pass = cfg.mp
                       /\ v.qp_min = QpLimits(cfg)[1] /\ v.qp_max = QpLimits(cfg)[2]
                       /\ v.tables = TablesOf(c, cfg)
<1> DEFINE h == HevcSession(c, cfg)
           v == VideoParams(c, cfg)
           s == StartCommand(c, cfg)
           refs == HevcRefs(c, cfg)
<1>1. s = ave_cmd_build_start_hevc(h) BY DEF StartCommand
<1>2. h.vp = [v EXCEPT !.key_interval = IdrPeriod(@, refs)] BY DEF HevcSession
<1>3. /\ h.ref_spacing_p = (IF cfg.p_refs >= 2 /\ cfg.bframes = 0 THEN 2 ELSE 0)
      /\ h.bit_depth \in {8, 10} /\ h.input_bitdepth = (IF cfg.p010 THEN 10 ELSE 8)
      /\ h.max_num_ref_frames = refs /\ h.n_st_rps = StRps(c, cfg)
      /\ h.st_rps_refs = (IF refs >= 2 THEN 2 ELSE 1) /\ h.bframes = cfg.bframes
  BY DEF HevcSession
<1>4. /\ v.rc_enable = cfg.rc /\ v.qp_min = QpLimits(cfg)[1]
      /\ v.qp_max = QpLimits(cfg)[2] /\ v.key_interval = (IF cfg.mp = 2 THEN 4 ELSE 1)
      /\ v.mp_pass = cfg.mp /\ v.tables = TablesOf(c, cfg)
      /\ v.src_cfg_byte = Bit(cfg.p010) /\ v.multi_me = Bit(TwoRefs(cfg))
  <2>1. v.rc_enable = cfg.rc BY DEF VideoParams
  <2> QED BY <2>1, VpFacts
<1>5. refs = (IF TwoRefs(cfg) THEN 2 ELSE 1)
  <2>1. c.n_dpb = IF TwoRefs(cfg) THEN 3 ELSE 2 BY TablesOfFacts
  <2> QED BY <2>1, RefFacts
<1>6. v.key_interval = 1 BY <1>4 DEF PassRefused
<1>7. StRps(c, cfg) = (IF cfg.bframes > 0 THEN ave_hevc_b_sets(cfg.bframes) ELSE 4)
  BY <1>5 DEF StRps, IPPP_SETS
<1> HIDE DEF refs
<1>8. IdrPeriod(v.key_interval, refs) = 30
  BY <1>5, <1>6 DEF IdrPeriod, AVE_SESS_HEVC_IDR_PERIOD
<1>9. /\ h.vp.rc_enable = v.rc_enable /\ h.vp.src_cfg_byte = v.src_cfg_byte
      /\ h.vp.multi_me = v.multi_me /\ h.vp.mp_pass = v.mp_pass
      /\ h.vp.qp_min = v.qp_min /\ h.vp.qp_max = v.qp_max
      /\ h.vp.key_interval = 30 /\ h.vp.tables = v.tables
  BY <1>2, <1>8 DEF VideoParams
<1> HIDE DEF h, v
<1>10. /\ s.codec = "HEVC" /\ s.vp = ave_vp_fill(h.vp)
       /\ s.profile = ave_hevc_ptl(h).profile
       /\ s.bit_depth = h.bit_depth /\ s.input_bitdepth = h.input_bitdepth
       /\ s.refs = h.max_num_ref_frames /\ s.ref_spacing = h.ref_spacing_p
       /\ s.bframes = h.bframes
  BY <1>1 DEF ave_cmd_build_start_hevc
<1>11. /\ s.reorders = (h.bframes > 0)
       /\ s.sets = [i \in 1 .. h.n_st_rps |-> StSet(h, i - 1)]
  BY <1>1 DEF ave_cmd_build_start_hevc
<1> HIDE DEF s
<1>12. s.vp.key_interval = 30 BY <1>9, <1>10 DEF ave_vp_fill
<1>13. s.bit_depth = 10 => s.profile = 2 BY <1>10 DEF ave_hevc_ptl
<1>14. cfg.bframes \in 0 .. 2 BY DEF CfgInv, Sizing
<1>15. h.n_st_rps \in Nat /\ h.n_st_rps > 0
  BY <1>3, <1>7 DEF ave_hevc_b_sets
<1>16. DOMAIN s.sets = 1 .. h.n_st_rps BY <1>11
<1>17. s.sets # << >>
  <2>1. 1 \in DOMAIN s.sets BY <1>15, <1>16
  <2> QED BY <2>1
<1>18. \A i \in DOMAIN s.sets : Cardinality(s.sets[i]) <= refs
  <2> SUFFICES ASSUME NEW i \in DOMAIN s.sets PROVE Cardinality(s.sets[i]) <= refs
    OBVIOUS
  <2>1. s.sets[i] = StSet(h, i - 1) BY <1>11, <1>16
  <2>2. \A x, y : Cardinality({x, y}) \in {1, 2}
    <3> TAKE x, y
    <3>1. Cardinality({y}) = 1 /\ IsFiniteSet({y}) BY FS_Singleton
    <3>2. Cardinality({y} \cup {x}) = IF x \in {y} THEN Cardinality({y})
                                      ELSE Cardinality({y}) + 1
      BY <3>1, FS_AddElement
    <3>3. {y} \cup {x} = {x, y} OBVIOUS
    <3> QED BY <3>1, <3>2, <3>3
  <2>3. \A x : Cardinality({x}) = 1 BY FS_Singleton
  <2>4. CASE cfg.bframes > 0
    <3>1. StSet(h, i - 1) = ave_hevc_b_set(h.bframes, i - 1) BY <1>3, <2>4 DEF StSet
    <3>2. PICK x, y : ave_hevc_b_set(h.bframes, i - 1) \in {{x}, {x, y}}
      <4> DEFINE g == h.bframes + 1
                 r == (i - 1) % g
      <4>1. ave_hevc_b_set(h.bframes, i - 1) = IF r = 0 THEN {-g} ELSE {-r, g - r}
        BY DEF ave_hevc_b_set
      <4> HIDE DEF g, r
      <4> QED BY <4>1
    <3>3. refs = 2 BY <1>5, <2>4 DEF TwoRefs
    <3>4. Cardinality({x}) = 1 /\ Cardinality({x, y}) \in {1, 2} BY <2>2, <2>3
    <3>5. s.sets[i] = {x} \/ s.sets[i] = {x, y} BY <2>1, <3>1, <3>2
    <3>6. Cardinality(s.sets[i]) \in {1, 2} BY <3>4, <3>5
    <3> QED BY <3>3, <3>6
  <2>5. CASE ~(cfg.bframes > 0)
    <3>1. StSet(h, i - 1) = ippp_set(h.st_rps_refs, i - 1) BY <1>3, <2>5 DEF StSet
    <3>2. \/ ippp_set(h.st_rps_refs, i - 1) = {-1}
          \/ h.st_rps_refs = 2 /\ ippp_set(h.st_rps_refs, i - 1) = {-1, -2}
      BY DEF ippp_set
    <3>3. Cardinality({-1}) = 1 /\ Cardinality({-1, -2}) \in {1, 2} BY <2>2, <2>3
    <3>4. refs \in {1, 2} /\ (h.st_rps_refs = 2 => refs = 2) BY <1>3, <1>5
    <3>5. CASE s.sets[i] = {-1} BY <3>3, <3>4, <3>5
    <3>6. CASE h.st_rps_refs = 2 /\ s.sets[i] = {-1, -2}
      <4>1. Cardinality(s.sets[i]) = Cardinality({-1, -2}) BY <3>6
      <4> QED BY <3>3, <3>4, <3>6, <4>1
    <3> QED BY <2>1, <3>1, <3>2, <3>5, <3>6
  <2> QED BY <2>4, <2>5
<1>19. \E x : /\ s.vp = ave_vp_fill(x)
              /\ x.rc_enable = cfg.rc /\ x.src_cfg_byte = Bit(cfg.p010)
              /\ x.multi_me = Bit(TwoRefs(cfg)) /\ x.mp_pass = cfg.mp
              /\ x.qp_min = QpLimits(cfg)[1] /\ x.qp_max = QpLimits(cfg)[2]
              /\ x.tables = TablesOf(c, cfg)
  <2> WITNESS h.vp
  <2> QED BY <1>4, <1>9, <1>10
<1>20. s.refs = refs /\ s.bframes = cfg.bframes /\ s.ref_spacing = h.ref_spacing_p
       /\ (s.reorders <=> cfg.bframes > 0)
  BY <1>3, <1>10, <1>11
<1> QED BY <1>3, <1>5, <1>10, <1>12, <1>13, <1>17, <1>18, <1>19, <1>20 DEF s
\* What a running stream's Start says, whichever the codec.
LEMMA StreamStart ==
  ASSUME b \in Buffers, StreamInv
  PROVE  LET s == StartCommand(b, latched)
             t == TablesOf(b, latched)
         IN  /\ s.codec = latched.codec /\ s.refs = (IF TwoRefs(latched) THEN 2 ELSE 1)
             /\ s.input_bitdepth = (IF latched.p010 THEN 10 ELSE 8)
             /\ (s.reorders <=> latched.bframes > 0)
             /\ \A i \in DOMAIN s.sets : Cardinality(s.sets[i]) <= s.refs
             /\ s.vp.rc = latched.rc
             /\ s.vp.src_cfg = Bit(latched.p010) /\ s.vp.multi_me = Bit(TwoRefs(latched))
             /\ s.vp.mp_pass = latched.mp
             /\ s.vp.qp_limits[1] <= s.vp.qp_limits[2] /\ s.vp.qp_limits[2] <= 51
             /\ s.vp.tables.n_recon = (IF TwoRefs(latched) THEN 3 ELSE 2)
             /\ s.vp.tables.n_coded = 4
             /\ s.vp.tables.n_entropy = t.n_entropy
             /\ s.vp.tables.n_src_nbr = t.n_src_nbr
             /\ s.vp.tables.n_entropy_cols =
                  IF t.n_entropy > 0
                    THEN Or(IF latched.bufs THEN 1 ELSE t.n_entropy_cols, 1) ELSE 0
<1> DEFINE cfg == latched
           s == StartCommand(b, cfg)
           t == TablesOf(b, cfg)
<1>1. CfgInv(cfg) /\ StreamMem(b, cfg) /\ ~PassRefused(cfg) BY DEF StreamInv
<1>2. cfg.codec \in {"H264", "HEVC"} /\ (cfg.codec = "HEVC" => ~cfg.bufs)
      /\ (cfg.codec = "H264" => ~cfg.p010)
  BY <1>1 DEF CfgInv, Sizing
<1>3. b.n_dpb = (IF TwoRefs(cfg) THEN 3 ELSE 2) BY <1>1, TablesOfFacts
<1>4. /\ s.codec = cfg.codec /\ s.refs = (IF TwoRefs(cfg) THEN 2 ELSE 1)
      /\ s.input_bitdepth = (IF cfg.p010 THEN 10 ELSE 8)
      /\ (s.reorders <=> cfg.bframes > 0)
      /\ \A i \in DOMAIN s.sets : Cardinality(s.sets[i]) <= s.refs
  <2>1. CASE cfg.codec = "H264"
    <3>1. /\ s.codec = "H264" /\ s.refs = (IF TwoRefs(cfg) THEN 2 ELSE 1)
          /\ s.input_bitdepth = 8 /\ (s.reorders <=> cfg.bframes > 0) /\ s.sets = << >>
      BY <1>1, <2>1, AvcStart
    <3> HIDE DEF s
    <3> QED BY <1>2, <2>1, <3>1
  <2>2. CASE cfg.codec = "HEVC" BY <1>1, <2>2, HevcStart
  <2> QED BY <1>2, <2>1, <2>2
<1>5. PICK v : /\ s.vp = ave_vp_fill(v)
               /\ v.rc_enable = cfg.rc /\ v.src_cfg_byte = Bit(cfg.p010)
               /\ v.multi_me = Bit(TwoRefs(cfg)) /\ v.mp_pass = cfg.mp
               /\ v.qp_min = QpLimits(cfg)[1] /\ v.qp_max = QpLimits(cfg)[2]
               /\ v.tables = IF cfg.bufs THEN OneColumn(TablesOf(b, cfg))
                             ELSE TablesOf(b, cfg)
  <2>1. CASE cfg.codec = "H264" BY <1>1, <2>1, AvcStart
  <2>2. CASE cfg.codec = "HEVC"
    <3>1. ~cfg.bufs BY <1>2, <2>2
    <3> QED BY <1>1, <2>2, <3>1, HevcStart
  <2> QED BY <1>2, <2>1, <2>2
<1>6. LET w == ave_vp_fill(v)
      IN  /\ w.rc = cfg.rc
          /\ w.src_cfg = Bit(cfg.p010) /\ w.multi_me = Bit(TwoRefs(cfg))
          /\ w.mp_pass = cfg.mp
          /\ w.qp_limits[1] <= w.qp_limits[2] /\ w.qp_limits[2] <= 51
          /\ w.tables.n_recon = b.n_dpb /\ w.tables.n_coded = 4
          /\ w.tables.n_entropy = t.n_entropy /\ w.tables.n_src_nbr = t.n_src_nbr
          /\ w.tables.n_entropy_cols =
               IF t.n_entropy > 0
                 THEN Or(IF cfg.bufs THEN 1 ELSE t.n_entropy_cols, 1) ELSE 0
  BY <1>1, <1>2, <1>5, SharedStart
<1> HIDE DEF s, t
<1>7. /\ s.vp.rc = cfg.rc
      /\ s.vp.src_cfg = Bit(cfg.p010) /\ s.vp.multi_me = Bit(TwoRefs(cfg))
      /\ s.vp.mp_pass = cfg.mp
      /\ s.vp.qp_limits[1] <= s.vp.qp_limits[2] /\ s.vp.qp_limits[2] <= 51
      /\ s.vp.tables.n_recon = b.n_dpb /\ s.vp.tables.n_coded = 4
      /\ s.vp.tables.n_entropy = t.n_entropy /\ s.vp.tables.n_src_nbr = t.n_src_nbr
      /\ s.vp.tables.n_entropy_cols =
           IF t.n_entropy > 0
             THEN Or(IF cfg.bufs THEN 1 ELSE t.n_entropy_cols, 1) ELSE 0
  BY <1>5, <1>6
<1> QED BY <1>3, <1>4, <1>7 DEF s, t

\* Its references, its reordering and its tools fit each other.
LEMMA StartFits ==
  ASSUME b \in Buffers, StreamInv
  PROVE  LET s == StartCommand(b, latched)
         IN  ReferencesFit(s) /\ ReorderFits(s) /\ ToolsFit(s)
<1> DEFINE cfg == latched
           s == StartCommand(b, cfg)
<1>1. CfgInv(cfg) /\ StreamMem(b, cfg) /\ ~PassRefused(cfg) BY DEF StreamInv
<1>2. cfg.codec \in {"H264", "HEVC"} /\ cfg.p_refs \in 1 .. 2 /\ cfg.bframes \in 0 .. 2
  BY <1>1 DEF CfgInv, Sizing
<1>3. /\ s.codec = cfg.codec /\ s.refs = (IF TwoRefs(cfg) THEN 2 ELSE 1)
      /\ s.input_bitdepth = (IF cfg.p010 THEN 10 ELSE 8)
      /\ (s.reorders <=> cfg.bframes > 0)
      /\ \A i \in DOMAIN s.sets : Cardinality(s.sets[i]) <= s.refs
      /\ s.vp.rc = cfg.rc
      /\ s.vp.src_cfg = Bit(cfg.p010) /\ s.vp.multi_me = Bit(TwoRefs(cfg))
      /\ s.vp.tables.n_recon = (IF TwoRefs(cfg) THEN 3 ELSE 2)
  BY StreamStart
<1>4. cfg.codec = "H264" =>
        /\ s.profile = cfg.profile /\ s.bit_depth = 8
        /\ s.ref_spacing = (IF cfg.p_refs >= 2 THEN 2 ELSE 0)
        /\ s.bframes = (IF cfg.rc THEN cfg.bframes ELSE 0)
        /\ (s.entropy_coding_mode => cfg.profile # 66)
        /\ (s.mode_8x8 <=> cfg.profile >= 100)
  BY <1>1, AvcStart
<1>5. cfg.codec = "HEVC" =>
        /\ s.bit_depth = 10 => s.profile = 2
        /\ s.bframes = cfg.bframes
        /\ s.ref_spacing = (IF cfg.p_refs >= 2 /\ cfg.bframes = 0 THEN 2 ELSE 0)
        /\ s.vp.key_interval = 30
  BY <1>1, HevcStart
<1>6. cfg.p010 \in BOOLEAN
      /\ (cfg.codec = "H264" => cfg.profile \in Profiles /\ (cfg.bframes > 0 => cfg.profile # 66))
  BY <1>1 DEF CfgInv
<1> HIDE DEF s
<1>7. ReferencesFit(s)
  <2>1. s.vp.tables.n_recon > s.refs BY <1>3
  <2>2. s.codec = "HEVC" => s.vp.key_interval # 1 BY <1>3, <1>5
  <2>3. s.ref_spacing = 2 <=> cfg.p_refs = 2 /\ ~(s.codec = "HEVC" /\ cfg.bframes > 0)
    BY <1>2, <1>3, <1>4, <1>5
  <2>4. TwoRefs(cfg) => s.refs >= 2 /\ s.vp.multi_me = 1 BY <1>3 DEF Bit
  <2> QED BY <1>3, <2>1, <2>2, <2>3, <2>4 DEF ReferencesFit
<1>8. ReorderFits(s)
  <2>1. cfg.bframes > 0 => TwoRefs(cfg) BY DEF TwoRefs
  <2> QED BY <1>2, <1>3, <1>4, <1>5, <1>6, <2>1 DEF ReorderFits
<1>9. ToolsFit(s)
  <2>1. s.codec = "H264" /\ s.profile = 66 => ~s.entropy_coding_mode /\ ~s.mode_8x8
    BY <1>3, <1>4
  <2>2. (s.vp.src_cfg = 1) <=> (s.input_bitdepth = 10) BY <1>3, <1>6 DEF Bit
  <2>3. s.bit_depth = 10 => s.codec = "HEVC" /\ s.profile = 2 BY <1>2, <1>3, <1>4, <1>5
  <2> QED BY <2>1, <2>2, <2>3 DEF ToolsFit
<1> QED BY <1>7, <1>8, <1>9 DEF s

\* Its frames fit it.
LEMMA FramesFit ==
  ASSUME CtxInv, b \in Buffers, Streaming, StreamInv
  PROVE  ProcessFits(StartCommand(b, latched))
<1> DEFINE cfg == latched
           s == StartCommand(b, cfg)
           t == TablesOf(b, cfg)
<1>1. CfgInv(cfg) /\ StreamMem(b, cfg) /\ ~PassRefused(cfg) BY DEF StreamInv
<1>2. cfg.codec \in {"H264", "HEVC"} /\ Sizing(cfg) BY <1>1 DEF CfgInv, Sizing
<1>3. /\ s.codec = cfg.codec
      /\ s.input_bitdepth = (IF cfg.p010 THEN 10 ELSE 8)
      /\ s.vp.rc = cfg.rc /\ s.vp.mp_pass = cfg.mp
      /\ s.vp.tables.n_coded = 4
      /\ s.vp.tables.n_entropy = t.n_entropy
      /\ s.vp.tables.n_src_nbr = t.n_src_nbr
      /\ s.vp.tables.n_entropy_cols =
           IF t.n_entropy > 0
             THEN Or(IF cfg.bufs THEN 1 ELSE t.n_entropy_cols, 1) ELSE 0
  BY StreamStart
<1>4. cfg.mp = 2 => s.vp.key_interval = 4 /\ s.vp.rc
  <2>1. cfg.mp = 2 => cfg.codec # "HEVC" /\ cfg.rc BY <1>1 DEF PassRefused
  <2>2. cfg.codec = "H264" => s.vp.key_interval = (IF cfg.mp = 2 THEN 4 ELSE 1)
    BY <1>1, AvcStart
  <2> HIDE DEF s
  <2> QED BY <1>2, <1>3, <2>1, <2>2
<1>5. cfg.codec = "HEVC" => s.sets # << >> BY <1>1, HevcStart
<1>6. fmt.w = cfg.w /\ fmt.p010 = cfg.p010 /\ fmt.p010 \in BOOLEAN
  <2>1. << fmt.w, fmt.h, fmt.crop, fmt.codec, fmt.p010 >>
          = << cfg.w, cfg.h, cfg.crop, cfg.codec, cfg.p010 >>
    BY DEF CtxInv, LatchInv
  <2>2. fmt.p010 \in BOOLEAN BY DEF CtxInv, CtxTypes, Formats
  <2> QED BY <2>1, <2>2
<1>7. fmt.bpl = Align(cfg.w, 64) * (IF s.input_bitdepth = 10 THEN 2 ELSE 1)
  <2> HIDE DEF s
  <2>1. fmt.bpl = Align(fmt.w, 64) * (IF fmt.p010 THEN 2 ELSE 1) BY StrideFacts
  <2>2. (s.input_bitdepth = 10) <=> fmt.p010 BY <1>3, <1>6
  <2> QED BY <1>6, <2>1, <2>2
<1> HIDE DEF s, t
<1> SUFFICES ASSUME NEW n \in 0 .. 1, NEW a \in Asked(cfg, n)
             PROVE  LET f == ProcessWire(Process(b, n, a))
                    IN  /\ f.head.codec = s.codec /\ f.pic.out_index < s.vp.tables.n_coded
                        /\ << f.pic.n_entropy, f.pic.n_entropy_cols, f.pic.n_src_nbr >>
                             = << s.vp.tables.n_entropy, s.vp.tables.n_entropy_cols,
                                  s.vp.tables.n_src_nbr >>
                        /\ f.pic.in_stride
                             = Align(cfg.w, 64) * (IF s.input_bitdepth = 10 THEN 2 ELSE 1)
                        /\ f.pic.type = "AUTO" <=> s.vp.mp_pass = 2
                        /\ f.pic.type = "AUTO" => s.vp.key_interval > 1 /\ s.vp.rc
                        /\ f.st_rps_sps_flag => s.sets # << >>
  BY DEF ProcessFits, s
<1> DEFINE type == ProcessType(b, cfg, n, a[1], a[2])
           p == Process(b, n, a)
           f == ProcessWire(p)
<1>8. n \in Nat OBVIOUS
<1>9. type = "AUTO" <=> cfg.mp = 2 BY <1>2, <1>8, TypeFacts
<1>10. p = ProcessCommand(b, cfg, n, type, fmt.bpl) BY DEF Process
<1> HIDE DEF type, p
<1>11. /\ p.codec = cfg.codec /\ p.type = type
       /\ p.stride = fmt.bpl /\ p.index = n % 4 /\ p.n_entropy = t.n_entropy
       /\ p.n_entropy_cols = (IF cfg.bufs /\ t.n_entropy > 0 THEN 1 ELSE t.n_entropy_cols)
       /\ p.n_src_nbr = t.n_src_nbr
  <2> USE DEF t
  <2>1. LET x == ProcessCommand(b, cfg, n, type, fmt.bpl)
        IN  /\ x.codec = cfg.codec /\ x.type = type
            /\ x.stride = fmt.bpl /\ x.index = n % 4 /\ x.n_entropy = t.n_entropy
            /\ x.n_entropy_cols =
                 (IF cfg.bufs /\ t.n_entropy > 0 THEN 1 ELSE t.n_entropy_cols)
            /\ x.n_src_nbr = t.n_src_nbr
    BY <1>1, <1>8, ProcessFields
  <2> HIDE DEF t
  <2> QED BY <1>10, <2>1
<1>12. /\ f.head.codec = p.codec /\ f.pic.type = p.type
       /\ f.pic.in_stride = p.stride /\ f.pic.out_index = p.index
       /\ f.pic.n_entropy = p.n_entropy /\ f.pic.n_src_nbr = p.n_src_nbr
       /\ f.pic.n_entropy_cols =
            IF p.n_entropy > 0 THEN Or(p.n_entropy_cols, 1) ELSE 0
       /\ f.st_rps_sps_flag => p.codec = "HEVC" /\ p.type \in {"P", "B"}
  BY WireFields
<1> HIDE DEF f
<1>13. f.pic.out_index < s.vp.tables.n_coded
  <2>1. n % 4 < 4 OBVIOUS
  <2> QED BY <1>3, <1>11, <1>12, <2>1
<1>14. f.pic.n_entropy_cols = s.vp.tables.n_entropy_cols BY <1>3, <1>11, <1>12
<1>15. << f.pic.n_entropy, f.pic.n_entropy_cols, f.pic.n_src_nbr >>
         = << s.vp.tables.n_entropy, s.vp.tables.n_entropy_cols, s.vp.tables.n_src_nbr >>
  BY <1>3, <1>11, <1>12, <1>14
<1>16. f.pic.type = "AUTO" => s.vp.key_interval > 1 /\ s.vp.rc
  BY <1>4, <1>9, <1>11, <1>12
<1>17. f.st_rps_sps_flag => s.sets # << >> BY <1>5, <1>11, <1>12
<1>18. f.pic.type = "AUTO" <=> s.vp.mp_pass = 2 BY <1>3, <1>9, <1>11, <1>12
<1> QED BY <1>3, <1>7, <1>11, <1>12, <1>13, <1>15, <1>16, <1>17, <1>18 DEF f, p

\* The Start command of a running stream, whatever its controls and its picture, is one
\* whose parts the firmware's assertions and the frames' commands fit.
THEOREM FirmwareFits == Spec => []FirmwareTakesIt
<1>1. CtxInv /\ MemInv => FirmwareTakesIt
  <2> SUFFICES ASSUME CtxInv, MemInv, Streaming PROVE FirmwareTakesIt
    BY DEF FirmwareTakesIt
  <2>1. b \in Buffers /\ StreamInv BY DEF MemInv
  <2> DEFINE s == StartCommand(b, latched)
  <2>2. ReferencesFit(s) /\ ReorderFits(s) /\ ToolsFit(s) BY <2>1, StartFits
  <2>3. ProcessFits(s) BY <2>1, FramesFit
  <2>4. s.vp.qp_limits[1] <= s.vp.qp_limits[2] /\ s.vp.qp_limits[2] <= 51
    BY <2>1, StreamStart
  <2> HIDE DEF s
  <2> QED BY <2>2, <2>3, <2>4 DEF FirmwareTakesIt, s
<1> QED BY <1>1, Context, StreamsKeepMemory, PTL
-----------------------------------------------------------------------------
(* What a client asks for starts.                                          *)

\* At most one command that is not answered, or allocation that is refused: each Open
\* that is not answered leaves its command buffer in a table of eight.
OneFault == MaxFaults <= 1
\* No session is refused for what the driver alone decides, and a running one has the
\* places its frames' commands want.
RoomInv ==
  /\ refused \notin {"settings", "slots"}
  /\ cnt.faults <= MaxFaults
  /\ Streaming => Len(b.ipc) + Cardinality(Missing(b)) <= AVE_SESS_MAX_IPC

\* At boot.
LEMMA RoomInit == Init => RoomInv
<1> SUFFICES ASSUME Init PROVE RoomInv OBVIOUS
<1>1. refused = "no" BY DEF Init
<1>2. cnt.faults = 0 BY DEF Init
<1>3. MaxFaults \in Nat BY BoundsAssumption
<1>4. ~Streaming BY DEF Init, Streaming
<1> QED BY <1>1, <1>2, <1>3, <1>4 DEF RoomInv

\* What leaves the session's memory alone.
LEMMA RoomKept ==
  ASSUME RoomInv, UNCHANGED << b, latched >>, cnt'.faults = cnt.faults,
         refused' \notin {"settings", "slots"}
  PROVE  RoomInv'
BY DEF RoomInv, Streaming, Missing

\* A setting is changed.
LEMMA RoomSet == ASSUME MemInv, RoomInv, Set PROVE RoomInv'
<1>1. cnt' = [cnt EXCEPT !.sets = @ + 1] /\ UNCHANGED << b, latched, refused >>
  BY DEF Set, Memory
<1>2. cnt'.faults = cnt.faults BY <1>1 DEF MemInv, Counts
<1>3. refused' \notin {"settings", "slots"} BY <1>1 DEF RoomInv
<1> QED BY <1>1, <1>2, <1>3, RoomKept

\* Buffers and queues.
LEMMA RoomQueues ==
  ASSUME RoomInv, UNCHANGED << b, latched, cnt, refused >> PROVE RoomInv'
<1>1. refused' \notin {"settings", "slots"} BY DEF RoomInv
<1> QED BY <1>1, RoomKept

\* STREAMON is refused, but not for the settings.
LEMMA RoomRefused ==
  ASSUME CtxInv, RoomInv, NEW t \in {"out", "cap"}, StreamOnRefused(t) PROVE RoomInv'
<1>1. /\ UNCHANGED << b, latched, cnt >>
      /\ Unfit \/ fw_hung \/ client \/ EncRefuses(EncCfg("none"))
      /\ refused' = IF Unfit THEN "format" ELSE IF fw_hung THEN "hung"
                    ELSE IF client THEN "busy" ELSE "settings"
  BY DEF StreamOnRefused
<1>2. Unfit \/ fw_hung \/ client BY <1>1, NeverRefused
<1>3. refused' \notin {"settings", "slots"} BY <1>1, <1>2
<1> QED BY <1>1, <1>3, RoomKept

\* Between streams the table of command buffers has room for the next.
LEMMA RoomThere ==
  ASSUME OneFault, MemInv, RoomInv, ~client, NEW deny
  PROVE  LET o == Opened(deny)
         IN  /\ o \in Buffers /\ Len(b.ipc) < AVE_SESS_MAX_IPC
             /\ Len(o.ipc) \in Nat /\ Len(o.ipc) <= 3
<1> DEFINE o == Opened(deny)
<1>1. o \in Buffers /\ Len(o.ipc) <= Len(b.ipc) + 1 BY OpenedFacts
<1>2. Len(b.ipc) <= 1 + cnt.faults /\ cnt.faults \in Nat /\ b \in Buffers
  BY DEF MemInv, Counts
<1> HIDE DEF o
<1>3. Len(b.ipc) \in Nat /\ Len(o.ipc) \in Nat BY <1>1, <1>2, TableTypes
<1>4. cnt.faults <= 1
  <2>1. cnt.faults <= MaxFaults /\ MaxFaults <= 1 /\ MaxFaults \in Nat
    BY BoundsAssumption DEF RoomInv, OneFault
  <2> QED BY <1>2, <2>1
<1>5. Len(b.ipc) <= 2 /\ Len(o.ipc) <= 3 BY <1>1, <1>2, <1>3, <1>4
<1> QED BY <1>1, <1>3, <1>5 DEF o, AVE_SESS_MAX_IPC

\* Open is not sent for want of memory, or not answered.
LEMMA RoomOpenFails ==
  ASSUME OneFault, MemInv, RoomInv, NEW t \in {"out", "cap"}, OpenFails(t) PROVE RoomInv'
<1>1. ~client /\ latched' = latched BY DEF OpenFails, Opens
<1>2. PICK deny \in Denials :
        LET sent == Has(Opened(deny), << "open", 0 >>)
        IN  /\ refused' = IF sent THEN "firmware"
                          ELSE IF deny # {} THEN "memory" ELSE "slots"
            /\ Spend(Cardinality(deny) + Bit(sent), 1, 0)
  BY DEF OpenFails
<1> DEFINE sent == Has(Opened(deny), << "open", 0 >>)
           f == Cardinality(deny) + Bit(sent)
<1>3. deny = {} => sent BY <1>1, OpenedFacts, RoomThere
<1>4. Spend(f, 1, 0) BY <1>2
<1>5. f \in Nat
  <2>1. Bit(sent) \in {0, 1} BY DEF Bit
  <2> QED BY <2>1, DenialFacts
<1>6. refused' \notin {"settings", "slots"} BY <1>2, <1>3
<1> HIDE DEF sent, f
<1>7. cnt'.faults <= MaxFaults BY <1>4, <1>5, SpendFacts DEF MemInv
<1>8. ~Streaming' BY <1>1 DEF MemInv, StreamInv, Streaming
<1> QED BY <1>6, <1>7, <1>8 DEF RoomInv

\* The tables, Start and its answer: a session that was not refused memory, nor an answer,
\* starts.
LEMMA RoomStart ==
  ASSUME OneFault, CtxInv, MemInv, RoomInv, NEW t \in {"out", "cap"}, StartSession(t)
  PROVE  RoomInv'
<1>1. ~client /\ ~Unfit BY DEF StartSession, Opens
<1>2. PICK lab \in Labs :
        \E cfg \in {EncCfg(lab)}, deny \in Denials :
          /\ Has(Opened(deny), <<"open", 0>>) /\ AsksFor(cfg, deny)
          /\ \E p \in {Prepared(Opened(deny), cfg, deny)}, answered, closes \in BOOLEAN :
               /\ p.ok \/ answered
               /\ p.ok /\ answered => closes
               /\ Spend(Cardinality(deny) + Bit(~answered) + Bit(~closes), 1, 0)
               /\ \/ p.ok /\ answered /\ Started(t, p, cfg)
                  \/ /\ ~(p.ok /\ answered)
                     /\ Stop(p.b, told \cup (IF p.ok THEN PublishedAtStart(p.b) ELSE {}),
                             closes)
                     /\ refused' = Reason(p, cfg, deny) /\ UNCHANGED q
  BY Zenon DEF StartSession
<1>3. PICK cfg \in {EncCfg(lab)}, deny \in Denials :
          \E p \in {Prepared(Opened(deny), cfg, deny)}, answered, closes \in BOOLEAN :
             /\ p.ok \/ answered
             /\ p.ok /\ answered => closes
             /\ Spend(Cardinality(deny) + Bit(~answered) + Bit(~closes), 1, 0)
             /\ \/ p.ok /\ answered /\ Started(t, p, cfg)
                \/ /\ ~(p.ok /\ answered)
                   /\ Stop(p.b, told \cup (IF p.ok THEN PublishedAtStart(p.b) ELSE {}),
                           closes)
                   /\ refused' = Reason(p, cfg, deny) /\ UNCHANGED q
  BY <1>2, Zenon
<1>4. PICK p \in {Prepared(Opened(deny), cfg, deny)},
           answered \in BOOLEAN, closes \in BOOLEAN :
             /\ p.ok \/ answered
             /\ p.ok /\ answered => closes
             /\ Spend(Cardinality(deny) + Bit(~answered) + Bit(~closes), 1, 0)
             /\ \/ p.ok /\ answered /\ Started(t, p, cfg)
                \/ /\ ~(p.ok /\ answered)
                   /\ Stop(p.b, told \cup (IF p.ok THEN PublishedAtStart(p.b) ELSE {}),
                           closes)
                   /\ refused' = Reason(p, cfg, deny) /\ UNCHANGED q
  BY <1>3, Zenon
<1> DEFINE o == Opened(deny)
           d == p.b
           f == Cardinality(deny) + Bit(~answered) + Bit(~closes)
<1>5. cfg = EncCfg(lab) /\ p = Prepared(o, cfg, deny) OBVIOUS
<1>6. CfgInv(cfg) /\ Sizing(cfg) BY <1>1, <1>5, EncCfgFacts DEF CfgInv
<1>7. o \in Buffers /\ Len(o.ipc) \in Nat /\ Len(o.ipc) <= 3 BY <1>1, RoomThere
<1>8. Len(o.dma) = 1 /\ o.slice = {} BY <1>1, OpenedFacts DEF Idle
<1>9. Spend(f, 1, 0) BY <1>4
<1>10. f \in Nat
  <2>1. Bit(~answered) \in {0, 1} /\ Bit(~closes) \in {0, 1} BY DEF Bit
  <2> QED BY <2>1, DenialFacts
<1> HIDE DEF o
<1>11. Len(o.ipc) < AVE_SESS_MAX_IPC BY <1>7 DEF AVE_SESS_MAX_IPC
<1>12. /\ d \in Buffers /\ Len(d.ipc) <= Len(o.ipc) + 1
       /\ deny = {} /\ ~PassRefused(cfg) =>
            /\ StreamMem(d, cfg) /\ Given(d)
            /\ RefsSuffice(d, cfg) /\ BuilderAccepts(d, cfg) => p.ok
  BY <1>5, <1>6, <1>7, <1>8, <1>11, PreparedFacts
<1>13. deny = {} /\ ~PassRefused(cfg) => p.ok
  <2> SUFFICES ASSUME deny = {}, ~PassRefused(cfg) PROVE p.ok OBVIOUS
  <2>1. d \in Buffers /\ StreamMem(d, cfg) /\ d.entropy # None BY <1>12 DEF Given
  <2> HIDE DEF d
  <2>2. RefsSuffice(d, cfg) /\ BuilderAccepts(d, cfg) BY <1>6, <2>1, StartAccepted
  <2> QED BY <1>12, <2>2 DEF d
<1> HIDE DEF f
<1>14. cnt'.faults <= MaxFaults BY <1>9, <1>10, SpendFacts DEF MemInv
<1>15. CASE p.ok /\ answered /\ Started(t, p, cfg)
  <2>1. b' = d /\ refused' = "no" BY <1>15 DEF Started
  <2> HIDE DEF d
  <2>2. Cardinality(Missing(d)) \in Nat /\ Cardinality(Missing(d)) <= 4 BY MissingFacts
  <2>3. Len(d.ipc) \in Nat BY <1>12, TableTypes
  <2>4. Len(d.ipc) + Cardinality(Missing(d)) <= AVE_SESS_MAX_IPC
    BY <1>7, <1>12, <2>2, <2>3 DEF AVE_SESS_MAX_IPC
  <2>5. Len(b'.ipc) + Cardinality(Missing(b)') <= AVE_SESS_MAX_IPC
    BY <2>1, <2>4 DEF Missing
  <2> QED BY <1>14, <2>1, <2>5 DEF RoomInv
<1>16. CASE ~(p.ok /\ answered) /\ latched' = NoSession /\ refused' = Reason(p, cfg, deny)
  <2>1. refused' \notin {"settings", "slots"}
    <3>1. p.ok \/ PassRefused(cfg) \/ deny # {} BY <1>13
    <3> QED BY <1>16, <3>1 DEF Reason
  <2>2. ~Streaming' BY <1>16 DEF Streaming
  <2> QED BY <1>14, <2>1, <2>2 DEF RoomInv
<1> QED BY <1>4, <1>15, <1>16 DEF Stop
\* A frame: its command is built, unless memory is refused it, and passes the builder.
LEMMA RoomEncode ==
  ASSUME CtxInv, MemInv, RoomInv, Encode PROVE RoomInv'
<1>1. PICK deny \in Denials, answered \in BOOLEAN, a \in Asked(latched, cnt.frames) :
    LET n == cnt.frames
        idx == n % AVE_SESS_FRAMES_MAX
        p == ave_session_process_build(b, idx, deny)
        cmd == Process(p.b, n, a)
        sent == p.ok /\ AcceptsProcess(cmd)
    IN  /\ Streaming /\ ~fw_hung
        /\ q["out"].queued /\ q["cap"].queued
        /\ n < MaxFrames
        /\ sent \/ answered
        /\ deny # {} => ~p.ok
        /\ b' = [p.b EXCEPT !.last_idr =
                           IF p.ok /\ cmd.codec = "HEVC" /\ cmd.type = "IDR"
                             THEN n ELSE @]
        /\ told' = IF sent THEN told \cup PublishedInProcess(p.b, idx) ELSE told
        /\ fw_hung' = ~answered
        /\ refused' = IF sent \/ deny # {} THEN refused
                      ELSE IF p.ok THEN "settings" ELSE "slots"
        /\ Spend(Cardinality(deny) + Bit(~answered), 0, Bit(sent /\ answered))
        /\ UNCHANGED << fmt, ctrl, q, latched, client >>
  BY Zenon DEF Encode
<1> DEFINE n == cnt.frames
           idx == n % AVE_SESS_FRAMES_MAX
           p == ave_session_process_build(b, idx, deny)
           d == p.b
           cmd == Process(d, n, a)
           sent == p.ok /\ AcceptsProcess(cmd)
           idr == IF p.ok /\ cmd.codec = "HEVC" /\ cmd.type = "IDR" THEN n ELSE d.last_idr
           f == Cardinality(deny) + Bit(~answered)
           done == Bit(sent /\ answered)
<1>2. Streaming /\ latched' = latched /\ Spend(f, 0, done) BY <1>1
<1>3. refused' = IF sent \/ deny # {} THEN refused
                 ELSE IF p.ok THEN "settings" ELSE "slots"
  BY <1>1
<1>4. b' = [d EXCEPT !.last_idr = idr] BY <1>1
<1>5. StreamInv /\ b \in Buffers /\ cnt \in Counts BY <1>2 DEF MemInv
<1>6. n \in Nat /\ a \in Asked(latched, n) BY <1>5 DEF Counts
<1>7. f \in Nat
  <2>1. Bit(~answered) \in {0, 1} BY DEF Bit
  <2> QED BY <2>1, DenialFacts
<1>8. done \in {0, 1} BY DEF Bit
<1> HIDE DEF done, f
<1>9. cnt'.faults <= MaxFaults BY <1>2, <1>5, <1>7, <1>8, SpendFacts
<1> HIDE DEF n
<1>10. idx \in Slots BY <1>6 DEF Slots, AVE_SESS_FRAMES_MAX
<1> HIDE DEF idx
<1>11. AllocInv(b) BY <1>5 DEF StreamInv
<1>12. Len(b.ipc) + Cardinality(Missing(b)) <= AVE_SESS_MAX_IPC BY <1>2 DEF RoomInv
<1>13. Len(b.dma) + Bit(b.pic = None) <= AVE_SESS_MAX_DMA
  <2>1. Len(b.dma) + Bit(b.pic = None) <= 31 BY <1>5 DEF StreamInv
  <2>2. Len(b.dma) + Bit(b.pic = None) \in Int
    <3>1. Len(b.dma) \in Nat BY <1>5, TableTypes
    <3> QED BY <3>1 DEF Bit
  <2> QED BY <2>1, <2>2 DEF AVE_SESS_MAX_DMA
<1>14. /\ d \in Buffers /\ Grows(b, d) /\ SameTables(b, d)
       /\ d.coded = b.coded /\ d.coloc = b.coloc /\ d.mp = b.mp
       /\ d.slice = b.slice /\ d.xc = b.xc
       /\ Len(d.ipc) + Cardinality(Missing(d)) <= Len(b.ipc) + Cardinality(Missing(b))
       /\ deny = {} => p.ok
  BY <1>5, <1>10, <1>11, <1>12, <1>13, BuildFacts
<1> HIDE DEF p
<1>15. d \in Buffers BY <1>14
<1> HIDE DEF d
<1>16. StreamMem(d, latched) BY <1>5, <1>14, <1>15, StreamLater DEF StreamInv
<1>17. AcceptsProcess(cmd)
  <2>1. CfgInv(latched) BY <1>5 DEF StreamInv
  <2> QED BY <1>6, <1>15, <1>16, <2>1, FrameAccepted
<1>18. refused' = refused BY <1>3, <1>14, <1>17
<1> HIDE DEF idr
<1>19. b'.ipc = d.ipc /\ b'.proc = d.proc BY <1>4, <1>15 DEF Buffers
<1>20. Missing(b)' = Missing(d) BY <1>19 DEF Missing
<1>21. Len(b'.ipc) + Cardinality(Missing(b)') <= AVE_SESS_MAX_IPC
  <2>1. Cardinality(Missing(d)) \in Nat /\ Cardinality(Missing(b)) \in Nat BY MissingFacts
  <2>2. Len(d.ipc) \in Nat /\ Len(b.ipc) \in Nat BY <1>5, <1>15, TableTypes
  <2> QED BY <1>12, <1>14, <1>19, <1>20, <2>1, <2>2 DEF AVE_SESS_MAX_IPC
<1> QED BY <1>9, <1>18, <1>21 DEF RoomInv

\* STREAMOFF.
LEMMA RoomStreamOff ==
  ASSUME MemInv, RoomInv, NEW t \in {"out", "cap"}, StreamOff(t) PROVE RoomInv'
<1>1. refused' = refused BY DEF StreamOff
<1>2. CASE ~Streaming
  <2>1. UNCHANGED << b, latched, cnt >> BY <1>2 DEF StreamOff
  <2> QED BY <1>1, <2>1, RoomQueues
<1>3. CASE Streaming /\ fw_hung
  <2>1. latched' = NoSession /\ cnt' = cnt BY <1>3 DEF StreamOff
  <2> QED BY <1>1, <2>1 DEF RoomInv, Streaming
<1>4. CASE Streaming /\ ~fw_hung
  <2>1. PICK closes \in BOOLEAN : Stop(b, told, closes) /\ Spend(Bit(~closes), 0, 0)
    BY <1>4 DEF StreamOff
  <2>2. Bit(~closes) \in Nat BY DEF Bit
  <2>3. cnt'.faults <= MaxFaults BY <2>1, <2>2, SpendFacts DEF MemInv
  <2>4. latched' = NoSession BY <2>1 DEF Stop
  <2> QED BY <1>1, <2>3, <2>4 DEF RoomInv, Streaming
<1> QED BY <1>2, <1>3, <1>4

\* Every step.
LEMMA RoomNext ==
  ASSUME OneFault, CtxInv, MemInv, RoomInv, [Next]_vars PROVE RoomInv'
<1>1. ASSUME NEW s \in Sizes, NEW p010 \in BOOLEAN, SFmtOut(s, p010) PROVE RoomInv'
  BY <1>1, RoomSet DEF SFmtOut
<1>2. ASSUME NEW codec \in {"H264", "HEVC"}, NEW floor \in Floors,
             SFmtCap(codec, floor)
      PROVE  RoomInv'
  BY <1>2, RoomSet DEF SFmtCap
<1>3. ASSUME NEW s \in Sizes, SSelection(s) PROVE RoomInv' BY <1>3, RoomSet DEF SSelection
<1>4. CASE SCtrl BY <1>4, RoomSet DEF SCtrl
<1>5. ASSUME NEW t \in {"out", "cap"}, NEW n \in 0 .. 1, ReqBufs(t, n) PROVE RoomInv'
  BY <1>5, RoomQueues DEF ReqBufs, Memory
<1>6. ASSUME NEW t \in {"out", "cap"}, CreateBufs(t) PROVE RoomInv'
  BY <1>6, RoomQueues DEF CreateBufs, Memory
<1>7. ASSUME NEW t \in {"out", "cap"}, Qbuf(t) PROVE RoomInv'
  BY <1>7, RoomQueues DEF Qbuf, Memory
<1>8. ASSUME NEW t \in {"out", "cap"}, StreamOnFirst(t) PROVE RoomInv'
  BY <1>8, RoomQueues DEF StreamOnFirst, Memory
<1>9. ASSUME NEW t \in {"out", "cap"}, StreamOnRefused(t) PROVE RoomInv'
  BY <1>9, RoomRefused
<1>10. CASE UNCHANGED vars BY <1>10, RoomQueues DEF vars
<1>11. ASSUME NEW t \in {"out", "cap"},
              OpenFails(t) \/ StartSession(t) \/ StreamOff(t)
       PROVE  RoomInv'
  BY <1>11, RoomOpenFails, RoomStart, RoomStreamOff
<1>12. CASE Reboot
  <2>1. ~Streaming /\ UNCHANGED << latched, refused, cnt >> BY <1>12 DEF Reboot
  <2> QED BY <2>1 DEF RoomInv, Streaming
<1> QED BY <1>1, <1>2, <1>3, <1>4, <1>5, <1>6, <1>7, <1>8, <1>9, <1>10, <1>11, <1>12,
           RoomEncode
        DEF Next

\* Whatever a client sets, and in whatever order, the session it asks for is refused
\* neither for its settings nor for a place in the driver's tables, and a running stream
\* can build every command it will send.
THEOREM NegotiatedStreams == OneFault => (Spec => []NegotiatedStarts)
<1> SUFFICES ASSUME OneFault PROVE Spec => []NegotiatedStarts OBVIOUS
<1>1. CtxInv /\ MemInv /\ RoomInv => NegotiatedStarts
  <2> SUFFICES ASSUME CtxInv, MemInv, RoomInv PROVE NegotiatedStarts OBVIOUS
  <2>1. refused \notin {"settings", "slots"} BY DEF RoomInv
  <2>2. ASSUME Streaming
        PROVE  /\ Len(b.ipc) + Cardinality({i \in Slots : b.proc[i] = None})
                    <= AVE_SESS_MAX_IPC
               /\ Len(b.dma) + Bit(b.pic = None) <= AVE_SESS_MAX_DMA
               /\ \A n \in 0 .. AVE_SESS_FRAMES_MAX : \A a \in Asked(latched, n) :
                    AcceptsProcess(Process(b, n, a))
    <3>1. b \in Buffers /\ StreamInv BY <2>2 DEF MemInv
    <3>2. Len(b.dma) + Bit(b.pic = None) <= AVE_SESS_MAX_DMA
      <4>1. Len(b.dma) + Bit(b.pic = None) <= 31 BY <3>1 DEF StreamInv
      <4>2. Len(b.dma) + Bit(b.pic = None) \in Int
        <5>1. Len(b.dma) \in Nat BY <3>1, TableTypes
        <5> QED BY <5>1 DEF Bit
      <4> QED BY <4>1, <4>2 DEF AVE_SESS_MAX_DMA
    <3>3. ASSUME NEW n \in 0 .. AVE_SESS_FRAMES_MAX, NEW a \in Asked(latched, n)
          PROVE  AcceptsProcess(Process(b, n, a))
      <4>1. n \in Nat BY DEF AVE_SESS_FRAMES_MAX
      <4>2. CfgInv(latched) /\ StreamMem(b, latched) BY <3>1 DEF StreamInv
      <4> QED BY <3>1, <4>1, <4>2, FrameAccepted
    <3>4. Len(b.ipc) + Cardinality({i \in Slots : b.proc[i] = None}) <= AVE_SESS_MAX_IPC
      BY <2>2 DEF RoomInv, Missing
    <3> QED BY <3>2, <3>3, <3>4
  <2> QED BY <2>1, <2>2 DEF NegotiatedStarts
<1>2. Init => RoomInv BY RoomInit
<1>3. CtxInv /\ MemInv /\ RoomInv /\ [Next]_vars => RoomInv' BY RoomNext
<1> QED BY <1>1, <1>2, <1>3, Context, StreamsKeepMemory, PTL DEF Spec
=============================================================================
