--------------------------- MODULE GopReferences ---------------------------
(***************************************************************************)
(* What the frames of a B stream refer to.  The host puts the short-term   *)
(* reference sets in the SPS once (driver/ave_cmd.c); the firmware picks   *)
(* one for each frame by its distance from the IDR, not by what the host   *)
(* says of the frame (docs/81-bframes.md, Appendix B).  So the planner's   *)
(* numbers, the host's sets and the firmware's table must agree, or a      *)
(* frame is coded against a picture that is not there.                     *)
(***************************************************************************)
EXTENDS GopPlanner, HevcSets

\* The firmware's choice, d frame numbers after the IDR.
SetRpsVars(bframes, d) ==
  LET q == d \div (bframes + 1)
      r == d % (bframes + 1)
  IN  IF bframes = 1
        THEN CASE r = 1 -> IF d = 1 THEN 3 ELSE IF d = 3 THEN 5 ELSE 1
               [] r = 0 -> IF d > 7 THEN 0 ELSE d
        ELSE CASE r = 0 -> IF d >= 12 THEN 0 ELSE 12 - d
               [] r > 0 -> (IF d < 6 THEN 3 * (2 - q) ELSE 0) + r
SetRpsVarsIppp(d) == IF d <= 3 THEN d ELSE 0

\* max_num_ref_frames of a B stream.
hevc_refs == 2

-----------------------------------------------------------------------------
Anchors == {c \in coded : c.type # "B"}

\* A batch is coded from its end: the anchor before the Bs.
CodedBefore(a, c) == a.batch < c.batch \/ (a.batch = c.batch /\ c.type = "B")

\* a is still in the DPB when c is coded.
Kept(a, c) ==
  Cardinality({x \in Anchors : CodedBefore(x, c) /\ x.batch > a.batch})
    < hevc_refs

\* Every frame but an IDR is coded from a set the SPS has, and every picture
\* of the set is an anchor of the same IDR period that was coded before and
\* has not left the DPB: the sets of ave_hevc_b_set(), the jump of
\* fn_anchor in ave_gop_minigop() and the firmware's table fit each other,
\* however short a batch a key frame or a drain leaves (driver/ave_gop.h:128,
\* driver/ave_cmd.c:870, 1188).  A stream without B frames, numbered one by
\* one, never refers back past its IDR.
ReferencesExist ==
  /\ \A c \in {x \in coded : x.type # "IDR"} :
       LET chosen == SetRpsVars(plan.nb, POC(c))
       IN  /\ chosen < ave_hevc_b_sets(plan.nb)
           /\ \A delta \in ave_hevc_b_set(plan.nb, chosen) :
                \E a \in Anchors : /\ a.fn = c.fn + delta /\ a.idr = c.idr
                                   /\ CodedBefore(a, c) /\ Kept(a, c)
  /\ \A refs \in 1 .. 2, d \in 1 .. MaxSources :
       /\ SetRpsVarsIppp(d) < IPPP_SETS
       /\ \A delta \in ippp_set(refs, SetRpsVarsIppp(d)) : d + delta >= 0
=============================================================================
