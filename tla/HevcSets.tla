------------------------------ MODULE HevcSets ------------------------------
(* The short-term reference sets of the HEVC SPS (driver/ave_cmd.c).  A set *)
(* is the POC distances of the pictures a frame may refer to.               *)
EXTENDS Integers

\* ave_hevc_b_sets()
ave_hevc_b_sets(bframes) == IF bframes = 1 THEN 8 ELSE 10

FarAnchorBug(bframes, idx) ==
  LET g == bframes + 1 IN IF idx % g = 0 THEN {-g} ELSE {-g, g - (idx % g)}
\* ave_hevc_b_set(): a P refers to the anchor g before it, a B to the
\* anchors on either side.
ave_hevc_b_set(bframes, idx) ==
  LET g == bframes + 1
      r == idx % g
  IN  IF r = 0 THEN {-g} ELSE {-r, g - r}

\* Without B frames: one reference, or two except after the IDR.
IPPP_SETS == 4
ippp_set(refs, idx) ==
  IF refs = 2 /\ idx # 1 THEN {-1, -2} ELSE {-1}
=============================================================================
