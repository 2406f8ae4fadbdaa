----------------------------- MODULE GopProofs -----------------------------
(***************************************************************************)
(* The planner's invariants hold for every GOP size, either B-frame count  *)
(* and any length of stream.  Inv is the inductive invariant: what relates *)
(* the planner's counters to the frames already sent.                      *)
(*                                                                         *)
(* And in every B stream the firmware codes each frame from a set the SPS  *)
(* has, against anchors it still holds.  Inv does not say where an anchor  *)
(* is; RefInv does: the anchor a frame refers back to closed the batch     *)
(* before its own, whatever its number.                                    *)
(***************************************************************************)
EXTENDS GopReferences, TLAPS, FiniteSetTheorems

\* The planner's counters: what is held fits a mini-GOP, dist really is the
\* distance of the next source from the last IDR, and the last anchor is on
\* the reference grid of that IDR.
Counters ==
  /\ plan.n_held <= plan.nb
  /\ ~plan.started => planned = 0 /\ plan.n_held = 0 /\ plan.dist = 0
                      /\ coded = {} /\ plan.fn_anchor = 0
  /\ plan.started => /\ idr.disp + plan.dist = planned
                     /\ plan.dist >= 1 + plan.n_held
                     /\ idr.fn <= plan.fn_anchor
                     /\ (plan.fn_anchor - idr.fn) % (plan.nb + 1) = 0
  /\ plan.gop > 0 => plan.dist <= plan.gop

\* Every frame sent lies below the frontier: the oldest held source, the
\* last anchor's number, the last IDR.
Frontier ==
  \A c \in coded :
    /\ c.disp < planned - plan.n_held
    /\ c.fn <= plan.fn_anchor
    /\ c.batch < batches
    /\ c.idr.fn <= c.fn
    /\ c.type = "B" => c.disp + 1 < planned - plan.n_held

\* The inductive invariant of the planner.
Inv == /\ TypeOK /\ Counters /\ Frontier
       /\ EverySourceOnce /\ NumbersFollowDisplay /\ ReferenceGrid
       /\ BHasAnchor /\ NoBBeforeIdr /\ GopBound

-----------------------------------------------------------------------------
(* What a batch must be for the history to stay in order when it is sent.  *)

\* The display number of the oldest held frame.
Oldest == planned - plan.n_held

\* Two frames are in the same order by display and by frame number.
InOrder(c, d) == /\ c.disp < d.disp <=> c.fn < d.fn
                 /\ c.disp = d.disp => c = d

\* The type of a frame follows from its distance from the IDR.
Grid(c, nb) ==
  /\ c.type = "P" => POC(c) % (nb + 1) = 0
  /\ c.type = "B" => POC(c) % (nb + 1) # 0
  /\ c.type = "IDR" => POC(c) = 0

\* S has the P frame that B frame b is coded after.
AnchorIn(b, S) ==
  \E p \in S : /\ p.type = "P" /\ p.batch = b.batch
               /\ p.disp > b.disp /\ p.fn > b.fn

\* S is the frames of one or two batches, for sources Oldest .. hi - 1,
\* numbered at most f, in batches before b.
Extension(S, hi, f, b) ==
  /\ S \subseteq CodedFrame
  /\ \A d \in Oldest .. hi - 1 : \E c \in S : c.disp = d
  /\ \A c \in S : /\ Oldest <= c.disp /\ c.disp < hi
                  /\ c.fn <= f /\ c.batch < b /\ c.idr.fn <= c.fn
                  /\ Grid(c, plan.nb)
                  /\ plan.gop > 0 => c.disp - c.idr.disp < plan.gop
                  /\ c.type = "B" => c.disp + 1 < hi /\ AnchorIn(c, S)
  /\ \A c, d \in S : InOrder(c, d)
  /\ \A c, d \in S : c.type = "B" /\ d.type = "IDR" => d.disp # c.disp + 1
  /\ \A c \in coded, d \in S : c.fn < d.fn

\* A step that sends an Extension keeps everything the history promises.
LEMMA ExtendHistory ==
  ASSUME Inv, TypeOK', NEW S,
         coded' = coded \cup S,
         plan'.nb = plan.nb, plan'.gop = plan.gop,
         plan.fn_anchor <= plan'.fn_anchor, batches <= batches',
         Oldest <= planned' - plan'.n_held,
         Extension(S, planned' - plan'.n_held, plan'.fn_anchor, batches')
  PROVE  /\ Frontier' /\ EverySourceOnce' /\ NumbersFollowDisplay'
         /\ ReferenceGrid' /\ BHasAnchor' /\ NoBBeforeIdr' /\ GopBound'
<1> DEFINE hi == planned' - plan'.n_held
<1>1. /\ planned \in Nat /\ plan.n_held \in Nat /\ plan.nb \in Nat
      /\ planned' \in Nat /\ plan'.n_held \in Nat /\ plan'.fn_anchor \in Nat
      /\ plan.fn_anchor \in Nat /\ batches \in Nat /\ batches' \in Nat
      /\ plan.gop \in Nat
  BY DEF Inv, TypeOK, GopState, B_MAX
<1>2. /\ \A c \in coded : /\ c.disp \in Nat /\ c.fn \in Nat /\ c.batch \in Nat
                          /\ c.idr.fn \in Nat /\ c.idr.disp \in Nat
      /\ \A c \in S : /\ c.disp \in Nat /\ c.fn \in Nat /\ c.batch \in Nat
                      /\ c.idr.fn \in Nat /\ c.idr.disp \in Nat
  BY DEF Inv, TypeOK, CodedFrame, Extension
<1>3. /\ \A c \in S : /\ Oldest <= c.disp /\ c.disp < hi
                      /\ c.fn <= plan'.fn_anchor /\ c.batch < batches'
                      /\ c.idr.fn <= c.fn
                      /\ c.type = "B" => c.disp + 1 < hi
      /\ \A c, d \in S : InOrder(c, d)
      /\ \A c \in coded, d \in S : c.fn < d.fn
  BY DEF Extension
<1>4. \A c \in coded : /\ c.disp < Oldest /\ c.fn <= plan.fn_anchor
                       /\ c.batch < batches /\ c.idr.fn <= c.fn
                       /\ c.type = "B" => c.disp + 1 < Oldest
  BY DEF Inv, Frontier, Oldest
<1>5. Oldest \in Int /\ hi \in Int
  BY <1>1 DEF Oldest
<1>6. Frontier'
  BY <1>1, <1>2, <1>3, <1>4, <1>5 DEF Frontier
<1>7. EverySourceOnce'
  <2>1. \A d \in 0 .. hi - 1 : \E c \in coded' : c.disp = d
    <3> SUFFICES ASSUME NEW d \in 0 .. hi - 1 PROVE \E c \in coded' : c.disp = d
      OBVIOUS
    <3>1. CASE d < Oldest
      BY <3>1, <1>5 DEF Inv, EverySourceOnce, Oldest
    <3>2. CASE d >= Oldest
      BY <3>2, <1>5 DEF Extension
    <3> QED BY <3>1, <3>2, <1>5
  <2>2. \A c \in coded' : c.disp < hi
    BY <1>1, <1>2, <1>3, <1>4, <1>5
  <2>3. \A c, d \in coded' : c.disp = d.disp => c = d
    <3>1. \A c, d \in coded : c.disp = d.disp => c = d
      BY DEF Inv, EverySourceOnce
    <3>2. \A c, d \in S : c.disp = d.disp => c = d
      BY <1>3 DEF InOrder
    <3> QED BY <1>2, <1>3, <1>4, <1>5, <3>1, <3>2
  <2> QED BY <2>1, <2>2, <2>3 DEF EverySourceOnce
<1>8. NumbersFollowDisplay'
  <2>1. \A c, d \in coded : c.disp < d.disp <=> c.fn < d.fn
    BY DEF Inv, NumbersFollowDisplay
  <2>2. \A c, d \in S : c.disp < d.disp <=> c.fn < d.fn
    BY <1>3 DEF InOrder
  <2>3. \A c \in coded, d \in S : c.disp < d.disp /\ c.fn < d.fn
    BY <1>2, <1>3, <1>4, <1>5
  <2> QED BY <1>2, <2>1, <2>2, <2>3 DEF NumbersFollowDisplay
<1>9. ReferenceGrid'
  <2>1. \A c \in coded' : Grid(c, plan.nb)
    BY DEF Inv, ReferenceGrid, Extension, Grid
  <2> QED BY <2>1 DEF ReferenceGrid, Grid, POC
<1>10. BHasAnchor'
  <2>1. \A b \in coded : b.type = "B" => AnchorIn(b, coded)
    BY DEF Inv, BHasAnchor, AnchorIn
  <2>2. \A b \in S : b.type = "B" => AnchorIn(b, S)
    BY DEF Extension
  <2> QED BY <2>1, <2>2 DEF BHasAnchor, AnchorIn
<1>11. NoBBeforeIdr'
  <2>1. \A c, d \in coded : c.type = "B" /\ d.type = "IDR" => d.disp # c.disp + 1
    BY DEF Inv, NoBBeforeIdr
  <2>2. \A c, d \in S : c.type = "B" /\ d.type = "IDR" => d.disp # c.disp + 1
    BY DEF Extension
  <2>3. \A c \in coded, d \in S : c.type = "B" => d.disp # c.disp + 1
    BY <1>2, <1>3, <1>4, <1>5
  <2>4. \A c \in S, d \in coded : d.disp # c.disp + 1
    BY <1>2, <1>3, <1>4, <1>5
  <2> QED BY <2>1, <2>2, <2>3, <2>4 DEF NoBBeforeIdr
<1>12. GopBound'
  BY DEF Inv, GopBound, Extension
<1> QED BY <1>6, <1>7, <1>8, <1>9, <1>10, <1>11, <1>12

-----------------------------------------------------------------------------
(* The batches the planner sends are extensions.                           *)

\* Frame i of a mini-GOP of nbs B frames and their anchor, as coded has it.
MinigopFrame(i, nbs) ==
  [disp |-> Oldest + i - 1, type |-> IF i <= nbs THEN "B" ELSE "P",
   fn |-> IF i <= nbs THEN plan.fn_anchor + i ELSE plan.fn_anchor + plan.nb + 1,
   idr |-> idr, batch |-> batches]

LEMMA MinigopFrames ==
  ASSUME Inv, NEW w \in BOOLEAN, w \/ plan.n_held > 0
  PROVE  /\ MinigopBs(plan, w) \in 0 .. plan.nb
         /\ \A c : c \in Coded(Minigop(plan, w), idr, batches)
              <=> \E i \in 1 .. MinigopBs(plan, w) + 1 :
                    c = MinigopFrame(i, MinigopBs(plan, w))
<1> DEFINE nbs == MinigopBs(plan, w)
<1>1. /\ planned \in Nat /\ plan.n_held \in Nat /\ plan.nb \in Nat
      /\ plan.fn_anchor \in Nat /\ plan.n_held <= plan.nb
  BY DEF Inv, TypeOK, GopState, B_MAX, Counters
<1>2. nbs \in 0 .. plan.nb
  BY <1>1 DEF MinigopBs
<1>3. DOMAIN Minigop(plan, w) = 1 .. nbs + 1
  BY DEF Minigop
<1>4. ASSUME NEW i \in 1 .. nbs + 1
      PROVE  Sent(Minigop(plan, w), i, idr, batches) = MinigopFrame(i, nbs)
  <2>1. CASE i <= nbs
    <3>1. Minigop(plan, w)[i] = GopFrame(i - 1, "B", plan.fn_anchor + i)
      BY <2>1 DEF Minigop
    <3> QED BY <1>1, <1>2, <2>1, <3>1 DEF Sent, Disp, GopFrame, MinigopFrame, Oldest
  <2>2. CASE ~(i <= nbs)
    <3>1. i = nbs + 1
      BY <1>2, <2>2
    <3>2. Minigop(plan, w)[i] = GopFrame(nbs, "P", plan.fn_anchor + plan.nb + 1)
      BY <2>2 DEF Minigop
    <3> QED BY <1>1, <1>2, <2>2, <3>1, <3>2 DEF Sent, Disp, GopFrame, MinigopFrame, Oldest
  <2> QED BY <2>1, <2>2
<1> HIDE DEF nbs
<1>5. \A c : c \in Coded(Minigop(plan, w), idr, batches)
              <=> \E i \in 1 .. nbs + 1 : c = MinigopFrame(i, nbs)
  BY <1>3, <1>4 DEF Coded
<1> QED BY <1>2, <1>5 DEF nbs

\* On a grid of step nb + 1 the anchor's number is on it and the numbers of
\* the B frames before it are not.
LEMMA GridStep ==
  ASSUME NEW nb \in 1 .. 2, NEW a \in Nat, NEW k \in Nat, k <= a,
         (a - k) % (nb + 1) = 0
  PROVE  /\ (a + nb + 1 - k) % (nb + 1) = 0
         /\ \A i \in 1 .. nb : (a + i - k) % (nb + 1) # 0
<1>1. CASE nb = 1
  <2>1. (a - k) % 2 = 0
    BY <1>1
  <2>2. (a + 2 - k) % 2 = 0 /\ (a + 1 - k) % 2 # 0
    BY <2>1
  <2> QED BY <1>1, <2>2
<1>2. CASE nb = 2
  <2>1. (a - k) % 3 = 0
    BY <1>2
  <2>2. (a + 3 - k) % 3 = 0 /\ (a + 1 - k) % 3 # 0 /\ (a + 2 - k) % 3 # 0
    BY <2>1
  <2> QED BY <1>2, <2>2
<1> QED BY <1>1, <1>2

\* A mini-GOP extends the history by its sources, the last of them its P.
LEMMA MinigopExtends ==
  ASSUME Inv, plan.started, NEW w \in BOOLEAN, w \/ plan.n_held > 0,
         plan.gop > 0 /\ w => plan.dist < plan.gop
  PROVE  LET S   == Coded(Minigop(plan, w), idr, batches)
             hi  == Oldest + MinigopBs(plan, w) + 1
         IN  /\ Extension(S, hi, plan.fn_anchor + plan.nb + 1, batches + 1)
             /\ \A c \in S : c.type # "IDR"
<1> DEFINE S   == Coded(Minigop(plan, w), idr, batches)
           nbs == MinigopBs(plan, w)
           hi  == Oldest + nbs + 1
<1>1. /\ planned \in Nat /\ plan.n_held \in Nat /\ plan.nb \in 1 .. 2
      /\ plan.fn_anchor \in Nat /\ plan.n_held <= plan.nb /\ batches \in Nat
      /\ idr \in [disp : Nat, fn : Nat] /\ idr.disp \in Nat /\ idr.fn \in Nat
      /\ plan.dist \in Nat /\ plan.gop \in Nat
  BY DEF Inv, TypeOK, GopState, B_MAX, Counters
<1>2. /\ idr.disp + plan.dist = planned /\ plan.dist >= 1 + plan.n_held
      /\ idr.fn <= plan.fn_anchor
      /\ (plan.fn_anchor - idr.fn) % (plan.nb + 1) = 0
      /\ plan.gop > 0 => plan.dist <= plan.gop
  BY DEF Inv, Counters
<1>3. /\ nbs \in 0 .. plan.nb
      /\ \A c : c \in S <=> \E i \in 1 .. nbs + 1 : c = MinigopFrame(i, nbs)
  BY MinigopFrames
<1>4. nbs = IF w THEN plan.n_held ELSE plan.n_held - 1
  BY DEF MinigopBs
<1> HIDE DEF S, nbs
<1>5. Oldest \in Nat /\ Oldest >= idr.disp + 1
  BY <1>1, <1>2 DEF Oldest
<1>6. ASSUME NEW i \in 1 .. nbs + 1
      PROVE  LET c == MinigopFrame(i, nbs)
             IN  /\ c \in CodedFrame
                 /\ c.disp = Oldest + i - 1 /\ c.disp \in Nat /\ c.fn \in Nat
                 /\ c.fn > plan.fn_anchor /\ c.fn <= plan.fn_anchor + plan.nb + 1
                 /\ c.idr = idr /\ c.batch = batches
                 /\ i <= nbs => c.type = "B" /\ c.fn = plan.fn_anchor + i
                 /\ i > nbs => /\ i = nbs + 1 /\ c.type = "P"
                               /\ c.fn = plan.fn_anchor + plan.nb + 1
  BY <1>1, <1>3, <1>5 DEF MinigopFrame, CodedFrame, FrameType
<1>7. S \subseteq CodedFrame
  BY <1>3, <1>6
<1>8. \A d \in Oldest .. hi - 1 : \E c \in S : c.disp = d
  <2> SUFFICES ASSUME NEW d \in Oldest .. hi - 1 PROVE \E c \in S : c.disp = d
    OBVIOUS
  <2>1. d - Oldest + 1 \in 1 .. nbs + 1
    BY <1>3, <1>5
  <2>2. MinigopFrame(d - Oldest + 1, nbs).disp = d
    BY <2>1, <1>6, <1>5
  <2> QED BY <2>1, <2>2, <1>3
<1>9. \A c \in S : /\ Oldest <= c.disp /\ c.disp < hi
                   /\ c.fn <= plan.fn_anchor + plan.nb + 1
                   /\ c.batch < batches + 1 /\ c.idr.fn <= c.fn
                   /\ plan.gop > 0 => c.disp - c.idr.disp < plan.gop
                   /\ c.type = "B" => c.disp + 1 < hi
                   /\ c.type # "IDR"
  <2> SUFFICES ASSUME NEW i \in 1 .. nbs + 1, NEW c, c = MinigopFrame(i, nbs)
               PROVE  /\ Oldest <= c.disp /\ c.disp < hi
                      /\ c.fn <= plan.fn_anchor + plan.nb + 1
                      /\ c.batch < batches + 1 /\ c.idr.fn <= c.fn
                      /\ plan.gop > 0 => c.disp - c.idr.disp < plan.gop
                      /\ c.type = "B" => c.disp + 1 < hi
                      /\ c.type # "IDR"
    BY <1>3
  <2>1. Oldest <= c.disp /\ c.disp < hi /\ (c.type = "B" => c.disp + 1 < hi)
    BY <1>1, <1>3, <1>5, <1>6
  <2>2. c.fn <= plan.fn_anchor + plan.nb + 1 /\ c.idr.fn <= c.fn
    BY <1>1, <1>2, <1>6
  <2>3. c.batch < batches + 1 /\ c.type # "IDR"
    BY <1>1, <1>3, <1>6
  <2>4. plan.gop > 0 => c.disp - c.idr.disp < plan.gop
    <3>1. c.disp <= Oldest + nbs /\ c.idr.disp = idr.disp /\ c.disp \in Nat
      BY <1>3, <1>5, <1>6
    <3> QED BY <3>1, <1>1, <1>2, <1>3, <1>4, <1>5 DEF Oldest
  <2> QED BY <2>1, <2>2, <2>3, <2>4
<1>10. \A c \in S : Grid(c, plan.nb)
  <2> SUFFICES ASSUME NEW i \in 1 .. nbs + 1, NEW c, c = MinigopFrame(i, nbs)
               PROVE  Grid(c, plan.nb)
    BY <1>3
  <2>1. /\ (plan.fn_anchor + plan.nb + 1 - idr.fn) % (plan.nb + 1) = 0
        /\ \A j \in 1 .. plan.nb : (plan.fn_anchor + j - idr.fn) % (plan.nb + 1) # 0
    <3> DEFINE nb == plan.nb
               a == plan.fn_anchor
               k == idr.fn
    <3>1. nb \in 1 .. 2 /\ a \in Nat /\ k \in Nat /\ k <= a /\ (a - k) % (nb + 1) = 0
      BY <1>1, <1>2
    <3> HIDE DEF nb, a, k
    <3>2. /\ (a + nb + 1 - k) % (nb + 1) = 0
          /\ \A j \in 1 .. nb : (a + j - k) % (nb + 1) # 0
      BY <3>1, GridStep
    <3> QED BY <3>2, Zenon DEF nb, a, k
  <2>2. CASE i <= nbs
    <3>1. i \in 1 .. plan.nb
      BY <2>2, <1>1, <1>3
    <3>2. c.type = "B" /\ c.fn = plan.fn_anchor + i /\ c.idr = idr
      BY <2>2, <1>6
    <3>3. POC(c) % (plan.nb + 1) # 0
      BY <1>1, <2>1, <3>1, <3>2 DEF POC
    <3> QED BY <3>2, <3>3 DEF Grid
  <2>3. CASE i > nbs
    <3>1. c.type = "P" /\ c.fn = plan.fn_anchor + plan.nb + 1 /\ c.idr = idr
      BY <2>3, <1>6
    <3>2. POC(c) % (plan.nb + 1) = 0
      BY <1>1, <2>1, <3>1 DEF POC
    <3> QED BY <3>1, <3>2 DEF Grid
  <2> QED BY <2>2, <2>3, <1>3
<1>11. \A c \in S : c.type = "B" => AnchorIn(c, S)
  <2> SUFFICES ASSUME NEW i \in 1 .. nbs + 1, NEW c, c = MinigopFrame(i, nbs),
                      c.type = "B"
               PROVE  AnchorIn(c, S)
    BY <1>3
  <2> DEFINE p == MinigopFrame(nbs + 1, nbs)
  <2>1. i <= nbs
    BY <1>3, <1>6
  <2>2. nbs + 1 \in 1 .. nbs + 1 /\ nbs + 1 > nbs
    BY <1>3
  <2>3. p \in S /\ p.type = "P" /\ p.disp = Oldest + nbs
        /\ p.batch = c.batch /\ p.fn = plan.fn_anchor + plan.nb + 1
    BY <2>2, <1>3, <1>5, <1>6
  <2>4. c.disp = Oldest + i - 1 /\ c.fn = plan.fn_anchor + i
    BY <2>1, <1>6
  <2>5. p.disp > c.disp /\ p.fn > c.fn
    BY <2>1, <2>3, <2>4, <1>1, <1>3, <1>5
  <2> QED BY <2>3, <2>5 DEF AnchorIn
<1>12. \A c, d \in S : InOrder(c, d)
  <2> SUFFICES ASSUME NEW i \in 1 .. nbs + 1, NEW j \in 1 .. nbs + 1,
                      NEW c, c = MinigopFrame(i, nbs),
                      NEW d, d = MinigopFrame(j, nbs)
               PROVE  InOrder(c, d)
    BY <1>3
  <2>1. c.disp = d.disp => i = j
    BY <1>3, <1>5, <1>6
  <2>2. c.disp < d.disp <=> i < j
    BY <1>3, <1>5, <1>6
  <2>3. c.fn < d.fn <=> i < j
    BY <1>1, <1>3, <1>6
  <2> QED BY <2>1, <2>2, <2>3 DEF InOrder
<1>13. \A c \in coded, d \in S : c.fn < d.fn
  <2>1. \A c \in coded : c.fn \in Nat /\ c.fn <= plan.fn_anchor
    BY DEF Inv, TypeOK, CodedFrame, Frontier
  <2> QED BY <2>1, <1>1, <1>3, <1>6
<1> QED BY <1>7, <1>8, <1>9, <1>10, <1>11, <1>12, <1>13 DEF Extension, S, nbs

-----------------------------------------------------------------------------
(* The invariant is kept by every action.                                  *)

LEMMA GopStateUpdate ==
  ASSUME NEW g \in GopState, NEW h \in Nat, NEW d \in Nat, NEW f \in Nat
  PROVE  /\ [g EXCEPT !.n_held = h, !.dist = d] \in GopState
         /\ [g EXCEPT !.fn_anchor = f, !.n_held = h, !.dist = d] \in GopState
         /\ [g EXCEPT !.fn_anchor = f, !.started = TRUE, !.n_held = h,
                      !.dist = d] \in GopState
  BY DEF GopState

\* The invariant holds at the start.
LEMMA InitInv == Init => Inv
<1> SUFFICES ASSUME Init PROVE Inv
  OBVIOUS
<1>1. PICK nb \in NBs, gop \in GopSizes : plan = ave_gop_init(nb, gop)
  BY DEF Init
<1>2. nb \in 1 .. B_MAX /\ gop \in Nat
  BY NBsAssumption, GopSizesAssumption
<1>3. TypeOK
  BY <1>1, <1>2 DEF Init, TypeOK, GopState, ave_gop_init, B_MAX
<1>4. Counters /\ Frontier
  BY <1>1, <1>2 DEF Init, Counters, Frontier, ave_gop_init, B_MAX
<1>5. /\ EverySourceOnce /\ NumbersFollowDisplay /\ ReferenceGrid
      /\ BHasAnchor /\ NoBBeforeIdr /\ GopBound
  BY <1>1 DEF Init, EverySourceOnce, NumbersFollowDisplay, ReferenceGrid,
     BHasAnchor, NoBBeforeIdr, GopBound, ave_gop_init
<1> QED BY <1>3, <1>4, <1>5 DEF Inv

\* Holding a frame keeps it.
LEMMA HoldInv ==
  ASSUME Inv, NEW force \in BOOLEAN, NEW last \in BOOLEAN, Hold(force, last)
  PROVE  Inv'
<1>1. /\ plan \in GopState /\ planned \in Nat /\ plan.n_held <= plan.nb
      /\ plan.n_held \in Nat /\ plan.dist \in Nat /\ plan.gop \in Nat
      /\ plan.nb \in Nat /\ plan.fn_anchor \in Nat
  BY DEF Inv, TypeOK, Counters, GopState, B_MAX
<1>2. /\ plan.started /\ plan.n_held < plan.nb
      /\ plan.gop > 0 => plan.dist + 1 < plan.gop
  BY <1>1 DEF Hold, ave_gop_decide, KeyDue, BeforeKey
<1>3. plan' = [plan EXCEPT !.n_held = plan.n_held + 1, !.dist = plan.dist + 1]
  BY DEF Hold, GopNext
<1>4. /\ planned' = planned + 1 /\ UNCHANGED << coded, idr, batches >>
      /\ plan'.n_held = plan.n_held + 1 /\ plan'.dist = plan.dist + 1
      /\ plan'.nb = plan.nb /\ plan'.gop = plan.gop
      /\ plan'.fn_anchor = plan.fn_anchor /\ plan'.started = plan.started
      /\ plan' \in GopState
  <2>1. planned' = planned + 1 /\ UNCHANGED << coded, idr, batches >>
    BY DEF Hold
  <2>2. plan'.n_held = plan.n_held + 1 /\ plan'.dist = plan.dist + 1
    BY <1>1, <1>3 DEF GopState
  <2>3. /\ plan'.nb = plan.nb /\ plan'.gop = plan.gop
        /\ plan'.fn_anchor = plan.fn_anchor
    BY <1>1, <1>3 DEF GopState
  <2>4. plan'.started = plan.started
    BY <1>1, <1>3 DEF GopState
  <2>5. plan' \in GopState
    <3>1. plan.n_held + 1 \in Nat /\ plan.dist + 1 \in Nat
      BY <1>1
    <3> QED BY <1>1, <1>3, <3>1, GopStateUpdate
  <2> QED BY <2>1, <2>2, <2>3, <2>4, <2>5
<1>5. TypeOK'
  BY <1>4 DEF Inv, TypeOK
<1>6. Counters'
  BY <1>1, <1>2, <1>4 DEF Inv, TypeOK, Counters
<1>7. planned' - plan'.n_held = planned - plan.n_held
  BY <1>1, <1>4
<1>8. Frontier'
  BY <1>4, <1>7 DEF Inv, Frontier
<1>9. /\ EverySourceOnce' /\ NumbersFollowDisplay' /\ ReferenceGrid'
      /\ BHasAnchor' /\ NoBBeforeIdr' /\ GopBound'
  BY <1>4, <1>7 DEF Inv, EverySourceOnce, NumbersFollowDisplay, ReferenceGrid,
     BHasAnchor, NoBBeforeIdr, GopBound, POC
<1> QED BY <1>5, <1>6, <1>8, <1>9 DEF Inv

\* A mini-GOP sent by itself: as ANCHOR with the new source, or as CLOSE.
LEMMA MinigopInv ==
  ASSUME Inv, plan.started, NEW w \in BOOLEAN, w \/ plan.n_held > 0,
         plan.gop > 0 /\ w => plan.dist < plan.gop,
         planned' = IF w THEN planned + 1 ELSE planned,
         plan' = [plan EXCEPT !.fn_anchor = plan.fn_anchor + plan.nb + 1,
                              !.n_held = 0,
                              !.dist = IF w THEN plan.dist + 1 ELSE plan.dist],
         coded' = coded \cup Coded(Minigop(plan, w), idr, batches),
         batches' = batches + 1, idr' = idr
  PROVE  Inv'
<1> DEFINE S == Coded(Minigop(plan, w), idr, batches)
<1>1. /\ plan \in GopState /\ planned \in Nat /\ plan.n_held <= plan.nb
      /\ plan.n_held \in Nat /\ plan.dist \in Nat /\ plan.gop \in Nat
      /\ plan.nb \in 1 .. 2 /\ plan.fn_anchor \in Nat /\ batches \in Nat
      /\ idr \in [disp : Nat, fn : Nat] /\ idr.disp \in Nat /\ idr.fn \in Nat
      /\ coded \subseteq CodedFrame
  BY DEF Inv, TypeOK, Counters, GopState, B_MAX
<1>2. /\ plan'.n_held = 0 /\ plan'.nb = plan.nb /\ plan'.gop = plan.gop
      /\ plan'.fn_anchor = plan.fn_anchor + plan.nb + 1 /\ plan'.started
      /\ plan'.dist = IF w THEN plan.dist + 1 ELSE plan.dist
      /\ plan' \in GopState
  <2>1. plan'.n_held = 0 /\ plan'.nb = plan.nb /\ plan'.gop = plan.gop
    BY <1>1 DEF GopState
  <2>2. /\ plan'.fn_anchor = plan.fn_anchor + plan.nb + 1
        /\ plan'.dist = IF w THEN plan.dist + 1 ELSE plan.dist
    BY <1>1 DEF GopState
  <2>3. plan'.started
    BY <1>1 DEF GopState
  <2>4. plan' \in GopState
    <3>1. /\ plan.fn_anchor + plan.nb + 1 \in Nat /\ 0 \in Nat
          /\ (IF w THEN plan.dist + 1 ELSE plan.dist) \in Nat
      BY <1>1
    <3> QED BY <1>1, <3>1, GopStateUpdate
  <2> QED BY <2>1, <2>2, <2>3, <2>4
<1>3. Extension(S, Oldest + MinigopBs(plan, w) + 1,
                plan.fn_anchor + plan.nb + 1, batches + 1)
  BY MinigopExtends
<1>4. planned' - plan'.n_held = Oldest + MinigopBs(plan, w) + 1
  BY <1>1, <1>2 DEF Oldest, MinigopBs
<1>5. TypeOK'
  BY <1>1, <1>2, <1>3 DEF TypeOK, Extension
<1>6. Counters'
  <2>1. /\ idr.disp + plan.dist = planned /\ plan.dist >= 1 + plan.n_held
        /\ idr.fn <= plan.fn_anchor
        /\ (plan.fn_anchor - idr.fn) % (plan.nb + 1) = 0
        /\ plan.gop > 0 => plan.dist <= plan.gop
    BY DEF Inv, Counters
  <2>2. (plan.fn_anchor + plan.nb + 1 - idr.fn) % (plan.nb + 1) = 0
    BY <1>1, <2>1, GridStep
  <2>3. idr'.disp + plan'.dist = planned' /\ plan'.dist >= 1 + plan'.n_held
        /\ (plan'.gop > 0 => plan'.dist <= plan'.gop)
    BY <1>1, <1>2, <2>1
  <2>4. idr'.fn <= plan'.fn_anchor /\ plan'.n_held <= plan'.nb
        /\ (plan'.fn_anchor - idr'.fn) % (plan'.nb + 1) = 0
    BY <1>1, <1>2, <2>1, <2>2
  <2> QED BY <1>2, <2>3, <2>4 DEF Counters
<1>7. /\ Frontier' /\ EverySourceOnce' /\ NumbersFollowDisplay'
      /\ ReferenceGrid' /\ BHasAnchor' /\ NoBBeforeIdr' /\ GopBound'
  <2>1. /\ plan.fn_anchor <= plan'.fn_anchor /\ batches <= batches'
        /\ Oldest <= planned' - plan'.n_held
    BY <1>1, <1>2 DEF Oldest
  <2>2. Extension(S, planned' - plan'.n_held, plan'.fn_anchor, batches')
    BY <1>2, <1>3, <1>4
  <2> QED BY <1>2, <1>5, <2>1, <2>2, ExtendHistory
<1> QED BY <1>5, <1>6, <1>7 DEF Inv

\* Coding an anchor keeps it.
LEMMA AnchorInv ==
  ASSUME Inv, NEW force \in BOOLEAN, NEW last \in BOOLEAN, Anchor(force, last)
  PROVE  Inv'
<1>1. plan \in GopState /\ plan.n_held \in Nat /\ plan.dist \in Nat
      /\ plan.gop \in Nat
  BY DEF Inv, TypeOK, GopState
<1>2. plan.started /\ (plan.gop > 0 => plan.dist < plan.gop)
  BY <1>1 DEF Anchor, ave_gop_decide, KeyDue
<1>3. plan' = [plan EXCEPT !.fn_anchor = plan.fn_anchor + plan.nb + 1,
                           !.n_held = 0, !.dist = plan.dist + 1]
  BY <1>1 DEF Anchor, GopNext, AfterMinigop, GopState
<1> QED BY <1>2, <1>3, MinigopInv DEF Anchor

\* Closing the mini-GOP keeps it.
LEMMA CloseInv == ASSUME Inv, Close PROVE Inv'
<1>1. plan \in GopState /\ plan.n_held \in Nat
  BY DEF Inv, TypeOK, GopState
<1>2. plan.n_held > 0
  BY DEF Close, ave_gop_decide
<1>3. plan.started
  BY <1>1, <1>2 DEF Inv, Counters
<1>4. plan' = [plan EXCEPT !.fn_anchor = plan.fn_anchor + plan.nb + 1,
                           !.n_held = 0, !.dist = plan.dist]
  BY <1>1, <1>2 DEF Close, GopNext, Closed, AfterMinigop, GopState
<1> QED BY <1>2, <1>3, <1>4, MinigopInv DEF Close

\* The new IDR by itself, and behind the mini-GOP that closes the held.
LEMMA KeyInv ==
  ASSUME Inv, NEW force \in BOOLEAN, NEW last \in BOOLEAN, Key(force, last)
  PROVE  Inv'
<1> DEFINE key     == [disp |-> planned, fn |-> KeyFn(Closed(plan))]
           closing == IF plan.n_held > 0
                        THEN Coded(Minigop(plan, FALSE), idr, batches) ELSE {}
           next    == IF plan.n_held > 0 THEN batches + 1 ELSE batches
           K       == [disp |-> planned, type |-> "IDR", fn |-> key.fn,
                       idr |-> key, batch |-> next]
           S       == closing \cup {K}
           top     == IF plan.n_held > 0 THEN plan.fn_anchor + plan.nb + 1
                                         ELSE plan.fn_anchor
<1>1. /\ plan \in GopState /\ planned \in Nat /\ plan.n_held <= plan.nb
      /\ plan.n_held \in Nat /\ plan.dist \in Nat /\ plan.gop \in Nat
      /\ plan.nb \in 1 .. 2 /\ plan.fn_anchor \in Nat /\ batches \in Nat
      /\ idr \in [disp : Nat, fn : Nat] /\ idr.disp \in Nat /\ idr.fn \in Nat
      /\ coded \subseteq CodedFrame /\ plan.started \in BOOLEAN
  BY DEF Inv, TypeOK, Counters, GopState, B_MAX
<1>2. plan.n_held > 0 => plan.started
  BY <1>1 DEF Inv, Counters
<1>3. /\ Closed(plan) \in GopState /\ Closed(plan).fn_anchor = top
      /\ Closed(plan).started = plan.started /\ top \in Nat
  <2>1. CASE plan.n_held > 0
    <3>1. Closed(plan) = [plan EXCEPT !.fn_anchor = plan.fn_anchor + plan.nb + 1,
                                      !.n_held = 0]
      BY <2>1 DEF Closed, AfterMinigop
    <3>2. Closed(plan).fn_anchor = plan.fn_anchor + plan.nb + 1
      BY <1>1, <3>1 DEF GopState
    <3>3. Closed(plan).started = plan.started
      BY <1>1, <3>1 DEF GopState
    <3>4. plan.fn_anchor + plan.nb + 1 \in Nat
      BY <1>1
    <3>5. [plan EXCEPT !.fn_anchor = plan.fn_anchor + plan.nb + 1, !.n_held = 0]
            \in GopState
      BY <1>1, <3>4 DEF GopState
    <3> QED BY <2>1, <3>1, <3>2, <3>3, <3>4, <3>5
  <2>2. CASE ~(plan.n_held > 0)
    BY <1>1, <2>2 DEF Closed
  <2> QED BY <2>1, <2>2
<1>4. key.fn = (IF plan.started THEN top + 1 ELSE 0) /\ key.fn \in Nat
      /\ key \in [disp : Nat, fn : Nat] /\ key.disp = planned
  <2>1. KeyFn(Closed(plan)) = (IF plan.started THEN top + 1 ELSE 0)
    BY <1>3 DEF KeyFn
  <2>2. KeyFn(Closed(plan)) \in Nat
    BY <1>3, <2>1
  <2> QED BY <1>1, <2>1, <2>2
<1>5. Coded(KeyBatch(plan), key, next) = {K}
  <2>1. DOMAIN KeyBatch(plan) = {1}
    BY DEF KeyBatch
  <2>2. KeyBatch(plan)[1] = GopFrame(plan.n_held, "IDR", KeyFn(Closed(plan)))
    BY DEF KeyBatch
  <2>3. Disp(plan.n_held) = planned
    BY <1>1 DEF Disp
  <2>4. Sent(KeyBatch(plan), 1, key, next) = K
    BY <2>2, <2>3 DEF Sent, GopFrame
  <2> QED BY <2>1, <2>4 DEF Coded
<1>6. /\ coded' = coded \cup S /\ idr' = key /\ batches' = next + 1
      /\ planned' = planned + 1
  BY <1>5 DEF Key
<1>7. plan' = [Closed(plan) EXCEPT !.fn_anchor = key.fn, !.started = TRUE,
                                   !.n_held = 0, !.dist = 1]
  BY <1>1 DEF Key, GopNext
<1> HIDE DEF key, next, closing
<1>8. /\ plan'.n_held = 0 /\ plan'.dist = 1 /\ plan'.fn_anchor = key.fn
      /\ plan'.started /\ plan'.nb = plan.nb /\ plan'.gop = plan.gop
      /\ plan' \in GopState
  <2>1. plan'.n_held = 0 /\ plan'.dist = 1 /\ plan'.fn_anchor = key.fn
    BY <1>3, <1>7 DEF GopState
  <2>2. plan'.started
    BY <1>3, <1>7 DEF GopState
  <2>3. plan'.nb = plan.nb /\ plan'.gop = plan.gop
    BY <1>1, <1>3, <1>7 DEF GopState, Closed, AfterMinigop
  <2>4. plan' \in GopState
    BY <1>3, <1>4, <1>7, GopStateUpdate
  <2> QED BY <2>1, <2>2, <2>3, <2>4
<1>9. /\ K \in CodedFrame /\ K.disp = planned /\ K.fn = key.fn /\ K.idr = key
      /\ K.type = "IDR" /\ K.batch = next
      /\ next \in Nat /\ batches <= next
  BY <1>1, <1>4 DEF CodedFrame, FrameType, next
<1> HIDE DEF K
\* What the closing mini-GOP is, empty when nothing is held.
<1>10. /\ closing \subseteq CodedFrame
       /\ \A d \in Oldest .. planned - 1 : \E c \in closing : c.disp = d
       /\ \A c \in closing : /\ Oldest <= c.disp /\ c.disp < planned
                             /\ c.fn <= top /\ c.batch < next /\ c.idr.fn <= c.fn
                             /\ Grid(c, plan.nb)
                             /\ plan.gop > 0 => c.disp - c.idr.disp < plan.gop
                             /\ c.type = "B" => c.disp + 1 < planned
                                                /\ AnchorIn(c, closing)
                             /\ c.type # "IDR"
       /\ \A c, d \in closing : InOrder(c, d)
       /\ \A c \in coded, d \in closing : c.fn < d.fn
  <2>1. CASE plan.n_held > 0
    <3>1. plan.started
      BY <1>2, <2>1
    <3>3. Oldest + MinigopBs(plan, FALSE) + 1 = planned
      BY <1>1 DEF Oldest, MinigopBs
    <3>4. /\ Extension(closing, planned, top, next)
          /\ \A c \in closing : c.type # "IDR"
      BY <2>1, <3>1, <3>3, MinigopExtends DEF closing, next
    <3> QED BY <3>4 DEF Extension
  <2>2. CASE ~(plan.n_held > 0)
    <3>1. closing = {}
      BY <2>2 DEF closing
    <3>2. Oldest = planned
      BY <1>1, <2>2 DEF Oldest
    <3> QED BY <1>1, <3>1, <3>2
  <2> QED BY <2>1, <2>2
<1>11. \A c \in coded : c.disp \in Nat /\ c.fn \in Nat /\ c.fn <= plan.fn_anchor
  BY DEF Inv, TypeOK, CodedFrame, Frontier
<1>12. \A c \in closing : c.disp \in Nat /\ c.fn \in Nat /\ c.batch \in Nat
                          /\ c.fn < key.fn
  <2>1. \A c \in closing : c.disp \in Nat /\ c.fn \in Nat /\ c.batch \in Nat
    BY <1>10 DEF CodedFrame
  <2>2. closing # {} => plan.started
    BY <1>2 DEF closing
  <2> QED BY <1>3, <1>4, <1>10, <2>1, <2>2
<1>13. \A c \in coded : c.fn < key.fn
  <2>1. coded # {} => plan.started
    BY <1>1 DEF Inv, Counters
  <2>2. plan.fn_anchor <= top
    BY <1>1
  <2> QED BY <1>1, <1>3, <1>4, <1>11, <2>1, <2>2
<1>14. TypeOK'
  BY <1>1, <1>4, <1>6, <1>8, <1>9, <1>10 DEF TypeOK
<1>15. Counters'
  <2>1. idr'.disp = planned /\ idr'.fn = key.fn
    BY <1>4, <1>6
  <2>2. (plan'.fn_anchor - idr'.fn) % (plan'.nb + 1) = 0
    <3>1. CASE plan.nb = 1
      BY <1>4, <1>8, <2>1, <3>1
    <3>2. CASE plan.nb = 2
      BY <1>4, <1>8, <2>1, <3>2
    <3> QED BY <1>1, <3>1, <3>2
  <2> QED BY <1>1, <1>4, <1>6, <1>8, <2>1, <2>2 DEF Counters
<1>16. Extension(S, planned + 1, key.fn, next + 1)
  <2>1. S \subseteq CodedFrame
    BY <1>9, <1>10
  <2>2. \A d \in Oldest .. (planned + 1) - 1 : \E c \in S : c.disp = d
    <3> SUFFICES ASSUME NEW d \in Oldest .. planned PROVE \E c \in S : c.disp = d
      BY <1>1 DEF Oldest
    <3>1. CASE d = planned
      BY <3>1, <1>9
    <3>2. CASE d # planned
      BY <3>2, <1>1, <1>10 DEF Oldest
    <3> QED BY <3>1, <3>2
  <2>3. \A c \in closing :
          /\ Oldest <= c.disp /\ c.disp < planned + 1
          /\ c.fn <= key.fn /\ c.batch < next + 1 /\ c.idr.fn <= c.fn
          /\ Grid(c, plan.nb)
          /\ plan.gop > 0 => c.disp - c.idr.disp < plan.gop
          /\ c.type = "B" => c.disp + 1 < planned + 1 /\ AnchorIn(c, S)
    <3> SUFFICES ASSUME NEW c \in closing
                 PROVE  /\ Oldest <= c.disp /\ c.disp < planned + 1
                        /\ c.fn <= key.fn /\ c.batch < next + 1 /\ c.idr.fn <= c.fn
                        /\ Grid(c, plan.nb)
                        /\ plan.gop > 0 => c.disp - c.idr.disp < plan.gop
                        /\ c.type = "B" => c.disp + 1 < planned + 1 /\ AnchorIn(c, S)
      OBVIOUS
    <3>1. c.disp < planned + 1 /\ c.fn <= key.fn /\ c.batch < next + 1
      BY <1>1, <1>4, <1>9, <1>10, <1>12
    <3>2. c.type = "B" => c.disp + 1 < planned + 1
      BY <1>1, <1>10, <1>12
    <3>3. c.type = "B" => AnchorIn(c, S)
      BY <1>10 DEF AnchorIn
    <3> QED BY <1>10, <3>1, <3>2, <3>3
  <2>4. /\ Oldest <= K.disp /\ K.disp < planned + 1
        /\ K.fn <= key.fn /\ K.batch < next + 1 /\ K.idr.fn <= K.fn
        /\ Grid(K, plan.nb)
        /\ plan.gop > 0 => K.disp - K.idr.disp < plan.gop
        /\ K.type # "B"
    BY <1>1, <1>4, <1>9 DEF Oldest, Grid, POC
  <2>5. \A c, d \in S : InOrder(c, d)
    <3>1. \A c \in closing : InOrder(c, K) /\ InOrder(K, c)
      BY <1>1, <1>4, <1>9, <1>10, <1>12 DEF InOrder
    <3>2. InOrder(K, K)
      BY <1>1, <1>4, <1>9 DEF InOrder
    <3> QED BY <1>10, <3>1, <3>2
  <2>6. \A c, d \in S : c.type = "B" /\ d.type = "IDR" => d.disp # c.disp + 1
    <3>1. \A c \in closing : c.type = "B" => K.disp # c.disp + 1
      BY <1>1, <1>9, <1>10, <1>12
    <3> QED BY <1>9, <1>10, <3>1
  <2>7. \A c \in coded, d \in S : c.fn < d.fn
    BY <1>9, <1>10, <1>13
  <2>8. \A c \in S :
          /\ Oldest <= c.disp /\ c.disp < planned + 1
          /\ c.fn <= key.fn /\ c.batch < next + 1 /\ c.idr.fn <= c.fn
          /\ Grid(c, plan.nb)
          /\ plan.gop > 0 => c.disp - c.idr.disp < plan.gop
          /\ c.type = "B" => c.disp + 1 < planned + 1 /\ AnchorIn(c, S)
    BY <2>3, <2>4
  <2> HIDE DEF S
  <2> QED BY <2>1, <2>2, <2>5, <2>6, <2>7, <2>8, Zenon DEF Extension
<1> HIDE DEF S, top
<1>17. /\ Frontier' /\ EverySourceOnce' /\ NumbersFollowDisplay'
       /\ ReferenceGrid' /\ BHasAnchor' /\ NoBBeforeIdr' /\ GopBound'
  <2>1. plan.fn_anchor <= plan'.fn_anchor
    <3>1. ~plan.started => plan.fn_anchor = 0
      BY DEF Inv, Counters
    <3> QED BY <1>1, <1>3, <1>4, <1>8, <3>1 DEF top
  <2>2. batches <= batches' /\ Oldest <= planned' - plan'.n_held
        /\ planned' - plan'.n_held = planned + 1
    BY <1>1, <1>6, <1>8, <1>9 DEF Oldest
  <2> QED BY <1>6, <1>8, <1>14, <1>16, <2>1, <2>2, ExtendHistory
<1> QED BY <1>14, <1>15, <1>17 DEF Inv

-----------------------------------------------------------------------------
\* Every step keeps it.
LEMMA NextInv == Inv /\ [Next]_vars => Inv'
<1> SUFFICES ASSUME Inv, [Next]_vars PROVE Inv'
  OBVIOUS
<1>1. CASE NewSource
  <2>1. PICK force \in BOOLEAN, last \in BOOLEAN :
          Hold(force, last) \/ Anchor(force, last) \/ Key(force, last)
    BY <1>1 DEF NewSource
  <2> QED BY <2>1, HoldInv, AnchorInv, KeyInv
<1>2. CASE Close
  BY <1>2, CloseInv
<1>3. CASE UNCHANGED vars
  BY <1>3 DEF vars, Inv, TypeOK, Counters, Frontier, EverySourceOnce,
     NumbersFollowDisplay, ReferenceGrid, BHasAnchor, NoBBeforeIdr, GopBound, POC
<1> QED BY <1>1, <1>2, <1>3 DEF Next

\* The inductive invariant holds throughout any stream.
THEOREM Invariance == Spec => []Inv
  BY InitInv, NextInv, PTL DEF Spec

\* The planner's state keeps the shape of struct ave_gop and the history the
\* shape of coded frames.
THEOREM TypeCorrect == Spec => []TypeOK
<1>1. Inv => TypeOK
  BY DEF Inv
<1> QED BY <1>1, Invariance, PTL

\* No source is lost or coded twice, whatever is held, forced or drained.
THEOREM SourcesOnce == Spec => []EverySourceOnce
<1>1. Inv => EverySourceOnce
  BY DEF Inv
<1> QED BY <1>1, Invariance, PTL

\* frameNumbers are unique and in display order over the whole stream.
THEOREM DisplayOrder == Spec => []NumbersFollowDisplay
<1>1. Inv => NumbersFollowDisplay
  BY DEF Inv
<1> QED BY <1>1, Invariance, PTL

\* Every P is at a multiple of nb + 1 from its IDR and no B is.
THEOREM OnReferenceGrid == Spec => []ReferenceGrid
<1>1. Inv => ReferenceGrid
  BY DEF Inv
<1> QED BY <1>1, Invariance, PTL

\* The firmware is never given a B without its anchor in the same batch.
THEOREM AnchorInBatch == Spec => []BHasAnchor
<1>1. Inv => BHasAnchor
  BY DEF Inv
<1> QED BY <1>1, Invariance, PTL

\* Every GOP is closed, and no longer than the GOP size.
THEOREM ClosedGops == Spec => [](NoBBeforeIdr /\ GopBound)
<1>1. Inv => NoBBeforeIdr /\ GopBound
  BY DEF Inv
<1> QED BY <1>1, Invariance, PTL

-----------------------------------------------------------------------------
(* Where the anchors are, and the sets that name them.                     *)

\* a is an anchor with number fn, of the period of IDR k, in batch b.
AnchorAt(a, fn, k, b) == /\ a.type # "B" /\ a.fn = fn
                         /\ a.idr = k /\ a.batch = b

\* The anchors frame c refers to are in T: the one before it closed the
\* batch before, and a B's other is its own batch's.
HasRefs(c, T, nb) ==
  /\ c.type = "P" =>
       \E a \in T : AnchorAt(a, c.fn - (nb + 1), c.idr, c.batch - 1)
  /\ c.type = "B" =>
       /\ \E a \in T : AnchorAt(a, c.fn - (POC(c) % (nb + 1)), c.idr, c.batch - 1)
       /\ \E p \in T : AnchorAt(p, c.fn + ((nb + 1) - (POC(c) % (nb + 1))),
                                c.idr, c.batch)

\* A batch has at most one frame that is not B.
OneAnchor(T) == \A a, p \in T :
  a.type # "B" /\ p.type # "B" /\ a.batch = p.batch => a = p

\* The inductive invariant of the references.
RefInv ==
  /\ plan.started =>
       \E a \in coded : AnchorAt(a, plan.fn_anchor, idr, batches - 1)
  /\ \A c \in coded : HasRefs(c, coded, plan.nb)
  /\ OneAnchor(coded)

\* More frames take no reference away.
LEMMA MoreRefs ==
  ASSUME NEW c, NEW T, NEW U, NEW nb, T \subseteq U, HasRefs(c, T, nb)
  PROVE  HasRefs(c, U, nb)
  BY DEF HasRefs

-----------------------------------------------------------------------------
(* The firmware's table, for every distance from the IDR.                  *)

\* The set has the distance's place in the mini-GOP and is one of the SPS's.
LEMMA TableFits ==
  ASSUME NEW nb \in 1 .. 2, NEW d \in Nat, d > 0
  PROVE  /\ SetRpsVars(nb, d) \in Nat
         /\ SetRpsVars(nb, d) < ave_hevc_b_sets(nb)
         /\ SetRpsVars(nb, d) % (nb + 1) = d % (nb + 1)
<1>1. CASE nb = 1
  <2>1. d % 2 = 0 \/ d % 2 = 1
    OBVIOUS
  <2>2. CASE d % 2 = 1
    <3>1. SetRpsVars(nb, d) = IF d = 1 THEN 3 ELSE IF d = 3 THEN 5 ELSE 1
      BY <1>1, <2>2 DEF SetRpsVars
    <3> QED BY <1>1, <2>2, <3>1 DEF ave_hevc_b_sets
  <2>3. CASE d % 2 = 0
    <3>1. SetRpsVars(nb, d) = IF d > 7 THEN 0 ELSE d
      BY <1>1, <2>3 DEF SetRpsVars
    <3> QED BY <1>1, <2>3, <3>1 DEF ave_hevc_b_sets
  <2> QED BY <2>1, <2>2, <2>3
<1>2. CASE nb = 2
  <2>1. d % 3 \in 0 .. 2
    OBVIOUS
  <2>2. CASE d % 3 = 0
    <3>1. SetRpsVars(nb, d) = IF d >= 12 THEN 0 ELSE 12 - d
      BY <1>2, <2>2 DEF SetRpsVars
    <3> QED BY <1>2, <2>2, <3>1 DEF ave_hevc_b_sets
  <2>3. CASE d % 3 \in 1 .. 2
    <3>1. SetRpsVars(nb, d) = (IF d < 6 THEN 3 * (2 - d \div 3) ELSE 0) + (d % 3)
      BY <1>2, <2>3 DEF SetRpsVars
    <3>2. d < 6 => d \div 3 \in 0 .. 1
      OBVIOUS
    <3>3. d < 6 => 3 * (2 - d \div 3) \in {3, 6}
      BY <3>2
    <3> QED BY <1>2, <2>3, <3>1, <3>3 DEF ave_hevc_b_sets
  <2> QED BY <2>1, <2>2, <2>3
<1> QED BY <1>1, <1>2

\* Without B frames, whatever the distance.
LEMMA IpppFits ==
  ASSUME NEW refs \in 1 .. 2, NEW d \in Nat, d > 0
  PROVE  /\ SetRpsVarsIppp(d) < IPPP_SETS
         /\ \A delta \in ippp_set(refs, SetRpsVarsIppp(d)) : d + delta >= 0
  BY DEF SetRpsVarsIppp, IPPP_SETS, ippp_set

\* Numbers on a grid of step nb + 1: i above a point of it leaves i.
LEMMA GridRemainder ==
  ASSUME NEW nb \in 1 .. 2, NEW a \in Nat, NEW k \in Nat, k <= a,
         (a - k) % (nb + 1) = 0, NEW i \in 1 .. nb
  PROVE  (a + i - k) % (nb + 1) = i
<1>1. CASE nb = 1
  BY <1>1
<1>2. CASE nb = 2
  BY <1>2
<1> QED BY <1>1, <1>2

-----------------------------------------------------------------------------
(* What a batch adds.  Good is RefInv of a history T that ends in an anchor *)
(* numbered f of the period of k, with batches before b.                    *)

Good(T, nb, f, k, b) ==
  /\ \E x \in T : AnchorAt(x, f, k, b - 1)
  /\ \A c \in T : HasRefs(c, T, nb) /\ c.batch < b
  /\ OneAnchor(T)

LEMMA GoodIntro ==
  ASSUME NEW T, NEW nb, NEW f, NEW k, NEW b \in Nat, NEW a \in T,
         AnchorAt(a, f, k, b), OneAnchor(T),
         \A c \in T : HasRefs(c, T, nb) /\ c.batch < b + 1
  PROVE  Good(T, nb, f, k, b + 1)
<1>1. b + 1 - 1 = b
  OBVIOUS
<1>2. AnchorAt(a, f, k, b + 1 - 1)
  BY <1>1
<1> QED BY <1>2 DEF Good

LEMMA MinigopGood ==
  ASSUME Inv, RefInv, plan.started, NEW w \in BOOLEAN, w \/ plan.n_held > 0
  PROVE  Good(coded \cup Coded(Minigop(plan, w), idr, batches), plan.nb,
              plan.fn_anchor + plan.nb + 1, idr, batches + 1)
<1> DEFINE S   == Coded(Minigop(plan, w), idr, batches)
           nbs == MinigopBs(plan, w)
           T   == coded \cup S
           p   == MinigopFrame(nbs + 1, nbs)
<1>1. /\ plan.nb \in 1 .. 2 /\ plan.fn_anchor \in Nat /\ batches \in Nat
      /\ idr.fn \in Nat
      /\ \A c \in coded : c.batch \in Nat /\ c.batch < batches
  BY DEF Inv, TypeOK, GopState, B_MAX, CodedFrame, Frontier
<1>2. /\ idr.fn <= plan.fn_anchor
      /\ (plan.fn_anchor - idr.fn) % (plan.nb + 1) = 0
  BY DEF Inv, Counters
<1>3. /\ nbs \in 0 .. plan.nb
      /\ \A c : c \in S <=> \E i \in 1 .. nbs + 1 : c = MinigopFrame(i, nbs)
  BY MinigopFrames
<1> HIDE DEF S, nbs
<1>4. ASSUME NEW i \in 1 .. nbs + 1
      PROVE  LET c == MinigopFrame(i, nbs)
             IN  /\ c.idr = idr /\ c.batch = batches
                 /\ i <= nbs => c.type = "B" /\ c.fn = plan.fn_anchor + i
                 /\ i > nbs => c.type = "P" /\ c.fn = plan.fn_anchor + plan.nb + 1
  BY <1>1, <1>3 DEF MinigopFrame
<1>5. p \in S /\ AnchorAt(p, plan.fn_anchor + plan.nb + 1, idr, batches)
  <2>1. nbs + 1 \in 1 .. nbs + 1 /\ nbs + 1 > nbs
    BY <1>3
  <2>2. p \in S
    BY <2>1, <1>3
  <2>3. /\ p.idr = idr /\ p.batch = batches
        /\ p.type = "P" /\ p.fn = plan.fn_anchor + plan.nb + 1
    BY <2>1, <1>4
  <2> QED BY <2>2, <2>3 DEF AnchorAt
<1>6. PICK a \in coded : AnchorAt(a, plan.fn_anchor, idr, batches - 1)
  BY DEF RefInv
<1>7. ASSUME NEW i \in 1 .. nbs + 1, NEW c, c = MinigopFrame(i, nbs)
      PROVE  HasRefs(c, T, plan.nb)
  <2>1. CASE i <= nbs
    <3>1. c.type = "B" /\ c.fn = plan.fn_anchor + i /\ c.idr = idr
          /\ c.batch = batches
      BY <1>4, <1>7, <2>1
    <3>2. i \in 1 .. plan.nb
      BY <1>1, <1>3, <2>1
    <3>3. (POC(c) % (plan.nb + 1)) = i
      <4>1. (plan.fn_anchor + i - idr.fn) % (plan.nb + 1) = i
        BY <1>1, <1>2, <3>2, GridRemainder
      <4>2. POC(c) = plan.fn_anchor + i - idr.fn
        BY <1>1, <3>1, <3>2 DEF POC
      <4> QED BY <4>1, <4>2
    <3>4. c.fn - (POC(c) % (plan.nb + 1)) = plan.fn_anchor
      BY <1>1, <3>1, <3>2, <3>3
    <3>5. c.fn + ((plan.nb + 1) - (POC(c) % (plan.nb + 1)))
            = plan.fn_anchor + plan.nb + 1
      BY <1>1, <3>1, <3>2, <3>3
    <3>6. AnchorAt(a, c.fn - (POC(c) % (plan.nb + 1)), c.idr, c.batch - 1)
      BY <1>6, <3>1, <3>4
    <3>7. AnchorAt(p, c.fn + ((plan.nb + 1) - (POC(c) % (plan.nb + 1))),
                   c.idr, c.batch)
      BY <1>5, <3>1, <3>5
    <3> HIDE DEF p
    <3> QED BY <1>5, <3>1, <3>6, <3>7 DEF HasRefs
  <2>2. CASE i > nbs
    <3>1. c.type = "P" /\ c.fn = plan.fn_anchor + plan.nb + 1 /\ c.idr = idr
          /\ c.batch = batches
      BY <1>4, <1>7, <2>2
    <3>2. c.fn - (plan.nb + 1) = plan.fn_anchor
      BY <1>1, <3>1
    <3> QED BY <1>6, <3>1, <3>2 DEF HasRefs
  <2> QED BY <1>3, <2>1, <2>2
<1>8. \A c \in T : HasRefs(c, T, plan.nb)
  <2>1. \A c \in coded : HasRefs(c, coded, plan.nb)
    BY DEF RefInv
  <2>2. \A c \in coded : HasRefs(c, T, plan.nb)
    BY <2>1, MoreRefs
  <2> QED BY <1>3, <1>7, <2>2
<1>9. \A c \in T : HasRefs(c, T, plan.nb) /\ c.batch < batches + 1
  BY <1>1, <1>3, <1>4, <1>8
<1>10. OneAnchor(T)
  <2>1. \A c \in S : c.batch = batches /\ (c.type # "B" => c = p)
    <3> SUFFICES ASSUME NEW i \in 1 .. nbs + 1, NEW c, c = MinigopFrame(i, nbs)
                 PROVE  c.batch = batches /\ (c.type # "B" => c = p)
      BY <1>3
    <3>1. c.batch = batches
      BY <1>4
    <3>2. c.type # "B" => i = nbs + 1
      BY <1>3, <1>4
    <3> QED BY <3>1, <3>2
  <2>2. \A c \in coded : c.batch # batches
    BY <1>1
  <2>3. OneAnchor(coded)
    BY DEF RefInv
  <2> HIDE DEF p
  <2> QED BY <2>1, <2>2, <2>3 DEF OneAnchor
<1> HIDE DEF p
<1>11. Good(T, plan.nb, plan.fn_anchor + plan.nb + 1, idr, batches + 1)
  <2> HIDE DEF T
  <2>1. p \in T
    BY <1>5 DEF T
  <2> QED BY <1>1, <1>5, <1>9, <1>10, <2>1, GoodIntro
<1> QED BY <1>11 DEF S

\* An IDR alone in its batch needs nothing and is the next anchor.
LEMMA IdrGood ==
  ASSUME NEW T, NEW K, NEW nb, NEW b \in Nat,
         \A c \in T : HasRefs(c, T, nb) /\ c.batch \in Nat /\ c.batch < b,
         OneAnchor(T), K.type = "IDR", K.batch = b
  PROVE  Good(T \cup {K}, nb, K.fn, K.idr, b + 1)
<1>1. \A c \in T \cup {K} : HasRefs(c, T \cup {K}, nb)
  <2>1. \A c \in T : HasRefs(c, T \cup {K}, nb)
    BY MoreRefs
  <2>2. HasRefs(K, T \cup {K}, nb)
    BY DEF HasRefs
  <2> QED BY <2>1, <2>2
<1>2. \A c \in T \cup {K} : c.batch < b + 1
  OBVIOUS
<1>3. OneAnchor(T \cup {K})
  BY DEF OneAnchor
<1>4. AnchorAt(K, K.fn, K.idr, b + 1 - 1)
  BY DEF AnchorAt
<1> QED BY <1>1, <1>2, <1>3, <1>4 DEF Good
-----------------------------------------------------------------------------
(* RefInv is kept by every action.                                         *)

\* The references start right.
LEMMA InitRefInv == Init => RefInv
  BY DEF Init, RefInv, OneAnchor, ave_gop_init

LEMMA GoodIsRefInv ==
  ASSUME Good(coded', plan'.nb, plan'.fn_anchor, idr', batches')
  PROVE  RefInv'
  BY DEF Good, RefInv

\* Coding an anchor keeps the references.
LEMMA AnchorRefInv ==
  ASSUME Inv, RefInv, NEW force \in BOOLEAN, NEW last \in BOOLEAN,
         Anchor(force, last)
  PROVE  RefInv'
<1>1. plan \in GopState /\ plan.n_held \in Nat
  BY DEF Inv, TypeOK, GopState
<1>2. plan.started
  BY <1>1 DEF Anchor, ave_gop_decide, KeyDue
<1>3. plan'.fn_anchor = plan.fn_anchor + plan.nb + 1 /\ plan'.nb = plan.nb
  BY <1>1 DEF Anchor, GopNext, AfterMinigop, GopState
<1>4. /\ coded' = coded \cup Coded(Minigop(plan, TRUE), idr, batches)
      /\ batches' = batches + 1 /\ idr' = idr
  BY DEF Anchor
<1>5. Good(coded \cup Coded(Minigop(plan, TRUE), idr, batches), plan.nb,
           plan.fn_anchor + plan.nb + 1, idr, batches + 1)
  BY <1>2, MinigopGood
<1> QED BY <1>3, <1>4, <1>5, GoodIsRefInv

\* Closing the mini-GOP keeps them.
LEMMA CloseRefInv ==
  ASSUME Inv, RefInv, Close
  PROVE  RefInv'
<1>1. plan \in GopState /\ plan.n_held \in Nat
  BY DEF Inv, TypeOK, GopState
<1>2. plan.n_held > 0 /\ plan.started
  BY <1>1 DEF Close, ave_gop_decide, Inv, Counters
<1>3. plan'.fn_anchor = plan.fn_anchor + plan.nb + 1 /\ plan'.nb = plan.nb
  BY <1>1, <1>2 DEF Close, GopNext, Closed, AfterMinigop, GopState
<1>4. /\ coded' = coded \cup Coded(Minigop(plan, FALSE), idr, batches)
      /\ batches' = batches + 1 /\ idr' = idr
  BY DEF Close
<1>5. Good(coded \cup Coded(Minigop(plan, FALSE), idr, batches), plan.nb,
           plan.fn_anchor + plan.nb + 1, idr, batches + 1)
  BY <1>2, MinigopGood
<1> QED BY <1>3, <1>4, <1>5, GoodIsRefInv

\* A forced key frame keeps them.
LEMMA KeyRefInv ==
  ASSUME Inv, RefInv, NEW force \in BOOLEAN, NEW last \in BOOLEAN,
         Key(force, last)
  PROVE  RefInv'
<1> DEFINE key     == [disp |-> planned, fn |-> KeyFn(Closed(plan))]
           closing == IF plan.n_held > 0
                        THEN Coded(Minigop(plan, FALSE), idr, batches) ELSE {}
           next    == IF plan.n_held > 0 THEN batches + 1 ELSE batches
           K       == [disp |-> planned, type |-> "IDR", fn |-> key.fn,
                       idr |-> key, batch |-> next]
           T       == coded \cup closing
<1>1. /\ plan \in GopState /\ planned \in Nat /\ plan.n_held \in Nat
      /\ batches \in Nat /\ plan.nb \in 1 .. 2 /\ plan.fn_anchor \in Nat
  BY DEF Inv, TypeOK, GopState, B_MAX
<1>2. Coded(KeyBatch(plan), key, next) = {K}
  <2>1. DOMAIN KeyBatch(plan) = {1}
    BY DEF KeyBatch
  <2>2. KeyBatch(plan)[1] = GopFrame(plan.n_held, "IDR", KeyFn(Closed(plan)))
    BY DEF KeyBatch
  <2>3. Disp(plan.n_held) = planned
    BY <1>1 DEF Disp
  <2>4. Sent(KeyBatch(plan), 1, key, next) = K
    BY <2>2, <2>3 DEF Sent, GopFrame
  <2> QED BY <2>1, <2>4 DEF Coded
<1>3. coded' = T \cup {K} /\ idr' = key /\ batches' = next + 1
  BY <1>2 DEF Key
<1>4. plan'.nb = plan.nb /\ plan'.fn_anchor = key.fn
  <2>1. plan' = [Closed(plan) EXCEPT !.fn_anchor = key.fn, !.started = TRUE,
                                     !.n_held = 0, !.dist = 1]
    BY <1>1 DEF Key, GopNext
  <2>2. Closed(plan) \in GopState /\ Closed(plan).nb = plan.nb
    <3>1. CASE plan.n_held > 0
      <4>1. Closed(plan) = [plan EXCEPT !.fn_anchor = plan.fn_anchor + plan.nb + 1,
                                        !.n_held = 0]
        BY <3>1 DEF Closed, AfterMinigop
      <4>2. plan.fn_anchor + plan.nb + 1 \in Nat
        BY <1>1
      <4>3. Closed(plan).nb = plan.nb
        BY <1>1, <4>1 DEF GopState
      <4>4. [plan EXCEPT !.fn_anchor = plan.fn_anchor + plan.nb + 1, !.n_held = 0]
              \in GopState
        BY <1>1, <4>2 DEF GopState
      <4> QED BY <4>1, <4>3, <4>4
    <3>2. CASE ~(plan.n_held > 0)
      BY <1>1, <3>2 DEF Closed
    <3> QED BY <3>1, <3>2
  <2> HIDE DEF key
  <2> QED BY <2>1, <2>2 DEF GopState
<1>5. /\ \A c \in T : HasRefs(c, T, plan.nb) /\ c.batch \in Nat /\ c.batch < next
      /\ OneAnchor(T) /\ next \in Nat
  <2>1. CASE plan.n_held > 0
    <3>1. plan.started
      BY <2>1 DEF Inv, Counters
    <3>2. Good(T, plan.nb, plan.fn_anchor + plan.nb + 1, idr, next)
      BY <2>1, <3>1, MinigopGood
    <3>3. \A c \in coded : c.batch \in Nat
      BY DEF Inv, TypeOK, CodedFrame
    <3>4. \A c \in closing : c.batch = batches
      <4> DEFINE frames == Minigop(plan, FALSE)
      <4>1. \A i : Sent(frames, i, idr, batches).batch = batches
        BY DEF Sent
      <4>2. \A c \in closing : \E i : c = Sent(frames, i, idr, batches)
        BY DEF Coded
      <4> HIDE DEF frames, closing
      <4> QED BY <4>1, <4>2
    <3>5. \A c \in T : c.batch \in Nat
      BY <1>1, <3>3, <3>4
    <3>6. next \in Nat
      BY <1>1
    <3>7. /\ \A c \in T : HasRefs(c, T, plan.nb) /\ c.batch < next
          /\ OneAnchor(T)
      <4> HIDE DEF T, next
      <4> QED BY <3>2 DEF Good
    <3> HIDE DEF T, next
    <3> QED BY <3>5, <3>6, <3>7
  <2>2. CASE ~(plan.n_held > 0)
    <3>1. T = coded /\ next = batches
      BY <2>2
    <3>2. \A c \in coded : c.batch \in Nat /\ c.batch < batches
      BY DEF Inv, TypeOK, CodedFrame, Frontier
    <3>3. \A c \in coded : HasRefs(c, coded, plan.nb)
      BY DEF RefInv
    <3> HIDE DEF T, next
    <3> QED BY <1>1, <3>1, <3>2, <3>3 DEF RefInv
  <2> QED BY <2>1, <2>2
<1>6. K.type = "IDR" /\ K.batch = next /\ K.fn = key.fn /\ K.idr = key
  OBVIOUS
<1> HIDE DEF T, K, next, key
<1>7. Good(T \cup {K}, plan.nb, K.fn, K.idr, next + 1)
  BY <1>5, <1>6, IdrGood
<1> QED BY <1>3, <1>4, <1>6, <1>7, GoodIsRefInv

\* Every step keeps them.
LEMMA NextRefInv == Inv /\ RefInv /\ [Next]_vars => RefInv'
<1> SUFFICES ASSUME Inv, RefInv, [Next]_vars PROVE RefInv'
  OBVIOUS
<1>1. CASE NewSource
  <2>1. PICK force \in BOOLEAN, last \in BOOLEAN :
          Hold(force, last) \/ Anchor(force, last) \/ Key(force, last)
    BY <1>1 DEF NewSource
  <2>2. CASE Hold(force, last)
    <3>1. /\ UNCHANGED << coded, idr, batches >> /\ plan'.nb = plan.nb
          /\ plan'.fn_anchor = plan.fn_anchor /\ plan'.started = plan.started
      BY <2>2 DEF Hold, GopNext, Inv, TypeOK, GopState
    <3> QED BY <3>1 DEF RefInv
  <2> QED BY <2>1, <2>2, AnchorRefInv, KeyRefInv
<1>2. CASE Close
  BY <1>2, CloseRefInv
<1>3. CASE UNCHANGED vars
  BY <1>3 DEF vars, RefInv
<1> QED BY <1>1, <1>2, <1>3 DEF Next

\* With the planner's invariant, where every anchor is.
THEOREM RefInvariance == Spec => [](Inv /\ RefInv)
<1>1. Init => RefInv
  BY InitRefInv
<1>2. Inv /\ RefInv /\ [Next]_vars => RefInv'
  BY NextRefInv
<1> QED BY <1>1, <1>2, Invariance, PTL DEF Spec

-----------------------------------------------------------------------------
(* What a decoder still holds.                                             *)

LEMMA AtMostOne ==
  ASSUME NEW x, NEW S, S \subseteq {x}
  PROVE  Cardinality(S) < 2
<1>1. S = {} \/ S = {x}
  OBVIOUS
<1>2. Cardinality({}) = 0 /\ Cardinality({x}) = 1
  BY FS_EmptySet, FS_Singleton
<1> QED BY <1>1, <1>2

\* The anchor of the batch before a frame's is the last but one at most.
LEMMA PrevKept ==
  ASSUME Inv, RefInv, NEW c \in coded, c.type \in {"B", "P"},
         NEW a \in coded, NEW f, AnchorAt(a, f, c.idr, c.batch - 1)
  PROVE  a \in Anchors /\ CodedBefore(a, c) /\ Kept(a, c)
<1>1. \A x \in coded : x.batch \in Nat
  BY DEF Inv, TypeOK, CodedFrame
<1>2. a \in Anchors /\ a.batch = c.batch - 1 /\ CodedBefore(a, c)
  BY <1>1 DEF AnchorAt, Anchors, CodedBefore
<1> DEFINE S == {x \in Anchors : CodedBefore(x, c) /\ x.batch > a.batch}
<1>3. \A x \in S : x \in coded /\ x.type # "B" /\ x.batch = c.batch /\ c.type = "B"
  BY <1>1, <1>2 DEF Anchors, CodedBefore
<1>4. \A x, y \in S : x = y
  BY <1>3 DEF RefInv, OneAnchor
<1>5. Cardinality(S) < 2
  <2>1. \E x : S \subseteq {x}
    BY <1>4
  <2> HIDE DEF S
  <2> QED BY <2>1, AtMostOne
<1> QED BY <1>2, <1>5 DEF Kept, hevc_refs

\* A B frame's own anchor is the last.
LEMMA OwnKept ==
  ASSUME Inv, NEW c \in coded, c.type = "B",
         NEW p \in coded, NEW f, AnchorAt(p, f, c.idr, c.batch)
  PROVE  p \in Anchors /\ CodedBefore(p, c) /\ Kept(p, c)
<1>1. \A x \in coded : x.batch \in Nat
  BY DEF Inv, TypeOK, CodedFrame
<1>2. p \in Anchors /\ p.batch = c.batch /\ CodedBefore(p, c)
  BY DEF AnchorAt, Anchors, CodedBefore
<1> DEFINE S == {x \in Anchors : CodedBefore(x, c) /\ x.batch > p.batch}
<1>3. S \subseteq {p}
  BY <1>1, <1>2 DEF Anchors, CodedBefore
<1>4. Cardinality(S) < 2
  BY <1>3, AtMostOne
<1> QED BY <1>2, <1>4 DEF Kept, hevc_refs

\* RefInv and the firmware's table give every frame its pictures.
LEMMA RefsExist == ASSUME Inv, RefInv PROVE ReferencesExist
<1> DEFINE g == plan.nb + 1
<1>1. /\ plan.nb \in 1 .. 2
      /\ \A c \in coded : /\ c.fn \in Nat /\ c.idr.fn \in Nat /\ c.batch \in Nat
                          /\ c.idr.fn <= c.fn /\ c.type \in {"B", "P", "IDR"}
  BY DEF Inv, TypeOK, GopState, B_MAX, CodedFrame, FrameType, Frontier
<1>2. ASSUME NEW c \in coded, c.type # "IDR"
      PROVE  LET chosen == SetRpsVars(plan.nb, POC(c))
             IN  /\ chosen < ave_hevc_b_sets(plan.nb)
                 /\ \A delta \in ave_hevc_b_set(plan.nb, chosen) :
                      \E a \in Anchors : /\ a.fn = c.fn + delta /\ a.idr = c.idr
                                         /\ CodedBefore(a, c) /\ Kept(a, c)
  <2> DEFINE d == POC(c)
             chosen == SetRpsVars(plan.nb, d)
             OK(delta) == \E a \in Anchors :
                            /\ a.fn = c.fn + delta /\ a.idr = c.idr
                            /\ CodedBefore(a, c) /\ Kept(a, c)
  <2>1. d \in Nat /\ d = c.fn - c.idr.fn
    BY <1>1 DEF POC
  <2>2. c.type \in {"B", "P"} /\ HasRefs(c, coded, plan.nb)
    BY <1>1, <1>2 DEF RefInv
  <2>3. CASE c.type = "P"
    <3>1. PICK a \in coded : AnchorAt(a, c.fn - (plan.nb + 1), c.idr, c.batch - 1)
      BY <2>2, <2>3 DEF HasRefs
    <3>2. a.fn = c.fn - g /\ a.idr = c.idr
      BY <3>1 DEF AnchorAt
    <3>3. a \in Anchors /\ CodedBefore(a, c) /\ Kept(a, c)
      BY <2>2, <3>1, PrevKept
    <3>4. d > 0
      BY <1>1, <2>1, <3>2
    <3>5. d % g = 0
      BY <2>3 DEF Inv, ReferenceGrid
    <3>6. chosen < ave_hevc_b_sets(plan.nb) /\ chosen % g = 0
      BY <1>1, <2>1, <3>4, <3>5, TableFits
    <3>7. ave_hevc_b_set(plan.nb, chosen) = {-g}
      BY <3>6 DEF ave_hevc_b_set
    <3>8. a.fn = c.fn + (-g)
      BY <1>1, <3>2
    <3>9. OK(-g)
      BY <3>2, <3>3, <3>8
    <3> HIDE DEF OK, chosen, g, d
    <3>10. \A delta \in ave_hevc_b_set(plan.nb, chosen) : OK(delta)
      BY <3>7, <3>9
    <3> QED BY <3>6, <3>10 DEF OK, chosen, d
  <2>4. CASE c.type = "B"
    <3>1. d % g # 0
      BY <2>4 DEF Inv, ReferenceGrid
    <3>2. d > 0
      <4>1. CASE plan.nb = 1
        BY <2>1, <3>1, <4>1
      <4>2. CASE plan.nb = 2
        BY <2>1, <3>1, <4>2
      <4> QED BY <1>1, <4>1, <4>2
    <3>3. chosen < ave_hevc_b_sets(plan.nb) /\ chosen % g = d % g
      BY <1>1, <2>1, <3>2, TableFits
    <3>4. ave_hevc_b_set(plan.nb, chosen) = {-(d % g), g - (d % g)}
      BY <3>1, <3>3 DEF ave_hevc_b_set
    <3>5. PICK a \in coded : AnchorAt(a, c.fn - (d % g), c.idr, c.batch - 1)
      BY <2>2, <2>4 DEF HasRefs
    <3>6. PICK p \in coded : AnchorAt(p, c.fn + (g - (d % g)), c.idr, c.batch)
      BY <2>2, <2>4 DEF HasRefs
    <3>7. a \in Anchors /\ CodedBefore(a, c) /\ Kept(a, c)
      BY <2>2, <3>5, PrevKept
    <3>8. p \in Anchors /\ CodedBefore(p, c) /\ Kept(p, c)
      BY <2>4, <3>6, OwnKept
    <3>9. d % g \in Int
      BY <1>1, <2>1
    <3>10. c.fn - (d % g) = c.fn + (-(d % g))
      BY <1>1, <3>9
    <3>11. OK(-(d % g)) /\ OK(g - (d % g))
      BY <3>5, <3>6, <3>7, <3>8, <3>10 DEF AnchorAt
    <3> HIDE DEF OK, chosen, g, d
    <3>12. \A delta \in ave_hevc_b_set(plan.nb, chosen) : OK(delta)
      BY <3>4, <3>11
    <3> QED BY <3>3, <3>12 DEF OK, chosen, d
  <2> QED BY <2>2, <2>3, <2>4
<1>3. \A refs \in 1 .. 2, d \in 1 .. MaxSources :
        /\ SetRpsVarsIppp(d) < IPPP_SETS
        /\ \A delta \in ippp_set(refs, SetRpsVarsIppp(d)) : d + delta >= 0
  BY IpppFits, MaxSourcesAssumption
<1> QED BY <1>2, <1>3 DEF ReferencesExist

\* No frame of any stream refers to a picture that is not in the DPB.
THEOREM AlwaysReferencesExist == Spec => []ReferencesExist
<1>1. Inv /\ RefInv => ReferencesExist
  BY RefsExist
<1> QED BY <1>1, RefInvariance, PTL
=============================================================================
