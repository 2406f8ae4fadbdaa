----------------------------- MODULE GopPlanner -----------------------------
(***************************************************************************)
(* A B-frame stream seen by its planner: sources arrive in display order,  *)
(* each with or without a key frame asked for and as the last of a drain   *)
(* or not, and the planner (Gop.tla, driver/ave_gop.h) holds them or codes *)
(* them.  One step is one job of ave_run_work_b: decide, then commit.      *)
(*                                                                         *)
(* coded is a history: what every frame sent so far was, with the source   *)
(* it came from.  It is what a decoder gets to see.                        *)
(***************************************************************************)
EXTENDS Gop, FiniteSets

CONSTANTS
  NBs,          \* VIDEO_B_FRAMES as ave_latch_bframes leaves it
  GopSizes,     \* VIDEO_GOP_SIZE; 0 is an IDR at the start only
  MaxSources    \* bound: sources of the stream

ASSUME NBsAssumption      == NBs \subseteq 1 .. B_MAX
ASSUME GopSizesAssumption == GopSizes \subseteq Nat
ASSUME MaxSourcesAssumption == MaxSources \in Nat

VARIABLES
  plan,      \* struct ave_gop
  planned,   \* sources given to the planner so far; their display indexes
             \* are 0 .. planned - 1, and the newest n_held of them are held
  coded,     \* the frames sent: [disp, type, fn, idr, batch]
  idr,       \* display index and frameNumber of the last IDR sent
  batches    \* batches sent

vars == << plan, planned, coded, idr, batches >>

\* ave_latch_bframes lets a B frame in only where a GOP has room for a whole
\* mini-GOP and the anchor before its IDR.
Latched(nb, gop) == gop = 0 \/ gop >= nb + 2

Init ==
  /\ \E nb \in NBs, gop \in GopSizes :
       Latched(nb, gop) /\ plan = ave_gop_init(nb, gop)
  /\ planned = 0
  /\ coded = {}
  /\ idr = [disp |-> 0, fn |-> 0]
  /\ batches = 0

\* The display index of source src of the batch being built.
Disp(src) == planned - plan.n_held + src

Sent(frames, i, key, batch) ==
  [disp |-> Disp(frames[i].src), type |-> frames[i].type,
   fn |-> frames[i].fn, idr |-> key, batch |-> batch]

\* The frames of one batch as coded keeps them.
Coded(frames, key, batch) ==
  { Sent(frames, i, key, batch) : i \in DOMAIN frames }

Hold(force, last) ==
  /\ ave_gop_decide(plan, TRUE, force, last) = "HOLD"
  /\ plan' = GopNext(plan, "HOLD")
  /\ planned' = planned + 1
  /\ UNCHANGED << coded, idr, batches >>

Anchor(force, last) ==
  /\ ave_gop_decide(plan, TRUE, force, last) = "ANCHOR"
  /\ plan' = GopNext(plan, "ANCHOR")
  /\ planned' = planned + 1
  /\ coded' = coded \cup Coded(Minigop(plan, TRUE), idr, batches)
  /\ batches' = batches + 1
  /\ UNCHANGED idr

\* KEY: the held sources close first, then the new source alone, an IDR.
Key(force, last) ==
  LET key     == [disp |-> planned, fn |-> KeyFn(Closed(plan))]
      closing == IF plan.n_held > 0
                   THEN Coded(Minigop(plan, FALSE), idr, batches) ELSE {}
      next    == IF plan.n_held > 0 THEN batches + 1 ELSE batches
  IN  /\ ave_gop_decide(plan, TRUE, force, last) = "KEY"
      /\ plan' = GopNext(plan, "KEY")
      /\ planned' = planned + 1
      /\ coded' = coded \cup closing \cup Coded(KeyBatch(plan), key, next)
      /\ idr' = key
      /\ batches' = next + 1

\* A drain whose last source is already held.
Close ==
  /\ ave_gop_decide(plan, FALSE, FALSE, TRUE) = "CLOSE"
  /\ plan' = GopNext(plan, "CLOSE")
  /\ coded' = coded \cup Coded(Minigop(plan, FALSE), idr, batches)
  /\ batches' = batches + 1
  /\ UNCHANGED << planned, idr >>

NewSource ==
  /\ planned < MaxSources
  /\ \E force, last \in BOOLEAN :
       Hold(force, last) \/ Anchor(force, last) \/ Key(force, last)

Next == NewSource \/ Close

Spec == Init /\ [][Next]_vars

-----------------------------------------------------------------------------
CodedFrame == [disp : Nat, type : FrameType, fn : Nat,
               idr : [disp : Nat, fn : Nat], batch : Nat]

TypeOK ==
  /\ plan \in GopState
  /\ planned \in Nat
  /\ coded \subseteq CodedFrame
  /\ idr \in [disp : Nat, fn : Nat]
  /\ batches \in Nat

\* The picture order count the firmware derives (ave_gop.h:22).
POC(c) == c.fn - c.idr.fn

\* Every source given to the planner is either held or coded, none twice:
\* coded is exactly one frame for each of the oldest planned - n_held
\* sources (driver/ave_gop.h:113, ave_gop_srcs and the n_held bookkeeping).
EverySourceOnce ==
  /\ \A d \in 0 .. planned - plan.n_held - 1 : \E c \in coded : c.disp = d
  /\ \A c \in coded : c.disp < planned - plan.n_held
  /\ \A c, d \in coded : c.disp = d.disp => c = d

\* frameNumbers are unique and agree with display order, so sorting by POC
\* within an IDR period - what a decoder does - shows the sources in the
\* order they were queued (driver/ave_gop.h:31 "unique and rise").
NumbersFollowDisplay ==
  \A c, d \in coded : c.disp < d.disp <=> c.fn < d.fn

\* The firmware picks a frame's RPS set by its POC distance: every P is at a
\* multiple of nb + 1 from its IDR and no B is (driver/ave_gop.h:26-31).
ReferenceGrid ==
  \A c \in coded :
    /\ c.type = "P" => POC(c) % (plan.nb + 1) = 0
    /\ c.type = "B" => POC(c) % (plan.nb + 1) # 0
    /\ c.type = "IDR" => POC(c) = 0

\* The firmware never holds a B without its anchor: every B has a P in its
\* own batch, later in display order and above it in frameNumber, the
\* release rule of ReorderFrames (driver/ave_gop.h:19, 32; docs/81 R1).
BHasAnchor ==
  \A b \in coded : b.type = "B" =>
    \E p \in coded : /\ p.type = "P" /\ p.batch = b.batch
                     /\ p.disp > b.disp /\ p.fn > b.fn

\* Closed GOP: an IDR flushes the DPB, so no B is followed by one in display
\* order (driver/ave_gop.h:16).
NoBBeforeIdr ==
  \A b, k \in coded : b.type = "B" /\ k.type = "IDR" => k.disp # b.disp + 1

\* No frame is coded further than the GOP size from its IDR, whatever was
\* held, forced or drained on the way (driver/ave_gop.h:90, 93).
GopBound ==
  plan.gop > 0 => \A c \in coded : c.disp - c.idr.disp < plan.gop
=============================================================================
