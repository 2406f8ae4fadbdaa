-------------------------------- MODULE Gop --------------------------------
(***************************************************************************)
(* The mini-GOP planner of the V4L2 stream (driver/ave_gop.h): given one   *)
(* source at a time, in display order, it says whether the source is held  *)
(* as a B or a batch is sent, and numbers the frames of the batch.  Pure   *)
(* operators on struct ave_gop; GopPlanner and EncStream drive them.       *)
(***************************************************************************)
EXTENDS Integers, Sequences

\* AVE_GOP_B_MAX: B frames between anchors the planner and firmware handle.
B_MAX == 2

FrameType == {"B", "P", "IDR"}
GopAct    == {"NONE", "HOLD", "ANCHOR", "KEY", "CLOSE"}

\* struct ave_gop.
GopState == [nb : 1 .. B_MAX, gop : Nat, n_held : Nat, dist : Nat,
             fn_anchor : Nat, started : BOOLEAN]

\* struct ave_gop_frame: src is 0 for the oldest held source, n_held for
\* the new one; fn is frameNumber.
GopFrame(src, type, fn) == [src |-> src, type |-> type, fn |-> fn]

ave_gop_init(nb, gop) ==
  [nb |-> nb, gop |-> gop, n_held |-> 0, dist |-> 0, fn_anchor |-> 0,
   started |-> FALSE]

\* An operator named ...Bug is not the code: it is a plausible mistake in the
\* definition after it, which one of the properties must catch.
\* The next source is due as an IDR; the one after it would be.
KeyDue(g, force) == ~g.started \/ force \/ (g.gop > 0 /\ g.dist >= g.gop)
BeforeKey(g)     == g.gop > 0 /\ g.dist + 1 >= g.gop

ave_gop_decide(g, hasNew, force, last) ==
  CASE ~hasNew /\ last /\ g.n_held > 0          -> "CLOSE"
    [] ~hasNew /\ ~(last /\ g.n_held > 0)       -> "NONE"
    [] hasNew /\ KeyDue(g, force)               -> "KEY"
    [] hasNew /\ ~KeyDue(g, force)
       /\ (last \/ g.n_held >= g.nb \/ BeforeKey(g))  -> "ANCHOR"
    [] OTHER                                    -> "HOLD"

\* CAPTURE buffers an act fills, one per coded frame.
ave_gop_need(g, act) ==
  CASE act \in {"ANCHOR", "KEY"} -> g.n_held + 1
    [] act = "CLOSE"             -> g.n_held
    [] OTHER                     -> 0

\* Sources an act takes from the head of the ready queue.
ave_gop_srcs(g, act) == IF act = "HOLD" THEN 0 ELSE ave_gop_need(g, act)

ForgetsNewBug(g, withAnchor) == g.n_held - 1
HeldStayBsBug(g, withAnchor) == g.n_held
\* The held sources as {B.., P}; withAnchor: and the new source as the P.
MinigopBs(g, withAnchor) == IF withAnchor THEN g.n_held ELSE g.n_held - 1
DenseNumbersBug(g, withAnchor) ==
  [i \in 1 .. MinigopBs(g, withAnchor) + 1 |->
     GopFrame(i - 1, IF i <= MinigopBs(g, withAnchor) THEN "B" ELSE "P",
              g.fn_anchor + i)]
Minigop(g, withAnchor) ==
  LET nbs == MinigopBs(g, withAnchor)
  IN  [i \in 1 .. nbs + 1 |->
         IF i <= nbs THEN GopFrame(i - 1, "B", g.fn_anchor + i)
                     ELSE GopFrame(nbs, "P", g.fn_anchor + g.nb + 1)]

\* What Minigop leaves of the planner.
AfterMinigop(g) ==
  [g EXCEPT !.fn_anchor = g.fn_anchor + g.nb + 1, !.n_held = 0]

RestartsBug(g) == 0
\* The frameNumber of an IDR planned in g: above every number used so far.
KeyFn(g) == IF g.started THEN g.fn_anchor + 1 ELSE 0

\* The planner after a held source that KEY closes first, if there is one.
Closed(g) == IF g.n_held > 0 THEN AfterMinigop(g) ELSE g

\* ave_gop_commit: the planner afterwards, and the batches to send, in order.
GopNext(g, act) ==
  CASE act = "HOLD"   -> [g EXCEPT !.n_held = g.n_held + 1,
                                   !.dist   = g.dist + 1]
    [] act = "ANCHOR" -> [AfterMinigop(g) EXCEPT !.dist = g.dist + 1]
    [] act = "CLOSE"  -> Closed(g)
    [] act = "KEY"    -> [Closed(g) EXCEPT !.fn_anchor = KeyFn(Closed(g)),
                                           !.started = TRUE, !.n_held = 0,
                                           !.dist = 1]
    [] OTHER          -> g

KeyBatch(g)  == << GopFrame(g.n_held, "IDR", KeyFn(Closed(g))) >>

GopBatches(g, act) ==
  CASE act = "ANCHOR"                  -> << Minigop(g, TRUE) >>
    [] act = "CLOSE" /\ g.n_held > 0   -> << Minigop(g, FALSE) >>
    [] act = "KEY" /\ g.n_held > 0     -> << Minigop(g, FALSE), KeyBatch(g) >>
    [] act = "KEY" /\ g.n_held = 0     -> << KeyBatch(g) >>
    [] OTHER                           -> << >>
=============================================================================
