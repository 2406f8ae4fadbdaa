----------------------------- MODULE MCBringup -----------------------------
EXTENDS Bringup
\* Encoders: t6001's first, with the blob installed and before it was kept;
\* its second, whose DATA the driver owns; t6002's first; t8112's.
Encoder == [owned |-> FALSE, byDriver |-> FALSE, translated |-> FALSE, me0 |-> FALSE, blob |-> TRUE]
FirstBoot == {[Encoder EXCEPT !.blob = FALSE]}
SecondEncoder == {[Encoder EXCEPT !.byDriver = TRUE, !.owned = TRUE]}
SomeSites == {Encoder, [Encoder EXCEPT !.byDriver = TRUE], [Encoder EXCEPT !.translated = TRUE],
              [Encoder EXCEPT !.owned = TRUE, !.me0 = TRUE]} \cup FirstBoot \cup SecondEncoder
Defaults == [stop |-> 16, me1 |-> TRUE, me1off |-> FALSE, report |-> TRUE, vote |-> "stream",
             smmu |-> FALSE, reset |-> 0, only |-> FALSE, reload |-> TRUE, auto |-> FALSE,
             restore |-> 0, capture |-> TRUE, halt |-> TRUE, v4l2 |-> TRUE, sleep |-> 2,
             hungReset |-> TRUE]
OnlyDefaults == {[Defaults EXCEPT !.vote = "none"]}
SomeParams == {Defaults,
               [Defaults EXCEPT !.stop = 12, !.sleep = 0],
               [Defaults EXCEPT !.stop = 15, !.sleep = 0],
               [Defaults EXCEPT !.stop = 15, !.sleep = 0, !.me1off = TRUE],
               [Defaults EXCEPT !.restore = 2],
               [Defaults EXCEPT !.me1off = TRUE, !.smmu = TRUE],
               [Defaults EXCEPT !.reset = 1, !.only = TRUE],
               [Defaults EXCEPT !.halt = FALSE, !.me1 = FALSE, !.sleep = 1],
               [Defaults EXCEPT !.reset = 2, !.restore = 1, !.hungReset = FALSE, !.vote = "always"],
               [Defaults EXCEPT !.reload = FALSE, !.v4l2 = FALSE, !.report = FALSE, !.vote = "always", !.sleep = 0]}
=============================================================================
