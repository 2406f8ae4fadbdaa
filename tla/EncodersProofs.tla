-------------------------- MODULE EncodersProofs --------------------------
(***************************************************************************)
(* What Encoders keeps for any set of encoders and of files, any faults    *)
(* and any number of hangs and sleeps, in three layers, each of which uses *)
(* the one before it.                                                      *)
(*                                                                         *)
(* HwInv ties an encoder's hardware (core, mappings, power) to pm_state,   *)
(* to the state of its re-probe and to where its PM code is.  It needs no  *)
(* hypothesis; NeverGatesLive and, with SleepInv, AsleepMeansStopped       *)
(* follow.                                                                 *)
(*                                                                         *)
(* CountInv says that ctxs and users are the cardinalities of the sets of  *)
(* files they count, and that an encoder that is unregistered has none.    *)
(* It holds when no remove() meets a file opened since it was decided on.  *)
(*                                                                         *)
(* OwnerInv ties an encoder's owner to the session of a file and to the    *)
(* client the firmware has.                                                *)
(***************************************************************************)
EXTENDS Encoders, TLAPS, FiniteSetTheorems, WellFoundedInduction

\* An encoder's record; its counts are only known to be integers.
Record ==
  [up : BOOLEAN, ctxs : Int, users : Int, hung : BOOLEAN,
   rec : {"none", "queued", "remove", "gone", "failed"},
   pm : {"on", "suspend", "off", "boot", "dead"},
   owner : Files \cup {NoFile}, client : BOOLEAN,
   core : {"run", "stop"}, mapped : BOOLEAN,
   powered : BOOLEAN, left : BOOLEAN]
\* Where the PM code of an encoder can be.
Place == {"idle", "quiesce", "halt", "failed", "schedule", "return", "boot", "booting"}
\* A file's record.
FileRecord ==
  [pc : {"closed", "open", "stop", "release", "unbind"},
   nav : Encs \cup {NoEnc}, av : Encs \cup {NoEnc}, session : BOOLEAN]
\* The files.
FilesTyped == file \in [Files -> FileRecord]
\* The types of the variables, but for the range of the counts.
Types ==
  /\ enc \in [Encs -> Record]
  /\ FilesTyped
  /\ pmc \in [Encs -> Place]
  /\ sys \in {"awake", "preparing", "suspending", "asleep"}
  /\ todo \subseteq Encs /\ prep \in Encs \cup {NoEnc}
  /\ cnt \in [hang : 0 .. MaxHangs, sleep : 0 .. MaxSleeps]

\* Nothing of the firmware's is left: stopped, unmapped, no client.
Gone(r) == r.core = "stop" /\ ~r.mapped /\ ~r.client
\* The driver is bound to the encoder and its PM notifier registered.
Bound(r) == r.rec \in {"none", "queued"}
\* What pm_state and the re-probe say of the hardware.  A core is up while
\* pm_state is on or its suspend has only begun, and Gone from then on until its
\* boot ends; between remove() and probe() a core that runs was left on purpose.
Hardware(r, p) ==
  /\ r.rec \in {"none", "queued", "remove"} =>
       /\ r.pm \in {"on", "suspend"} => r.core = "run" /\ r.mapped /\ r.powered
       /\ r.pm \in {"off", "boot", "dead"} => Gone(r) /\ (r.powered <=> p = "booting")
  /\ r.rec = "gone" /\ r.core = "run" => r.mapped /\ r.left
\* What pm_state and the re-probe say of where the PM code is.  A failed prepare
\* or boot marks the encoder hung before it looks at its users.
Placed(r, p) ==
  /\ ~Bound(r) => p = "idle" /\ r.pm # "suspend"
  /\ p \in {"quiesce", "halt"} <=> r.pm = "suspend"
  /\ Bound(r) => (r.pm = "boot" <=> p \in {"boot", "booting"})
  /\ p \in {"failed", "schedule", "return"} => r.hung /\ r.pm \in {"on", "dead"}
  /\ Bound(r) <=> r.up
\* Only a suspend in its PM chain has encoders to reach, which are bound, or one
\* whose PM_SUSPEND_PREPARE call is under way.
Chain ==
  /\ todo # {} \/ prep # NoEnc => sys = "preparing"
  /\ \A e \in todo : Notified(e)
  /\ \A e \in Encs : pmc[e] \in {"quiesce", "halt"} => prep = e
  /\ prep # NoEnc => pmc[prep] \in {"quiesce", "halt", "failed", "schedule", "return"}
\* A file that is open has a node and an encoder; a closed one has neither.
Shape(r) ==
  /\ r.pc = "closed" => r.nav = NoEnc /\ r.av = NoEnc
  /\ r.pc # "closed" => r.nav \in Encs /\ r.av \in Encs
  /\ r.session => r.pc \in {"open", "stop", "release"}
\* The first layer.
HwInv == /\ Types
         /\ \A f \in Files : Shape(file[f])
         /\ \A e \in Encs : Hardware(enc[e], pmc[e]) /\ Placed(enc[e], pmc[e])
         /\ Chain

\* No encoder is NoEnc.
LEMMA NoEncNotEnc == NoEnc \notin Encs
<1> QED BY EncsAssumption DEF NoEnc

\* A file that starts or loses its session is a file still.
LEMMA SessionSet ==
  ASSUME NEW r \in FileRecord, NEW s \in BOOLEAN
  PROVE  [r EXCEPT !.session = s] \in FileRecord
<1> QED BY DEF FileRecord

\* open_balance gives a file an encoder: its node's own, or a free one.  The least
\* element of a set of encoders exists since < is well-founded on Nat.
LEMMA BoundToEnc ==
  ASSUME NEW nav \in Encs
  PROVE  BoundTo(nav) \in {nav} \cup Others(nav)
<1>1. ASSUME Others(nav) # {} PROVE Min(Others(nav)) \in Others(nav)
  <2> DEFINE S == Others(nav)
  <2>1. S \subseteq Nat /\ S # {} BY <1>1, EncsAssumption DEF Others
  <2>2. PICK x \in S : \A y \in S : x <= y
    <3> DEFINE R == OpToRel(<, Nat)
    <3>1. IsWellFoundedOn(R, Nat) BY NatLessThanWellFounded
    <3>2. \A x, y \in Nat : x < y => <<x, y>> \in R BY DEF OpToRel
    <3>3. S \subseteq Nat /\ S # {} BY <2>1
    <3> HIDE DEF R, S
    <3>4. PICK x \in S : \A y \in S : <<y, x>> \notin R BY <3>1, <3>3, WFMin
    <3>5. ASSUME NEW y \in S PROVE x <= y
      <4>1. x \in Nat /\ y \in Nat BY <3>3
      <4>2. ~ (y < x) BY <3>2, <3>4, <4>1
      <4> QED BY <4>1, <4>2
    <3> QED BY <3>5
  <2> QED BY <2>2 DEF Min
<1> QED BY <1>1 DEF BoundTo

\* PM_POST_SUSPEND gives every encoder a record still.
LEMMA PostTypes ==
  ASSUME NEW recs \in [Encs -> Record], Post(recs)
  PROVE  enc' \in [Encs -> Record]
<1>1. \A r \in Record : [r EXCEPT !.pm = "boot"] \in Record BY DEF Record
<1>2. ASSUME NEW x \in Encs
      PROVE  (IF Notified(x) /\ Booted(recs[x]) THEN [recs[x] EXCEPT !.pm = "boot"]
                                                 ELSE recs[x]) \in Record
  BY <1>1
<1> QED BY <1>2 DEF Post

\* Two records that differ in their counts and their re-probe alone.
Alike(q, r) ==
  /\ q.pm = r.pm /\ q.core = r.core /\ q.mapped = r.mapped
  /\ q.powered = r.powered /\ q.client = r.client /\ q.left = r.left
  /\ q.up = r.up /\ q.hung = r.hung /\ q.owner = r.owner

\* The two values of One.
LEMMA OneInt == One(TRUE) = 1 /\ One(FALSE) = 0
<1> QED BY DEF One

\* An open changes counts only.
LEMMA OpenAlike ==
  ASSUME NEW f \in Files, NEW nav \in Encs, Open(f, nav), HwInv, NEW x \in Encs
  PROVE  /\ enc'[x] \in Record
         /\ Alike(enc'[x], enc[x])
         /\ Bound(enc'[x]) <=> Bound(enc[x])
         /\ ~Bound(enc'[x]) => enc'[x].rec = enc[x].rec
<1> DEFINE R == [enc[x] EXCEPT !.ctxs = @ + One(x = BoundTo(nav)), !.users = @ + One(x = BoundTo(nav)) + One(x = nav)]
<1>0. enc'[x] = R BY DEF Open
<1>1. enc[x] \in Record BY DEF HwInv, Types
<1>2. enc[x].ctxs \in Int /\ enc[x].users \in Int BY <1>1 DEF Record
<1>3. One(x = BoundTo(nav)) \in Int /\ One(x = nav) \in Int BY OneInt DEF One
<1> DEFINE m == enc[x].ctxs + One(x = BoundTo(nav))
           n == enc[x].users + One(x = BoundTo(nav)) + One(x = nav)
<1>4. m \in Int /\ n \in Int BY <1>2, <1>3
<1>5. R = [enc[x] EXCEPT !.ctxs = m, !.users = n] OBVIOUS
<1> HIDE DEF m, n, R
<1>6. R \in Record /\ Alike(R, enc[x]) /\ R.rec = enc[x].rec
  BY <1>1, <1>4, <1>5 DEF Record, Alike
<1> QED BY <1>0, <1>6 DEF Bound

\* An unbind changes counts, and may queue a re-probe.
LEMMA UnbindAlike ==
  ASSUME NEW f \in Files, Unbind(f), HwInv, NEW x \in Encs
  PROVE  /\ enc'[x] \in Record
         /\ Alike(enc'[x], enc[x])
         /\ Bound(enc'[x]) <=> Bound(enc[x])
         /\ ~Bound(enc'[x]) => enc'[x].rec = enc[x].rec
<1> DEFINE R == IF x \in {file[f].av, file[f].nav} THEN RecoverIfLast(Uncount(f, x)) ELSE enc[x]
<1>0. enc'[x] = R BY DEF Unbind
<1>1. enc[x] \in Record BY DEF HwInv, Types
<1>2. enc[x].ctxs \in Int /\ enc[x].users \in Int BY <1>1 DEF Record
<1>3. One(x = file[f].av) \in Int /\ One(x = file[f].nav) \in Int BY OneInt DEF One
<1> DEFINE m == enc[x].ctxs - One(x = file[f].av)
           n == enc[x].users - One(x = file[f].av) - One(x = file[f].nav)
           u == Uncount(f, x)
<1>4. m \in Int /\ n \in Int BY <1>2, <1>3
<1>5. u = [enc[x] EXCEPT !.ctxs = m, !.users = n] BY DEF Uncount
<1> HIDE DEF m, n, u
<1>6. R = enc[x] \/ R = u \/ (u.rec = "none" /\ R = [u EXCEPT !.rec = "queued"])
  BY DEF RecoverIfLast, Schedule, u
<1> HIDE DEF R
<1>7. u \in Record /\ Alike(u, enc[x]) /\ u.rec = enc[x].rec
  BY <1>1, <1>4, <1>5 DEF Record, Alike
<1>8. CASE R = enc[x] BY <1>0, <1>1, <1>8 DEF Alike
<1>9. CASE R = u BY <1>0, <1>7, <1>9 DEF Bound
<1>10. CASE u.rec = "none" /\ R = [u EXCEPT !.rec = "queued"]
  <2> DEFINE q == [u EXCEPT !.rec = "queued"]
  <2>1. q \in Record /\ Alike(q, u) /\ q.rec = "queued" BY <1>7 DEF Record, Alike
  <2> QED BY <1>0, <2>1, <1>7, <1>10 DEF Alike, Bound
<1> QED BY <1>0, <1>6, <1>8, <1>9, <1>10

\* An open keeps the hardware layer.
LEMMA HwOpen ==
  ASSUME NEW f \in Files, NEW nav \in Encs, Open(f, nav), HwInv
  PROVE  HwInv'
<1>1. UNCHANGED << pmc, sys, todo, prep, cnt >> /\ enc' = [x \in Encs |-> enc'[x]]
  BY DEF Open, pm
<1>2. FilesTyped'
  BY BoundToEnc DEF Open, HwInv, Types, FilesTyped, FileRecord, Closed, Others
<1>3. enc' \in [Encs -> Record] BY <1>1, OpenAlike
<1>4. Types' BY <1>1, <1>2, <1>3 DEF HwInv, Types
<1>5. ASSUME NEW x \in Encs PROVE (Hardware(enc[x], pmc[x]) /\ Placed(enc[x], pmc[x]))'
  <2>1. Hardware(enc[x], pmc[x]) /\ Placed(enc[x], pmc[x]) BY DEF HwInv
  <2> QED BY <1>1, <2>1, OpenAlike DEF Hardware, Placed, Gone, Bound, Alike
<1>6. Chain' BY <1>1, OpenAlike DEF HwInv, Chain, Notified, Bound, Types
<1>7. \A g \in Files : Shape(file[g])'
  BY BoundToEnc, NoEncNotEnc DEF Open, HwInv, Shape, Types, FilesTyped, FileRecord, Others, Closed
<1> QED BY <1>4, <1>5, <1>6, <1>7 DEF HwInv

\* The end of a close keeps the hardware layer.
LEMMA HwUnbind == ASSUME NEW f \in Files, Unbind(f), HwInv PROVE HwInv'
<1>1. UNCHANGED << pmc, sys, todo, prep, cnt >> /\ enc' = [x \in Encs |-> enc'[x]]
  BY DEF Unbind, pm
<1>2. FilesTyped'
  BY BoundToEnc DEF Unbind, HwInv, Types, FilesTyped, FileRecord, Closed, Others
<1>3. enc' \in [Encs -> Record] BY <1>1, UnbindAlike
<1>4. Types' BY <1>1, <1>2, <1>3 DEF HwInv, Types
<1>5. ASSUME NEW x \in Encs PROVE (Hardware(enc[x], pmc[x]) /\ Placed(enc[x], pmc[x]))'
  <2>1. Hardware(enc[x], pmc[x]) /\ Placed(enc[x], pmc[x]) BY DEF HwInv
  <2> QED BY <1>1, <2>1, UnbindAlike DEF Hardware, Placed, Gone, Bound, Alike
<1>6. Chain' BY <1>1, UnbindAlike DEF HwInv, Chain, Notified, Bound, Types
<1>7. \A g \in Files : Shape(file[g])'
  BY BoundToEnc, NoEncNotEnc DEF Unbind, HwInv, Shape, Types, FilesTyped, FileRecord, Others, Closed
<1> QED BY <1>4, <1>5, <1>6, <1>7 DEF HwInv

\* STREAMON keeps the hardware layer.
LEMMA HwStreamOn == ASSUME NEW f \in Files, StreamOn(f), HwInv PROVE HwInv'
<1> USE EncsAssumption, FilesAssumption, NoEncNotEnc
         DEF HwInv, Awake, NoFile, NoEnc, Recovering
<1> DEFINE e == file[f].av
<1>e. e \in Encs BY DEF StreamOn, Types, FilesTyped, FileRecord, Shape
<1>1. Types'
  <2>1. enc[e] \in Record BY <1>e DEF Types, FilesTyped, FileRecord
  <2>2. [enc[e] EXCEPT !.client = TRUE, !.owner = f] \in Record /\ [enc[e] EXCEPT !.client = TRUE] \in Record
    BY <2>1 DEF Record
  <2>3. \/ enc' = [enc EXCEPT ![e] = [enc[e] EXCEPT !.client = TRUE, !.owner = f]]
        \/ enc' = [enc EXCEPT ![e] = [enc[e] EXCEPT !.client = TRUE]]
    BY DEF Types, FilesTyped, FileRecord, StreamOn
  <2>4. enc' \in [Encs -> Record] BY <2>2, <2>3 DEF Types, FilesTyped, FileRecord
  <2>5. FilesTyped'
    <3>1. file' = file \/ file' = [file EXCEPT ![f] = [file[f] EXCEPT !.session = TRUE]]
      BY DEF Types, FilesTyped, FileRecord, StreamOn
    <3>2. file[f] \in FileRecord BY DEF Types, FilesTyped
    <3>3. [file[f] EXCEPT !.session = TRUE] \in FileRecord BY <3>2, SessionSet
    <3> QED BY <3>1, <3>3 DEF Types, FilesTyped
  <2> QED BY <2>4, <2>5 DEF Types, FilesTyped, FileRecord, Place, StreamOn, pm
<1>s. /\ pmc' = pmc /\ sys' = sys /\ todo' = todo /\ prep' = prep
      /\ \A x \in Encs : /\ enc'[x].rec = enc[x].rec /\ enc'[x].up = enc[x].up
                         /\ enc'[x].pm = enc[x].pm /\ enc'[x].hung = enc[x].hung
  <2>1. enc \in [Encs -> Record] BY DEF Types
  <2>2. pmc' = pmc /\ sys' = sys /\ todo' = todo /\ prep' = prep BY DEF StreamOn, pm
  <2>3. ASSUME NEW x \in Encs
        PROVE  /\ enc'[x].rec = enc[x].rec /\ enc'[x].up = enc[x].up
               /\ enc'[x].pm = enc[x].pm /\ enc'[x].hung = enc[x].hung
    <3>1. enc[x] \in Record BY <2>1
    <3> HIDE DEF HwInv
    <3> QED BY <2>1, <3>1 DEF StreamOn, Record
  <2> QED BY <2>2, <2>3
<1>t. \A x \in Files : /\ file'[x].pc = file[x].pc /\ file'[x].nav = file[x].nav
                       /\ file'[x].av = file[x].av
                       /\ file'[x].session => file[x].session \/ file[x].pc = "open"
  <2>1. ASSUME NEW x \in Files
        PROVE  /\ file'[x].pc = file[x].pc /\ file'[x].nav = file[x].nav
               /\ file'[x].av = file[x].av
               /\ file'[x].session => file[x].session \/ file[x].pc = "open"
    <3>1. file \in [Files -> FileRecord] /\ file[x] \in FileRecord BY DEF Types, FilesTyped
    <3> HIDE DEF HwInv
    <3> QED BY <3>1 DEF StreamOn, FileRecord
  <2> QED BY <2>1
<1> USE DEF Types, FilesTyped, FileRecord, Record, Place, Shape, Hardware, Gone, Placed, Bound,
        Chain, Notified
<1>2. ASSUME NEW x \in Encs PROVE Hardware(enc[x], pmc[x])'
  <2>1. Hardware(enc[x], pmc[x]) /\ Placed(enc[x], pmc[x]) OBVIOUS
  <2>2. CASE x # e BY <2>1, <2>2 DEF StreamOn, pm
  <2>3. CASE x = e BY <2>1, <2>3 DEF StreamOn, pm
  <2> QED BY <2>2, <2>3
<1>3. ASSUME NEW x \in Encs PROVE Placed(enc[x], pmc[x])'
  <2>1. Placed(enc[x], pmc[x]) OBVIOUS
  <2> HIDE DEF HwInv
  <2> QED BY <1>s, <2>1
<1>4. Chain'
  <2>1. Chain OBVIOUS
  <2>2. \A x \in Encs : Notified(x)' <=> Notified(x) BY <1>s
  <2> HIDE DEF HwInv, Types, FilesTyped, FileRecord, Record, Place, Notified
  <2>3. todo \subseteq Encs BY DEF HwInv, Types
  <2> QED BY <1>s, <2>1, <2>2, <2>3
<1>5. ASSUME NEW x \in Files PROVE Shape(file[x])'
  <2>1. Shape(file[x]) OBVIOUS
  <2> HIDE DEF HwInv, Types, FilesTyped, FileRecord
  <2>2. /\ file'[x].pc = file[x].pc /\ file'[x].nav = file[x].nav
        /\ file'[x].av = file[x].av
        /\ file'[x].session => file[x].session \/ file[x].pc = "open"
    BY <1>t
  <2> HIDE <1>t
  <2> QED BY <2>1, <2>2
<1> QED BY <1>1, <1>2, <1>3, <1>4, <1>5

\* A Process that times out keeps the hardware layer.
LEMMA HwProcessTimeout == ASSUME NEW f \in Files, ProcessTimeout(f), HwInv PROVE HwInv'
<1> USE EncsAssumption, FilesAssumption, NoEncNotEnc
         DEF HwInv, Awake, NoFile, NoEnc, Recovering
<1> DEFINE e == file[f].av
<1>e. e \in Encs BY DEF ProcessTimeout, Types, FilesTyped, FileRecord, Shape
<1>1. Types'
  <2>1. enc[e] \in Record BY <1>e DEF Types, FilesTyped, FileRecord
  <2>2. [enc[e] EXCEPT !.hung = TRUE] \in Record BY <2>1 DEF Record
  <2>3. enc' = [enc EXCEPT ![e] = [enc[e] EXCEPT !.hung = TRUE]]
    BY DEF Types, FilesTyped, FileRecord, ProcessTimeout
  <2>4. enc' \in [Encs -> Record] BY <2>2, <2>3 DEF Types, FilesTyped, FileRecord
  <2>5. cnt' \in [hang : 0 .. MaxHangs, sleep : 0 .. MaxSleeps]
    BY ParametersAssumption DEF Types, FilesTyped, FileRecord, ProcessTimeout
  <2> QED BY <2>4, <2>5 DEF Types, FilesTyped, FileRecord, Place, ProcessTimeout, pm
<1> USE DEF Types, FilesTyped, FileRecord, Record, Place, Shape, Hardware, Gone, Placed, Bound,
        Chain, Notified
<1>2. \A x \in Encs : Hardware(enc[x], pmc[x])' BY DEF ProcessTimeout, pm, HwFree
<1>3. \A x \in Encs : Placed(enc[x], pmc[x])' BY DEF ProcessTimeout, pm, HwFree
<1>4. Chain' BY DEF ProcessTimeout, pm, HwFree
<1>5. \A x \in Files : Shape(file[x])' BY DEF ProcessTimeout, pm, HwFree
<1> QED BY <1>1, <1>2, <1>3, <1>4, <1>5

\* The begin of STREAMOFF keeps the hardware layer.
LEMMA HwStreamOff == ASSUME NEW f \in Files, StreamOff(f), HwInv PROVE HwInv'
<1> USE EncsAssumption, FilesAssumption, NoEncNotEnc
         DEF HwInv, Awake, NoFile, NoEnc, Recovering
<1>1. Types' BY DEF Types, FilesTyped, FileRecord, Record, Place, StreamOff, pm
<1> USE DEF Types, FilesTyped, FileRecord, Record, Place, Shape, Hardware, Gone, Placed, Bound,
        Chain, Notified
<1>2. \A x \in Encs : Hardware(enc[x], pmc[x])' BY DEF StreamOff, pm
<1>3. \A x \in Encs : Placed(enc[x], pmc[x])' BY DEF StreamOff, pm
<1>4. Chain' BY DEF StreamOff, pm
<1>5. \A x \in Files : Shape(file[x])' BY DEF StreamOff, pm
<1> QED BY <1>1, <1>2, <1>3, <1>4, <1>5

\* The begin of a close keeps the hardware layer.
LEMMA HwRelease == ASSUME NEW f \in Files, Release(f), HwInv PROVE HwInv'
<1> USE EncsAssumption, FilesAssumption, NoEncNotEnc
         DEF HwInv, Awake, NoFile, NoEnc, Recovering
<1>1. Types' BY DEF Types, FilesTyped, FileRecord, Record, Place, Release, pm
<1> USE DEF Types, FilesTyped, FileRecord, Record, Place, Shape, Hardware, Gone, Placed, Bound,
        Chain, Notified
<1>2. \A x \in Encs : Hardware(enc[x], pmc[x])' BY DEF Release, pm
<1>3. \A x \in Encs : Placed(enc[x], pmc[x])' BY DEF Release, pm
<1>4. Chain' BY DEF Release, pm
<1>5. \A x \in Files : Shape(file[x])' BY DEF Release, pm
<1> QED BY <1>1, <1>2, <1>3, <1>4, <1>5

\* The end of a stream keeps the hardware layer.
LEMMA HwEndSession == ASSUME NEW f \in Files, EndSession(f), HwInv PROVE HwInv'
<1> USE EncsAssumption, FilesAssumption, NoEncNotEnc
         DEF HwInv, Awake, NoFile, NoEnc, Recovering
<1>1. Types' BY DEF Types, FilesTyped, FileRecord, Record, Place, EndSession, pm, AfterStop, OwnerAfter, HwFree
<1> USE DEF Types, FilesTyped, FileRecord, Record, Place, Shape, Hardware, Gone, Placed, Bound,
        Chain, Notified
<1>2. \A x \in Encs : Hardware(enc[x], pmc[x])'
  BY DEF EndSession, pm, AfterStop, OwnerAfter, HwFree
<1>3. ASSUME NEW x \in Encs PROVE Placed(enc[x], pmc[x])'
  <2>1. Placed(enc[x], pmc[x]) /\ enc \in [Encs -> Record] /\ enc[x] \in Record OBVIOUS
  <2> HIDE DEF HwInv
  <2>2. /\ pmc' = pmc /\ enc'[x].rec = enc[x].rec /\ enc'[x].up = enc[x].up
        /\ enc'[x].pm = enc[x].pm /\ enc'[x].hung = enc[x].hung
    BY <2>1 DEF EndSession, pm
  <2> QED BY <2>1, <2>2
<1>4. Chain' BY DEF EndSession, pm, AfterStop, OwnerAfter, HwFree
<1>5. \A x \in Files : Shape(file[x])'
  BY DEF EndSession, pm, AfterStop, OwnerAfter, HwFree
<1> QED BY <1>1, <1>2, <1>3, <1>4, <1>5

\* remove() up to its node keeps the hardware layer.
LEMMA HwRemove == ASSUME NEW e \in Encs, Remove(e), HwInv PROVE HwInv'
<1> USE EncsAssumption, FilesAssumption, NoEncNotEnc
         DEF HwInv, Awake, NoFile, NoEnc, Recovering
<1>1. Types'
  <2>1. enc[e] \in Record BY DEF Types, FilesTyped, FileRecord
  <2>2. [enc[e] EXCEPT !.rec = "remove", !.up = FALSE] \in Record
    BY <2>1 DEF Record, Remove, RemoveMayRun
  <2>3. enc' = [enc EXCEPT ![e] = [enc[e] EXCEPT !.rec = "remove", !.up = FALSE]]
    BY DEF Types, FilesTyped, FileRecord, Remove, RemoveMayRun
  <2>4. enc' \in [Encs -> Record] BY <2>2, <2>3 DEF Types, FilesTyped, FileRecord
  <2> QED BY <2>4 DEF Types, FilesTyped, FileRecord, Place, Remove, RemoveMayRun
<1> USE DEF Types, FilesTyped, FileRecord, Record, Place, Shape, Hardware, Gone, Placed, Bound,
        Chain, Notified
<1>2. \A x \in Encs : Hardware(enc[x], pmc[x])' BY DEF Remove, RemoveMayRun
<1>3. \A x \in Encs : Placed(enc[x], pmc[x])' BY DEF Remove, RemoveMayRun
<1>4. Chain' BY DEF Remove, RemoveMayRun
<1>5. \A x \in Files : Shape(file[x])' BY DEF Remove, RemoveMayRun
<1> QED BY <1>1, <1>2, <1>3, <1>4, <1>5

\* The rest of remove() keeps the hardware layer.
LEMMA HwTeardown == ASSUME NEW e \in Encs, Teardown(e), HwInv PROVE HwInv'
<1> USE EncsAssumption, FilesAssumption, NoEncNotEnc
         DEF HwInv, Awake, NoFile, NoEnc, Recovering
<1>1. Types'
  <2>1. enc[e] \in Record BY DEF Types, FilesTyped, FileRecord
  <2>2. ASSUME NEW b \in BOOLEAN
        PROVE  [IF OffOrBooting(e) THEN Gated(enc[e]) ELSE AfterTeardown(enc[e], b)
                  EXCEPT !.rec = "gone"] \in Record
    <3> HIDE DEF HwInv
    <3>1. Gated(enc[e]) \in Record BY <2>1 DEF Record, Gated
    <3>l. \A r \in Record : [r EXCEPT !.left = TRUE] \in Record BY DEF Record
    <3>2. AfterTeardown(enc[e], b) \in Record BY <2>1, <3>1, <3>l DEF AfterTeardown
    <3>3. \A r \in Record : [r EXCEPT !.rec = "gone"] \in Record BY DEF Record
    <3> QED BY <3>1, <3>2, <3>3
  <2>3. \E b \in BOOLEAN : enc' = [enc EXCEPT ![e] = [IF OffOrBooting(e) THEN Gated(enc[e]) ELSE AfterTeardown(enc[e], b) EXCEPT !.rec = "gone"]]
    BY DEF Types, FilesTyped, FileRecord, Teardown, OffOrBooting, Gated, AfterTeardown, pm
  <2>4. enc' \in [Encs -> Record] BY <2>2, <2>3 DEF Types, FilesTyped, FileRecord
  <2> QED BY <2>4 DEF Types, FilesTyped, FileRecord, Place, Teardown, OffOrBooting, Gated,
             AfterTeardown, pm
<1> USE DEF Types, FilesTyped, FileRecord, Record, Place, Shape, Hardware, Gone, Placed, Bound,
        Chain, Notified
<1>2. \A x \in Encs : Hardware(enc[x], pmc[x])'
  BY DEF Teardown, OffOrBooting, Gated, AfterTeardown, pm
<1>3. \A x \in Encs : Placed(enc[x], pmc[x])'
  BY DEF Teardown, OffOrBooting, Gated, AfterTeardown, pm
<1>4. Chain' BY DEF Teardown, OffOrBooting, Gated, AfterTeardown, pm
<1>5. \A x \in Files : Shape(file[x])'
  BY DEF Teardown, OffOrBooting, Gated, AfterTeardown, pm
<1> QED BY <1>1, <1>2, <1>3, <1>4, <1>5

\* probe() keeps the hardware layer.
LEMMA HwProbe == ASSUME NEW e \in Encs, Probe(e), HwInv PROVE HwInv'
<1> USE EncsAssumption, FilesAssumption, NoEncNotEnc
         DEF HwInv, Awake, NoFile, NoEnc, Recovering
<1>1. Types'
  <2>1. enc[e] \in Record BY DEF Types, FilesTyped, FileRecord
  <2>0. Fresh \in Record BY DEF Record, Fresh, NoFile
  <2>2. /\ [Fresh EXCEPT !.left = enc[e].left] \in Record
        /\ [enc[e] EXCEPT !.rec = "failed", !.core = "run", !.mapped = FALSE, !.powered = FALSE] \in Record
        /\ [enc[e] EXCEPT !.rec = "failed"] \in Record
    <3> HIDE DEF HwInv
    <3>1. [Fresh EXCEPT !.left = enc[e].left] \in Record BY <2>1, <2>0 DEF Record
    <3>2. [enc[e] EXCEPT !.rec = "failed", !.core = "run", !.mapped = FALSE,
                         !.powered = FALSE] \in Record
      BY <2>1 DEF Record
    <3>3. [enc[e] EXCEPT !.rec = "failed"] \in Record BY <2>1 DEF Record
    <3> QED BY <3>1, <3>2, <3>3
  <2>3. \/ enc' = [enc EXCEPT ![e] = [Fresh EXCEPT !.left = enc[e].left]]
        \/ enc' = [enc EXCEPT ![e] = [enc[e] EXCEPT !.rec = "failed", !.core = "run", !.mapped = FALSE, !.powered = FALSE]]
        \/ enc' = [enc EXCEPT ![e] = [enc[e] EXCEPT !.rec = "failed"]]
    BY DEF Types, FilesTyped, FileRecord, Probe
  <2>4. enc' \in [Encs -> Record] BY <2>2, <2>3 DEF Types, FilesTyped, FileRecord
  <2> QED BY <2>4 DEF Types, FilesTyped, FileRecord, Place, Probe, pm
<1> USE DEF Types, FilesTyped, FileRecord, Record, Place, Shape, Hardware, Gone, Placed, Bound,
        Chain, Notified
<1>2. ASSUME NEW x \in Encs PROVE Hardware(enc[x], pmc[x])'
  <2>1. Hardware(enc[x], pmc[x]) /\ Placed(enc[x], pmc[x]) OBVIOUS
  <2>2. CASE x # e BY <2>1, <2>2 DEF Probe, Fresh, pm
  <2>3. CASE x = e BY <2>1, <2>3 DEF Probe, Fresh, pm
  <2> QED BY <2>2, <2>3
<1>3. ASSUME NEW x \in Encs PROVE Placed(enc[x], pmc[x])'
  <2>1. Placed(enc[x], pmc[x]) OBVIOUS
  <2>2. CASE x # e
    <3>1. enc'[x] = enc[x] /\ pmc' = pmc BY <2>2 DEF Probe, pm
    <3> QED BY <2>1, <3>1
  <2>3. CASE x = e BY <2>1, <2>3 DEF Probe, Fresh, pm
  <2> QED BY <2>2, <2>3
<1>4. Chain' BY DEF Probe, Fresh, pm
<1>5. \A x \in Files : Shape(file[x])' BY DEF Probe, Fresh, pm
<1> QED BY <1>1, <1>2, <1>3, <1>4, <1>5

\* The begin of PM_SUSPEND_PREPARE keeps the hardware layer.
LEMMA HwPmPrepare == ASSUME NEW e \in Encs, PmPrepare(e), HwInv PROVE HwInv'
<1> USE EncsAssumption, FilesAssumption, NoEncNotEnc
         DEF HwInv, Awake, NoFile, NoEnc, Recovering
<1>1. Types'
  <2>1. enc[e] \in Record BY DEF Types, FilesTyped, FileRecord
  <2>2. [enc[e] EXCEPT !.pm = "suspend"] \in Record
    BY <2>1 DEF Record, PmPrepare, FlushedBoot
  <2>3. enc' = enc \/ enc' = [enc EXCEPT ![e] = [enc[e] EXCEPT !.pm = "suspend"]]
    BY DEF Types, FilesTyped, FileRecord, PmPrepare, FlushedBoot
  <2>4. enc' \in [Encs -> Record] BY <2>2, <2>3 DEF Types, FilesTyped, FileRecord
  <2> QED BY <2>4 DEF Types, FilesTyped, FileRecord, Place, PmPrepare, FlushedBoot
<1> USE DEF Types, FilesTyped, FileRecord, Record, Place, Shape, Hardware, Gone, Placed, Bound,
        Chain, Notified
<1>2. \A x \in Encs : Hardware(enc[x], pmc[x])' BY SMTT(60) DEF PmPrepare, FlushedBoot
<1>3. \A x \in Encs : Placed(enc[x], pmc[x])' BY DEF PmPrepare, FlushedBoot
<1>4. Chain' BY DEF PmPrepare, FlushedBoot
<1>5. \A x \in Files : Shape(file[x])' BY DEF PmPrepare, FlushedBoot
<1> QED BY <1>1, <1>2, <1>3, <1>4, <1>5

\* The quiesce of a suspend keeps the hardware layer.
LEMMA HwPmQuiesce == ASSUME NEW e \in Encs, PmQuiesce(e), HwInv PROVE HwInv'
<1> USE EncsAssumption, FilesAssumption, NoEncNotEnc
         DEF HwInv, Awake, NoFile, NoEnc, Recovering
<1>1. Types'
  <2>1. enc[e] \in Record BY DEF Types, FilesTyped, FileRecord
  <2>2. \A b \in BOOLEAN : [enc[e] EXCEPT !.client = b, !.owner = NoFile] \in Record
    BY <2>1 DEF Record, PmQuiesce, LosesStream, AfterStop
  <2>3. \E b \in BOOLEAN : enc' = [enc EXCEPT ![e] = [enc[e] EXCEPT !.client = b, !.owner = NoFile]]
    <3>1. (IF enc[e].owner = NoFile THEN {enc[e].client} ELSE AfterStop(enc[e])) \subseteq BOOLEAN
      BY <2>1 DEF Record, AfterStop
    <3> QED BY <3>1 DEF PmQuiesce
  <2>4. enc' \in [Encs -> Record]
    <3>1. PICK b \in BOOLEAN : enc' = [enc EXCEPT ![e] = [enc[e] EXCEPT !.client = b, !.owner = NoFile]]
      BY <2>3
    <3>2. [enc[e] EXCEPT !.client = b, !.owner = NoFile] \in Record BY <2>2
    <3> QED BY <3>1, <3>2 DEF Types
  <2>5. FilesTyped'
    <3>1. file' = [x \in Files |-> IF LosesStream(x, e) THEN [file[x] EXCEPT !.session = FALSE] ELSE file[x]]
      BY DEF PmQuiesce
    <3>2. FilesTyped BY DEF Types
    <3> HIDE DEF HwInv
    <3>3. ASSUME NEW x \in Files PROVE [file[x] EXCEPT !.session = FALSE] \in FileRecord
      <4>1. file[x] \in FileRecord BY <3>2 DEF FilesTyped
      <4> QED BY <4>1, SessionSet
    <3>4. \A x \in Files : file[x] \in FileRecord BY <3>2 DEF FilesTyped
    <3> QED BY <3>1, <3>3, <3>4 DEF FilesTyped
  <2> QED BY <2>4, <2>5 DEF Types, FilesTyped, FileRecord, Place, PmQuiesce
<1> USE DEF Types, FilesTyped, FileRecord, Record, Place, Shape, Hardware, Gone, Placed, Bound,
        Chain, Notified
<1>2. \A x \in Encs : Hardware(enc[x], pmc[x])' BY DEF PmQuiesce, LosesStream, AfterStop
<1>3. \A x \in Encs : Placed(enc[x], pmc[x])' BY DEF PmQuiesce, LosesStream, AfterStop
<1>4. Chain' BY DEF PmQuiesce, LosesStream, AfterStop
<1>5. \A x \in Files : Shape(file[x])' BY DEF PmQuiesce, LosesStream, AfterStop
<1> QED BY <1>1, <1>2, <1>3, <1>4, <1>5

\* The halt of a suspend keeps the hardware layer.
LEMMA HwPmHalt == ASSUME NEW e \in Encs, PmHalt(e), HwInv PROVE HwInv'
<1> USE EncsAssumption, FilesAssumption, NoEncNotEnc
         DEF HwInv, Awake, NoFile, NoEnc, Recovering
<1>1. Types'
  <2>1. enc[e] \in Record BY DEF Types, FilesTyped, FileRecord
  <2>2. \A b \in BOOLEAN : AfterHalt(enc[e], b) \in Record
    BY <2>1 DEF Record, PmHalt, AfterHalt, Gated
  <2>3. \E b \in BOOLEAN : enc' = [enc EXCEPT ![e] = AfterHalt(enc[e], b)]
    BY DEF Types, FilesTyped, FileRecord, PmHalt, AfterHalt, Gated
  <2>4. enc' \in [Encs -> Record] BY <2>2, <2>3 DEF Types, FilesTyped, FileRecord
  <2> QED BY <2>4 DEF Types, FilesTyped, FileRecord, Place, PmHalt, AfterHalt, Gated
<1> USE DEF Types, FilesTyped, FileRecord, Record, Place, Shape, Hardware, Gone, Placed, Bound,
        Chain, Notified
<1>2. \A x \in Encs : Hardware(enc[x], pmc[x])' BY DEF PmHalt, AfterHalt, Gated
<1>3. \A x \in Encs : Placed(enc[x], pmc[x])' BY DEF PmHalt, AfterHalt, Gated
<1>4. Chain' BY DEF PmHalt, AfterHalt, Gated
<1>5. \A x \in Files : Shape(file[x])' BY DEF PmHalt, AfterHalt, Gated
<1> QED BY <1>1, <1>2, <1>3, <1>4, <1>5

\* The begin of a resume boot keeps the hardware layer.
LEMMA HwPmBoot == ASSUME NEW e \in Encs, PmBoot(e), HwInv PROVE HwInv'
<1> USE EncsAssumption, FilesAssumption, NoEncNotEnc
         DEF HwInv, Awake, NoFile, NoEnc, Recovering
<1>1. Types'
  <2>1. enc[e] \in Record BY DEF Types, FilesTyped, FileRecord
  <2>2. [enc[e] EXCEPT !.hung = FALSE, !.client = FALSE, !.powered = TRUE] \in Record
    BY <2>1 DEF Record, PmBoot
  <2>3. enc' = [enc EXCEPT ![e] = [enc[e] EXCEPT !.hung = FALSE, !.client = FALSE, !.powered = TRUE]]
    BY DEF Types, FilesTyped, FileRecord, PmBoot
  <2>4. enc' \in [Encs -> Record] BY <2>2, <2>3 DEF Types, FilesTyped, FileRecord
  <2> QED BY <2>4 DEF Types, FilesTyped, FileRecord, Place, PmBoot
<1> USE DEF Types, FilesTyped, FileRecord, Record, Place, Shape, Hardware, Gone, Placed, Bound,
        Chain, Notified
<1>2. \A x \in Encs : Hardware(enc[x], pmc[x])' BY DEF PmBoot
<1>3. \A x \in Encs : Placed(enc[x], pmc[x])' BY DEF PmBoot
<1>4. Chain' BY DEF PmBoot
<1>5. \A x \in Files : Shape(file[x])' BY DEF PmBoot
<1> QED BY <1>1, <1>2, <1>3, <1>4, <1>5

\* A resume boot that succeeds keeps the hardware layer.
LEMMA HwBootOk == ASSUME NEW e \in Encs, BootOk(e), HwInv PROVE HwInv'
<1> USE EncsAssumption, FilesAssumption, NoEncNotEnc
         DEF HwInv, Awake, NoFile, NoEnc, Recovering
<1>1. Types'
  <2>1. enc[e] \in Record BY DEF Types, FilesTyped, FileRecord
  <2>2. Running(enc[e]) \in Record BY <2>1 DEF Record, BootOk, Running
  <2>3. enc' = [enc EXCEPT ![e] = Running(enc[e])]
    BY DEF Types, FilesTyped, FileRecord, BootOk, Running
  <2>4. enc' \in [Encs -> Record] BY <2>2, <2>3 DEF Types, FilesTyped, FileRecord
  <2> QED BY <2>4 DEF Types, FilesTyped, FileRecord, Place, BootOk, Running
<1> USE DEF Types, FilesTyped, FileRecord, Record, Place, Shape, Hardware, Gone, Placed, Bound,
        Chain, Notified
<1>2. ASSUME NEW x \in Encs PROVE Hardware(enc[x], pmc[x])'
  <2>1. Hardware(enc[x], pmc[x]) /\ Placed(enc[x], pmc[x]) OBVIOUS
  <2>2. CASE x # e BY <2>1, <2>2 DEF BootOk, Running
  <2>3. CASE x = e BY <2>1, <2>3 DEF BootOk, Running
  <2> QED BY <2>2, <2>3
<1>3. \A x \in Encs : Placed(enc[x], pmc[x])' BY DEF BootOk, Running
<1>4. Chain' BY DEF BootOk, Running
<1>5. \A x \in Files : Shape(file[x])' BY DEF BootOk, Running
<1> QED BY <1>1, <1>2, <1>3, <1>4, <1>5

\* A resume boot that fails keeps the hardware layer.
LEMMA HwBootFails == ASSUME NEW e \in Encs, BootFails(e), HwInv PROVE HwInv'
<1> USE EncsAssumption, FilesAssumption, NoEncNotEnc
         DEF HwInv, Awake, NoFile, NoEnc, Recovering
<1>1. Types'
  <2>1. enc[e] \in Record BY DEF Types, FilesTyped, FileRecord
  <2>2. \A b \in BOOLEAN : [BootLeft(enc[e], b) EXCEPT !.hung = TRUE] \in Record
    BY <2>1 DEF Record, BootFails, BootLeft, Running, Gated
  <2>3. \E b \in BOOLEAN : enc' = [enc EXCEPT ![e] = [BootLeft(enc[e], b) EXCEPT !.hung = TRUE]]
    BY DEF Types, FilesTyped, FileRecord, BootFails, BootLeft, Running, Gated
  <2>4. enc' \in [Encs -> Record] BY <2>2, <2>3 DEF Types, FilesTyped, FileRecord
  <2> QED BY <2>4 DEF Types, FilesTyped, FileRecord, Place, BootFails, BootLeft, Running, Gated
<1> USE DEF Types, FilesTyped, FileRecord, Record, Place, Shape, Hardware, Gone, Placed, Bound,
        Chain, Notified
<1>2. ASSUME NEW x \in Encs PROVE Hardware(enc[x], pmc[x])'
  <2>1. Hardware(enc[x], pmc[x]) /\ Placed(enc[x], pmc[x]) OBVIOUS
  <2>2. CASE x # e BY <2>1, <2>2 DEF BootFails, BootLeft, Running, Gated
  <2>3. CASE x = e BY <2>1, <2>3 DEF BootFails, BootLeft, Running, Gated
  <2> QED BY <2>2, <2>3
<1>3. \A x \in Encs : Placed(enc[x], pmc[x])' BY DEF BootFails, BootLeft, Running, Gated
<1>4. Chain' BY DEF BootFails, BootLeft, Running, Gated
<1>5. \A x \in Files : Shape(file[x])' BY DEF BootFails, BootLeft, Running, Gated
<1> QED BY <1>1, <1>2, <1>3, <1>4, <1>5

\* The look at ave_v4l2_idle() keeps the hardware layer.
LEMMA HwPmIdleCheck == ASSUME NEW e \in Encs, PmIdleCheck(e), HwInv PROVE HwInv'
<1> USE EncsAssumption, FilesAssumption, NoEncNotEnc
         DEF HwInv, Awake, NoFile, NoEnc, Recovering
<1>1. Types' BY DEF Types, FilesTyped, FileRecord, Record, Place, PmIdleCheck
<1> USE DEF Types, FilesTyped, FileRecord, Record, Place, Shape, Hardware, Gone, Placed, Bound,
        Chain, Notified
<1>2. \A x \in Encs : Hardware(enc[x], pmc[x])' BY DEF PmIdleCheck
<1>3. \A x \in Encs : Placed(enc[x], pmc[x])' BY DEF PmIdleCheck
<1>4. Chain' BY DEF PmIdleCheck
<1>5. \A x \in Files : Shape(file[x])' BY DEF PmIdleCheck
<1> QED BY <1>1, <1>2, <1>3, <1>4, <1>5

\* The return of a failed PM job keeps the hardware layer.
LEMMA HwPmReturn == ASSUME NEW e \in Encs, PmReturn(e), HwInv PROVE HwInv'
<1> USE EncsAssumption, FilesAssumption, NoEncNotEnc
         DEF HwInv, Awake, NoFile, NoEnc, Recovering
<1>1. Types'
  <2> HIDE DEF HwInv
  <2>1. Types BY DEF HwInv
  <2> DEFINE recs == [enc EXCEPT ![e] = IF pmc[e] = "schedule" THEN Schedule(@) ELSE @]
  <2>2. enc[e] \in Record BY <2>1 DEF Types
  <2>3. Schedule(enc[e]) \in Record BY <2>2 DEF Schedule, Record
  <2>4. recs \in [Encs -> Record] BY <2>1, <2>2, <2>3 DEF Types
  <2>5. /\ \/ Post(recs)
           \/ enc' = recs /\ sys' = sys /\ todo' = todo /\ prep' = prep
        /\ pmc' = [x \in Encs |-> IF x = e THEN "idle"
                                  ELSE IF Posted(x) THEN "boot" ELSE pmc[x]]
        /\ file' = file /\ cnt' = cnt
    BY DEF PmReturn
  <2> HIDE DEF recs
  <2>6. enc' \in [Encs -> Record] BY <2>4, <2>5, PostTypes
  <2>7. pmc' \in [Encs -> Place] BY <2>1, <2>5 DEF Types, Place
  <2>8. /\ sys' \in {"awake", "preparing", "suspending", "asleep"}
        /\ todo' \subseteq Encs /\ prep' \in Encs \cup {NoEnc}
    BY <2>1, <2>5 DEF Types, Post
  <2> QED BY <2>1, <2>5, <2>6, <2>7, <2>8 DEF Types, FilesTyped
<1> USE DEF Types, FilesTyped, FileRecord, Record, Place, Shape, Hardware, Gone, Placed, Bound,
        Chain, Notified
<1>2. ASSUME NEW x \in Encs PROVE Hardware(enc[x], pmc[x])'
  <2>1. Hardware(enc[x], pmc[x]) /\ Placed(enc[x], pmc[x]) /\ Placed(enc[e], pmc[e])
        /\ enc \in [Encs -> Record] /\ enc[x] \in Record
    OBVIOUS
  <2> HIDE DEF HwInv
  <2>2. CASE x = e
    BY <2>1, <2>2 DEF PmReturn, Post, Posted, Booted, Schedule
  <2>3. CASE x # e
    <3>1. /\ \/ enc'[x] = enc[x]
             \/ enc[x].pm = "off" /\ Notified(x) /\ enc'[x] = [enc[x] EXCEPT !.pm = "boot"]
          /\ pmc'[x] = IF Posted(x) THEN "boot" ELSE pmc[x]
      BY <2>1, <2>3 DEF PmReturn, Post, Booted
    <3>2. CASE enc'[x] = enc[x] BY <2>1, <3>1, <3>2 DEF Posted
    <3>3. CASE enc[x].pm = "off" /\ Notified(x) /\ enc'[x] = [enc[x] EXCEPT !.pm = "boot"]
      BY <2>1, <3>1, <3>3 DEF Posted
    <3> QED BY <3>1, <3>2, <3>3
  <2> QED BY <2>2, <2>3
<1>3. ASSUME NEW x \in Encs PROVE Placed(enc[x], pmc[x])'
  <2>1. Placed(enc[x], pmc[x]) /\ Placed(enc[e], pmc[e])
        /\ enc \in [Encs -> Record] /\ enc[x] \in Record
    OBVIOUS
  <2> HIDE DEF HwInv
  <2>2. CASE x = e
    BY <2>1, <2>2 DEF PmReturn, Post, Posted, Booted, Schedule
  <2>3. CASE x # e
    BY <2>1, <2>3 DEF PmReturn, Post, Posted, Booted, Schedule
  <2> QED BY <2>2, <2>3
<1>4. Chain' BY SMTT(60) DEF PmReturn, Post, Posted, Booted, Schedule
<1>5. \A x \in Files : Shape(file[x])' BY DEF PmReturn, Post, Posted, Booted, Schedule
<1> QED BY <1>1, <1>2, <1>3, <1>4, <1>5

\* The begin of a system suspend keeps the hardware layer.
LEMMA HwSuspendBegin == ASSUME SuspendBegin, HwInv PROVE HwInv'
<1> USE EncsAssumption, FilesAssumption, NoEncNotEnc
         DEF HwInv, Awake, NoFile, NoEnc, Recovering
<1>1. Types'
  <2>1. cnt' \in [hang : 0 .. MaxHangs, sleep : 0 .. MaxSleeps]
    BY ParametersAssumption DEF Types, FilesTyped, FileRecord, SuspendBegin
  <2> QED BY <2>1 DEF Types, FilesTyped, FileRecord, SuspendBegin
<1> USE DEF Types, FilesTyped, FileRecord, Record, Place, Shape, Hardware, Gone, Placed, Bound,
        Chain, Notified
<1>2. \A x \in Encs : Hardware(enc[x], pmc[x])' BY DEF SuspendBegin
<1>3. \A x \in Encs : Placed(enc[x], pmc[x])' BY DEF SuspendBegin
<1>4. Chain' BY DEF SuspendBegin
<1>5. \A x \in Files : Shape(file[x])' BY DEF SuspendBegin
<1> QED BY <1>1, <1>2, <1>3, <1>4, <1>5

\* The end of the PM chain keeps the hardware layer.
LEMMA HwPmPrepared == ASSUME PmPrepared, HwInv PROVE HwInv'
<1> USE EncsAssumption, FilesAssumption, NoEncNotEnc
         DEF HwInv, Awake, NoFile, NoEnc, Recovering
<1>1. Types' BY DEF Types, FilesTyped, FileRecord, Record, Place, PmPrepared
<1> USE DEF Types, FilesTyped, FileRecord, Record, Place, Shape, Hardware, Gone, Placed, Bound,
        Chain, Notified
<1>2. \A x \in Encs : Hardware(enc[x], pmc[x])' BY DEF PmPrepared
<1>3. \A x \in Encs : Placed(enc[x], pmc[x])' BY DEF PmPrepared
<1>4. Chain' BY DEF PmPrepared
<1>5. \A x \in Files : Shape(file[x])' BY DEF PmPrepared
<1> QED BY <1>1, <1>2, <1>3, <1>4, <1>5

\* A suspend that is refused keeps the hardware layer.
LEMMA HwSuspendAbort == ASSUME SuspendAbort, HwInv PROVE HwInv'
<1> USE EncsAssumption, FilesAssumption, NoEncNotEnc
         DEF HwInv, Awake, NoFile, NoEnc, Recovering
<1>1. Types'
  <2> HIDE DEF HwInv
  <2>1. Types BY DEF HwInv
  <2>2. Post(enc) /\ file' = file /\ cnt' = cnt
        /\ pmc' = [e \in Encs |-> IF Posted(e) THEN "boot" ELSE pmc[e]]
    BY DEF SuspendAbort
  <2>3. enc' \in [Encs -> Record] BY <2>1, <2>2, PostTypes DEF Types
  <2>4. pmc' \in [Encs -> Place] BY <2>1, <2>2 DEF Types, Place
  <2>5. sys' = "awake" /\ todo' = {} /\ prep' = NoEnc BY <2>2 DEF Post
  <2> QED BY <2>1, <2>2, <2>3, <2>4, <2>5 DEF Types, FilesTyped
<1> USE DEF Types, FilesTyped, FileRecord, Record, Place, Shape, Hardware, Gone, Placed, Bound,
        Chain, Notified
<1>2. \A x \in Encs : Hardware(enc[x], pmc[x])'
  BY DEF SuspendAbort, Post, Posted, Booted
<1>3. \A x \in Encs : Placed(enc[x], pmc[x])' BY DEF SuspendAbort, Post, Posted, Booted
<1>4. Chain' BY DEF SuspendAbort, Post, Posted, Booted
<1>5. \A x \in Files : Shape(file[x])' BY DEF SuspendAbort, Post, Posted, Booted
<1> QED BY <1>1, <1>2, <1>3, <1>4, <1>5

\* Falling asleep keeps the hardware layer.
LEMMA HwSleep == ASSUME Sleep, HwInv PROVE HwInv'
<1> USE EncsAssumption, FilesAssumption, NoEncNotEnc
         DEF HwInv, Awake, NoFile, NoEnc, Recovering
<1>1. Types' BY DEF Types, FilesTyped, FileRecord, Record, Place, Sleep
<1> USE DEF Types, FilesTyped, FileRecord, Record, Place, Shape, Hardware, Gone, Placed, Bound,
        Chain, Notified
<1>2. \A x \in Encs : Hardware(enc[x], pmc[x])' BY DEF Sleep
<1>3. \A x \in Encs : Placed(enc[x], pmc[x])' BY DEF Sleep
<1>4. Chain' BY DEF Sleep
<1>5. \A x \in Files : Shape(file[x])' BY DEF Sleep
<1> QED BY <1>1, <1>2, <1>3, <1>4, <1>5

\* Waking keeps the hardware layer.
LEMMA HwWake == ASSUME Wake, HwInv PROVE HwInv'
<1> USE EncsAssumption, FilesAssumption, NoEncNotEnc
         DEF HwInv, Awake, NoFile, NoEnc, Recovering
<1>1. Types'
  <2> HIDE DEF HwInv
  <2>1. Types BY DEF HwInv
  <2>2. Post(enc) /\ file' = file /\ cnt' = cnt
        /\ pmc' = [e \in Encs |-> IF Posted(e) THEN "boot" ELSE pmc[e]]
    BY DEF Wake
  <2>3. enc' \in [Encs -> Record] BY <2>1, <2>2, PostTypes DEF Types
  <2>4. pmc' \in [Encs -> Place] BY <2>1, <2>2 DEF Types, Place
  <2>5. sys' = "awake" /\ todo' = {} /\ prep' = NoEnc BY <2>2 DEF Post
  <2> QED BY <2>1, <2>2, <2>3, <2>4, <2>5 DEF Types, FilesTyped
<1> USE DEF Types, FilesTyped, FileRecord, Record, Place, Shape, Hardware, Gone, Placed, Bound,
        Chain, Notified
<1>2. \A x \in Encs : Hardware(enc[x], pmc[x])' BY DEF Wake, Post, Posted, Booted
<1>3. \A x \in Encs : Placed(enc[x], pmc[x])' BY DEF Wake, Post, Posted, Booted
<1>4. Chain' BY DEF Wake, Post, Posted, Booted
<1>5. \A x \in Files : Shape(file[x])' BY DEF Wake, Post, Posted, Booted
<1> QED BY <1>1, <1>2, <1>3, <1>4, <1>5

-----------------------------------------------------------------------------
\* The files opened on an encoder's node, and
NavOf(e) == { f \in Files : file[f].nav = e }
\* the contexts bound to it.
AvOf(e) == { f \in Files : file[f].av = e }
\* ave_v4l2's counts are the files they count, and an encoder that has been
\* unregistered has none.
CountsHold(e) ==
  /\ enc[e].ctxs = Cardinality(AvOf(e))
  /\ enc[e].users = enc[e].ctxs + Cardinality(NavOf(e))
  /\ ~Notified(e) => enc[e].users = 0
\* The second layer.
CountInv == \A e \in Encs : CountsHold(e)

\* The files on an encoder are finitely many, at most all there are.
LEMMA FilesOfFinite ==
  \A e : /\ IsFiniteSet(AvOf(e)) /\ Cardinality(AvOf(e)) \in 0 .. Cardinality(Files)
         /\ IsFiniteSet(NavOf(e)) /\ Cardinality(NavOf(e)) \in 0 .. Cardinality(Files)
<1> TAKE e
<1>1. IsFiniteSet(Files) /\ Cardinality(Files) \in Nat
  BY FilesAssumption, FS_CardinalityType
<1>2. AvOf(e) \in SUBSET Files /\ NavOf(e) \in SUBSET Files BY DEF AvOf, NavOf
<1>3. IsFiniteSet(AvOf(e)) /\ Cardinality(AvOf(e)) <= Cardinality(Files)
  BY <1>1, <1>2, FS_Subset
<1>4. IsFiniteSet(NavOf(e)) /\ Cardinality(NavOf(e)) <= Cardinality(Files)
  BY <1>1, <1>2, FS_Subset
<1>5. Cardinality(AvOf(e)) \in Nat /\ Cardinality(NavOf(e)) \in Nat
  BY <1>3, <1>4, FS_CardinalityType
<1> QED BY <1>1, <1>3, <1>4, <1>5

\* An encoder whose users is 0 has no file and no context.
LEMMA UnusedHasNoFiles ==
  ASSUME NEW e \in Encs, CountsHold(e), enc[e].users = 0
  PROVE  enc[e].ctxs = 0 /\ \A f \in Files : file[f].av # e /\ file[f].nav # e
<1>1. Cardinality(AvOf(e)) = 0 /\ Cardinality(NavOf(e)) = 0
  BY FilesOfFinite DEF CountsHold
<1>2. AvOf(e) = {} /\ NavOf(e) = {} BY <1>1, FilesOfFinite, FS_EmptySet
<1> QED BY <1>1, <1>2 DEF AvOf, NavOf, CountsHold

\* What moves no file leaves the sets of files alone.
LEMMA SameFilesOf ==
  ASSUME \A f \in Files : file'[f].nav = file[f].nav /\ file'[f].av = file[f].av, NEW e
  PROVE  AvOf(e)' = AvOf(e) /\ NavOf(e)' = NavOf(e)
<1> QED BY DEF AvOf, NavOf

\* A step that moves no file, counts none and decides on no re-probe of a used
\* encoder keeps its counts right.
LEMMA SameCounts ==
  ASSUME NEW e \in Encs, CountsHold(e),
         \A f \in Files : file'[f].nav = file[f].nav /\ file'[f].av = file[f].av,
         enc'[e].ctxs = enc[e].ctxs, enc'[e].users = enc[e].users,
         ~Notified(e)' => ~Notified(e) \/ enc[e].users = 0
  PROVE  CountsHold(e)'
<1>1. AvOf(e)' = AvOf(e) /\ NavOf(e)' = NavOf(e) BY SameFilesOf
<1> QED BY <1>1 DEF CountsHold, Notified

\* STREAMON keeps the counts.
LEMMA CountsStreamOn ==
  ASSUME NEW f \in Files, StreamOn(f), HwInv, CountInv
  PROVE  CountInv'
<1> SUFFICES ASSUME NEW x \in Encs PROVE CountsHold(x)' BY DEF CountInv
<1>1. CountsHold(x) BY DEF CountInv
<1>2. \A g \in Files : file'[g].nav = file[g].nav /\ file'[g].av = file[g].av
  BY DEF StreamOn, pm, HwInv, Types, FilesTyped, FileRecord
<1>3. enc'[x].ctxs = enc[x].ctxs /\ enc'[x].users = enc[x].users
  <2>1. enc[x] \in Record BY DEF HwInv, Types, FilesTyped, FileRecord
  <2>2. CASE x = file[f].av BY <2>1, <2>2 DEF StreamOn, HwInv, Types, FilesTyped, FileRecord, Record
  <2>3. CASE x # file[f].av BY <2>3 DEF StreamOn, HwInv, Types, FilesTyped, FileRecord
  <2> QED BY <2>2, <2>3
<1>4. ~Notified(x)' => ~Notified(x) \/ enc[x].users = 0
  <2>1. enc \in [Encs -> Record] /\ enc[x] \in Record BY DEF HwInv, Types
  <2>2. enc'[x].rec = enc[x].rec /\ pmc' = pmc BY <2>1 DEF StreamOn, pm, Record
  <2> QED BY <2>2 DEF Notified
<1> QED BY <1>1, <1>2, <1>3, <1>4, SameCounts

\* A Process that times out keeps the counts.
LEMMA CountsProcessTimeout ==
  ASSUME NEW f \in Files, ProcessTimeout(f), HwInv, CountInv
  PROVE  CountInv'
<1> SUFFICES ASSUME NEW x \in Encs PROVE CountsHold(x)' BY DEF CountInv
<1>1. CountsHold(x) BY DEF CountInv
<1>2. \A g \in Files : file'[g].nav = file[g].nav /\ file'[g].av = file[g].av
  BY DEF ProcessTimeout, pm, HwInv, Types, FilesTyped, FileRecord
<1>3. enc'[x].ctxs = enc[x].ctxs /\ enc'[x].users = enc[x].users
  BY DEF ProcessTimeout, pm, HwInv, Types, FilesTyped, FileRecord, Record
<1>4. ~Notified(x)' => ~Notified(x) \/ enc[x].users = 0
  BY DEF ProcessTimeout, pm, HwInv, Types, FilesTyped, FileRecord, Record, Notified
<1> QED BY <1>1, <1>2, <1>3, <1>4, SameCounts

\* An open keeps the counts.
LEMMA CountsOpen ==
  ASSUME NEW f \in Files, NEW nav \in Encs, Open(f, nav), HwInv, CountInv
  PROVE  CountInv'
<1> DEFINE av == BoundTo(nav)
<1>1. /\ enc[nav].up /\ file[f].pc = "closed"
      /\ enc' = [e \in Encs |-> [enc[e] EXCEPT !.ctxs  = @ + One(e = av),
                                  !.users = @ + One(e = av) + One(e = nav)]]
      /\ file' = [file EXCEPT ![f] = [Closed EXCEPT !.pc = "open", !.nav = nav, !.av = av]]
      /\ pmc' = pmc
  BY DEF Open, pm
<1>2. av \in Encs /\ Notified(av) /\ Notified(nav)
  <2>1. \A e \in Encs : enc[e].up => Notified(e) BY DEF HwInv, Placed, Bound, Notified
  <2>2. av = nav \/ av \in Others(nav) BY BoundToEnc
  <2> QED BY <1>1, <2>1, <2>2 DEF Others
<1>3. file'[f].nav = nav /\ file'[f].av = av
      /\ \A g \in Files \ {f} : file'[g] = file[g]
  BY <1>1 DEF Closed, HwInv, Types, FilesTyped, FileRecord
<1>4. file[f].av \notin Encs /\ file[f].nav \notin Encs
  BY <1>1, NoEncNotEnc DEF HwInv, Shape
<1> SUFFICES ASSUME NEW x \in Encs PROVE CountsHold(x)' BY DEF CountInv
<1> HIDE DEF av
<1>5. CountsHold(x) BY DEF CountInv
<1>6. AvOf(x)' = (IF x = av THEN AvOf(x) \cup {f} ELSE AvOf(x)) /\ f \notin AvOf(x)
  BY <1>3, <1>4 DEF AvOf
<1>7. NavOf(x)' = (IF x = nav THEN NavOf(x) \cup {f} ELSE NavOf(x)) /\ f \notin NavOf(x)
  BY <1>3, <1>4 DEF NavOf
<1>8. /\ Cardinality(AvOf(x)') = Cardinality(AvOf(x)) + One(x = av)
      /\ Cardinality(NavOf(x)') = Cardinality(NavOf(x)) + One(x = nav)
  <2>1. /\ IsFiniteSet(AvOf(x)) /\ Cardinality(AvOf(x)) \in Int
        /\ IsFiniteSet(NavOf(x)) /\ Cardinality(NavOf(x)) \in Int
    BY FilesOfFinite
  <2>2. Cardinality(AvOf(x) \cup {f}) = Cardinality(AvOf(x)) + 1
    BY <1>6, <2>1, FS_AddElement
  <2>3. Cardinality(NavOf(x) \cup {f}) = Cardinality(NavOf(x)) + 1
    BY <1>7, <2>1, FS_AddElement
  <2> QED BY <1>6, <1>7, <2>1, <2>2, <2>3 DEF One
<1>9. /\ enc'[x].ctxs = enc[x].ctxs + One(x = av)
      /\ enc'[x].users = enc[x].users + One(x = av) + One(x = nav)
      /\ enc'[x].rec = enc[x].rec
  <2>1. enc[x] \in Record BY DEF HwInv, Types, FilesTyped, FileRecord
  <2>2. enc'[x] = [enc[x] EXCEPT !.ctxs  = @ + One(x = av), !.users = @ + One(x = av) + One(x = nav)]
    BY <1>1
  <2> QED BY <2>1, <2>2 DEF Record
<1>10. ~Notified(x) => One(x = av) = 0 /\ One(x = nav) = 0 BY <1>2 DEF One
<1>11. One(x = av) \in Int /\ One(x = nav) \in Int BY DEF One
<1>12. Cardinality(AvOf(x)) \in Int /\ Cardinality(NavOf(x)) \in Int BY FilesOfFinite
<1>13. Notified(x)' <=> Notified(x) BY <1>9 DEF Notified
<1>14. ~Notified(x)' => enc'[x].users = 0
  BY <1>5, <1>9, <1>10, <1>13 DEF CountsHold
<1>15. /\ enc'[x].ctxs = Cardinality(AvOf(x)')
       /\ enc'[x].users = enc'[x].ctxs + Cardinality(NavOf(x)')
  BY <1>5, <1>8, <1>9, <1>11, <1>12 DEF CountsHold
<1> QED BY <1>14, <1>15 DEF CountsHold

\* The end of a close keeps the counts.
LEMMA CountsUnbind ==
  ASSUME NEW f \in Files, Unbind(f), HwInv, CountInv
  PROVE  CountInv'
<1> DEFINE av == file[f].av
           nav == file[f].nav
<1>1. /\ enc' = [e \in Encs |-> IF e \in {av, nav} THEN RecoverIfLast(Uncount(f, e)) ELSE enc[e]]
      /\ file' = [file EXCEPT ![f] = Closed] /\ pmc' = pmc
  BY DEF Unbind, pm
<1>2. file'[f].nav = NoEnc /\ file'[f].av = NoEnc
      /\ \A g \in Files \ {f} : file'[g] = file[g]
  BY <1>1 DEF Closed, HwInv, Types, FilesTyped, FileRecord
<1> SUFFICES ASSUME NEW x \in Encs PROVE CountsHold(x)' BY DEF CountInv
<1>3. CountsHold(x) /\ enc[x] \in Record BY DEF CountInv, HwInv, Types, FilesTyped, FileRecord
<1>4. AvOf(x)' = AvOf(x) \ {f} /\ NavOf(x)' = NavOf(x) \ {f}
  BY <1>2, NoEncNotEnc DEF AvOf, NavOf
<1>5. (f \in AvOf(x) <=> x = av) /\ (f \in NavOf(x) <=> x = nav) BY DEF AvOf, NavOf
<1> HIDE DEF av, nav
<1>6. /\ Cardinality(AvOf(x)') = Cardinality(AvOf(x)) - One(x = av)
      /\ Cardinality(NavOf(x)') = Cardinality(NavOf(x)) - One(x = nav)
  <2>1. /\ IsFiniteSet(AvOf(x)) /\ Cardinality(AvOf(x)) \in Int
        /\ IsFiniteSet(NavOf(x)) /\ Cardinality(NavOf(x)) \in Int
    BY FilesOfFinite
  <2>2. Cardinality(AvOf(x) \ {f}) = Cardinality(AvOf(x)) - One(x = av)
    <3>1. Cardinality(AvOf(x) \ {f}) =
            IF f \in AvOf(x) THEN Cardinality(AvOf(x)) - 1 ELSE Cardinality(AvOf(x))
      BY <2>1, FS_RemoveElement
    <3> QED BY <1>5, <2>1, <3>1 DEF One
  <2>3. Cardinality(NavOf(x) \ {f}) = Cardinality(NavOf(x)) - One(x = nav)
    <3>1. Cardinality(NavOf(x) \ {f}) =
            IF f \in NavOf(x) THEN Cardinality(NavOf(x)) - 1 ELSE Cardinality(NavOf(x))
      BY <2>1, FS_RemoveElement
    <3> QED BY <1>5, <2>1, <3>1 DEF One
  <2> QED BY <1>4, <2>2, <2>3
<1>7. Cardinality(AvOf(x)) \in Int /\ Cardinality(NavOf(x)) \in Int BY FilesOfFinite
<1>8. CASE x \notin {av, nav}
  <2>1. One(x = av) = 0 /\ One(x = nav) = 0 BY <1>8 DEF One
  <2>2. enc'[x] = enc[x] /\ pmc'[x] = pmc[x] BY <1>1, <1>8
  <2> QED BY <1>3, <1>6, <1>7, <2>1, <2>2 DEF CountsHold, Notified
<1>9. CASE x \in {av, nav}
  <2>1. Notified(x)
    BY <1>3, <1>9, UnusedHasNoFiles DEF CountsHold, av, nav
  <2> DEFINE u == Uncount(f, x)
  <2>2. u.ctxs = enc[x].ctxs - One(x = av) /\ u.users = enc[x].users - One(x = av) - One(x = nav)
        /\ u.rec = enc[x].rec
    BY <1>3 DEF Record, Uncount, av, nav
  <2> HIDE DEF u
  <2>3. enc'[x] = RecoverIfLast(u) BY <1>1, <1>9 DEF u
  <2>4. /\ enc'[x].ctxs = u.ctxs /\ enc'[x].users = u.users
        /\ enc'[x].rec \in {u.rec, "queued"}
    BY <2>3 DEF RecoverIfLast, Schedule
  <2>5. One(x = av) \in Int /\ One(x = nav) \in Int BY DEF One
  <2>6. Notified(x)' BY <2>1, <2>2, <2>4 DEF Notified
  <2>7. /\ enc'[x].ctxs = Cardinality(AvOf(x)')
        /\ enc'[x].users = enc'[x].ctxs + Cardinality(NavOf(x)')
    BY <1>3, <1>6, <1>7, <2>2, <2>4, <2>5 DEF CountsHold
  <2> QED BY <2>6, <2>7 DEF CountsHold
<1> QED BY <1>8, <1>9

\* probe() keeps the counts.
LEMMA CountsProbe ==
  ASSUME NEW e \in Encs, Probe(e), HwInv, CountInv
  PROVE  CountInv'
<1> SUFFICES ASSUME NEW x \in Encs PROVE CountsHold(x)' BY DEF CountInv
<1>1. CountsHold(x) /\ enc[x] \in Record BY DEF CountInv, HwInv, Types, FilesTyped, FileRecord
<1>2. file' = file /\ pmc' = pmc BY DEF Probe, pm
<1>3. CASE x = e
  <2>1. enc[x].rec = "gone" /\ ~Notified(x) BY <1>3 DEF Probe, Notified
  <2>2. enc[x].users = 0 /\ enc[x].ctxs = 0
    BY <1>1, <2>1, UnusedHasNoFiles DEF CountsHold
  <2>3. enc'[x].ctxs = 0 /\ enc'[x].users = 0
    BY <1>1, <1>3, <2>2 DEF Probe, Fresh, HwInv, Types, FilesTyped, FileRecord, Record
  <2>4. AvOf(x)' = AvOf(x) /\ NavOf(x)' = NavOf(x) BY <1>2 DEF AvOf, NavOf
  <2> QED BY <1>1, <2>2, <2>3, <2>4 DEF CountsHold
<1>4. CASE x # e
  <2>1. enc'[x] = enc[x] BY <1>4 DEF Probe, HwInv, Types, FilesTyped, FileRecord
  <2> QED BY <1>1, <1>2, <2>1, SameCounts DEF Notified
<1> QED BY <1>3, <1>4

\* The begin of STREAMOFF keeps the counts.
LEMMA CountsStreamOff ==
  ASSUME NEW f \in Files, StreamOff(f), HwInv, CountInv
  PROVE  CountInv'
<1> SUFFICES ASSUME NEW x \in Encs PROVE CountsHold(x)' BY DEF CountInv
<1>1. CountsHold(x) BY DEF CountInv
<1>2. \A g \in Files : file'[g].nav = file[g].nav /\ file'[g].av = file[g].av
  BY DEF StreamOff, pm, HwInv, Types, FilesTyped, FileRecord
<1>3. enc'[x].ctxs = enc[x].ctxs /\ enc'[x].users = enc[x].users
  BY DEF StreamOff, pm, HwInv, Types, FilesTyped, FileRecord, Record
<1>4. ~Notified(x)' => ~Notified(x) \/ enc[x].users = 0
  BY DEF StreamOff, pm, HwInv, Types, FilesTyped, FileRecord, Record, Notified
<1> QED BY <1>1, <1>2, <1>3, <1>4, SameCounts

\* The begin of a close keeps the counts.
LEMMA CountsRelease ==
  ASSUME NEW f \in Files, Release(f), HwInv, CountInv
  PROVE  CountInv'
<1> SUFFICES ASSUME NEW x \in Encs PROVE CountsHold(x)' BY DEF CountInv
<1>1. CountsHold(x) BY DEF CountInv
<1>2. \A g \in Files : file'[g].nav = file[g].nav /\ file'[g].av = file[g].av
  BY DEF Release, pm, HwInv, Types, FilesTyped, FileRecord
<1>3. enc'[x].ctxs = enc[x].ctxs /\ enc'[x].users = enc[x].users
  BY DEF Release, pm, HwInv, Types, FilesTyped, FileRecord, Record
<1>4. ~Notified(x)' => ~Notified(x) \/ enc[x].users = 0
  BY DEF Release, pm, HwInv, Types, FilesTyped, FileRecord, Record, Notified
<1> QED BY <1>1, <1>2, <1>3, <1>4, SameCounts

\* The end of a stream keeps the counts.
LEMMA CountsEndSession ==
  ASSUME NEW f \in Files, EndSession(f), HwInv, CountInv
  PROVE  CountInv'
<1> SUFFICES ASSUME NEW x \in Encs PROVE CountsHold(x)' BY DEF CountInv
<1>1. CountsHold(x) BY DEF CountInv
<1>2. \A g \in Files : file'[g].nav = file[g].nav /\ file'[g].av = file[g].av
  BY DEF EndSession, pm, HwInv, Types, FilesTyped, FileRecord
<1>3. enc'[x].ctxs = enc[x].ctxs /\ enc'[x].users = enc[x].users
  BY DEF EndSession, pm, HwInv, Types, FilesTyped, FileRecord, Record
<1>4. ~Notified(x)' => ~Notified(x) \/ enc[x].users = 0
  BY DEF EndSession, pm, HwInv, Types, FilesTyped, FileRecord, Record, Notified
<1> QED BY <1>1, <1>2, <1>3, <1>4, SameCounts

\* remove() up to its node keeps the counts.
LEMMA CountsRemove ==
  ASSUME "open" \notin Races, NEW e \in Encs, Remove(e), HwInv, CountInv
  PROVE  CountInv'
<1> SUFFICES ASSUME NEW x \in Encs PROVE CountsHold(x)' BY DEF CountInv
<1>1. CountsHold(x) BY DEF CountInv
<1>2. \A g \in Files : file'[g].nav = file[g].nav /\ file'[g].av = file[g].av
  BY DEF Remove, HwInv, Types, FilesTyped, FileRecord
<1>3. enc'[x].ctxs = enc[x].ctxs /\ enc'[x].users = enc[x].users
  BY DEF Remove, HwInv, Types, FilesTyped, FileRecord, Record
<1>4. ~Notified(x)' => ~Notified(x) \/ enc[x].users = 0
  BY DEF Remove, HwInv, Types, FilesTyped, FileRecord, Record, Notified
<1> QED BY <1>1, <1>2, <1>3, <1>4, SameCounts

\* The rest of remove() keeps the counts.
LEMMA CountsTeardown ==
  ASSUME NEW e \in Encs, Teardown(e), HwInv, CountInv
  PROVE  CountInv'
<1> SUFFICES ASSUME NEW x \in Encs PROVE CountsHold(x)' BY DEF CountInv
<1>1. CountsHold(x) BY DEF CountInv
<1>2. \A g \in Files : file'[g].nav = file[g].nav /\ file'[g].av = file[g].av
  BY DEF Teardown, Gated, AfterTeardown, pm, HwInv, Types, FilesTyped, FileRecord
<1>3. enc'[x].ctxs = enc[x].ctxs /\ enc'[x].users = enc[x].users
  BY DEF Teardown, Gated, AfterTeardown, pm, HwInv, Types, FilesTyped, FileRecord, Record
<1>4. ~Notified(x)' => ~Notified(x) \/ enc[x].users = 0
  BY DEF Teardown, Gated, AfterTeardown, pm, HwInv, Types, FilesTyped, FileRecord, Record,
     Notified
<1> QED BY <1>1, <1>2, <1>3, <1>4, SameCounts

\* The begin of PM_SUSPEND_PREPARE keeps the counts.
LEMMA CountsPmPrepare ==
  ASSUME NEW e \in Encs, PmPrepare(e), HwInv, CountInv
  PROVE  CountInv'
<1> SUFFICES ASSUME NEW x \in Encs PROVE CountsHold(x)' BY DEF CountInv
<1>1. CountsHold(x) BY DEF CountInv
<1>2. \A g \in Files : file'[g].nav = file[g].nav /\ file'[g].av = file[g].av
  BY DEF PmPrepare, HwInv, Types, FilesTyped, FileRecord
<1>3. enc'[x].ctxs = enc[x].ctxs /\ enc'[x].users = enc[x].users
  BY DEF PmPrepare, HwInv, Types, FilesTyped, FileRecord, Record
<1>4. ~Notified(x)' => ~Notified(x) \/ enc[x].users = 0
  BY DEF PmPrepare, HwInv, Types, FilesTyped, FileRecord, Record, Notified
<1> QED BY <1>1, <1>2, <1>3, <1>4, SameCounts

\* The quiesce of a suspend keeps the counts.
LEMMA CountsPmQuiesce ==
  ASSUME NEW e \in Encs, PmQuiesce(e), HwInv, CountInv
  PROVE  CountInv'
<1> SUFFICES ASSUME NEW x \in Encs PROVE CountsHold(x)' BY DEF CountInv
<1>1. CountsHold(x) BY DEF CountInv
<1>2. \A g \in Files : file'[g].nav = file[g].nav /\ file'[g].av = file[g].av
  BY DEF PmQuiesce, HwInv, Types, FilesTyped, FileRecord
<1>3. enc'[x].ctxs = enc[x].ctxs /\ enc'[x].users = enc[x].users
  BY DEF PmQuiesce, HwInv, Types, FilesTyped, FileRecord, Record
<1>4. ~Notified(x)' => ~Notified(x) \/ enc[x].users = 0
  BY DEF PmQuiesce, HwInv, Types, FilesTyped, FileRecord, Record, Notified
<1> QED BY <1>1, <1>2, <1>3, <1>4, SameCounts

\* The halt of a suspend keeps the counts.
LEMMA CountsPmHalt == ASSUME NEW e \in Encs, PmHalt(e), HwInv, CountInv PROVE CountInv'
<1> SUFFICES ASSUME NEW x \in Encs PROVE CountsHold(x)' BY DEF CountInv
<1>1. CountsHold(x) BY DEF CountInv
<1>2. \A g \in Files : file'[g].nav = file[g].nav /\ file'[g].av = file[g].av
  BY DEF PmHalt, AfterHalt, Gated, HwInv, Types, FilesTyped, FileRecord
<1>3. enc'[x].ctxs = enc[x].ctxs /\ enc'[x].users = enc[x].users
  BY DEF PmHalt, AfterHalt, Gated, HwInv, Types, FilesTyped, FileRecord, Record
<1>4. ~Notified(x)' => ~Notified(x) \/ enc[x].users = 0
  BY DEF PmHalt, AfterHalt, Gated, HwInv, Types, FilesTyped, FileRecord, Record, Notified
<1> QED BY <1>1, <1>2, <1>3, <1>4, SameCounts

\* The begin of a resume boot keeps the counts.
LEMMA CountsPmBoot == ASSUME NEW e \in Encs, PmBoot(e), HwInv, CountInv PROVE CountInv'
<1> SUFFICES ASSUME NEW x \in Encs PROVE CountsHold(x)' BY DEF CountInv
<1>1. CountsHold(x) BY DEF CountInv
<1>2. \A g \in Files : file'[g].nav = file[g].nav /\ file'[g].av = file[g].av
  BY DEF PmBoot, HwInv, Types, FilesTyped, FileRecord
<1>3. enc'[x].ctxs = enc[x].ctxs /\ enc'[x].users = enc[x].users
  BY DEF PmBoot, HwInv, Types, FilesTyped, FileRecord, Record
<1>4. ~Notified(x)' => ~Notified(x) \/ enc[x].users = 0
  BY DEF PmBoot, HwInv, Types, FilesTyped, FileRecord, Record, Notified
<1> QED BY <1>1, <1>2, <1>3, <1>4, SameCounts

\* A resume boot that succeeds keeps the counts.
LEMMA CountsBootOk == ASSUME NEW e \in Encs, BootOk(e), HwInv, CountInv PROVE CountInv'
<1> SUFFICES ASSUME NEW x \in Encs PROVE CountsHold(x)' BY DEF CountInv
<1>1. CountsHold(x) BY DEF CountInv
<1>2. \A g \in Files : file'[g].nav = file[g].nav /\ file'[g].av = file[g].av
  BY DEF BootOk, Running, HwInv, Types, FilesTyped, FileRecord
<1>3. enc'[x].ctxs = enc[x].ctxs /\ enc'[x].users = enc[x].users
  BY DEF BootOk, Running, HwInv, Types, FilesTyped, FileRecord, Record
<1>4. ~Notified(x)' => ~Notified(x) \/ enc[x].users = 0
  BY DEF BootOk, Running, HwInv, Types, FilesTyped, FileRecord, Record, Notified
<1> QED BY <1>1, <1>2, <1>3, <1>4, SameCounts

\* A resume boot that fails keeps the counts.
LEMMA CountsBootFails ==
  ASSUME NEW e \in Encs, BootFails(e), HwInv, CountInv
  PROVE  CountInv'
<1> SUFFICES ASSUME NEW x \in Encs PROVE CountsHold(x)' BY DEF CountInv
<1>1. CountsHold(x) BY DEF CountInv
<1>2. \A g \in Files : file'[g].nav = file[g].nav /\ file'[g].av = file[g].av
  BY DEF BootFails, BootLeft, Running, Gated, HwInv, Types, FilesTyped, FileRecord
<1>3. enc'[x].ctxs = enc[x].ctxs /\ enc'[x].users = enc[x].users
  BY DEF BootFails, BootLeft, Running, Gated, HwInv, Types, FilesTyped, FileRecord, Record
<1>4. ~Notified(x)' => ~Notified(x) \/ enc[x].users = 0
  BY DEF BootFails, BootLeft, Running, Gated, HwInv, Types, FilesTyped, FileRecord, Record,
     Notified
<1> QED BY <1>1, <1>2, <1>3, <1>4, SameCounts

\* The look at ave_v4l2_idle() keeps the counts.
LEMMA CountsPmIdleCheck ==
  ASSUME NEW e \in Encs, PmIdleCheck(e), HwInv, CountInv
  PROVE  CountInv'
<1> SUFFICES ASSUME NEW x \in Encs PROVE CountsHold(x)' BY DEF CountInv
<1>1. CountsHold(x) BY DEF CountInv
<1>2. \A g \in Files : file'[g].nav = file[g].nav /\ file'[g].av = file[g].av
  BY DEF PmIdleCheck, HwInv, Types, FilesTyped, FileRecord
<1>3. enc'[x].ctxs = enc[x].ctxs /\ enc'[x].users = enc[x].users
  BY DEF PmIdleCheck, HwInv, Types, FilesTyped, FileRecord, Record
<1>4. ~Notified(x)' => ~Notified(x) \/ enc[x].users = 0
  BY DEF PmIdleCheck, HwInv, Types, FilesTyped, FileRecord, Record, Notified
<1> QED BY <1>1, <1>2, <1>3, <1>4, SameCounts

\* The return of a failed PM job keeps the counts.
LEMMA CountsPmReturn ==
  ASSUME NEW e \in Encs, PmReturn(e), HwInv, CountInv
  PROVE  CountInv'
<1> SUFFICES ASSUME NEW x \in Encs PROVE CountsHold(x)' BY DEF CountInv
<1>1. CountsHold(x) BY DEF CountInv
<1>2. \A g \in Files : file'[g].nav = file[g].nav /\ file'[g].av = file[g].av
  BY DEF PmReturn, Post, Posted, Schedule, HwInv, Types, FilesTyped, FileRecord
<1>3. enc'[x].ctxs = enc[x].ctxs /\ enc'[x].users = enc[x].users
  BY DEF PmReturn, Post, Posted, Schedule, HwInv, Types, FilesTyped, FileRecord, Record
<1>4. ~Notified(x)' => ~Notified(x) \/ enc[x].users = 0
  BY DEF PmReturn, Post, Posted, Schedule, HwInv, Types, FilesTyped, FileRecord, Record, Notified
<1> QED BY <1>1, <1>2, <1>3, <1>4, SameCounts

\* The begin of a system suspend keeps the counts.
LEMMA CountsSuspendBegin == ASSUME SuspendBegin, HwInv, CountInv PROVE CountInv'
<1> SUFFICES ASSUME NEW x \in Encs PROVE CountsHold(x)' BY DEF CountInv
<1>1. CountsHold(x) BY DEF CountInv
<1>2. \A g \in Files : file'[g].nav = file[g].nav /\ file'[g].av = file[g].av
  BY DEF SuspendBegin, HwInv, Types, FilesTyped, FileRecord
<1>3. enc'[x].ctxs = enc[x].ctxs /\ enc'[x].users = enc[x].users
  BY DEF SuspendBegin, HwInv, Types, FilesTyped, FileRecord, Record
<1>4. ~Notified(x)' => ~Notified(x) \/ enc[x].users = 0
  BY DEF SuspendBegin, HwInv, Types, FilesTyped, FileRecord, Record, Notified
<1> QED BY <1>1, <1>2, <1>3, <1>4, SameCounts

\* The end of the PM chain keeps the counts.
LEMMA CountsPmPrepared == ASSUME PmPrepared, HwInv, CountInv PROVE CountInv'
<1> SUFFICES ASSUME NEW x \in Encs PROVE CountsHold(x)' BY DEF CountInv
<1>1. CountsHold(x) BY DEF CountInv
<1>2. \A g \in Files : file'[g].nav = file[g].nav /\ file'[g].av = file[g].av
  BY DEF PmPrepared, HwInv, Types, FilesTyped, FileRecord
<1>3. enc'[x].ctxs = enc[x].ctxs /\ enc'[x].users = enc[x].users
  BY DEF PmPrepared, HwInv, Types, FilesTyped, FileRecord, Record
<1>4. ~Notified(x)' => ~Notified(x) \/ enc[x].users = 0
  BY DEF PmPrepared, HwInv, Types, FilesTyped, FileRecord, Record, Notified
<1> QED BY <1>1, <1>2, <1>3, <1>4, SameCounts

\* A suspend that is refused keeps the counts.
LEMMA CountsSuspendAbort == ASSUME SuspendAbort, HwInv, CountInv PROVE CountInv'
<1> SUFFICES ASSUME NEW x \in Encs PROVE CountsHold(x)' BY DEF CountInv
<1>1. CountsHold(x) BY DEF CountInv
<1>2. \A g \in Files : file'[g].nav = file[g].nav /\ file'[g].av = file[g].av
  BY DEF SuspendAbort, Post, Posted, HwInv, Types, FilesTyped, FileRecord
<1>3. enc'[x].ctxs = enc[x].ctxs /\ enc'[x].users = enc[x].users
  BY DEF SuspendAbort, Post, Posted, HwInv, Types, FilesTyped, FileRecord, Record
<1>4. ~Notified(x)' => ~Notified(x) \/ enc[x].users = 0
  BY DEF SuspendAbort, Post, Posted, HwInv, Types, FilesTyped, FileRecord, Record, Notified
<1> QED BY <1>1, <1>2, <1>3, <1>4, SameCounts

\* Falling asleep keeps the counts.
LEMMA CountsSleep == ASSUME Sleep, HwInv, CountInv PROVE CountInv'
<1> SUFFICES ASSUME NEW x \in Encs PROVE CountsHold(x)' BY DEF CountInv
<1>1. CountsHold(x) BY DEF CountInv
<1>2. \A g \in Files : file'[g].nav = file[g].nav /\ file'[g].av = file[g].av
  BY DEF Sleep, HwInv, Types, FilesTyped, FileRecord
<1>3. enc'[x].ctxs = enc[x].ctxs /\ enc'[x].users = enc[x].users
  BY DEF Sleep, HwInv, Types, FilesTyped, FileRecord, Record
<1>4. ~Notified(x)' => ~Notified(x) \/ enc[x].users = 0
  BY DEF Sleep, HwInv, Types, FilesTyped, FileRecord, Record, Notified
<1> QED BY <1>1, <1>2, <1>3, <1>4, SameCounts

\* Waking keeps the counts.
LEMMA CountsWake == ASSUME Wake, HwInv, CountInv PROVE CountInv'
<1> SUFFICES ASSUME NEW x \in Encs PROVE CountsHold(x)' BY DEF CountInv
<1>1. CountsHold(x) BY DEF CountInv
<1>2. \A g \in Files : file'[g].nav = file[g].nav /\ file'[g].av = file[g].av
  BY DEF Wake, Post, Posted, HwInv, Types, FilesTyped, FileRecord
<1>3. enc'[x].ctxs = enc[x].ctxs /\ enc'[x].users = enc[x].users
  BY DEF Wake, Post, Posted, HwInv, Types, FilesTyped, FileRecord, Record
<1>4. ~Notified(x)' => ~Notified(x) \/ enc[x].users = 0
  BY DEF Wake, Post, Posted, HwInv, Types, FilesTyped, FileRecord, Record, Notified
<1> QED BY <1>1, <1>2, <1>3, <1>4, SameCounts

-----------------------------------------------------------------------------
\* A stream that is being ended has at most been ended by the PM code already.
Ending ==
  \A f \in Files : file[f].pc \in {"stop", "release"} => enc[file[f].av].owner \in {NoFile, f}
\* Past quiesce, the PM code has left no owner.
Quiesced == \A e \in Encs : pmc[e] = "halt" => enc[e].owner = NoFile
\* The third layer: the owner of an encoder is the file whose session it has.
OwnerInv ==
  /\ OwnerHasStream
  /\ Ending /\ Quiesced

\* An encoder that is unregistered has no owner and no context.
LEMMA UnusedHasNoOwner ==
  ASSUME HwInv, CountInv, OwnerInv, NEW e \in Encs, ~Notified(e)
  PROVE  enc[e].owner = NoFile /\ \A f \in Files : file[f].av # e
<1>1. enc[e].users = 0 /\ CountsHold(e) BY DEF CountInv, CountsHold
<1>2. \A f \in Files : file[f].av # e BY <1>1, UnusedHasNoFiles
<1>3. enc[e].owner \in Files \cup {NoFile} BY DEF HwInv, Types, Record
<1> QED BY <1>2, <1>3 DEF OwnerInv, Ending, Quiesced, OwnerHasStream

\* An open keeps owners, sessions and clients together.
LEMMA OwnerOpen ==
  ASSUME NEW f \in Files, NEW nav \in Encs, Open(f, nav), HwInv, CountInv, OwnerInv
  PROVE  OwnerInv'
<1>1. \A x \in Encs : Alike(enc'[x], enc[x]) /\ pmc'[x] = pmc[x]
  BY OpenAlike DEF Open, pm
<1>2. /\ file'[f].pc \notin {"stop", "release"} /\ ~file'[f].session /\ ~file[f].session
      /\ \A g \in Files \ {f} : file'[g] = file[g]
  BY DEF Open, HwInv, Types, FilesTyped, FileRecord, Shape, Closed
<1>3. \A x \in Encs : enc[x].owner # f
  BY <1>2, FilesAssumption DEF OwnerInv, Ending, Quiesced, OwnerHasStream
<1>4. \A x \in Encs : enc[x].owner \in Files \cup {NoFile} BY DEF HwInv, Types, Record
<1>5. \A g \in Files : file[g].pc # "closed" => file[g].av \in Encs BY DEF HwInv, Shape
<1>6. \A g \in Files : file[g].session => file[g].av \in Encs BY DEF HwInv, Shape
<1>7. OwnerHasStream'
  BY <1>1, <1>2, <1>3, <1>4, <1>6, FilesAssumption DEF OwnerInv, Ending, Quiesced,
     OwnerHasStream, Alike
<1>8. Ending'
  BY <1>1, <1>2, <1>5 DEF OwnerInv, Ending, Quiesced, Alike
<1>9. Quiesced'
  BY <1>1 DEF OwnerInv, Ending, Quiesced, Alike
<1> QED BY <1>7, <1>8, <1>9 DEF OwnerInv, Ending, Quiesced

\* The end of a close keeps owners, sessions and clients together.
LEMMA OwnerUnbind ==
  ASSUME NEW f \in Files, Unbind(f), HwInv, CountInv, OwnerInv
  PROVE  OwnerInv'
<1>1. \A x \in Encs : Alike(enc'[x], enc[x]) /\ pmc'[x] = pmc[x]
  BY UnbindAlike DEF Unbind, pm
<1>2. /\ file'[f].pc \notin {"stop", "release"} /\ ~file'[f].session /\ ~file[f].session
      /\ \A g \in Files \ {f} : file'[g] = file[g]
  BY DEF Unbind, HwInv, Types, FilesTyped, FileRecord, Shape, Closed
<1>3. \A x \in Encs : enc[x].owner # f
  BY <1>2, FilesAssumption DEF OwnerInv, Ending, Quiesced, OwnerHasStream
<1>4. \A x \in Encs : enc[x].owner \in Files \cup {NoFile} BY DEF HwInv, Types, Record
<1>5. \A g \in Files : file[g].pc # "closed" => file[g].av \in Encs BY DEF HwInv, Shape
<1>6. \A g \in Files : file[g].session => file[g].av \in Encs BY DEF HwInv, Shape
<1>7. OwnerHasStream'
  BY <1>1, <1>2, <1>3, <1>4, <1>6, FilesAssumption DEF OwnerInv, Ending, Quiesced,
     OwnerHasStream, Alike
<1>8. Ending'
  BY <1>1, <1>2, <1>5 DEF OwnerInv, Ending, Quiesced, Alike
<1>9. Quiesced'
  BY <1>1 DEF OwnerInv, Ending, Quiesced, Alike
<1> QED BY <1>7, <1>8, <1>9 DEF OwnerInv, Ending, Quiesced

\* STREAMON keeps owners, sessions and clients together.
LEMMA OwnerStreamOn ==
  ASSUME NEW f \in Files, StreamOn(f), HwInv, CountInv, OwnerInv
  PROVE  OwnerInv'
<1> DEFINE e == file[f].av
<1>1. e \in Encs /\ enc[e] \in Record BY DEF StreamOn, HwInv, Types, Shape
<1>2. /\ pmc' = pmc /\ pmc[e] # "halt" /\ enc[e].pm = "on" /\ ~file[f].session
      /\ enc[e].owner \in {NoFile, f} /\ ~enc[e].client
      /\ \A g \in Files : file[g].av = e => file[g].pc \notin {"stop", "release"}
  BY DEF StreamOn, pm, HwFree
<1>3. enc[e].owner = NoFile
  BY <1>1, <1>2, FilesAssumption DEF OwnerInv, Ending, Quiesced, OwnerHasStream
<1>4. \A x \in Encs \ {e} : enc'[x] = enc[x] BY DEF StreamOn, HwInv, Types
<1>5. \A g \in Files : /\ file'[g].pc = file[g].pc /\ file'[g].av = file[g].av
                       /\ g # f => file'[g].session = file[g].session
  BY DEF StreamOn, HwInv, Types, FilesTyped, FileRecord
<1>6. \A g \in Files : file[g].session => file[g].av \in Encs BY DEF HwInv, Shape
<1>7. \A g \in Files : file[g].pc \in {"stop", "release"} => file[g].av \in Encs
  BY DEF HwInv, Shape
<1>8. \A x \in Encs : enc[x].owner # NoFile => enc[x].owner \in Files
  BY DEF HwInv, Types, Record
<1>9. CASE enc'[e].owner = f /\ enc'[e].client /\ enc'[e].pm = "on" /\ file'[f].session
  <2>1. OwnerHasStream'
    <3>1. ASSUME NEW g \in Files, file'[g].session PROVE enc'[file'[g].av].owner = g
      <4>1. CASE g = f BY <4>1, <1>5, <1>9
      <4>2. CASE g # f
        BY <4>2, <3>1, <1>3, <1>4, <1>5, <1>6, FilesAssumption DEF OwnerInv, Ending,
           Quiesced, OwnerHasStream
      <4> QED BY <4>1, <4>2
    <3>2. ASSUME NEW x \in Encs, enc'[x].owner # NoFile
          PROVE  /\ file'[enc'[x].owner].session /\ file'[enc'[x].owner].av = x
                 /\ enc'[x].client /\ enc'[x].pm \in {"on", "suspend"}
      <4>1. CASE x = e BY <4>1, <1>5, <1>9
      <4>2. CASE x # e
        BY <4>2, <3>2, <1>2, <1>4, <1>5, <1>8 DEF OwnerInv, Ending, Quiesced,
           OwnerHasStream
      <4> QED BY <4>1, <4>2
    <3> QED BY <3>1, <3>2 DEF OwnerHasStream
  <2>2. Ending'
    BY <1>2, <1>4, <1>5, <1>7 DEF OwnerInv, Ending, Quiesced
  <2>3. Quiesced' BY <1>2, <1>4 DEF OwnerInv, Ending, Quiesced
  <2> QED BY <2>1, <2>2, <2>3 DEF OwnerInv, Ending, Quiesced
<1>10. CASE enc'[e].owner = enc[e].owner /\ file' = file
  <2>1. OwnerHasStream'
    BY <1>1, <1>3, <1>4, <1>6, <1>10 DEF OwnerInv, Ending, Quiesced, OwnerHasStream
  <2>2. Ending'
    BY <1>2, <1>4, <1>10, <1>7 DEF OwnerInv, Ending, Quiesced
  <2>3. Quiesced' BY <1>2, <1>4 DEF OwnerInv, Ending, Quiesced
  <2> QED BY <2>1, <2>2, <2>3 DEF OwnerInv, Ending, Quiesced
<1>11. \/ enc' = [enc EXCEPT ![e].client = TRUE, ![e].owner = f] /\ file' = [file EXCEPT ![f].session = TRUE]
       \/ enc' = [enc EXCEPT ![e].client = TRUE] /\ file' = file
  BY DEF StreamOn
<1>12. CASE enc' = [enc EXCEPT ![e].client = TRUE, ![e].owner = f] /\ file' = [file EXCEPT ![f].session = TRUE]
  BY <1>1, <1>2, <1>9, <1>12 DEF HwInv, Types, FilesTyped, FileRecord, Record
<1>13. CASE enc' = [enc EXCEPT ![e].client = TRUE] /\ file' = file
  BY <1>1, <1>10, <1>13 DEF HwInv, Types, Record
<1> QED BY <1>11, <1>12, <1>13

\* A Process that times out keeps owners, sessions and clients together.
LEMMA OwnerProcessTimeout ==
  ASSUME NEW f \in Files, ProcessTimeout(f), HwInv, CountInv, OwnerInv
  PROVE  OwnerInv'
<1> USE FilesAssumption
         DEF HwInv, Types, FilesTyped, FileRecord, Shape, Record, OwnerInv, Ending, Quiesced,
             OwnerHasStream,
           Placed, NoFile, Bound, Recovering
<1>1. \A g \in Files : file'[g].session => enc'[file'[g].av].owner = g
  BY DEF ProcessTimeout, pm
<1>2. \A x \in Encs : enc'[x].owner # NoFile =>
        /\ file'[enc'[x].owner].session /\ file'[enc'[x].owner].av = x
        /\ enc'[x].client /\ enc'[x].pm \in {"on", "suspend"}
  BY DEF ProcessTimeout, pm
<1>3. Ending'
  BY DEF ProcessTimeout, pm
<1>4. Quiesced'
  BY DEF ProcessTimeout, pm
<1> QED BY <1>1, <1>2, <1>3, <1>4 DEF OwnerInv, Ending, Quiesced, OwnerHasStream

\* The begin of STREAMOFF keeps owners, sessions and clients together.
LEMMA OwnerStreamOff ==
  ASSUME NEW f \in Files, StreamOff(f), HwInv, CountInv, OwnerInv
  PROVE  OwnerInv'
<1> USE FilesAssumption
         DEF HwInv, Types, FilesTyped, FileRecord, Shape, Record, OwnerInv, Ending, Quiesced,
             OwnerHasStream,
           Placed, NoFile, Bound, Recovering
<1>1. \A g \in Files : file'[g].session => enc'[file'[g].av].owner = g
  BY DEF StreamOff, pm
<1>2. \A x \in Encs : enc'[x].owner # NoFile =>
        /\ file'[enc'[x].owner].session /\ file'[enc'[x].owner].av = x
        /\ enc'[x].client /\ enc'[x].pm \in {"on", "suspend"}
  BY DEF StreamOff, pm
<1>3. Ending'
  BY DEF StreamOff, pm
<1>4. Quiesced'
  BY DEF StreamOff, pm
<1> QED BY <1>1, <1>2, <1>3, <1>4 DEF OwnerInv, Ending, Quiesced, OwnerHasStream

\* The begin of a close keeps owners, sessions and clients together.
LEMMA OwnerRelease ==
  ASSUME NEW f \in Files, Release(f), HwInv, CountInv, OwnerInv
  PROVE  OwnerInv'
<1> USE FilesAssumption
         DEF HwInv, Types, FilesTyped, FileRecord, Shape, Record, OwnerInv, Ending, Quiesced,
             OwnerHasStream,
           Placed, NoFile, Bound, Recovering
<1>1. \A g \in Files : file'[g].session => enc'[file'[g].av].owner = g
  BY DEF Release, pm
<1>2. \A x \in Encs : enc'[x].owner # NoFile =>
        /\ file'[enc'[x].owner].session /\ file'[enc'[x].owner].av = x
        /\ enc'[x].client /\ enc'[x].pm \in {"on", "suspend"}
  BY DEF Release, pm
<1>3. Ending'
  BY DEF Release, pm
<1>4. Quiesced'
  BY DEF Release, pm
<1> QED BY <1>1, <1>2, <1>3, <1>4 DEF OwnerInv, Ending, Quiesced, OwnerHasStream

\* The end of a stream keeps owners, sessions and clients together.
LEMMA OwnerEndSession ==
  ASSUME NEW f \in Files, EndSession(f), HwInv, CountInv, OwnerInv
  PROVE  OwnerInv'
<1> USE FilesAssumption
         DEF HwInv, Types, FilesTyped, FileRecord, Shape, Record, OwnerInv, Ending, Quiesced,
             OwnerHasStream,
           Placed, NoFile, Bound, Recovering
<1>1. \A g \in Files : file'[g].session => enc'[file'[g].av].owner = g
  BY DEF EndSession, OwnerAfter, HwFree, pm
<1>2. \A x \in Encs : enc'[x].owner # NoFile =>
        /\ file'[enc'[x].owner].session /\ file'[enc'[x].owner].av = x
        /\ enc'[x].client /\ enc'[x].pm \in {"on", "suspend"}
  <2> DEFINE e == file[f].av
  <2>1. e \in Encs /\ enc[e] \in Record /\ enc[e].owner \in {NoFile, f}
    BY DEF EndSession, HwInv, Types, Shape, OwnerInv, Ending, Quiesced
  <2>2. enc'[e].owner = NoFile
    BY <2>1, FilesAssumption DEF EndSession, OwnerAfter, HwInv, Types, Record
  <2>3. \A x \in Encs \ {e} : enc'[x] = enc[x] BY DEF EndSession, HwInv, Types
  <2>4. \A g \in Files \ {f} : file'[g] = file[g]
    BY DEF EndSession, HwInv, Types, FilesTyped, FileRecord
  <2>5. \A x \in Encs : enc[x].owner # NoFile => enc[x].owner \in Files
    BY DEF HwInv, Types, Record
  <2>6. \A x \in Encs \ {e} : enc[x].owner # f
    BY DEF OwnerInv, Ending, Quiesced, OwnerHasStream
  <2> QED BY <2>1, <2>2, <2>3, <2>4, <2>5, <2>6 DEF OwnerInv, Ending, Quiesced,
             OwnerHasStream
<1>3. Ending'
  BY DEF EndSession, OwnerAfter, HwFree, pm
<1>4. Quiesced'
  BY DEF EndSession, OwnerAfter, HwFree, pm
<1> QED BY <1>1, <1>2, <1>3, <1>4 DEF OwnerInv, Ending, Quiesced, OwnerHasStream

\* remove() up to its node keeps owners, sessions and clients together.
LEMMA OwnerRemove ==
  ASSUME NEW e \in Encs, Remove(e), HwInv, CountInv, OwnerInv
  PROVE  OwnerInv'
<1> USE FilesAssumption
         DEF HwInv, Types, FilesTyped, FileRecord, Shape, Record, OwnerInv, Ending, Quiesced,
             OwnerHasStream,
           Placed, NoFile, Bound, Recovering
<1>1. \A g \in Files : file'[g].session => enc'[file'[g].av].owner = g
  BY DEF Remove
<1>2. \A x \in Encs : enc'[x].owner # NoFile =>
        /\ file'[enc'[x].owner].session /\ file'[enc'[x].owner].av = x
        /\ enc'[x].client /\ enc'[x].pm \in {"on", "suspend"}
  BY DEF Remove
<1>3. Ending'
  BY DEF Remove
<1>4. Quiesced'
  BY DEF Remove
<1> QED BY <1>1, <1>2, <1>3, <1>4 DEF OwnerInv, Ending, Quiesced, OwnerHasStream

\* The rest of remove() keeps owners, sessions and clients together.
LEMMA OwnerTeardown ==
  ASSUME NEW e \in Encs, Teardown(e), HwInv, CountInv, OwnerInv
  PROVE  OwnerInv'
<1> USE FilesAssumption
         DEF HwInv, Types, FilesTyped, FileRecord, Shape, Record, OwnerInv, Ending, Quiesced,
             OwnerHasStream,
           Placed, NoFile, Bound, Notified
<1>1. \A g \in Files : file'[g].session => enc'[file'[g].av].owner = g
  BY UnusedHasNoOwner DEF Teardown, Gated, AfterTeardown, pm
<1>2. \A x \in Encs : enc'[x].owner # NoFile =>
        /\ file'[enc'[x].owner].session /\ file'[enc'[x].owner].av = x
        /\ enc'[x].client /\ enc'[x].pm \in {"on", "suspend"}
  BY UnusedHasNoOwner DEF Teardown, Gated, AfterTeardown, pm
<1>3. Ending'
  BY UnusedHasNoOwner DEF Teardown, Gated, AfterTeardown, pm
<1>4. Quiesced'
  BY UnusedHasNoOwner DEF Teardown, Gated, AfterTeardown, pm
<1> QED BY <1>1, <1>2, <1>3, <1>4 DEF OwnerInv, Ending, Quiesced, OwnerHasStream

\* probe() keeps owners, sessions and clients together.
LEMMA OwnerProbe ==
  ASSUME NEW e \in Encs, Probe(e), HwInv, CountInv, OwnerInv
  PROVE  OwnerInv'
<1>1. file' = file /\ pmc' = pmc BY DEF Probe, pm
<1>2. \A x \in Encs \ {e} : enc'[x] = enc[x] BY DEF Probe, HwInv, Types
<1>3. enc'[e].owner = NoFile /\ \A g \in Files : file[g].av # e
  <2>1. enc[e].owner = NoFile /\ \A g \in Files : file[g].av # e
    BY UnusedHasNoOwner DEF Probe, Notified
  <2>2. enc[e] \in Record BY DEF HwInv, Types
  <2> QED BY <2>1, <2>2 DEF Probe, Fresh, HwInv, Types, Record
<1>4. \A g \in Files : file[g].pc # "closed" => file[g].av \in Encs \ {e}
  BY <1>3 DEF HwInv, Shape
<1>5. \A g \in Files : file[g].session => file[g].av \in Encs \ {e}
  BY <1>3 DEF HwInv, Shape
<1>6. OwnerHasStream'
  BY <1>1, <1>2, <1>3, <1>5 DEF OwnerInv, Ending, Quiesced, OwnerHasStream
<1>7. Ending'
  BY <1>1, <1>2, <1>4 DEF OwnerInv, Ending, Quiesced
<1>8. Quiesced'
  BY <1>1, <1>2, <1>3 DEF OwnerInv, Ending, Quiesced
<1> QED BY <1>6, <1>7, <1>8 DEF OwnerInv, Ending, Quiesced

\* The begin of PM_SUSPEND_PREPARE keeps owners, sessions and clients together.
LEMMA OwnerPmPrepare ==
  ASSUME NEW e \in Encs, PmPrepare(e), HwInv, CountInv, OwnerInv
  PROVE  OwnerInv'
<1>1. ASSUME NEW x \in Encs
      PROVE /\ enc'[x].owner = enc[x].owner /\ enc'[x].client = enc[x].client
            /\ enc'[x].pm \in {enc[x].pm, "suspend"}
            /\ pmc'[x] = "halt" => pmc[x] = "halt"
  <2>1. enc[x] \in Record BY DEF HwInv, Types
  <2>2. CASE x = e BY <2>1, <2>2 DEF PmPrepare, HwInv, Types, Record
  <2>3. CASE x # e BY <2>3 DEF PmPrepare, HwInv, Types
  <2> QED BY <2>2, <2>3
<1>2. file' = file BY DEF PmPrepare
<1>3. \A g \in Files : file[g].pc # "closed" => file[g].av \in Encs BY DEF HwInv, Shape
<1>4. \A g \in Files : file[g].session => file[g].av \in Encs BY DEF HwInv, Shape
<1>5. OwnerHasStream' BY <1>1, <1>2, <1>4 DEF OwnerInv, Ending, Quiesced, OwnerHasStream
<1>6. Ending'
  BY <1>1, <1>2, <1>3 DEF OwnerInv, Ending, Quiesced
<1>7. Quiesced' BY <1>1 DEF OwnerInv, Ending, Quiesced
<1> QED BY <1>5, <1>6, <1>7 DEF OwnerInv, Ending, Quiesced

\* The quiesce of a suspend keeps owners, sessions and clients together.
LEMMA OwnerPmQuiesce ==
  ASSUME NEW e \in Encs, PmQuiesce(e), HwInv, CountInv, OwnerInv
  PROVE  OwnerInv'
<1> USE FilesAssumption
         DEF HwInv, Types, FilesTyped, FileRecord, Shape, Record, OwnerInv, Ending, Quiesced,
             OwnerHasStream,
           Placed, NoFile, Bound, Recovering
<1>1. \A g \in Files : file'[g].session => enc'[file'[g].av].owner = g
  BY DEF PmQuiesce, LosesStream
<1>2. \A x \in Encs : enc'[x].owner # NoFile =>
        /\ file'[enc'[x].owner].session /\ file'[enc'[x].owner].av = x
        /\ enc'[x].client /\ enc'[x].pm \in {"on", "suspend"}
  BY DEF PmQuiesce, LosesStream
<1>3. Ending'
  BY DEF PmQuiesce, LosesStream
<1>4. Quiesced'
  BY DEF PmQuiesce, LosesStream
<1> QED BY <1>1, <1>2, <1>3, <1>4 DEF OwnerInv, Ending, Quiesced, OwnerHasStream

\* The halt of a suspend keeps owners, sessions and clients together.
LEMMA OwnerPmHalt ==
  ASSUME NEW e \in Encs, PmHalt(e), HwInv, CountInv, OwnerInv
  PROVE  OwnerInv'
<1> USE FilesAssumption
         DEF HwInv, Types, FilesTyped, FileRecord, Shape, Record, OwnerInv, Ending, Quiesced,
             OwnerHasStream,
           Placed, NoFile, Bound, Recovering
<1>1. \A g \in Files : file'[g].session => enc'[file'[g].av].owner = g
  BY DEF PmHalt, AfterHalt, Gated
<1>2. \A x \in Encs : enc'[x].owner # NoFile =>
        /\ file'[enc'[x].owner].session /\ file'[enc'[x].owner].av = x
        /\ enc'[x].client /\ enc'[x].pm \in {"on", "suspend"}
  BY DEF PmHalt, AfterHalt, Gated
<1>3. Ending'
  BY DEF PmHalt, AfterHalt, Gated
<1>4. Quiesced'
  BY DEF PmHalt, AfterHalt, Gated
<1> QED BY <1>1, <1>2, <1>3, <1>4 DEF OwnerInv, Ending, Quiesced, OwnerHasStream

\* The begin of a resume boot keeps owners, sessions and clients together.
LEMMA OwnerPmBoot ==
  ASSUME NEW e \in Encs, PmBoot(e), HwInv, CountInv, OwnerInv
  PROVE  OwnerInv'
<1> USE FilesAssumption
         DEF HwInv, Types, FilesTyped, FileRecord, Shape, Record, OwnerInv, Ending, Quiesced,
             OwnerHasStream,
           Placed, NoFile, Bound, Recovering
<1>1. \A g \in Files : file'[g].session => enc'[file'[g].av].owner = g
  BY DEF PmBoot
<1>2. \A x \in Encs : enc'[x].owner # NoFile =>
        /\ file'[enc'[x].owner].session /\ file'[enc'[x].owner].av = x
        /\ enc'[x].client /\ enc'[x].pm \in {"on", "suspend"}
  BY DEF PmBoot
<1>3. Ending'
  BY DEF PmBoot
<1>4. Quiesced'
  BY DEF PmBoot
<1> QED BY <1>1, <1>2, <1>3, <1>4 DEF OwnerInv, Ending, Quiesced, OwnerHasStream

\* A resume boot that succeeds keeps owners, sessions and clients together.
LEMMA OwnerBootOk ==
  ASSUME NEW e \in Encs, BootOk(e), HwInv, CountInv, OwnerInv
  PROVE  OwnerInv'
<1> USE FilesAssumption
         DEF HwInv, Types, FilesTyped, FileRecord, Shape, Record, OwnerInv, Ending, Quiesced,
             OwnerHasStream,
           Placed, NoFile, Bound, Recovering
<1>1. \A g \in Files : file'[g].session => enc'[file'[g].av].owner = g
  BY DEF BootOk, Running
<1>2. \A x \in Encs : enc'[x].owner # NoFile =>
        /\ file'[enc'[x].owner].session /\ file'[enc'[x].owner].av = x
        /\ enc'[x].client /\ enc'[x].pm \in {"on", "suspend"}
  BY DEF BootOk, Running
<1>3. Ending'
  BY DEF BootOk, Running
<1>4. Quiesced'
  BY DEF BootOk, Running
<1> QED BY <1>1, <1>2, <1>3, <1>4 DEF OwnerInv, Ending, Quiesced, OwnerHasStream

\* A resume boot that fails keeps owners, sessions and clients together.
LEMMA OwnerBootFails ==
  ASSUME NEW e \in Encs, BootFails(e), HwInv, CountInv, OwnerInv
  PROVE  OwnerInv'
<1> USE FilesAssumption
         DEF HwInv, Types, FilesTyped, FileRecord, Shape, Record, OwnerInv, Ending, Quiesced,
             OwnerHasStream,
           Placed, NoFile, Bound, Recovering
<1>1. \A g \in Files : file'[g].session => enc'[file'[g].av].owner = g
  BY DEF BootFails, BootLeft, Running, Gated
<1>2. \A x \in Encs : enc'[x].owner # NoFile =>
        /\ file'[enc'[x].owner].session /\ file'[enc'[x].owner].av = x
        /\ enc'[x].client /\ enc'[x].pm \in {"on", "suspend"}
  BY DEF BootFails, BootLeft, Running, Gated
<1>3. Ending'
  BY DEF BootFails, BootLeft, Running, Gated
<1>4. Quiesced'
  BY DEF BootFails, BootLeft, Running, Gated
<1> QED BY <1>1, <1>2, <1>3, <1>4 DEF OwnerInv, Ending, Quiesced, OwnerHasStream

\* The look at ave_v4l2_idle() keeps owners, sessions and clients together.
LEMMA OwnerPmIdleCheck ==
  ASSUME NEW e \in Encs, PmIdleCheck(e), HwInv, CountInv, OwnerInv
  PROVE  OwnerInv'
<1> USE FilesAssumption
         DEF HwInv, Types, FilesTyped, FileRecord, Shape, Record, OwnerInv, Ending, Quiesced,
             OwnerHasStream,
           Placed, NoFile, Bound, Recovering
<1>1. \A g \in Files : file'[g].session => enc'[file'[g].av].owner = g
  BY DEF PmIdleCheck
<1>2. \A x \in Encs : enc'[x].owner # NoFile =>
        /\ file'[enc'[x].owner].session /\ file'[enc'[x].owner].av = x
        /\ enc'[x].client /\ enc'[x].pm \in {"on", "suspend"}
  BY DEF PmIdleCheck
<1>3. Ending'
  BY DEF PmIdleCheck
<1>4. Quiesced'
  BY DEF PmIdleCheck
<1> QED BY <1>1, <1>2, <1>3, <1>4 DEF OwnerInv, Ending, Quiesced, OwnerHasStream

\* The return of a failed PM job keeps owners, sessions and clients together.
LEMMA OwnerPmReturn ==
  ASSUME NEW e \in Encs, PmReturn(e), HwInv, CountInv, OwnerInv
  PROVE  OwnerInv'
<1> USE FilesAssumption
         DEF HwInv, Types, FilesTyped, FileRecord, Shape, Record, OwnerInv, Ending, Quiesced,
             OwnerHasStream,
           Placed, NoFile, Bound, Recovering
<1>1. \A g \in Files : file'[g].session => enc'[file'[g].av].owner = g
  BY DEF PmReturn, Post, Posted, Schedule, Booted
<1>2. \A x \in Encs : enc'[x].owner # NoFile =>
        /\ file'[enc'[x].owner].session /\ file'[enc'[x].owner].av = x
        /\ enc'[x].client /\ enc'[x].pm \in {"on", "suspend"}
  BY DEF PmReturn, Post, Posted, Schedule, Booted
<1>3. Ending'
  BY DEF PmReturn, Post, Posted, Schedule, Booted
<1>4. Quiesced'
  BY DEF PmReturn, Post, Posted, Schedule, Booted
<1> QED BY <1>1, <1>2, <1>3, <1>4 DEF OwnerInv, Ending, Quiesced, OwnerHasStream

\* The begin of a system suspend keeps owners, sessions and clients together.
LEMMA OwnerSuspendBegin ==
  ASSUME SuspendBegin, HwInv, CountInv, OwnerInv
  PROVE  OwnerInv'
<1> USE FilesAssumption
         DEF HwInv, Types, FilesTyped, FileRecord, Shape, Record, OwnerInv, Ending, Quiesced,
             OwnerHasStream,
           Placed, NoFile, Bound, Recovering
<1>1. \A g \in Files : file'[g].session => enc'[file'[g].av].owner = g
  BY DEF SuspendBegin
<1>2. \A x \in Encs : enc'[x].owner # NoFile =>
        /\ file'[enc'[x].owner].session /\ file'[enc'[x].owner].av = x
        /\ enc'[x].client /\ enc'[x].pm \in {"on", "suspend"}
  BY DEF SuspendBegin
<1>3. Ending'
  BY DEF SuspendBegin
<1>4. Quiesced'
  BY DEF SuspendBegin
<1> QED BY <1>1, <1>2, <1>3, <1>4 DEF OwnerInv, Ending, Quiesced, OwnerHasStream

\* The end of the PM chain keeps owners, sessions and clients together.
LEMMA OwnerPmPrepared == ASSUME PmPrepared, HwInv, CountInv, OwnerInv PROVE OwnerInv'
<1> USE FilesAssumption
         DEF HwInv, Types, FilesTyped, FileRecord, Shape, Record, OwnerInv, Ending, Quiesced,
             OwnerHasStream,
           Placed, NoFile, Bound, Recovering
<1>1. \A g \in Files : file'[g].session => enc'[file'[g].av].owner = g
  BY DEF PmPrepared
<1>2. \A x \in Encs : enc'[x].owner # NoFile =>
        /\ file'[enc'[x].owner].session /\ file'[enc'[x].owner].av = x
        /\ enc'[x].client /\ enc'[x].pm \in {"on", "suspend"}
  BY DEF PmPrepared
<1>3. Ending'
  BY DEF PmPrepared
<1>4. Quiesced'
  BY DEF PmPrepared
<1> QED BY <1>1, <1>2, <1>3, <1>4 DEF OwnerInv, Ending, Quiesced, OwnerHasStream

\* A suspend that is refused keeps owners, sessions and clients together.
LEMMA OwnerSuspendAbort ==
  ASSUME SuspendAbort, HwInv, CountInv, OwnerInv
  PROVE  OwnerInv'
<1> USE FilesAssumption
         DEF HwInv, Types, FilesTyped, FileRecord, Shape, Record, OwnerInv, Ending, Quiesced,
             OwnerHasStream,
           Placed, NoFile, Bound, Recovering
<1>1. \A g \in Files : file'[g].session => enc'[file'[g].av].owner = g
  BY DEF SuspendAbort, Post, Posted, Booted
<1>2. \A x \in Encs : enc'[x].owner # NoFile =>
        /\ file'[enc'[x].owner].session /\ file'[enc'[x].owner].av = x
        /\ enc'[x].client /\ enc'[x].pm \in {"on", "suspend"}
  BY DEF SuspendAbort, Post, Posted, Booted
<1>3. Ending'
  BY DEF SuspendAbort, Post, Posted, Booted
<1>4. Quiesced'
  BY DEF SuspendAbort, Post, Posted, Booted
<1> QED BY <1>1, <1>2, <1>3, <1>4 DEF OwnerInv, Ending, Quiesced, OwnerHasStream

\* Falling asleep keeps owners, sessions and clients together.
LEMMA OwnerSleep == ASSUME Sleep, HwInv, CountInv, OwnerInv PROVE OwnerInv'
<1> USE FilesAssumption
         DEF HwInv, Types, FilesTyped, FileRecord, Shape, Record, OwnerInv, Ending, Quiesced,
             OwnerHasStream,
           Placed, NoFile, Bound, Recovering
<1>1. \A g \in Files : file'[g].session => enc'[file'[g].av].owner = g
  BY DEF Sleep
<1>2. \A x \in Encs : enc'[x].owner # NoFile =>
        /\ file'[enc'[x].owner].session /\ file'[enc'[x].owner].av = x
        /\ enc'[x].client /\ enc'[x].pm \in {"on", "suspend"}
  BY DEF Sleep
<1>3. Ending'
  BY DEF Sleep
<1>4. Quiesced'
  BY DEF Sleep
<1> QED BY <1>1, <1>2, <1>3, <1>4 DEF OwnerInv, Ending, Quiesced, OwnerHasStream

\* Waking keeps owners, sessions and clients together.
LEMMA OwnerWake == ASSUME Wake, HwInv, CountInv, OwnerInv PROVE OwnerInv'
<1> USE FilesAssumption
         DEF HwInv, Types, FilesTyped, FileRecord, Shape, Record, OwnerInv, Ending, Quiesced,
             OwnerHasStream,
           Placed, NoFile, Bound, Recovering
<1>1. \A g \in Files : file'[g].session => enc'[file'[g].av].owner = g
  BY DEF Wake, Post, Posted, Booted
<1>2. \A x \in Encs : enc'[x].owner # NoFile =>
        /\ file'[enc'[x].owner].session /\ file'[enc'[x].owner].av = x
        /\ enc'[x].client /\ enc'[x].pm \in {"on", "suspend"}
  BY DEF Wake, Post, Posted, Booted
<1>3. Ending'
  BY DEF Wake, Post, Posted, Booted
<1>4. Quiesced'
  BY DEF Wake, Post, Posted, Booted
<1> QED BY <1>1, <1>2, <1>3, <1>4 DEF OwnerInv, Ending, Quiesced, OwnerHasStream

-----------------------------------------------------------------------------
\* Every step keeps the hardware layer.
LEMMA HwNext == ASSUME HwInv, [Next]_vars PROVE HwInv'
<1>1. ASSUME NEW f \in Files, NEW nav \in Encs, Open(f, nav) PROVE HwInv'
  BY <1>1, HwOpen
<1>2. ASSUME NEW f \in Files, StreamOn(f) PROVE HwInv' BY <1>2, HwStreamOn
<1>3. ASSUME NEW f \in Files, ProcessTimeout(f) PROVE HwInv' BY <1>3, HwProcessTimeout
<1>4. ASSUME NEW f \in Files, StreamOff(f) PROVE HwInv' BY <1>4, HwStreamOff
<1>5. ASSUME NEW f \in Files, Release(f) PROVE HwInv' BY <1>5, HwRelease
<1>6. ASSUME NEW f \in Files, EndSession(f) PROVE HwInv' BY <1>6, HwEndSession
<1>7. ASSUME NEW f \in Files, Unbind(f) PROVE HwInv' BY <1>7, HwUnbind
<1>8. ASSUME NEW e \in Encs, Remove(e) PROVE HwInv' BY <1>8, HwRemove
<1>9. ASSUME NEW e \in Encs, Teardown(e) PROVE HwInv' BY <1>9, HwTeardown
<1>10. ASSUME NEW e \in Encs, Probe(e) PROVE HwInv' BY <1>10, HwProbe
<1>11. ASSUME NEW e \in Encs, PmPrepare(e) PROVE HwInv' BY <1>11, HwPmPrepare
<1>12. ASSUME NEW e \in Encs, PmQuiesce(e) PROVE HwInv' BY <1>12, HwPmQuiesce
<1>13. ASSUME NEW e \in Encs, PmHalt(e) PROVE HwInv' BY <1>13, HwPmHalt
<1>14. ASSUME NEW e \in Encs, PmBoot(e) PROVE HwInv' BY <1>14, HwPmBoot
<1>15. ASSUME NEW e \in Encs, BootOk(e) PROVE HwInv' BY <1>15, HwBootOk
<1>16. ASSUME NEW e \in Encs, BootFails(e) PROVE HwInv' BY <1>16, HwBootFails
<1>17. ASSUME NEW e \in Encs, PmIdleCheck(e) PROVE HwInv' BY <1>17, HwPmIdleCheck
<1>18. ASSUME NEW e \in Encs, PmReturn(e) PROVE HwInv' BY <1>18, HwPmReturn
<1>19. CASE SuspendBegin BY <1>19, HwSuspendBegin
<1>20. CASE PmPrepared BY <1>20, HwPmPrepared
<1>21. CASE SuspendAbort BY <1>21, HwSuspendAbort
<1>22. CASE Sleep BY <1>22, HwSleep
<1>23. CASE Wake BY <1>23, HwWake
<1>24. CASE UNCHANGED vars
  BY <1>24 DEF vars, pm, HwInv, Types, FilesTyped, FileRecord, Chain, Notified
<1> QED BY <1>1, <1>2, <1>3, <1>4, <1>5, <1>6, <1>7, <1>8, <1>9, <1>10, <1>11, <1>12,
           <1>13, <1>14, <1>15, <1>16, <1>17, <1>18, <1>19, <1>20, <1>21, <1>22, <1>23, <1>24
      DEF Next, Client, Reprobe, Pm, System

\* Every step keeps the counts, if no open overlaps the decision on a re-probe.
LEMMA CountNext ==
  ASSUME "open" \notin Races, HwInv, CountInv, [Next]_vars
  PROVE  CountInv'
<1>1. ASSUME NEW f \in Files, NEW nav \in Encs, Open(f, nav) PROVE CountInv'
  BY <1>1, CountsOpen
<1>2. ASSUME NEW f \in Files, StreamOn(f) PROVE CountInv' BY <1>2, CountsStreamOn
<1>3. ASSUME NEW f \in Files, ProcessTimeout(f) PROVE CountInv'
  BY <1>3, CountsProcessTimeout
<1>4. ASSUME NEW f \in Files, StreamOff(f) PROVE CountInv' BY <1>4, CountsStreamOff
<1>5. ASSUME NEW f \in Files, Release(f) PROVE CountInv' BY <1>5, CountsRelease
<1>6. ASSUME NEW f \in Files, EndSession(f) PROVE CountInv' BY <1>6, CountsEndSession
<1>7. ASSUME NEW f \in Files, Unbind(f) PROVE CountInv' BY <1>7, CountsUnbind
<1>8. ASSUME NEW e \in Encs, Remove(e) PROVE CountInv' BY <1>8, CountsRemove
<1>9. ASSUME NEW e \in Encs, Teardown(e) PROVE CountInv' BY <1>9, CountsTeardown
<1>10. ASSUME NEW e \in Encs, Probe(e) PROVE CountInv' BY <1>10, CountsProbe
<1>11. ASSUME NEW e \in Encs, PmPrepare(e) PROVE CountInv' BY <1>11, CountsPmPrepare
<1>12. ASSUME NEW e \in Encs, PmQuiesce(e) PROVE CountInv' BY <1>12, CountsPmQuiesce
<1>13. ASSUME NEW e \in Encs, PmHalt(e) PROVE CountInv' BY <1>13, CountsPmHalt
<1>14. ASSUME NEW e \in Encs, PmBoot(e) PROVE CountInv' BY <1>14, CountsPmBoot
<1>15. ASSUME NEW e \in Encs, BootOk(e) PROVE CountInv' BY <1>15, CountsBootOk
<1>16. ASSUME NEW e \in Encs, BootFails(e) PROVE CountInv' BY <1>16, CountsBootFails
<1>17. ASSUME NEW e \in Encs, PmIdleCheck(e) PROVE CountInv' BY <1>17, CountsPmIdleCheck
<1>18. ASSUME NEW e \in Encs, PmReturn(e) PROVE CountInv' BY <1>18, CountsPmReturn
<1>19. CASE SuspendBegin BY <1>19, CountsSuspendBegin
<1>20. CASE PmPrepared BY <1>20, CountsPmPrepared
<1>21. CASE SuspendAbort BY <1>21, CountsSuspendAbort
<1>22. CASE Sleep BY <1>22, CountsSleep
<1>23. CASE Wake BY <1>23, CountsWake
<1>24. CASE UNCHANGED vars
  BY <1>24 DEF vars, pm, CountInv, CountsHold, AvOf, NavOf, Notified
<1> QED BY <1>1, <1>2, <1>3, <1>4, <1>5, <1>6, <1>7, <1>8, <1>9, <1>10, <1>11, <1>12,
           <1>13, <1>14, <1>15, <1>16, <1>17, <1>18, <1>19, <1>20, <1>21, <1>22, <1>23, <1>24
      DEF Next, Client, Reprobe, Pm, System

\* Every step keeps owners, sessions and clients together.
LEMMA OwnerNext == ASSUME HwInv, CountInv, OwnerInv, [Next]_vars PROVE OwnerInv'
<1>1. ASSUME NEW f \in Files, NEW nav \in Encs, Open(f, nav) PROVE OwnerInv'
  BY <1>1, OwnerOpen
<1>2. ASSUME NEW f \in Files, StreamOn(f) PROVE OwnerInv' BY <1>2, OwnerStreamOn
<1>3. ASSUME NEW f \in Files, ProcessTimeout(f) PROVE OwnerInv'
  BY <1>3, OwnerProcessTimeout
<1>4. ASSUME NEW f \in Files, StreamOff(f) PROVE OwnerInv' BY <1>4, OwnerStreamOff
<1>5. ASSUME NEW f \in Files, Release(f) PROVE OwnerInv' BY <1>5, OwnerRelease
<1>6. ASSUME NEW f \in Files, EndSession(f) PROVE OwnerInv' BY <1>6, OwnerEndSession
<1>7. ASSUME NEW f \in Files, Unbind(f) PROVE OwnerInv' BY <1>7, OwnerUnbind
<1>8. ASSUME NEW e \in Encs, Remove(e) PROVE OwnerInv' BY <1>8, OwnerRemove
<1>9. ASSUME NEW e \in Encs, Teardown(e) PROVE OwnerInv' BY <1>9, OwnerTeardown
<1>10. ASSUME NEW e \in Encs, Probe(e) PROVE OwnerInv' BY <1>10, OwnerProbe
<1>11. ASSUME NEW e \in Encs, PmPrepare(e) PROVE OwnerInv' BY <1>11, OwnerPmPrepare
<1>12. ASSUME NEW e \in Encs, PmQuiesce(e) PROVE OwnerInv' BY <1>12, OwnerPmQuiesce
<1>13. ASSUME NEW e \in Encs, PmHalt(e) PROVE OwnerInv' BY <1>13, OwnerPmHalt
<1>14. ASSUME NEW e \in Encs, PmBoot(e) PROVE OwnerInv' BY <1>14, OwnerPmBoot
<1>15. ASSUME NEW e \in Encs, BootOk(e) PROVE OwnerInv' BY <1>15, OwnerBootOk
<1>16. ASSUME NEW e \in Encs, BootFails(e) PROVE OwnerInv' BY <1>16, OwnerBootFails
<1>17. ASSUME NEW e \in Encs, PmIdleCheck(e) PROVE OwnerInv' BY <1>17, OwnerPmIdleCheck
<1>18. ASSUME NEW e \in Encs, PmReturn(e) PROVE OwnerInv' BY <1>18, OwnerPmReturn
<1>19. CASE SuspendBegin BY <1>19, OwnerSuspendBegin
<1>20. CASE PmPrepared BY <1>20, OwnerPmPrepared
<1>21. CASE SuspendAbort BY <1>21, OwnerSuspendAbort
<1>22. CASE Sleep BY <1>22, OwnerSleep
<1>23. CASE Wake BY <1>23, OwnerWake
<1>24. CASE UNCHANGED vars
  BY <1>24 DEF vars, pm, OwnerInv, Ending, Quiesced, OwnerHasStream
<1> QED BY <1>1, <1>2, <1>3, <1>4, <1>5, <1>6, <1>7, <1>8, <1>9, <1>10, <1>11, <1>12,
           <1>13, <1>14, <1>15, <1>16, <1>17, <1>18, <1>19, <1>20, <1>21, <1>22, <1>23, <1>24
      DEF Next, Client, Reprobe, Pm, System

\* The hardware layer holds after every encoder's probe.
LEMMA HwInit == Init => HwInv
<1> SUFFICES ASSUME Init PROVE HwInv OBVIOUS
<1>1. Fresh \in Record BY DEF Fresh, Record, NoFile
<1>2. FilesTyped
  <2>1. Closed \in FileRecord BY DEF Closed, FileRecord
  <2> QED BY <2>1 DEF Init, FilesTyped
<1>3. Types BY <1>1, <1>2, ParametersAssumption DEF Init, Types, Place
<1>4. ASSUME NEW e \in Encs PROVE Hardware(enc[e], pmc[e]) /\ Placed(enc[e], pmc[e])
  BY DEF Init, Fresh, Hardware, Placed, Gone, Bound
<1>5. Chain BY NoEncNotEnc DEF Init, Chain
<1>6. \A f \in Files : Shape(file[f]) BY DEF Init, Shape, Closed
<1> QED BY <1>3, <1>4, <1>5, <1>6 DEF HwInv

\* The hardware, pm_state, the re-probe and the place of the PM code of every
\* encoder agree, whatever fails and whichever steps overlap.
THEOREM HardwareSafe == Spec => []HwInv
<1>1. Init => HwInv BY HwInit
<1>2. HwInv /\ [Next]_vars => HwInv' BY HwNext
<1> QED BY <1>1, <1>2, PTL DEF Spec

\* A core that runs has its memory and its power.
LEMMA HwGates == HwInv => NeverGatesLive
<1> SUFFICES ASSUME HwInv, NEW e \in Encs, enc[e].core = "run", enc[e].rec # "failed"
             PROVE  enc[e].mapped /\ (enc[e].powered \/ enc[e].left)
  BY DEF NeverGatesLive
<1>1. enc[e] \in Record /\ Hardware(enc[e], pmc[e]) BY DEF HwInv, Types
<1> QED BY <1>1 DEF Hardware, Record, Gone

\* No live core loses its memory or its power while the system runs: not to
\* remove(), not to a suspend, not to a failed boot (docs/63), whatever fails and
\* whichever of the unserialised steps overlap.
THEOREM NeverGates == Spec => []NeverGatesLive
<1> QED BY HardwareSafe, HwGates, PTL

\* Nothing is open at first.
LEMMA CountInit == Init => CountInv
<1> SUFFICES ASSUME Init, NEW e \in Encs PROVE CountsHold(e) BY DEF CountInv
<1>1. AvOf(e) = {} /\ NavOf(e) = {} BY NoEncNotEnc DEF Init, Closed, AvOf, NavOf
<1> QED BY <1>1, FS_EmptySet DEF Init, Fresh, CountsHold, Notified

\* Nothing streams at first.
LEMMA OwnerInit == Init => OwnerInv
<1> QED BY DEF Init, Fresh, Closed, OwnerInv, Ending, Quiesced, OwnerHasStream

\* The three layers.
EncodersInv == HwInv /\ CountInv /\ OwnerInv

\* The inductive invariant, when no remove() meets an open file.
THEOREM InvariantHolds == ASSUME "open" \notin Races PROVE Spec => []EncodersInv
<1>1. Init => EncodersInv BY HwInit, CountInit, OwnerInit DEF EncodersInv
<1>2. EncodersInv /\ [Next]_vars => EncodersInv'
  BY HwNext, CountNext, OwnerNext DEF EncodersInv
<1> QED BY <1>1, <1>2, PTL DEF Spec

\* The counts are those of the open files, and so within their ranges.
LEMMA CountsAreTypes == ASSUME HwInv, CountInv PROVE UsersCounted
<1>1. ASSUME NEW e \in Encs
      PROVE  /\ enc[e].ctxs = Cardinality({f \in OpenFiles : file[f].av = e})
             /\ enc[e].users = enc[e].ctxs + Cardinality({f \in OpenFiles : file[f].nav = e})
  <2>1. {f \in OpenFiles : file[f].av = e} = AvOf(e) /\ {f \in OpenFiles : file[f].nav = e} = NavOf(e)
    BY NoEncNotEnc DEF OpenFiles, AvOf, NavOf, HwInv, Shape
  <2> QED BY <2>1 DEF CountInv, CountsHold
<1>2. ASSUME NEW e \in Encs
      PROVE  enc[e].ctxs \in 0 .. Cardinality(Files) /\ enc[e].users \in 0 .. 2 * Cardinality(Files)
  <2>1. Cardinality(Files) \in Nat BY FilesAssumption, FS_CardinalityType
  <2> QED BY <2>1, FilesOfFinite DEF CountInv, CountsHold
<1> DEFINE Counted ==
      [up : BOOLEAN, ctxs : 0 .. Cardinality(Files),
       users : 0 .. 2 * Cardinality(Files), hung : BOOLEAN,
       rec : {"none", "queued", "remove", "gone", "failed"},
       pm : {"on", "suspend", "off", "boot", "dead"},
       owner : Files \cup {NoFile}, client : BOOLEAN,
       core : {"run", "stop"}, mapped : BOOLEAN,
       powered : BOOLEAN, left : BOOLEAN]
<1>3. ASSUME NEW e \in Encs PROVE enc[e] \in Counted
  <2>1. enc[e] \in Record BY DEF HwInv, Types
  <2> QED BY <2>1, <1>2 DEF Record
<1>4. enc \in [Encs -> Counted]
  <2>1. enc = [e \in Encs |-> enc[e]] BY DEF HwInv, Types
  <2> HIDE DEF Counted
  <2> QED BY <2>1, <1>3
<1>5. TypeOK BY <1>4 DEF TypeOK, HwInv, Types, FilesTyped, FileRecord, Place
<1> QED BY <1>1, <1>5 DEF UsersCounted

\* ctxs and users count the files and contexts on an encoder, whichever encoder
\* open_balance moved each to and in whatever order they close.
THEOREM UsersAreCounted == ASSUME "open" \notin Races PROVE Spec => []UsersCounted
<1>1. EncodersInv => UsersCounted BY CountsAreTypes DEF EncodersInv
<1> QED BY <1>1, InvariantHolds, PTL

\* A client of a bound encoder has what it uses.
LEMMA ClientUp == HwInv => ClientIsUp
<1> SUFFICES ASSUME HwInv, NEW e \in Encs, enc[e].client, Notified(e)
             PROVE  enc[e].powered /\ enc[e].mapped /\ enc[e].core = "run"
  BY DEF ClientIsUp
<1>1. enc[e] \in Record /\ Hardware(enc[e], pmc[e]) BY DEF HwInv, Types
<1> QED BY <1>1 DEF Hardware, Gone, Record, Notified

\* An encoder's owner, its session, the firmware's client and what it needs agree:
\* no close, suspend, hang or re-probe leaves one without the others.
THEOREM OwnersHaveClients == ASSUME "open" \notin Races PROVE Spec => []OwnerHasClient
<1>1. EncodersInv => OwnerHasClient
  BY ClientUp DEF EncodersInv, OwnerInv, Ending, Quiesced, OwnerHasClient
<1> QED BY <1>1, InvariantHolds, PTL

\* Asleep, no encoder is between remove() and probe(), and the driver of each one
\* that is bound has let the suspend through.
SleepInv ==
  sys = "asleep" => \A e \in Encs : enc[e].rec \in {"failed", "none", "queued"} /\ PmSuspendAllows(e)

\* Only Sleep falls asleep, and only Wake leaves.
LEMMA SleepNext ==
  ASSUME "sleep" \notin Races, HwInv, SleepInv, [Next]_vars
  PROVE  SleepInv'
<1>1. CASE sys # "asleep"
  <2> SUFFICES ASSUME sys' = "asleep" PROVE Sleep
    BY DEF Sleep, SleepInv, PmSuspendAllows, Notified, HwInv, Types, Record
  <2>1. ASSUME NEW f \in Files, Client(f) PROVE Sleep
    BY <1>1, <2>1 DEF Client, Open, StreamOn, ProcessTimeout, StreamOff, Release,
       EndSession, Unbind, pm
  <2>2. ASSUME NEW e \in Encs, Reprobe(e) PROVE Sleep
    BY <1>1, <2>2 DEF Reprobe, Remove, Teardown, Probe, pm
  <2>3. ASSUME NEW e \in Encs, Pm(e) PROVE Sleep
    BY <1>1, <2>3 DEF Pm, PmPrepare, PmQuiesce, PmHalt, PmBoot, BootOk, BootFails,
       PmIdleCheck, PmReturn, Post
  <2>4. ASSUME System PROVE Sleep
    BY <1>1, <2>4 DEF System, SuspendBegin, PmPrepared, SuspendAbort, Wake, Post
  <2>5. ASSUME UNCHANGED vars PROVE Sleep BY <1>1, <2>5 DEF vars
  <2> QED BY <2>1, <2>2, <2>3, <2>4, <2>5 DEF Next
<1>2. CASE sys = "asleep"
  <2> SUFFICES ASSUME sys' = "asleep" PROVE UNCHANGED enc
    BY <1>2 DEF SleepInv, PmSuspendAllows, Notified
  <2>0. \A e \in Encs : pmc[e] \notin {"quiesce", "halt"}
    BY <1>2, NoEncNotEnc DEF HwInv, Chain
  <2>1. ASSUME NEW f \in Files, Client(f) PROVE FALSE
    BY <1>2, <2>1 DEF Client, Open, StreamOn, ProcessTimeout, StreamOff, Release,
       EndSession, Unbind, Awake
  <2>2. ASSUME NEW e \in Encs, Reprobe(e) PROVE FALSE
    BY <1>2, <2>2 DEF Reprobe, Remove, Teardown, Probe, Awake
  <2>3. ASSUME NEW e \in Encs, Pm(e) PROVE FALSE
    BY <1>2, <2>0, <2>3 DEF Pm, PmPrepare, PmQuiesce, PmHalt, PmBoot, BootOk,
       BootFails, PmIdleCheck, PmReturn, Awake
  <2>4. ASSUME System PROVE FALSE
    BY <1>2, <2>4 DEF System, SuspendBegin, PmPrepared, SuspendAbort, Sleep, Wake, Post
  <2>5. ASSUME UNCHANGED vars PROVE UNCHANGED enc BY <2>5 DEF vars
  <2> QED BY <2>1, <2>2, <2>3, <2>4, <2>5 DEF Next
<1> QED BY <1>1, <1>2

\* An encoder whose driver let a suspend through has a stopped core.
LEMMA SleepStops == HwInv /\ SleepInv => AsleepMeansStopped
<1> SUFFICES ASSUME HwInv, SleepInv, sys = "asleep", NEW e \in Encs, enc[e].rec # "failed"
             PROVE  enc[e].core = "stop" /\ ~enc[e].mapped
  BY DEF AsleepMeansStopped
<1>1. enc[e] \in Record /\ Hardware(enc[e], pmc[e]) BY DEF HwInv, Types
<1>2. Notified(e) /\ ~enc[e].powered BY DEF SleepInv, PmSuspendAllows, Notified
<1> QED BY <1>1, <1>2 DEF Hardware, Gone, Record, Notified

\* A system asleep has no running core and no mapping left on any encoder, but for
\* one whose probe failed (docs/86), if no sleep falls between remove() and probe().
THEOREM SleepsStopped == ASSUME "sleep" \notin Races PROVE Spec => []AsleepMeansStopped
<1>1. Init => HwInv /\ SleepInv BY HwInit DEF Init, SleepInv
<1>2. (HwInv /\ SleepInv) /\ [Next]_vars => (HwInv /\ SleepInv)' BY HwNext, SleepNext
<1> QED BY <1>1, <1>2, SleepStops, PTL DEF Spec

====
