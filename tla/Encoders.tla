------------------------------ MODULE Encoders ------------------------------
(***************************************************************************)
(* The encoders of a machine, the files opened on their nodes, and what    *)
(* becomes of an encoder whose firmware hung or whose system sleeps: the   *)
(* choice of an encoder at open (driver/ave_v4l2.c, open_balance), its one *)
(* stream, the re-probe after a hang, and the PM notifier with the resume  *)
(* boot (driver/ave_drv.c, pm_sleep=2).                                    *)
(*                                                                         *)
(* Three locks order these: the list lock (one critical section per open   *)
(* and release), an encoder's hw_mutex (held by the PM code over several   *)
(* steps, by anything else for one), and the PM notifier chain's rwsem     *)
(* (read for a whole chain of calls, written to register or unregister).   *)
(***************************************************************************)
EXTENDS Integers, FiniteSets, FiniteSetsExt

CONSTANTS
  Encs,         \* the encoders, by soc->inst; all compatible
  Files,        \* file handles a client may have
  OpenBalance,  \* the module parameter
  Faults,       \* what may go wrong
  Races,        \* which unserialised pairs of steps may overlap
  MaxHangs,     \* bound: Process timeouts
  MaxSleeps     \* bound: system suspends begun
ASSUME EncsAssumption == Encs \subseteq Nat \ {0} /\ IsFiniteSet(Encs)
ASSUME ParametersAssumption ==
  /\ OpenBalance \in BOOLEAN
  /\ {MaxHangs, MaxSleeps} \subseteq Nat
  /\ Faults \subseteq {"stop",  \* Stop or Close is not answered
                       "halt",  \* the core does not stop, nor after the pulse
                       "boot",  \* a resume boot fails
                       "probe"} \* a re-probe fails
  /\ Races \subseteq {"open",   \* remove() under a file opened after the
                                \* re-probe was decided on
                      "sleep"}  \* a sleep between remove() and probe()

NoFile == 0
NoEnc  == 0
ASSUME FilesAssumption == NoFile \notin Files /\ IsFiniteSet(Files)

VARIABLES
  enc,    \* struct ave_device with its ave_v4l2, and its hardware
  file,   \* struct ave_ctx
  pmc,    \* where the PM code of an encoder is
  sys,    \* "awake", "preparing" (in the PM chain), "suspending", "asleep"
  todo,   \* encoders PM_SUSPEND_PREPARE has yet to reach
  prep,   \* the encoder whose PM_SUSPEND_PREPARE call is running
  cnt     \* what the bounds count: [hang, sleep]
vars == << enc, file, pmc, sys, todo, prep, cnt >>
pm   == << pmc, sys, todo, prep >>

\* up: its node is registered; ctxs, users: ave_v4l2's counts; hung: fw_hung;
\* rec: the re-probe; pm: pm_state; client: client_open; powered: the driver's
\* reference.  core, mapped: what the hardware does and can reach; left: an
\* unclean remove() abandoned its power holder, which keeps the domains up.
Fresh == [up |-> TRUE, ctxs |-> 0, users |-> 0, hung |-> FALSE, rec |-> "none",
          pm |-> "on", owner |-> NoFile, client |-> FALSE,
          core |-> "run", mapped |-> TRUE, powered |-> TRUE, left |-> FALSE]
Closed == [pc |-> "closed", nav |-> NoEnc, av |-> NoEnc, session |-> FALSE]

Init ==
  /\ enc = [e \in Encs |-> Fresh]
  /\ file = [f \in Files |-> Closed]
  /\ pmc = [e \in Encs |-> "idle"]
  /\ sys = "awake" /\ todo = {} /\ prep = NoEnc
  /\ cnt = [hang |-> 0, sleep |-> 0]

Awake == sys # "asleep"
Recovering(e) == enc[e].rec # "none"         \* recover_scheduled
Notified(e) == enc[e].rec \in {"none", "queued"}   \* pm_nb_on, and bound
\* hw_mutex, which ave_v4l2_pm_quiesce and ave_pm_work keep.
HwFree(e) == pmc[e] \notin {"halt", "booting"}

-----------------------------------------------------------------------------
(* Open and release: the list lock.                                        *)

\* ave_v4l2_free
Free(e) == enc[e].ctxs = 0 /\ ~enc[e].hung /\ ~Recovering(e)
Others(nav) == { e \in Encs \ {nav} : enc[e].up /\ Free(e) }

\* ave_v4l2_bind: the node's own encoder while free, else the free one with
\* the lowest index, else its own all the same.
BoundTo(nav) == IF OpenBalance /\ ~Free(nav) /\ Others(nav) # {}
                  THEN Min(Others(nav)) ELSE nav

One(p) == IF p THEN 1 ELSE 0
Open(f, nav) ==
  LET av == BoundTo(nav)
  IN  /\ Awake /\ file[f].pc = "closed" /\ enc[nav].up
      /\ enc' = [e \in Encs |->
                   [enc[e] EXCEPT !.ctxs  = @ + One(e = av),
                                  !.users = @ + One(e = av) + One(e = nav)]]
      /\ file' = [file EXCEPT ![f] = [Closed EXCEPT !.pc = "open", !.nav = nav,
                                                    !.av = av]]
      /\ UNCHANGED << pm, cnt >>

\* ave_schedule_recover
Schedule(r) == IF r.rec = "none" THEN [r EXCEPT !.rec = "queued"] ELSE r

NeverBug(r) == r
\* The last user of a hung encoder starts its re-probe.
RecoverIfLast(r) == IF r.users = 0 /\ r.hung THEN Schedule(r) ELSE r

ForgetsNodeBug(f, e) ==
  [enc[e] EXCEPT !.ctxs  = @ - One(e = file[f].av),
                 !.users = @ - One(e = file[f].av)]
\* ave_v4l2_unbind's counting.
Uncount(f, e) ==
  [enc[e] EXCEPT !.ctxs  = @ - One(e = file[f].av),
                 !.users = @ - One(e = file[f].av) - One(e = file[f].nav)]

Unbind(f) ==
  /\ Awake /\ file[f].pc = "unbind"
  /\ enc' = [e \in Encs |-> IF e \in {file[f].av, file[f].nav}
                              THEN RecoverIfLast(Uncount(f, e)) ELSE enc[e]]
  /\ file' = [file EXCEPT ![f] = Closed]
  /\ UNCHANGED << pm, cnt >>

-----------------------------------------------------------------------------
(* The stream: STREAMON, its end, and a Process the firmware never answers. *)

\* ave_start_streaming and ave_enc_start, past their refusals.  When Start
\* fails, ave_enc_stop gives the client back; if that fails too the firmware
\* keeps a client nobody owns.  (A mutex waiter overtaken once is handed the
\* mutex next: a stream that is being ended does not lose to a new one.)
StreamOn(f) ==
  LET e == file[f].av
  IN  /\ Awake /\ file[f].pc = "open" /\ ~file[f].session
      /\ HwFree(e) /\ enc[e].owner \in {NoFile, f}
      /\ ~enc[e].hung /\ enc[e].pm = "on" /\ ~enc[e].client
      /\ \A g \in Files : file[g].av = e => file[g].pc \notin {"stop", "release"}
      /\ \/ /\ enc' = [enc EXCEPT ![e].client = TRUE, ![e].owner = f]
            /\ file' = [file EXCEPT ![f].session = TRUE]
         \/ /\ "stop" \in Faults
            /\ enc' = [enc EXCEPT ![e].client = TRUE]
            /\ UNCHANGED file
      /\ UNCHANGED << pm, cnt >>

\* ave_enc_encode's Process times out.
ProcessTimeout(f) ==
  LET e == file[f].av
  IN  /\ Awake /\ file[f].pc = "open" /\ file[f].session
      /\ HwFree(e) /\ ~enc[e].hung /\ enc[e].pm = "on" /\ enc[e].client
      /\ cnt.hang < MaxHangs
      /\ enc' = [enc EXCEPT ![e].hung = TRUE]
      /\ cnt' = [cnt EXCEPT !.hang = @ + 1]
      /\ UNCHANGED << file, pm >>

\* STREAMOFF and close look at ctx->session before they take hw_mutex.
StreamOff(f) ==
  /\ Awake /\ file[f].pc = "open" /\ file[f].session
  /\ file' = [file EXCEPT ![f].pc = "stop"]
  /\ UNCHANGED << enc, pm, cnt >>
Release(f) ==
  /\ Awake /\ file[f].pc = "open"
  /\ file' = [file EXCEPT ![f].pc = IF @ = "open" /\ file[f].session
                                      THEN "release" ELSE "unbind"]
  /\ UNCHANGED << enc, pm, cnt >>

\* ave_enc_stop: client_open afterwards.  A hung firmware is not asked.
AfterStop(r) == IF ~r.client THEN {FALSE}
                ELSE IF r.hung THEN {TRUE}
                ELSE {FALSE} \cup {b \in {TRUE} : "stop" \in Faults}

OwnerAfter(r, f) == IF r.owner = f THEN NoFile ELSE r.owner
\* ave_end_session, past its first test.
EndSession(f) ==
  LET e == file[f].av
  IN  /\ Awake /\ file[f].pc \in {"stop", "release"} /\ HwFree(e)
      /\ \E c \in AfterStop(enc[e]) :
           enc' = [enc EXCEPT ![e].client = c,
                              ![e].owner = OwnerAfter(enc[e], f)]
      /\ file' = [file EXCEPT ![f].session = FALSE,
                    ![f].pc = IF @ = "stop" THEN "open" ELSE "unbind"]
      /\ UNCHANGED << pm, cnt >>

-----------------------------------------------------------------------------
(* The re-probe: ave_recover_fn, which runs remove() and then probe().     *)

\* unregister_pm_notifier waits out the chain, cancel_work_sync the boot (or
\* takes it off the queue).
RemoveMayRun(e) == sys # "preparing" /\ pmc[e] \in {"idle", "boot"}

\* remove() up to ave_v4l2_unregister, which warns of users and frees all the
\* same.  What their files do with what is freed has no meaning here: such a
\* remove() is a step of the model only with "open" in Races.
Remove(e) ==
  /\ Awake /\ enc[e].rec = "queued" /\ RemoveMayRun(e)
  /\ "open" \in Races \/ enc[e].users = 0
  /\ enc' = [enc EXCEPT ![e].rec = "remove", ![e].up = FALSE]
  /\ pmc' = [pmc EXCEPT ![e] = "idle"]
  /\ UNCHANGED << file, sys, todo, prep, cnt >>

\* A core that has stopped, unmapped and gated (ave_release_all,
\* ave_pm_forget_core, ave_power_off).
Gated(r) == [r EXCEPT !.client = FALSE, !.core = "stop", !.mapped = FALSE,
                      !.powered = FALSE]
AlwaysGatesBug(r, stopped) ==
  [Gated(r) EXCEPT !.core = IF stopped THEN "stop" ELSE r.core]
AfterTeardown(r, stopped) ==
  IF stopped THEN Gated(r) ELSE [r EXCEPT !.left = TRUE]

OffOrBooting(e) == enc[e].pm \in {"off", "boot", "dead"}
\* The rest of remove(): a client that is not given back or a core that does
\* not stop leaves everything mapped and powered.
Teardown(e) ==
  /\ Awake /\ enc[e].rec = "remove"
  /\ \E stopped \in BOOLEAN :
       enc' = [enc EXCEPT ![e] =
                 [IF OffOrBooting(e) THEN Gated(@) ELSE AfterTeardown(@, stopped)
                    EXCEPT !.rec = "gone"]]
  /\ UNCHANGED << file, pm, cnt >>

\* probe(): a new ave_device; a core found live or halted is reset before it
\* is started.  A probe that fails after that powers off all the same.
Probe(e) ==
  /\ Awake /\ enc[e].rec = "gone" /\ sys # "preparing"
  /\ \/ enc' = [enc EXCEPT ![e] = [Fresh EXCEPT !.left = enc[e].left]]
     \/ /\ "probe" \in Faults
        /\ \/ enc' = [enc EXCEPT ![e].rec = "failed", ![e].core = "run",
                                  ![e].mapped = FALSE, ![e].powered = FALSE]
           \/ enc' = [enc EXCEPT ![e].rec = "failed"]
  /\ UNCHANGED << file, pm, cnt >>

-----------------------------------------------------------------------------
(* System sleep: PM_SUSPEND_PREPARE.                                       *)

SuspendBegin ==
  /\ sys = "awake" /\ cnt.sleep < MaxSleeps
  /\ sys' = "preparing" /\ todo' = { e \in Encs : Notified(e) }
  /\ cnt' = [cnt EXCEPT !.sleep = @ + 1]
  /\ UNCHANGED << enc, file, pmc, prep >>

FlushedBoot(e) == pmc[e] = "idle"      \* flush_work(&pm_work)
\* ave_pm_prepare: nothing to do unless the core is up.
PmPrepare(e) ==
  /\ sys = "preparing" /\ prep = NoEnc /\ e \in todo /\ FlushedBoot(e)
  /\ todo' = todo \ {e}
  /\ IF enc[e].pm = "on" /\ enc[e].powered
       THEN /\ enc' = [enc EXCEPT ![e].pm = "suspend"]
            /\ pmc' = [pmc EXCEPT ![e] = "quiesce"]
            /\ prep' = e
       ELSE UNCHANGED << enc, pmc, prep >>
  /\ UNCHANGED << file, sys, cnt >>

LeavesSessionBug(f, e) == FALSE
LosesStream(f, e) == enc[e].owner = f
\* ave_v4l2_pm_quiesce: end the stream, and keep hw_mutex.
PmQuiesce(e) ==
  /\ pmc[e] = "quiesce"
  /\ file' = [f \in Files |-> IF LosesStream(f, e)
                THEN [file[f] EXCEPT !.session = FALSE] ELSE file[f]]
  /\ \E c \in IF enc[e].owner = NoFile THEN {enc[e].client}
                                       ELSE AfterStop(enc[e]) :
       enc' = [enc EXCEPT ![e].client = c, ![e].owner = NoFile]
  /\ pmc' = [pmc EXCEPT ![e] = "halt"]
  /\ UNCHANGED << sys, todo, prep, cnt >>

\* ave_pm_quiesce_core: Close, Halt, and the pulse for a core that is still
\* running; released and gated only if it has stopped.
AfterHalt(r, stopped) ==
  IF stopped THEN [Gated(r) EXCEPT !.hung = FALSE, !.pm = "off"]
             ELSE [r EXCEPT !.hung = TRUE, !.pm = "on"]

PmHalt(e) ==
  /\ pmc[e] = "halt"
  /\ \E stopped \in {TRUE} \cup {b \in {FALSE} : "halt" \in Faults} :
       /\ enc' = [enc EXCEPT ![e] = AfterHalt(@, stopped)]
       /\ pmc' = [pmc EXCEPT ![e] = IF stopped THEN "idle" ELSE "failed"]
       /\ prep' = IF stopped THEN NoEnc ELSE prep
  /\ UNCHANGED << file, sys, todo, cnt >>

-----------------------------------------------------------------------------
(* The end of a sleep, or of an attempt: PM_POST_SUSPEND to every encoder. *)

\* ave_pm_post
Booted(r) == r.pm = "off"
Post(recs) ==
  /\ enc' = [e \in Encs |-> IF Notified(e) /\ Booted(recs[e])
                              THEN [recs[e] EXCEPT !.pm = "boot"] ELSE recs[e]]
  /\ sys' = "awake" /\ todo' = {} /\ prep' = NoEnc
Posted(e) == Notified(e) /\ enc'[e].pm = "boot" /\ enc[e].pm # "boot"

SuspendAbort ==     \* the freezer, or some device, refuses
  /\ sys = "suspending"
  /\ Post(enc)
  /\ pmc' = [e \in Encs |-> IF Posted(e) THEN "boot" ELSE pmc[e]]
  /\ UNCHANGED << file, cnt >>

PmPrepared ==
  /\ sys = "preparing" /\ todo = {} /\ prep = NoEnc
  /\ sys' = "suspending"
  /\ UNCHANGED << enc, file, pmc, todo, prep, cnt >>

NoGateBug(e) == TRUE
\* ave_pm_suspend, of a bound driver.
PmSuspendAllows(e) == ~Notified(e) \/ ~enc[e].powered
\* Tasks are frozen only outside the driver; device suspend waits for a
\* remove() in progress.
Sleep ==
  /\ sys = "suspending"
  /\ \A f \in Files : file[f].pc \in {"closed", "open"}
  /\ \A e \in Encs : /\ enc[e].rec # "remove" /\ PmSuspendAllows(e)
                     /\ "sleep" \in Races \/ enc[e].rec # "gone"
  /\ sys' = "asleep"
  /\ UNCHANGED << enc, file, pmc, todo, prep, cnt >>

Wake ==
  /\ sys = "asleep"
  /\ Post(enc)
  /\ pmc' = [e \in Encs |-> IF Posted(e) THEN "boot" ELSE pmc[e]]
  /\ UNCHANGED << file, cnt >>

\* ave_pm_work: one boot at a time, under hw_mutex.
PmBoot(e) ==
  /\ Awake /\ pmc[e] = "boot" /\ \A x \in Encs : pmc[x] # "booting"
  /\ pmc' = [pmc EXCEPT ![e] = "booting"]
  /\ enc' = [enc EXCEPT ![e].hung = FALSE, ![e].client = FALSE,
                        ![e].powered = TRUE]
  /\ UNCHANGED << file, sys, todo, prep, cnt >>

Running(r) == [r EXCEPT !.pm = "on", !.core = "run", !.mapped = TRUE]
BootOk(e) ==
  /\ Awake /\ pmc[e] = "booting"
  /\ enc' = [enc EXCEPT ![e] = Running(@)]
  /\ pmc' = [pmc EXCEPT ![e] = "idle"]
  /\ UNCHANGED << file, sys, todo, prep, cnt >>
BootLeft(r, dead) == IF dead THEN [Gated(r) EXCEPT !.pm = "dead"] ELSE Running(r)
\* Before asc_started the block is powered off again; after it, not.
BootFails(e) ==
  /\ Awake /\ pmc[e] = "booting" /\ "boot" \in Faults
  /\ \E dead \in BOOLEAN :
       enc' = [enc EXCEPT ![e] = [BootLeft(enc[e], dead)
                                   EXCEPT !.hung = TRUE]]
  /\ pmc' = [pmc EXCEPT ![e] = "failed"]
  /\ UNCHANGED << file, sys, todo, prep, cnt >>

\* A failed prepare or boot looks at ave_v4l2_idle() under the list lock and
\* schedules the re-probe after it.  A failed prepare ends the chain.
PmIdleCheck(e) ==
  /\ Awake /\ pmc[e] = "failed"
  /\ pmc' = [pmc EXCEPT ![e] = IF enc[e].users = 0 THEN "schedule" ELSE "return"]
  /\ UNCHANGED << enc, file, sys, todo, prep, cnt >>

PmReturn(e) ==
  LET recs == [enc EXCEPT ![e] = IF pmc[e] = "schedule" THEN Schedule(@) ELSE @]
  IN  /\ Awake /\ pmc[e] \in {"schedule", "return"}
      /\ IF prep = e THEN Post(recs)
                     ELSE enc' = recs /\ UNCHANGED << sys, todo, prep >>
      /\ pmc' = [x \in Encs |-> IF x = e THEN "idle"
                                ELSE IF Posted(x) THEN "boot" ELSE pmc[x]]
      /\ UNCHANGED << file, cnt >>

-----------------------------------------------------------------------------
Client(f) == \/ \E nav \in Encs : Open(f, nav)
             \/ StreamOn(f) \/ ProcessTimeout(f) \/ StreamOff(f)
             \/ Release(f) \/ EndSession(f) \/ Unbind(f)
Reprobe(e) == Remove(e) \/ Teardown(e) \/ Probe(e)
Pm(e) == \/ PmPrepare(e) \/ PmQuiesce(e) \/ PmHalt(e) \/ PmBoot(e)
         \/ BootOk(e) \/ BootFails(e) \/ PmIdleCheck(e) \/ PmReturn(e)
System == SuspendBegin \/ PmPrepared \/ SuspendAbort \/ Sleep \/ Wake

Next == \/ \E f \in Files : Client(f)
        \/ \E e \in Encs : Reprobe(e) \/ Pm(e)
        \/ System
Spec == Init /\ [][Next]_vars

\* What the kernel's workqueues and PM core run to the end, and a close() that
\* has begun; no client has to do anything.
FairSpec ==
  /\ Spec
  /\ \A e \in Encs : WF_vars(Reprobe(e)) /\ WF_vars(Pm(e))
  /\ \A f \in Files : WF_vars(EndSession(f)) /\ WF_vars(Unbind(f))
  /\ WF_vars(PmPrepared \/ SuspendAbort \/ Sleep \/ Wake)

-----------------------------------------------------------------------------
TypeOK ==
  /\ enc \in [Encs -> [up : BOOLEAN, ctxs : 0 .. Cardinality(Files),
                       users : 0 .. 2 * Cardinality(Files), hung : BOOLEAN,
                       rec : {"none", "queued", "remove", "gone", "failed"},
                       pm : {"on", "suspend", "off", "boot", "dead"},
                       owner : Files \cup {NoFile}, client : BOOLEAN,
                       core : {"run", "stop"}, mapped : BOOLEAN,
                       powered : BOOLEAN, left : BOOLEAN]]
  /\ file \in [Files -> [pc : {"closed", "open", "stop", "release", "unbind"},
                         nav : Encs \cup {NoEnc}, av : Encs \cup {NoEnc},
                         session : BOOLEAN]]
  /\ pmc \in [Encs -> {"idle", "quiesce", "halt", "failed", "schedule",
                       "return", "boot", "booting"}]
  /\ sys \in {"awake", "preparing", "suspending", "asleep"}
  /\ todo \subseteq Encs /\ prep \in Encs \cup {NoEnc}
  /\ cnt \in [hang : 0 .. MaxHangs, sleep : 0 .. MaxSleeps]

OpenFiles == { f \in Files : file[f].pc # "closed" }
\* An encoder's counts are the files on its node and the contexts bound to it,
\* whichever encoder open_balance moved each to, over closes in any order
\* (struct ave_v4l2: ctxs, users).
UsersCounted ==
  /\ TypeOK
  /\ \A e \in Encs : enc[e].up =>
    /\ enc[e].ctxs = Cardinality({f \in OpenFiles : file[f].av = e})
    /\ enc[e].users = enc[e].ctxs + Cardinality({f \in OpenFiles : file[f].nav = e})

\* No device is unregistered under an open file or a bound context: a re-probe
\* comes "only once nobody holds it open" (ave_v4l2.c:1543), and is scheduled
\* "under the list lock so that no open binds to it in between" (1455).
ReprobeIdle == \A e \in Encs : ~enc[e].up => enc[e].users = 0

\* An encoder's owner is the one context with a session there, its client is
\* open, and it is up or being quiesced: no close, suspend or hang leaves a
\* session on an encoder that no longer has its client, or an owner without
\* one (which would refuse every stream after it with EBUSY).
OwnerHasStream ==
  /\ \A f \in Files : file[f].session => enc[file[f].av].owner = f
  /\ \A e \in Encs : enc[e].owner # NoFile =>
       /\ file[enc[e].owner].session /\ file[enc[e].owner].av = e
       /\ enc[e].client /\ enc[e].pm \in {"on", "suspend"}

\* A firmware that has a client has the memory and the power the client uses;
\* after a sleep no client is thought open that the gated core has forgotten.
ClientIsUp ==
  \A e \in Encs : enc[e].client /\ Notified(e) =>
    enc[e].powered /\ enc[e].mapped /\ enc[e].core = "run"

\* Owner, session, the firmware's client and what the client needs agree.
OwnerHasClient == OwnerHasStream /\ ClientIsUp

\* While the system runs, a live core has its memory and its power: neither
\* remove(), nor a suspend, nor a failed boot unmaps or gates one that has not
\* been seen to stop (docs/63).  A probe() that fails after it started the
\* core does just that, and is left out.
NeverGatesLive ==
  \A e \in Encs : enc[e].core = "run" /\ enc[e].rec # "failed" =>
    enc[e].mapped /\ (enc[e].powered \/ enc[e].left)

\* When genpd gates the domains for a system sleep, every core is stopped and
\* nothing is mapped, re-probes and resume boots under way included (docs/86).
AsleepMeansStopped ==
  sys = "asleep" => \A e \in Encs : enc[e].rec # "failed" =>
    enc[e].core = "stop" /\ ~enc[e].mapped

\* A hung encoder nobody uses is reset, unless its driver fails to come back:
\* the last close and the PM paths never each leave the re-probe to the other.
HungIsRecovered ==
  \A e \in Encs : enc[e].hung /\ enc[e].users = 0
    ~> ~enc[e].hung \/ enc[e].users > 0 \/ enc[e].rec = "failed"
=============================================================================
