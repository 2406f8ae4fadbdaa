------------------------------ MODULE Bringup ------------------------------
(***************************************************************************)
(* The life of one encoder in driver/ave_drv.c: the sixteen probe stages,  *)
(* the block reset and DATA restore that let a second load start the core, *)
(* unload, the re-probe after a hang, and system sleep.  Everything it     *)
(* does to the machine outlives the module: a started core stays started,  *)
(* its DATA stays drifted, an unclean unload leaves mappings and a power   *)
(* holder behind.  The hazard is always the same, an order of legal steps  *)
(* that starts a core over the wrong memory or takes memory or power from  *)
(* one that executes.                                                      *)
(*                                                                         *)
(* A stage is an action; par holds the module parameters of a load, site   *)
(* what the SoC table and the file system say of the encoder.  The         *)
(* diagnostics (probe_diag, rvbar_probe, dapf_set, asc_timer), all off by  *)
(* default and without state, are left out.                                *)
(***************************************************************************)
EXTENDS Integers, FiniteSets

CONSTANTS Sites,     \* encoders, records [owned, byDriver, translated, me0, blob]
          Params,    \* module parameters of a load, records as in MCBringup
          MaxLoads,  \* bound: loads of the module, re-probes included
          MaxSleeps, \* bound: system sleeps
          MaxFaults  \* bound: things that go wrong in the host or the firmware
ASSUME BoundsAssumption == {MaxLoads, MaxSleeps, MaxFaults} \subseteq Nat
ASSUME ParamsAssumption == \A p \in Params : p.stop \in Nat /\ p.restore \in 0..2

VARIABLES
  \* the machine
  core,    \* CPU_STATUS: never run, halted, or executing (three ways)
  drift,   \* a core has run on the DATA in DRAM
  magic,   \* scratch 0 holds the boot magic
  dapf,    \* the DAPF's entries: iBoot's, the driver's, or garbage
  dart1,   \* the datapath DART translates like the CPU's
  stale,   \* DATA left mapped by an unclean unload: none, iBoot's, owned
  left,    \* holders abandoned powered
  \* the driver
  site, par, at, job,
  held,    \* power references and the SMMU watch
  irqOn, irqWas, inIrq,
  mem,     \* what is allocated and mapped
  pristine,\* a pristine copy of DATA is in memory
  cap,     \* the DAPF captured for resume, or none
  pulsed, recover, started, running, mcpu, client, hung, clean,
  pm,      \* pm_state
  loads, sleeps, faults
machine == << core, drift, magic, dapf, dart1, stale, left >>
flags   == << pulsed, recover, started, running, mcpu, client, hung >>
irqs    == << irqOn, irqWas, inIrq >>
store   == << mem, pristine, cap >>
bounds  == << loads, sleeps, faults >>
vars == << machine, site, par, at, job, held, irqs, store, flags, clean, pm, bounds >>

Executing == core \in {"booting", "live", "hung"}
Stopped == ~Executing
Holders == {"rpm", "me0", "me1"}
Ungated == ((held \cup left) \cap Holders) # {}
Powered == "rpm" \in held
Admits(d) == d \in {"iboot", "driver"} /\ ~site.translated

Init ==
  /\ site \in Sites /\ par \in Params
  /\ core = "cold" /\ drift = FALSE /\ magic = FALSE /\ dart1 = TRUE /\ stale = "none" /\ left = {}
  /\ dapf = IF site.byDriver \/ site.translated THEN "junk" ELSE "iboot"
  /\ at = "unbound" /\ job = "probe" /\ held = {} /\ irqOn = FALSE /\ irqWas = FALSE /\ inIrq = FALSE
  /\ mem = {} /\ pristine = FALSE /\ cap = "none"
  /\ pulsed = FALSE /\ recover = FALSE /\ started = FALSE /\ running = FALSE /\ mcpu = FALSE /\ client = FALSE /\ hung = FALSE
  /\ clean = TRUE /\ pm = "on" /\ loads = 0 /\ sleeps = 0 /\ faults = 0

(***************************************************************************)
(* Plumbing.  A stage that fails goes where its caller unwinds it: probe's *)
(* failure path, or the resume work's.                                     *)
(***************************************************************************)
Fault == faults < MaxFaults /\ faults' = faults + 1
NoFault == UNCHANGED faults
Fail == at' = IF job = "resume" THEN "refail" ELSE "unwind"
\* ave_stage(): the next stage, unless stop_after is before it
Stage(n, next) == at' = IF par.stop < n THEN "ready" ELSE next
LeakedMe0 == IF par.me1off THEN {"me0"} ELSE {}
DropPower(keep) ==
  LET still == ((keep \cup left) \cap Holders) # {}
  IN \/ core' = core /\ magic' = magic
     \/ Ungated /\ ~still /\ core' = "cold" /\ magic' = FALSE

(***************************************************************************)
(* Load and power (stages 1 to 6).                                         *)
(***************************************************************************)
\* Stages 1 to 5 touch nothing: banks, DMA mask, IRQ (not enabled), domains.
Load ==
  /\ at = "unbound" /\ loads < MaxLoads /\ loads' = loads + 1
  /\ par' \in (IF job = "recover" THEN {par} ELSE Params)
  /\ job' = IF job = "recover" THEN job ELSE "probe"
  /\ at' = IF par'.stop < 6 THEN "ready" ELSE "power"
  /\ clean' = TRUE /\ pm' = "on"
  /\ UNCHANGED << machine, site, held, irqs, store, flags, sleeps, faults >>

Me1Holders ==
  IF ~par.me1 THEN {}
  ELSE (IF site.me0 THEN {"me0"} ELSE {}) \cup (IF par.me1off THEN {} ELSE {"me1"})
Report == IF par.report THEN {"report"} ELSE {}
\* Never a vote without the report; a streaming vote is left to the streams.
VoteNow(report) == IF par.vote = "always" /\ report # {} THEN {"vote"} ELSE {}

PowerUp ==
  /\ at = "power"
  /\ LET h == held \cup {"rpm"}
         badMe0 == par.me1 /\ par.me1off /\ ~site.me0
     IN \/ /\ ~badMe0 /\ NoFault /\ irqOn' = TRUE /\ Stage(7, "idle")
           /\ held' = h \cup Me1Holders \cup Report \cup VoteNow(Report)
        \/ /\ badMe0 /\ NoFault /\ irqOn' = TRUE /\ held' = h /\ Fail
        \/ /\ Fault /\ UNCHANGED << held, irqOn >> /\ Fail       \* runtime PM
        \/ /\ Fault /\ irqOn' = TRUE /\ Fail
           /\ held' \in {h, h \cup Me1Holders, h \cup Me1Holders \cup Report}
  /\ UNCHANGED << machine, site, par, job, irqWas, inIrq, store, flags, clean, pm, loads, sleeps >>

(***************************************************************************)
(* Stage 7: the SMMU watch, the DAPF after a sleep, the reset of a core    *)
(* that has run, the datapath DART.                                        *)
(***************************************************************************)
RestoresTo == IF site.byDriver THEN "driver" ELSE cap
\* What ave_dapf_pm_restore leaves, and whether the core may be started on it.
PmRestore(d, ok) ==
  CASE job # "resume" -> d = dapf /\ ok
    [] cap = "none"   -> d = dapf /\ ~ok
    [] dapf = cap     -> d = dapf /\ ok
    [] OTHER          -> d = RestoresTo /\ ok = (RestoresTo = cap /\ Admits(RestoresTo))

Idle ==
  /\ at = "idle"
  /\ held' = IF par.smmu THEN held \cup {"smmu"} ELSE held
  /\ \E d \in {"iboot", "driver", "junk"}, ok \in BOOLEAN :
       /\ PmRestore(d, ok) /\ dapf' = d
       /\ \/ ok /\ at' = "reset" /\ NoFault
          \/ ~ok /\ Fail /\ NoFault
          \/ Fault /\ Fail                        \* the watch, or DAPF_LOCK
  /\ UNCHANGED << core, drift, magic, dart1, stale, left, site, par, job, irqs, store,
                  flags, clean, pm, loads, sleeps >>

\* ave_fw_data_ran(): owned DATA asks the core, else DRAM against the blob.
DataRan == IF site.owned THEN core # "cold" ELSE (pristine \/ site.blob) /\ drift
Recovers ==
  par.reset = 0 /\ ((Stopped /\ par.auto) \/ ((par.reload \/ job = "resume") /\ DataRan))
Pulses == Recovers \/ par.reset = 2 \/ (par.reset = 1 /\ ~Stopped)

CoreReset ==
  /\ at = "reset"
  /\ recover' = (recover \/ Recovers)
  /\ pristine' = (pristine \/ (site.blob /\ ~site.owned /\ par.reset = 0 /\ ~(Stopped /\ par.auto)
                               /\ (par.reload \/ job = "resume")))
  /\ pulsed' = FALSE
  /\ at' = IF Pulses THEN "pulse" ELSE "dart"
  /\ UNCHANGED << machine, site, par, job, held, irqs, mem, cap, started, running, mcpu,
                  client, hung, clean, pm, bounds >>

\* ave_core_pulse(): the line is off while the block is held in reset.
LineOnBug == irqWas' = irqOn /\ irqOn' = irqOn
QuietAcrossPulse == irqWas' = irqOn /\ irqOn' = FALSE
PulseBegin ==
  /\ at = "pulse"
  /\ \/ ~inIrq /\ QuietAcrossPulse /\ at' = "pulsing" /\ NoFault
     \/ /\ Fault /\ UNCHANGED << irqWas, irqOn >>     \* no DAPF read, no reset
        /\ IF job = "suspend" THEN at' = "slfail" ELSE Fail
  /\ UNCHANGED << machine, site, par, job, held, inIrq, store, flags, clean, pm, loads, sleeps >>

\* The DAPF survived and admits the fetch, and the core stopped.
ResetLeftItGood(d) == d = dapf /\ (Admits(d) \/ site.translated) /\ core' = "cold"
PulseEnd ==
  /\ at = "pulsing"
  /\ irqOn' = irqWas /\ magic' = FALSE /\ dart1' = FALSE
  /\ \E d \in {dapf, "junk"}, stops \in BOOLEAN :
       /\ dapf' = d /\ core' = IF stops THEN "cold" ELSE core
       /\ IF d = dapf /\ stops THEN NoFault ELSE Fault
       /\ CASE job = "suspend" -> at' = IF stops THEN "slfree" ELSE "slfail"
            [] job # "suspend" /\ ~par.only /\ ResetLeftItGood(d) -> at' = "dart"
            [] OTHER -> Fail
  /\ pulsed' = TRUE
  /\ UNCHANGED << drift, stale, left, site, par, job, held, irqWas, inIrq, store, recover,
                  started, running, mcpu, client, hung, clean, pm, loads, sleeps >>

\* ave_dart_restore_datapath() and the DPE tunables
Mirrors == pulsed \/ job = "resume"
Dart ==
  /\ at = "dart"
  /\ \/ dart1' = (dart1 \/ Mirrors) /\ NoFault /\ Stage(8, "asc")
     \/ Fault /\ Fail /\ UNCHANGED dart1
  /\ UNCHANGED << core, drift, magic, dapf, stale, left, site, par, job, held, irqs, store,
                  flags, clean, pm, loads, sleeps >>

(***************************************************************************)
(* Stages 8 to 12.                                                         *)
(***************************************************************************)
ReadAsc ==
  /\ at = "asc"
  /\ \/ /\ dapf' = IF site.byDriver THEN "driver" ELSE dapf
        /\ \/ NoFault /\ cap' = (IF job # "resume" /\ par.sleep = 2 THEN dapf' ELSE cap)
           \/ Fault /\ par.sleep = 2 /\ job # "resume" /\ cap' = "none"  \* only warned of
        /\ Stage(9, "ipc")
     \/ Fault /\ Fail /\ site.byDriver /\ dapf' = "junk" /\ UNCHANGED cap
  /\ UNCHANGED << core, drift, magic, dart1, stale, left, site, par, job, held, irqs, mem,
                  pristine, flags, clean, pm, loads, sleeps >>

IpcAlloc ==
  /\ at = "ipc"
  /\ \/ mem' = mem \cup {"ipc"} /\ NoFault /\ Stage(10, "fw")
     \/ Fault /\ Fail /\ UNCHANGED mem
  /\ UNCHANGED << machine, site, par, job, held, irqs, pristine, cap, flags, clean, pm,
                  loads, sleeps >>

\* DATA's range must be free, or iBoot's DATA still mapped under a core that
\* stage 7 reset: ave_fw_map_one takes that mapping over.
NoReuseBug == stale = "none"              \* before docs/84 R7
CanMapData == stale = "none" \/ (stale = "iboot" /\ ~site.owned /\ recover)
HasBlob == pristine \/ site.blob
MapsIboot == CanMapData /\ (site.owned => HasBlob)
\* Owned DATA is a fresh copy of the blob every probe, with this instance's
\* tags; iBoot's is mapped as it is.
DriftAsMapped == drift /\ ~site.owned
FwLoad ==
  /\ at = "fw"
  /\ LET loads_ == MapsIboot
     IN \/ /\ loads_ /\ NoFault /\ Stage(11, "cfg")
           /\ mem' = mem \cup {"fw"} /\ stale' = "none"
           /\ drift' = DriftAsMapped
           /\ pristine' = (pristine \/ site.owned)
        \/ /\ ~loads_ /\ NoFault /\ Fail /\ UNCHANGED << mem, stale, drift, pristine >>
        \/ /\ Fault /\ Fail /\ UNCHANGED << mem, stale, drift, pristine >>
  /\ UNCHANGED << core, magic, dapf, dart1, left, site, par, job, held, irqs, cap, flags,
                  clean, pm, loads, sleeps >>

BootCfg ==
  /\ at = "cfg" /\ magic' = TRUE /\ Stage(13, "restore")
  /\ UNCHANGED << core, drift, dapf, dart1, stale, left, site, par, job, held, irqs, store,
                  flags, clean, pm, bounds >>

(***************************************************************************)
(* Stage 13: scratch 0 checked, this boot's cold DATA kept, DATA restored, *)
(* the core released.                                                      *)
(***************************************************************************)
CaptureCold == par.capture /\ ~site.owned /\ ~drift
ByParameterBug == par.restore             \* as s1-9 failed
Mode == IF par.restore = 0 /\ recover THEN 1 ELSE par.restore
RestoreData ==
  /\ at = "restore"
  /\ pristine' = (pristine \/ CaptureCold \/ (~site.owned /\ Mode # 0 /\ Stopped /\ site.blob))
  /\ \/ /\ magic /\ (site.owned \/ Mode = 0) /\ NoFault /\ at' = "start" /\ UNCHANGED drift
     \/ /\ magic /\ ~site.owned /\ Mode # 0 /\ Stopped /\ pristine' /\ NoFault
        /\ at' = "start" /\ drift' = (drift /\ Mode = 2)       \* 2: a dry run
     \/ /\ ~magic \/ (~site.owned /\ Mode # 0 /\ ~(Stopped /\ pristine'))
        /\ NoFault /\ Fail /\ UNCHANGED drift
     \/ /\ magic /\ ~site.owned /\ Mode = 1 /\ Stopped /\ pristine'   \* did not read back
        /\ Fault /\ Fail /\ drift' = TRUE
  /\ UNCHANGED << core, magic, dapf, dart1, stale, left, site, par, job, held, irqs, mem, cap,
                  pulsed, recover, started, running, mcpu, client, hung, clean, pm, loads, sleeps >>

GoodStart == magic /\ ~drift /\ (Admits(dapf) \/ site.translated)
AscStart ==
  /\ at = "start" /\ started' = TRUE
  /\ \/ /\ core = "cold" /\ Stage(14, "recv") /\ NoFault      \* GoodStart: it boots
        /\ core' = IF GoodStart THEN "booting" ELSE "hung"
        /\ drift' = TRUE /\ magic' = FALSE
     \/ /\ core = "halted" /\ Fail /\ NoFault                 \* never leaves STOPPED
        /\ UNCHANGED << core, drift, magic >>
     \/ /\ Executing /\ Stage(14, "recv") /\ NoFault          \* polls idle at once
        /\ UNCHANGED << core, drift, magic >>
  /\ UNCHANGED << dapf, dart1, stale, left, site, par, job, held, irqs, store, pulsed, recover,
                  running, mcpu, client, hung, clean, pm, loads, sleeps >>

(***************************************************************************)
(* Stages 14 to 16.  Message 1 is waited for and not insisted on; a load   *)
(* that stops at 15 powers off; stage 16 needs the whole handshake.        *)
(***************************************************************************)
Recv ==
  /\ at = "recv" /\ Stage(15, "state")
  /\ UNCHANGED << machine, site, par, job, held, irqs, store, flags, clean, pm, bounds >>

ProbeState ==
  /\ at = "state"
  /\ IF par.stop < 16
     THEN /\ ~inIrq /\ irqOn' = FALSE /\ at' = "ready" /\ held' = held \cap LeakedMe0
          /\ DropPower(LeakedMe0)
     ELSE at' = "shake" /\ UNCHANGED << irqOn, held, core, magic >>
  /\ UNCHANGED << drift, dapf, dart1, stale, left, site, par, job, irqWas, inIrq, store, flags,
                  clean, pm, bounds >>

Handshake ==
  /\ at = "shake"
  /\ \/ /\ core = "booting" /\ NoFault /\ core' = "live" /\ running' = TRUE
        /\ at' = "config"
     \/ /\ core = "booting" /\ Fault /\ core' = "hung" /\ Fail /\ UNCHANGED running
     \/ /\ core # "booting" /\ NoFault /\ Fail /\ UNCHANGED << core, running >>
  /\ UNCHANGED << drift, magic, dapf, dart1, stale, left, site, par, job, held, irqs, store, pulsed,
                  recover, started, mcpu, client, hung, clean, pm, loads, sleeps >>

\* ave_enc_init(): Config.  Probe only logs an error; a resume fails on it.
Config ==
  /\ at = "config"
  /\ \/ par.v4l2 /\ NoFault /\ mcpu' = TRUE /\ at' = "ready" /\ core' = core
     \/ ~par.v4l2 /\ NoFault /\ at' = "ready" /\ UNCHANGED << mcpu, core >>
     \/ /\ par.v4l2 /\ Fault /\ core' = "hung" /\ UNCHANGED mcpu
        /\ IF job = "resume" THEN Fail ELSE at' = "ready"
  /\ pm' = IF at' = "ready" THEN "on" ELSE pm
  /\ UNCHANGED << drift, magic, dapf, dart1, stale, left, site, par, job, held, irqs, store, pulsed,
                  recover, started, running, client, hung, clean, loads, sleeps >>

(***************************************************************************)
(* Bound.  A stream opens the client and holds a streaming vote; the       *)
(* firmware may hang, and a Process that times out marks it.               *)
(***************************************************************************)
Idles == at = "ready" /\ pm = "on"
StreamVote == IF par.vote = "stream" /\ "report" \in held THEN {"vote"} ELSE {}
OpenClient ==
  /\ Idles /\ mcpu /\ core = "live" /\ ~hung /\ ~client
  /\ client' = TRUE /\ held' = held \cup StreamVote
  /\ UNCHANGED << machine, site, par, at, job, irqs, store, pulsed, recover, started, running,
                  mcpu, hung, clean, pm, bounds >>

CloseClient ==
  /\ Idles /\ client /\ core = "live" /\ ~hung
  /\ client' = FALSE /\ held' = held \ {"vote"}
  /\ UNCHANGED << machine, site, par, at, job, irqs, store, pulsed, recover, started, running,
                  mcpu, hung, clean, pm, bounds >>

FwHangs ==
  /\ core = "live" /\ Fault /\ core' = "hung"
  /\ UNCHANGED << drift, magic, dapf, dart1, stale, left, site, par, at, job, held, irqs, store, flags,
                  clean, pm, loads, sleeps >>

SeesHang ==
  /\ Idles /\ client /\ core = "hung" /\ ~hung /\ hung' = TRUE
  /\ UNCHANGED << machine, site, par, at, job, held, irqs, store, pulsed, recover, started, running,
                  mcpu, client, clean, pm, bounds >>

IrqEnter ==
  /\ irqOn /\ ~inIrq /\ inIrq' = TRUE
  /\ UNCHANGED << machine, site, par, at, job, held, irqOn, irqWas, store, flags, clean, pm, bounds >>
IrqLeave ==
  /\ inIrq /\ inIrq' = FALSE
  /\ UNCHANGED << machine, site, par, at, job, held, irqOn, irqWas, store, flags, clean, pm, bounds >>

(***************************************************************************)
(* Giving things back.  ave_power_me1_off() returns at once without an me1 *)
(* holder: with me1_off=1 the me0 holder is not released.                  *)
(***************************************************************************)
\* The image, iBoot's segments and owned DATA unmapped, the copies freed.
Unmaps == mem' = {} /\ pristine' = FALSE

\* ave_power_off(): quiesce the watch and the line, then vote, report, me1.
PowerOff(next) ==
  /\ ~inIrq /\ irqOn' = FALSE /\ at' = next
  /\ held' = held \cap LeakedMe0 /\ DropPower(LeakedMe0)
ReleaseAll ==
  /\ ~inIrq /\ irqOn' = FALSE /\ held' = held \ {"smmu"} /\ Unmaps
Forgets ==
  /\ running' = FALSE /\ mcpu' = FALSE /\ client' = FALSE /\ hung' = FALSE /\ recover' = FALSE /\ started' = FALSE /\ pulsed' = FALSE

\* Probe's failure path: power off, then unmap.
Unwind ==
  /\ at = "unwind"
  /\ IF Powered THEN PowerOff("free")
                ELSE at' = "free" /\ UNCHANGED << irqOn, held, core, magic >>
  /\ UNCHANGED << drift, dapf, dart1, stale, left, site, par, job, irqWas, inIrq, store, flags,
                  clean, pm, bounds >>
UnwindFree ==
  /\ at = "free" /\ Unmaps /\ cap' = "none" /\ Forgets
  /\ at' = "unbound" /\ job' = "probe" /\ held' = {} /\ irqOn' = FALSE /\ ~inIrq
  /\ left' = left \cup (held \cap {"me0"})
  /\ UNCHANGED << core, drift, magic, dapf, dart1, stale, site, par, irqWas, inIrq, clean, pm, bounds >>

\* A resume that failed: off if the core was not released, else left as it is.
ResumeFailed ==
  /\ at = "refail" /\ hung' = TRUE
  /\ IF started
     THEN pm' = "on" /\ at' = "ready" /\ UNCHANGED << held, irqOn, mem, pristine, core, magic >>
     ELSE /\ ~inIrq /\ irqOn' = FALSE /\ Unmaps
          /\ pm' = "dead" /\ at' = "ready" /\ held' = held \cap LeakedMe0
          /\ DropPower(LeakedMe0)
  /\ UNCHANGED << drift, dapf, dart1, stale, left, site, par, job, irqWas, inIrq, cap, pulsed, recover,
                  started, running, mcpu, client, clean, bounds >>

(***************************************************************************)
(* Unload, and the re-probe after a hang, which is an unload and a load.   *)
(* Once anything went wrong nothing is unmapped and the holder is          *)
(* abandoned with its domains on.                                          *)
(***************************************************************************)
RmBegin ==
  /\ \/ at = "ready" /\ job' = "remove" /\ UNCHANGED hung
     \/ at = "ready" /\ hung /\ job' = "recover" /\ UNCHANGED hung
     \/ at = "power" /\ job = "resume" /\ job' = "remove" /\ UNCHANGED hung  \* cancelled
  /\ at' = IF pm = "on" THEN "rmclient" ELSE "rmoff"
  /\ held' = held \ StreamVote
  /\ UNCHANGED << machine, site, par, irqs, store, pulsed, recover, started, running, mcpu, client,
                  clean, pm, bounds >>

CanTalk == running /\ Powered /\ core = "live"
GivesClientBack == client' = (client /\ ~CanTalk)
RmClient ==
  /\ at = "rmclient" /\ at' = "rmhalt"
  /\ GivesClientBack /\ clean' = ~client'
  /\ UNCHANGED << machine, site, par, job, held, irqs, store, pulsed, recover, started, running,
                  mcpu, hung, pm, bounds >>

\* ave_session_halt(), which needs a Config sent: the core reaches its wfi, or
\* scratch 0 stays cleared.
Halts == /\ core' = IF core = "live" THEN "halted" ELSE core
         /\ magic' = (core = "live")
RmHalt ==
  /\ at = "rmhalt" /\ at' = "rmstatus" /\ running' = FALSE
  /\ IF par.halt /\ mcpu /\ Powered /\ running
     THEN Halts /\ clean' = (clean /\ core = "live")
     ELSE clean' = (clean /\ ~par.halt /\ ~running) /\ UNCHANGED << core, magic >>
  /\ UNCHANGED << drift, dapf, dart1, stale, left, site, par, job, held, irqs, store, pulsed, recover,
                  started, mcpu, client, hung, pm, bounds >>

StatusSaysStopped == Powered => Stopped
RmStatus ==
  /\ at = "rmstatus" /\ clean' = (clean /\ StatusSaysStopped)
  /\ at' = IF clean' THEN "rmfree" ELSE "rmleak"
  /\ UNCHANGED << machine, site, par, job, held, irqs, store, flags, pm, bounds >>

RmFree ==
  /\ at = "rmfree" /\ ReleaseAll /\ at' = "rmoff"
  /\ UNCHANGED << machine, site, par, job, irqWas, inIrq, cap, flags, clean, pm, bounds >>

Gone ==
  /\ Forgets /\ cap' = "none" /\ mem' = {} /\ pristine' = FALSE /\ held' = {} /\ pm' = "on"
RmOff ==                        \* also from a device that sleep had switched off
  /\ at = "rmoff" /\ ~inIrq /\ irqOn' = FALSE /\ at' = "unbound" /\ Gone
  /\ left' = left \cup (held \cap LeakedMe0) /\ DropPower(LeakedMe0 \cap held)
  /\ UNCHANGED << drift, dapf, dart1, stale, site, par, job, irqWas, inIrq, clean, bounds >>

DropsBug == {}
Abandoned == held \cap (IF Powered THEN {"me0", "me1", "report"} ELSE LeakedMe0)
RmLeak ==
  /\ at = "rmleak" /\ at' = "rmirq" /\ Gone
  /\ left' = left \cup Abandoned /\ DropPower(Abandoned)
  /\ stale' = IF "fw" \notin mem THEN stale ELSE IF site.owned THEN "owned" ELSE "iboot"
  /\ UNCHANGED << drift, dapf, dart1, site, par, job, irqs, clean, bounds >>
RmIrq ==                        \* devres frees the line after the domains
  /\ at = "rmirq" /\ ~inIrq /\ irqOn' = FALSE /\ at' = "unbound"
  /\ UNCHANGED << machine, site, par, job, held, irqWas, inIrq, store, flags, clean, pm, bounds >>

(***************************************************************************)
(* System sleep.  A refused PM_SUSPEND_PREPARE (pm_sleep=1, a staged load, *)
(* no captured DAPF) changes nothing and is no step.                       *)
(***************************************************************************)
Unaware == par.sleep = 0 \/ pm # "on" \/ ~Powered
SleepPrepare ==
  /\ at = "ready" /\ sleeps < MaxSleeps /\ sleeps' = sleeps + 1
  /\ \/ Unaware /\ at' = "asleep" /\ UNCHANGED << job, pm, held >>
     \/ /\ ~Unaware /\ par.sleep = 2 /\ par.stop >= 16 /\ cap # "none"
        /\ at' = "slclient" /\ job' = "suspend" /\ pm' = "suspending"
        /\ held' = held \ StreamVote
  /\ UNCHANGED << machine, site, par, irqs, store, flags, clean, loads, faults >>

SlClient ==
  /\ at = "slclient" /\ at' = "slhalt"
  /\ IF hung THEN UNCHANGED client ELSE GivesClientBack
  /\ UNCHANGED << machine, site, par, job, held, irqs, store, pulsed, recover, started, running,
                  mcpu, hung, clean, pm, bounds >>
SlHalt ==
  /\ at = "slhalt" /\ at' = "slstatus"
  /\ IF par.halt /\ running /\ mcpu /\ ~client /\ ~hung THEN Halts ELSE UNCHANGED << core, magic >>
  /\ UNCHANGED << drift, dapf, dart1, stale, left, site, par, job, held, irqs, store, flags, clean, pm,
                  bounds >>
TrustsHaltBug ==
  /\ at = "slstatus" /\ at' = "slfree"
  /\ UNCHANGED << machine, site, par, job, held, irqs, store, flags, clean, pm, bounds >>
SlStatus ==
  /\ at = "slstatus"
  /\ at' = IF Stopped THEN "slfree" ELSE IF par.hungReset THEN "pulse" ELSE "slfail"
  /\ UNCHANGED << machine, site, par, job, held, irqs, store, flags, clean, pm, bounds >>
SlFree ==
  /\ at = "slfree" /\ ReleaseAll /\ Forgets /\ at' = "sloff"
  /\ UNCHANGED << machine, site, par, job, irqWas, inIrq, cap, clean, pm, bounds >>
SlOff ==
  /\ at = "sloff" /\ PowerOff("asleep") /\ pm' = "off"
  /\ UNCHANGED << drift, dapf, dart1, stale, left, site, par, job, irqWas, inIrq, store, flags, clean,
                  bounds >>
SlFail ==                       \* what was sent may have been taken: hung
  /\ at = "slfail" /\ hung' = TRUE /\ pm' = "on" /\ at' = "ready"
  /\ UNCHANGED << machine, site, par, job, held, irqs, store, pulsed, recover, started, running,
                  mcpu, client, clean, bounds >>

\* Environment: what the block kept of a sleep in which nothing held it up.
Wake ==
  /\ at = "asleep"
  /\ \/ UNCHANGED << core, magic, dapf, dart1 >>
     \/ /\ (left \cap Holders) = {} /\ core' = "cold" /\ magic' = FALSE /\ dart1' = FALSE
        /\ dapf' \in {dapf, "junk"}
  /\ IF pm = "off" THEN at' = "power" /\ job' = "resume" /\ pm' = "booting"
                   ELSE at' = "ready" /\ UNCHANGED << job, pm >>
  /\ UNCHANGED << drift, stale, left, site, par, held, irqs, store, flags, clean, bounds >>

Stages == Load \/ PowerUp \/ Idle \/ CoreReset \/ PulseBegin \/ PulseEnd \/ Dart \/ ReadAsc
          \/ IpcAlloc \/ FwLoad \/ BootCfg \/ RestoreData \/ AscStart \/ Recv \/ ProbeState
          \/ Handshake \/ Config \/ Unwind \/ UnwindFree \/ ResumeFailed
Use == OpenClient \/ CloseClient \/ SeesHang
Machine == FwHangs \/ IrqEnter \/ IrqLeave \/ Wake
Removal == RmBegin \/ RmClient \/ RmHalt \/ RmStatus \/ RmFree \/ RmOff \/ RmLeak \/ RmIrq
Sleep == SleepPrepare \/ SlClient \/ SlHalt \/ SlStatus \/ SlFree \/ SlOff \/ SlFail
Next == Stages \/ Use \/ Machine \/ Removal \/ Sleep
Spec == Init /\ [][Next]_vars

(***************************************************************************)
(* Properties.                                                             *)
(***************************************************************************)
TypeOK ==
  /\ core \in {"cold", "halted", "booting", "live", "hung"}
  /\ dapf \in {"iboot", "driver", "junk"} /\ cap \in {"none", "iboot", "driver", "junk"}
  /\ stale \in {"none", "iboot", "owned"} /\ left \subseteq {"me0", "me1", "report"}
  /\ held \subseteq {"rpm", "me0", "me1", "report", "vote", "smmu"}
  /\ mem \subseteq {"ipc", "fw"} /\ pm \in {"on", "suspending", "off", "booting", "dead"}

\* A stopped core is released only with the boot magic in scratch 0 and its
\* memory mapped.  Whoever can tell that a core has run (a pristine copy, or an
\* owned DATA's CPU_STATUS) and is not told otherwise by core_reset= or by
\* fw_restore=2, a dry run, releases it only over the DATA it was built for;
\* after a reset or a sleep, only with a DAPF that admits its fetch and the
\* datapath DART put back.
LeftToDriver == par.reset = 0 /\ par.restore # 2
Tells == LeftToDriver /\ (par.reload \/ job = "resume") /\ (site.owned \/ pristine)
Starts == at = "start" /\ core = "cold"
StartsFresh == Starts => magic /\ {"ipc", "fw"} \subseteq mem /\ (Tells => ~drift)
StartsAdmitted == Starts /\ (pulsed \/ job = "resume") => (Admits(dapf) \/ site.translated) /\ dart1
StartsRight == StartsFresh /\ StartsAdmitted

\* An executing core keeps its memory and its power, except where the code
\* gives up: probe's failure path, the end of a stage-15 load and what follows
\* it with fw_halt=0, a sleep with pm_sleep=0, power_me1=0 without a holder.
GivesUp ==
  \/ at \in {"unwind", "free", "state"}
  \/ at \in {"rmfree", "rmoff"} /\ ~Powered
  \/ at = "asleep" /\ par.sleep = 0
  \/ at = "rmleak" /\ ~par.me1
Takes == (Ungated /\ ~Ungated') \/ (mem' # mem /\ mem' \subseteq mem /\ at # "rmleak")
LiveCoreKept == [][Executing /\ Executing' /\ Takes => GivesUp]_vars

\* The handler never runs while the block is gated or held in reset, nor after
\* its FwIPC was freed.
IrqSafe ==
  inIrq => /\ at \notin {"pulsing", "free", "rmoff", "sloff"}
           /\ Ungated \/ (at = "rmirq" /\ ~par.me1)

\* A suspended encoder is off: nothing held, mapped, or executing.
SleepsStopped ==
  TypeOK /\ (at = "asleep" /\ pm = "off" =>
    /\ held \subseteq {"me0"} /\ mem = {} /\ ~irqOn /\ Stopped)

\* What is promised of a hang and of a sleep, in which nothing else went wrong.
HangRecovers == at = "unwind" /\ job = "recover" => faults > 1
WakesUp == at = "refail" => faults > 0
\* With the reset left to the driver and a blob installed both hold, but for an
\* owned DATA after a hang (its leaked mapping) and a DAPF that a sleep took
\* before a resume that failed (its capture is gone with the device).
BlobSuffices ==
  site.blob /\ ~site.translated /\ LeftToDriver =>
    WakesUp /\ (~site.owned /\ par.reload /\ dapf # "junk" => HangRecovers)
=============================================================================
