--------------------------- MODULE BringupProofs ---------------------------
(***************************************************************************)
(* What Bringup keeps whatever the encoder, the module parameters of its   *)
(* loads, and the number of loads, sleeps and faults.  Inv says where the  *)
(* power, the line and a running core can be at each place of a load's     *)
(* life; from it follow that the handler never meets a gated block, that a *)
(* suspended encoder is off, and that only the paths that give up take     *)
(* memory or power from a core that executes.  DataInv says what stage 7   *)
(* has established of DATA on the way to stage 13; from it follows that no *)
(* core that can be told to have run is released over drifted DATA.        *)
(***************************************************************************)
EXTENDS Bringup, TLAPS

\* The stages up to the release of the core, the ones after it, a suspend.
ToStart  == {"power", "idle", "reset", "pulse", "pulsing", "dart", "asc", "ipc", "fw",
             "cfg", "restore", "start"}
PastStart == {"recv", "state", "shake", "config"}
Suspends == {"slclient", "slhalt", "slstatus", "slfree", "sloff", "slfail"}
Removes  == {"rmclient", "rmhalt", "rmstatus", "rmfree", "rmoff", "rmleak", "rmirq"}
Places   == ToStart \cup PastStart \cup Suspends \cup Removes
              \cup {"unbound", "ready", "unwind", "free", "refail", "asleep"}
Jobs == {"probe", "resume", "remove", "recover", "suspend"}
Suspended == at = "asleep" /\ pm = "off"

Kinds == at \in Places /\ job \in Jobs /\ par \in Params

\* Only a full load sleeps, and a suspend enters the stages at its reset alone.
JobsFit ==
  /\ job \in {"resume", "suspend"} => par.stop >= 16
  /\ Suspended \/ at \in Suspends => job = "suspend"
  /\ job = "suspend" => at \notin ToStart \ {"pulse", "pulsing"}
  /\ at \in ToStart \cup PastStart /\ job \notin {"resume", "suspend"} => pm = "on"
  /\ pm = "off" => at = "asleep"

\* Where the domain is held, and what it is held by.  Without runtime PM only
\* the me0 holder that me1_off=1 leaks is left.
Holding ==
  /\ at \in (ToStart \ {"power"}) \cup PastStart \cup Suspends => Powered
  /\ ~Powered => held \subseteq LeakedMe0
  /\ at \in {"unbound", "rmirq"} => held = {}
  /\ at \in {"power", "free"} => ~Powered
  /\ at \in {"ready", "asleep"} /\ pm # "on" => ~Powered
  /\ Powered /\ par.me1 /\ at # "unwind" /\ ~(at = "refail" /\ ~started)
       => "me0" \in held \/ "me1" \in held

\* The line is on, or its handler running, only over a powered block.
Line ==
  /\ irqOn \/ inIrq => Powered \/ (at = "rmirq" /\ (Ungated \/ ~par.me1))
  /\ at \in {"pulsing", "free", "rmoff", "sloff"} => ~irqOn /\ ~inIrq

\* started, which decides whether a failed resume may power off.
StartedIsTrue ==
  /\ at \in PastStart => started
  /\ at \in {"unbound", "rmirq", "sloff"} => ~started
  /\ at \in ToStart /\ job # "suspend" => ~started
  /\ Suspended => ~started

\* Where no core executes.
Still ==
  /\ at = "refail" /\ ~started => Stopped
  /\ job = "resume" /\ at \in ToStart => Stopped
  /\ at \in {"slfree", "sloff"} => Stopped
  /\ at \in {"rmfree", "rmoff"} /\ Powered => Stopped
  /\ at = "sloff" => mem = {}
  /\ Suspended => held \subseteq {"me0"} /\ mem = {} /\ ~irqOn /\ Stopped

Inv == TypeOK /\ Kinds /\ JobsFit /\ Holding /\ Line /\ StartedIsTrue /\ Still

\* DATA a core has run on, that can be told to be so, is on its way to being
\* restored: stage 7 has raised recover, which stage 13 obeys.
Seen == /\ ~site.owned /\ par.reset = 0 /\ drift
        /\ par.reload \/ job = "resume"
        /\ pristine \/ site.blob
DataInv ==
  /\ at \in {"fw", "cfg", "restore", "start"} => "ipc" \in mem
  /\ at \in {"cfg", "restore", "start"} => "fw" \in mem
  /\ at \in {"cfg", "restore", "start"} /\ site.owned => ~drift
  /\ at \in {"dart", "asc", "ipc", "fw", "cfg", "restore"} /\ Seen => recover
  /\ at \in {"pulse", "pulsing"} /\ job # "suspend" /\ Seen => recover
  /\ at = "start" => StartsFresh

\* The plumbing of the actions, expanded throughout.
USE DEF machine, irqs, store, flags, bounds, Fault, NoFault, Fail, Stage, Executing,
        Stopped, Powered, Holders, Ungated, LeakedMe0, Places, Jobs, ToStart, PastStart,
        Suspends, Removes, Suspended

-----------------------------------------------------------------------------
(* Inv is inductive: a lemma per group of actions, a step per action.      *)

\* Inv is kept by a step of probe, of a resume or of what unwinds them.
LEMMA StagesKeepInv == ASSUME Inv, Stages PROVE Inv'
<1> USE ParamsAssumption
    DEF Inv, TypeOK, Kinds, JobsFit, Holding, Line, StartedIsTrue, Still
<1>1. CASE Load BY <1>1 DEF Load
<1>2. CASE PowerUp
  <2> USE <1>2 DEF PowerUp, Me1Holders, Report, VoteNow
  <2>1. TypeOK'
    <3>1. TypeOK OBVIOUS
    <3> HIDE DEF Inv, Kinds, JobsFit, Holding, Line, StartedIsTrue, Still
    <3>2. held' \subseteq {"rpm", "me0", "me1", "report", "vote", "smmu"} BY <3>1
    <3>3. core' = core /\ dapf' = dapf /\ cap' = cap /\ stale' = stale /\ left' = left
          /\ mem' = mem /\ pm' = pm
      OBVIOUS
    <3> QED BY <3>1, <3>2, <3>3, Zenon
  <2>2. Kinds' OBVIOUS
  <2>3. JobsFit' OBVIOUS
  <2>4. Holding'
    <3>1. ~started /\ job # "suspend" OBVIOUS
    <3>2. CASE ~Powered'
      <4>1. Holding /\ Kinds OBVIOUS
      <4> HIDE DEF Inv, TypeOK, JobsFit, Line, StartedIsTrue, Still
      <4> QED BY <3>1, <3>2, <4>1
    <3>3. CASE Powered'
      <4>1. at' \in {"idle", "ready", "unwind", "refail"} OBVIOUS
      <4>2. par.me1 /\ at' \in {"idle", "ready"} => "me0" \in held' \/ "me1" \in held' OBVIOUS
      <4>3. at' = "ready" => pm' = "on" OBVIOUS
      <4> QED BY <3>1, <3>3, <4>1, <4>2, <4>3
    <3> QED BY <3>2, <3>3
  <2>5. Line' OBVIOUS
  <2>6. StartedIsTrue' OBVIOUS
  <2>7. Still' OBVIOUS
  <2> QED BY <2>1, <2>2, <2>3, <2>4, <2>5, <2>6, <2>7
<1>3. CASE Idle BY <1>3 DEF Idle, PmRestore, RestoresTo, Admits
<1>4. CASE CoreReset BY <1>4 DEF CoreReset, DataRan, Recovers, Pulses
<1>5. CASE PulseBegin BY <1>5 DEF PulseBegin, QuietAcrossPulse
<1>6. CASE PulseEnd BY <1>6 DEF PulseEnd, ResetLeftItGood, Admits
<1>7. CASE Dart BY <1>7 DEF Dart, Mirrors
<1>8. CASE ReadAsc BY <1>8 DEF ReadAsc
<1>9. CASE IpcAlloc
  <2> USE <1>9 DEF IpcAlloc
  <2>1. TypeOK'
    <3>1. TypeOK OBVIOUS
    <3> HIDE DEF Inv, Kinds, JobsFit, Holding, Line, StartedIsTrue, Still
    <3> QED BY <3>1
  <2>2. Kinds' OBVIOUS
  <2>3. JobsFit' OBVIOUS
  <2>4. Holding' OBVIOUS
  <2>5. Line' OBVIOUS
  <2>6. StartedIsTrue' OBVIOUS
  <2>7. Still' OBVIOUS
  <2> QED BY <2>1, <2>2, <2>3, <2>4, <2>5, <2>6, <2>7
<1>10. CASE FwLoad
  <2> USE <1>10 DEF FwLoad, CanMapData, HasBlob, MapsIboot, DriftAsMapped
  <2>1. TypeOK'
    <3>1. TypeOK OBVIOUS
    <3> HIDE DEF Inv, Kinds, JobsFit, Holding, Line, StartedIsTrue, Still
    <3>2. core' = core /\ dapf' = dapf /\ cap' = cap /\ left' = left /\ held' = held
          /\ pm' = pm /\ stale' \in {stale, "none"} /\ mem' \in {mem, mem \cup {"fw"}}
      OBVIOUS
    <3> HIDE <1>10
    <3>3. mem' \subseteq {"ipc", "fw"} BY <3>1, <3>2
    <3>4. stale' \in {"none", "iboot", "owned"} BY <3>1, <3>2
    <3> QED BY <3>1, <3>2, <3>3, <3>4, Zenon
  <2>2. Kinds' OBVIOUS
  <2>3. JobsFit' OBVIOUS
  <2>4. Holding' OBVIOUS
  <2>5. Line' OBVIOUS
  <2>6. StartedIsTrue' OBVIOUS
  <2>7. Still' OBVIOUS
  <2> QED BY <2>1, <2>2, <2>3, <2>4, <2>5, <2>6, <2>7
<1>11. CASE BootCfg BY <1>11 DEF BootCfg
<1>12. CASE RestoreData BY <1>12 DEF RestoreData, CaptureCold, Mode
<1>13. CASE AscStart BY <1>13 DEF AscStart, GoodStart, Admits
<1>14. CASE Recv BY <1>14 DEF Recv
<1>15. CASE ProbeState
  <2> USE <1>15 DEF ProbeState, DropPower
  <2>1. TypeOK'
    <3>1. TypeOK OBVIOUS
    <3> HIDE DEF Inv, Kinds, JobsFit, Holding, Line, StartedIsTrue, Still
    <3> QED BY <3>1
  <2>2. Kinds' OBVIOUS
  <2>3. JobsFit' OBVIOUS
  <2>4. Holding' OBVIOUS
  <2>5. Line' OBVIOUS
  <2>6. StartedIsTrue' OBVIOUS
  <2>7. Still' OBVIOUS
  <2> QED BY <2>1, <2>2, <2>3, <2>4, <2>5, <2>6, <2>7
<1>16. CASE Handshake BY <1>16 DEF Handshake
<1>17. CASE Config BY <1>17 DEF Config
<1>18. CASE Unwind
  <2> USE <1>18 DEF Unwind, PowerOff, DropPower
  <2>1. TypeOK'
    <3>1. TypeOK OBVIOUS
    <3> HIDE DEF Inv, Kinds, JobsFit, Holding, Line, StartedIsTrue, Still
    <3> QED BY <3>1
  <2>2. Kinds' OBVIOUS
  <2>3. JobsFit' OBVIOUS
  <2>4. Holding'
    <3>1. CASE Powered /\ TRUE
      <4>1. held' = held \cap LeakedMe0 /\ at' = "free" BY <3>1
      <4>2. ~Powered' /\ held' \subseteq LeakedMe0 BY <4>1
      <4> QED BY <4>1, <4>2 
    <3>2. CASE ~(Powered /\ TRUE)
      <4>1. Holding /\ Kinds /\ TypeOK OBVIOUS
      <4> HIDE DEF Inv, JobsFit, Line, StartedIsTrue, Still
      <4> QED BY <3>2, <4>1
    <3> QED BY <3>1, <3>2
  <2>5. Line' OBVIOUS
  <2>6. StartedIsTrue' OBVIOUS
  <2>7. Still' OBVIOUS
  <2> QED BY <2>1, <2>2, <2>3, <2>4, <2>5, <2>6, <2>7
<1>19. CASE UnwindFree BY <1>19 DEF UnwindFree, Unmaps, Forgets
<1>20. CASE ResumeFailed
  <2> USE <1>20 DEF ResumeFailed, Unmaps, DropPower
  <2>1. TypeOK'
    <3>1. TypeOK OBVIOUS
    <3> HIDE DEF Inv, Kinds, JobsFit, Holding, Line, StartedIsTrue, Still
    <3> QED BY <3>1
  <2>2. Kinds' OBVIOUS
  <2>3. JobsFit' OBVIOUS
  <2>4. Holding'
    <3>1. CASE Powered /\ ~started
      <4>1. held' = held \cap LeakedMe0 /\ at' = "ready" BY <3>1
      <4>2. ~Powered' /\ held' \subseteq LeakedMe0 BY <4>1
      <4> QED BY <4>1, <4>2 
    <3>2. CASE ~(Powered /\ ~started)
      <4>1. Holding /\ Kinds /\ StartedIsTrue OBVIOUS
      <4> HIDE DEF Inv, TypeOK, JobsFit, Line, StartedIsTrue, Still
      <4>2. CASE started /\ held' = held /\ pm' = "on" /\ at' = "ready" BY <3>2, <4>1, <4>2
      <4>3. CASE ~started /\ held' = held \cap LeakedMe0 /\ at' = "ready"
        BY <3>2, <4>1, <4>3
      <4> QED BY <4>2, <4>3
    <3> QED BY <3>1, <3>2
  <2>5. Line' OBVIOUS
  <2>6. StartedIsTrue' OBVIOUS
  <2>7. Still' OBVIOUS
  <2> QED BY <2>1, <2>2, <2>3, <2>4, <2>5, <2>6, <2>7
<1> QED BY <1>1, <1>2, <1>3, <1>4, <1>5, <1>6, <1>7, <1>8, <1>9, <1>10, <1>11,
       <1>12, <1>13, <1>14, <1>15, <1>16, <1>17, <1>18, <1>19, <1>20 DEF
       Stages

\* Inv is kept by a client opened or closed, a hang seen.
LEMMA UseKeepInv == ASSUME Inv, Use PROVE Inv'
<1> USE ParamsAssumption
    DEF Inv, TypeOK, Kinds, JobsFit, Holding, Line, StartedIsTrue, Still
<1>1. CASE OpenClient BY <1>1 DEF OpenClient, StreamVote, Idles
<1>2. CASE CloseClient BY <1>2 DEF CloseClient, Idles
<1>3. CASE SeesHang BY <1>3 DEF SeesHang, Idles
<1> QED BY <1>1, <1>2, <1>3 DEF Use

\* Inv is kept by the firmware, the line, the end of a sleep.
LEMMA MachineKeepInv == ASSUME Inv, Machine PROVE Inv'
<1> USE ParamsAssumption
    DEF Inv, TypeOK, Kinds, JobsFit, Holding, Line, StartedIsTrue, Still
<1>1. CASE FwHangs BY <1>1 DEF FwHangs
<1>2. CASE IrqEnter BY <1>2 DEF IrqEnter
<1>3. CASE IrqLeave BY <1>3 DEF IrqLeave
<1>4. CASE Wake BY <1>4 DEF Wake
<1> QED BY <1>1, <1>2, <1>3, <1>4 DEF Machine

\* Inv is kept by a step of an unload or a re-probe.
LEMMA RemovalKeepInv == ASSUME Inv, Removal PROVE Inv'
<1> USE ParamsAssumption
    DEF Inv, TypeOK, Kinds, JobsFit, Holding, Line, StartedIsTrue, Still
<1>1. CASE RmBegin BY <1>1 DEF RmBegin, StreamVote
<1>2. CASE RmClient BY <1>2 DEF RmClient, GivesClientBack, CanTalk
<1>3. CASE RmHalt BY <1>3 DEF RmHalt, Halts
<1>4. CASE RmStatus
  <2> USE <1>4 DEF RmStatus, StatusSaysStopped
  <2>1. TypeOK'
    <3>1. TypeOK OBVIOUS
    <3> HIDE DEF Inv, Kinds, JobsFit, Holding, Line, StartedIsTrue, Still
    <3> QED BY <3>1
  <2>2. Kinds' OBVIOUS
  <2>3. JobsFit' OBVIOUS
  <2>4. Holding' OBVIOUS
  <2>5. Line' OBVIOUS
  <2>6. StartedIsTrue' OBVIOUS
  <2>7. Still' OBVIOUS
  <2> QED BY <2>1, <2>2, <2>3, <2>4, <2>5, <2>6, <2>7
<1>5. CASE RmFree BY <1>5 DEF RmFree, ReleaseAll, Unmaps
<1>6. CASE RmOff BY <1>6 DEF RmOff, Gone, Forgets, DropPower
<1>7. CASE RmLeak BY <1>7 DEF RmLeak, Gone, Forgets, DropPower, Abandoned
<1>8. CASE RmIrq BY <1>8 DEF RmIrq
<1> QED BY <1>1, <1>2, <1>3, <1>4, <1>5, <1>6, <1>7, <1>8 DEF Removal

\* Inv is kept by a step of a suspend.
LEMMA SleepKeepInv == ASSUME Inv, Sleep PROVE Inv'
<1> USE ParamsAssumption
    DEF Inv, TypeOK, Kinds, JobsFit, Holding, Line, StartedIsTrue, Still
<1>1. CASE SleepPrepare
  <2> USE <1>1 DEF SleepPrepare, StreamVote, Unaware
  <2>1. TypeOK'
    <3>1. TypeOK OBVIOUS
    <3> HIDE DEF Inv, Kinds, JobsFit, Holding, Line, StartedIsTrue, Still
    <3> QED BY <3>1
  <2>2. Kinds' OBVIOUS
  <2>3. JobsFit' OBVIOUS
  <2>4. Holding' OBVIOUS
  <2>5. Line' OBVIOUS
  <2>6. StartedIsTrue' OBVIOUS
  <2>7. Still' OBVIOUS
  <2> QED BY <2>1, <2>2, <2>3, <2>4, <2>5, <2>6, <2>7
<1>2. CASE SlClient BY <1>2 DEF SlClient, GivesClientBack, CanTalk
<1>3. CASE SlHalt BY <1>3 DEF SlHalt, Halts
<1>4. CASE SlStatus BY <1>4 DEF SlStatus
<1>5. CASE SlFree BY <1>5 DEF SlFree, ReleaseAll, Unmaps, Forgets
<1>6. CASE SlOff BY <1>6 DEF SlOff, PowerOff, DropPower
<1>7. CASE SlFail BY <1>7 DEF SlFail
<1> QED BY <1>1, <1>2, <1>3, <1>4, <1>5, <1>6, <1>7 DEF Sleep

\* Inv holds of a machine no module has been loaded on.
LEMMA InitInv == ASSUME Init PROVE Inv
BY ParamsAssumption
   DEF Inv, TypeOK, Kinds, JobsFit, Holding, Line, StartedIsTrue, Still, Init

\* Inv is about the variables alone.
LEMMA StutterInv == ASSUME Inv, UNCHANGED vars PROVE Inv'
BY DEF Inv, TypeOK, Kinds, JobsFit, Holding, Line, StartedIsTrue, Still, vars

\* Type correctness and the places of power, line and running core, for every
\* encoder and every combination of the module parameters.
THEOREM BringupInvariance == Spec => []Inv
<1>1. Init => Inv
  BY InitInv
<1>2. Inv /\ [Next]_vars => Inv'
  BY StagesKeepInv, UseKeepInv, MachineKeepInv, RemovalKeepInv, SleepKeepInv, StutterInv
     DEF Next
<1> QED BY <1>1, <1>2, PTL DEF Spec

-----------------------------------------------------------------------------
(* What follows of a state.                                                *)

\* ave_irq() never runs while the block is gated or held in reset, nor after
\* the FwIPC it reads was freed: it can where the line is on, which is taken
\* off around each pulse and before each power off.
THEOREM HandlerSafe == Spec => []IrqSafe
<1>1. Inv => IrqSafe
  BY DEF Inv, TypeOK, Kinds, Line, Holding, IrqSafe
<1> QED BY <1>1, BringupInvariance, PTL

\* An encoder whose suspend succeeded is off: nothing of it is held or mapped
\* and no core executes, since ave_pm_suspend asked CPU_STATUS before it freed.
THEOREM SuspendedIsOff == Spec => []SleepsStopped
<1>1. Inv => SleepsStopped
  BY DEF Inv, Still, SleepsStopped
<1> QED BY <1>1, BringupInvariance, PTL

-----------------------------------------------------------------------------
(* What a step takes from a core that executes.                            *)

\* What a step of probe, of a resume or of what unwinds them takes from an
\* executing core, it takes where the code gives up.
LEMMA StagesTakes == ASSUME Inv, Stages, Executing, Executing', Takes PROVE GivesUp
<1> USE ParamsAssumption
    DEF Inv, TypeOK, Kinds, JobsFit, Holding, StartedIsTrue, Still, Takes, GivesUp
<1>1. CASE Load BY <1>1 DEF Load
<1>2. CASE PowerUp BY <1>2 DEF PowerUp, Me1Holders, Report, VoteNow
<1>3. CASE Idle BY <1>3 DEF Idle, PmRestore, RestoresTo, Admits
<1>4. CASE CoreReset BY <1>4 DEF CoreReset, DataRan, Recovers, Pulses
<1>5. CASE PulseBegin BY <1>5 DEF PulseBegin, QuietAcrossPulse
<1>6. CASE PulseEnd BY <1>6 DEF PulseEnd, ResetLeftItGood, Admits
<1>7. CASE Dart BY <1>7 DEF Dart, Mirrors
<1>8. CASE ReadAsc BY <1>8 DEF ReadAsc
<1>9. CASE IpcAlloc BY <1>9 DEF IpcAlloc
<1>10. CASE FwLoad
  BY <1>10 DEF FwLoad, CanMapData, HasBlob, MapsIboot, DriftAsMapped
<1>11. CASE BootCfg BY <1>11 DEF BootCfg
<1>12. CASE RestoreData BY <1>12 DEF RestoreData, CaptureCold, Mode
<1>13. CASE AscStart BY <1>13 DEF AscStart, GoodStart, Admits
<1>14. CASE Recv BY <1>14 DEF Recv
<1>15. CASE ProbeState BY <1>15 DEF ProbeState, DropPower
<1>16. CASE Handshake BY <1>16 DEF Handshake
<1>17. CASE Config BY <1>17 DEF Config
<1>18. CASE Unwind BY <1>18 DEF Unwind, PowerOff, DropPower
<1>19. CASE UnwindFree BY <1>19 DEF UnwindFree, Unmaps, Forgets
<1>20. CASE ResumeFailed BY <1>20 DEF ResumeFailed, Unmaps, DropPower
<1> QED BY <1>1, <1>2, <1>3, <1>4, <1>5, <1>6, <1>7, <1>8, <1>9, <1>10, <1>11,
       <1>12, <1>13, <1>14, <1>15, <1>16, <1>17, <1>18, <1>19, <1>20 DEF
       Stages

\* What a client opened or closed, a hang seen takes from an executing core,
\* it takes where the code gives up.
LEMMA UseTakes == ASSUME Inv, Use, Executing, Executing', Takes PROVE GivesUp
<1> USE ParamsAssumption
    DEF Inv, TypeOK, Kinds, JobsFit, Holding, StartedIsTrue, Still, Takes, GivesUp
<1>1. CASE OpenClient BY <1>1 DEF OpenClient, StreamVote, Idles
<1>2. CASE CloseClient BY <1>2 DEF CloseClient, Idles
<1>3. CASE SeesHang BY <1>3 DEF SeesHang, Idles
<1> QED BY <1>1, <1>2, <1>3 DEF Use

\* What the firmware, the line, the end of a sleep takes from an executing
\* core, it takes where the code gives up.
LEMMA MachineTakes == ASSUME Inv, Machine, Executing, Executing', Takes PROVE GivesUp
<1> USE ParamsAssumption
    DEF Inv, TypeOK, Kinds, JobsFit, Holding, StartedIsTrue, Still, Takes, GivesUp
<1>1. CASE FwHangs BY <1>1 DEF FwHangs
<1>2. CASE IrqEnter BY <1>2 DEF IrqEnter
<1>3. CASE IrqLeave BY <1>3 DEF IrqLeave
<1>4. CASE Wake BY <1>4 DEF Wake
<1> QED BY <1>1, <1>2, <1>3, <1>4 DEF Machine

\* What a step of an unload or a re-probe takes from an executing core, it
\* takes where the code gives up.
LEMMA RemovalTakes == ASSUME Inv, Removal, Executing, Executing', Takes PROVE GivesUp
<1> USE ParamsAssumption
    DEF Inv, TypeOK, Kinds, JobsFit, Holding, StartedIsTrue, Still, Takes, GivesUp
<1>1. CASE RmBegin BY <1>1 DEF RmBegin, StreamVote
<1>2. CASE RmClient BY <1>2 DEF RmClient, GivesClientBack, CanTalk
<1>3. CASE RmHalt BY <1>3 DEF RmHalt, Halts
<1>4. CASE RmStatus BY <1>4 DEF RmStatus, StatusSaysStopped
<1>5. CASE RmFree BY <1>5 DEF RmFree, ReleaseAll, Unmaps
<1>6. CASE RmOff BY <1>6 DEF RmOff, Gone, Forgets, DropPower
<1>7. CASE RmLeak BY <1>7 DEF RmLeak, Gone, Forgets, DropPower, Abandoned
<1>8. CASE RmIrq BY <1>8 DEF RmIrq
<1> QED BY <1>1, <1>2, <1>3, <1>4, <1>5, <1>6, <1>7, <1>8 DEF Removal

\* What a step of a suspend takes from an executing core, it takes where the
\* code gives up.
LEMMA SleepTakes == ASSUME Inv, Sleep, Executing, Executing', Takes PROVE GivesUp
<1> USE ParamsAssumption
    DEF Inv, TypeOK, Kinds, JobsFit, Holding, StartedIsTrue, Still, Takes, GivesUp
<1>1. CASE SleepPrepare BY <1>1 DEF SleepPrepare, StreamVote, Unaware
<1>2. CASE SlClient BY <1>2 DEF SlClient, GivesClientBack, CanTalk
<1>3. CASE SlHalt BY <1>3 DEF SlHalt, Halts
<1>4. CASE SlStatus BY <1>4 DEF SlStatus
<1>5. CASE SlFree BY <1>5 DEF SlFree, ReleaseAll, Unmaps, Forgets
<1>6. CASE SlOff BY <1>6 DEF SlOff, PowerOff, DropPower
<1>7. CASE SlFail BY <1>7 DEF SlFail
<1> QED BY <1>1, <1>2, <1>3, <1>4, <1>5, <1>6, <1>7 DEF Sleep

\* No step gates a block or unmaps memory under a core that executes and goes on
\* to, but on the paths the code gives up on: after an unclean unload the me0 or
\* me1 holder that Holding has is the one ave_remove() abandons.
THEOREM CoreKept == Spec => LiveCoreKept
<1>1. Inv /\ [Next]_vars => [Executing /\ Executing' /\ Takes => GivesUp]_vars
  BY StagesTakes, UseTakes, MachineTakes, RemovalTakes, SleepTakes DEF Next
<1> QED BY <1>1, BringupInvariance, PTL DEF Spec, LiveCoreKept

-----------------------------------------------------------------------------
(* The DATA a core is released over.                                       *)

\* DataInv is kept by a step of probe, of a resume or of what unwinds them.
LEMMA StagesKeepData == ASSUME Inv, DataInv, Stages PROVE DataInv'
<1> USE ParamsAssumption
    DEF Inv, TypeOK, Kinds, JobsFit, DataInv, Seen, StartsFresh, Starts, Tells, LeftToDriver
<1>1. CASE Load BY <1>1 DEF Load
<1>2. CASE PowerUp BY <1>2 DEF PowerUp, Me1Holders, Report, VoteNow
<1>3. CASE Idle BY <1>3 DEF Idle, PmRestore, RestoresTo, Admits
<1>4. CASE CoreReset BY <1>4 DEF CoreReset, DataRan, Recovers, Pulses
<1>5. CASE PulseBegin BY <1>5 DEF PulseBegin, QuietAcrossPulse
<1>6. CASE PulseEnd BY <1>6 DEF PulseEnd, ResetLeftItGood, Admits
<1>7. CASE Dart BY <1>7 DEF Dart, Mirrors
<1>8. CASE ReadAsc BY <1>8 DEF ReadAsc
<1>9. CASE IpcAlloc BY <1>9 DEF IpcAlloc
<1>10. CASE FwLoad
  BY <1>10 DEF FwLoad, CanMapData, HasBlob, MapsIboot, DriftAsMapped
<1>11. CASE BootCfg BY <1>11 DEF BootCfg
<1>12. CASE RestoreData
  <2> USE <1>12 DEF RestoreData
  <2>1. at' \in {"start", "refail", "unwind"} /\ par.restore \in 0..2 BY DEF Mode, CaptureCold
  <2>2. CASE at' # "start" BY <2>1, <2>2
  <2>3. CASE at' = "start"
    <3>1. magic' /\ {"ipc", "fw"} \subseteq mem' BY <2>3
    <3>2. CASE site.owned BY <2>3, <3>1, <3>2
    <3>3. CASE ~site.owned /\ Mode = 0
      <4>1. drift' = drift /\ par.restore = 0 /\ ~recover BY <2>1, <2>3, <3>3 DEF Mode
      <4>2. pristine' /\ drift => pristine BY <2>3, <3>3 DEF CaptureCold
      <4>3. Tells' => ~drift' BY <3>3, <4>1, <4>2
      <4> QED BY <2>3, <3>1, <4>1, <4>3
    <3>4. CASE ~site.owned /\ Mode # 0
      <4>1. Tells' => Mode # 2 BY <2>1, <2>3, <3>4 DEF Mode
      <4>2. drift' = (drift /\ Mode = 2) BY <2>3, <3>4
      <4>3. Tells' => ~drift' BY <4>1, <4>2
      <4> QED BY <2>3, <3>1, <4>3
    <3> QED BY <3>2, <3>3, <3>4
  <2> QED BY <2>2, <2>3
<1>13. CASE AscStart BY <1>13 DEF AscStart, GoodStart, Admits
<1>14. CASE Recv BY <1>14 DEF Recv
<1>15. CASE ProbeState BY <1>15 DEF ProbeState, DropPower
<1>16. CASE Handshake BY <1>16 DEF Handshake
<1>17. CASE Config BY <1>17 DEF Config
<1>18. CASE Unwind BY <1>18 DEF Unwind, PowerOff, DropPower
<1>19. CASE UnwindFree BY <1>19 DEF UnwindFree, Unmaps, Forgets
<1>20. CASE ResumeFailed BY <1>20 DEF ResumeFailed, Unmaps, DropPower
<1> QED BY <1>1, <1>2, <1>3, <1>4, <1>5, <1>6, <1>7, <1>8, <1>9, <1>10, <1>11,
       <1>12, <1>13, <1>14, <1>15, <1>16, <1>17, <1>18, <1>19, <1>20 DEF
       Stages

\* DataInv is kept by a client opened or closed, a hang seen.
LEMMA UseKeepData == ASSUME Inv, DataInv, Use PROVE DataInv'
<1> USE ParamsAssumption
    DEF Inv, TypeOK, Kinds, JobsFit, DataInv, Seen, StartsFresh, Starts, Tells, LeftToDriver
<1>1. CASE OpenClient BY <1>1 DEF OpenClient, StreamVote, Idles
<1>2. CASE CloseClient BY <1>2 DEF CloseClient, Idles
<1>3. CASE SeesHang BY <1>3 DEF SeesHang, Idles
<1> QED BY <1>1, <1>2, <1>3 DEF Use

\* DataInv is kept by the firmware, the line, the end of a sleep.
LEMMA MachineKeepData == ASSUME Inv, DataInv, Machine PROVE DataInv'
<1> USE ParamsAssumption
    DEF Inv, TypeOK, Kinds, JobsFit, DataInv, Seen, StartsFresh, Starts, Tells, LeftToDriver
<1>1. CASE FwHangs BY <1>1 DEF FwHangs
<1>2. CASE IrqEnter BY <1>2 DEF IrqEnter
<1>3. CASE IrqLeave BY <1>3 DEF IrqLeave
<1>4. CASE Wake BY <1>4 DEF Wake
<1> QED BY <1>1, <1>2, <1>3, <1>4 DEF Machine

\* DataInv is kept by a step of an unload or a re-probe.
LEMMA RemovalKeepData == ASSUME Inv, DataInv, Removal PROVE DataInv'
<1> USE ParamsAssumption
    DEF Inv, TypeOK, Kinds, JobsFit, DataInv, Seen, StartsFresh, Starts, Tells, LeftToDriver
<1>1. CASE RmBegin BY <1>1 DEF RmBegin, StreamVote
<1>2. CASE RmClient BY <1>2 DEF RmClient, GivesClientBack, CanTalk
<1>3. CASE RmHalt BY <1>3 DEF RmHalt, Halts
<1>4. CASE RmStatus BY <1>4 DEF RmStatus, StatusSaysStopped
<1>5. CASE RmFree BY <1>5 DEF RmFree, ReleaseAll, Unmaps
<1>6. CASE RmOff BY <1>6 DEF RmOff, Gone, Forgets, DropPower
<1>7. CASE RmLeak BY <1>7 DEF RmLeak, Gone, Forgets, DropPower, Abandoned
<1>8. CASE RmIrq BY <1>8 DEF RmIrq
<1> QED BY <1>1, <1>2, <1>3, <1>4, <1>5, <1>6, <1>7, <1>8 DEF Removal

\* DataInv is kept by a step of a suspend.
LEMMA SleepKeepData == ASSUME Inv, DataInv, Sleep PROVE DataInv'
<1> USE ParamsAssumption
    DEF Inv, TypeOK, Kinds, JobsFit, DataInv, Seen, StartsFresh, Starts, Tells, LeftToDriver
<1>1. CASE SleepPrepare BY <1>1 DEF SleepPrepare, StreamVote, Unaware
<1>2. CASE SlClient BY <1>2 DEF SlClient, GivesClientBack, CanTalk
<1>3. CASE SlHalt BY <1>3 DEF SlHalt, Halts
<1>4. CASE SlStatus BY <1>4 DEF SlStatus
<1>5. CASE SlFree BY <1>5 DEF SlFree, ReleaseAll, Unmaps, Forgets
<1>6. CASE SlOff BY <1>6 DEF SlOff, PowerOff, DropPower
<1>7. CASE SlFail BY <1>7 DEF SlFail
<1> QED BY <1>1, <1>2, <1>3, <1>4, <1>5, <1>6, <1>7 DEF Sleep

\* DataInv holds where nothing is loaded.
LEMMA InitData == ASSUME Init PROVE DataInv
BY DEF Init, DataInv

\* DataInv is about the variables alone.
LEMMA StutterData == ASSUME DataInv, UNCHANGED vars PROVE DataInv'
BY DEF DataInv, Seen, StartsFresh, Starts, Tells, LeftToDriver, vars

\* A stopped core is released with the boot magic written and its memory mapped;
\* and, where the driver can tell that DATA was run on and is left to decide,
\* never over drifted DATA: whatever raised recover in stage 7 makes stage 13
\* restore it, and owned DATA was written anew by stage 11.
THEOREM FreshStart == Spec => []StartsFresh
<1>1. Init => DataInv
  BY InitData
<1>2. Inv /\ DataInv /\ [Next]_vars => DataInv'
  BY StagesKeepData, UseKeepData, MachineKeepData, RemovalKeepData, SleepKeepData,
     StutterData DEF Next
<1>3. DataInv => StartsFresh
  BY DEF DataInv, StartsFresh, Starts
<1> QED BY <1>1, <1>2, <1>3, BringupInvariance, PTL DEF Spec
=============================================================================
