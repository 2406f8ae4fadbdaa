# TLA+ models of the Apple AVE encoder driver

`driver/` is an out-of-tree Linux driver for the Apple Video Encoder: a V4L2
mem2mem node on top of a firmware that runs on its own core and talks through
rings in shared memory. These modules model the parts of it whose correctness
depends on the order of things: what a client, the run work, the firmware, the
other encoders, a reload and the PM core do between each other's steps. TLC
checks them on small instances; TLAPS proves most of the same safety properties
for every size, from the pure algorithms at the bottom (the planner of B frames
and its reference sets, the IPC ring) to the V4L2 node at the top.

Paths and line numbers below are relative to the repository, and a file without
a directory is in `driver/`; `PROJECT.json` has the lines each definition stands
for.

## The system

| part | where | state it keeps | operations | how it meets the others |
|---|---|---|---|---|
| mini-GOP planner | `ave_gop.h` | `struct ave_gop`: held sources, distance from the IDR, last anchor's number | decide, need, commit | pure; called by the run work and by `job_ready` |
| V4L2 context | `ave_v4l2.c` | formats, controls, two ready queues, drain flags, m2m job, plan, `force_key`, session | S_FMT, S_SELECTION, S_CTRL, REQBUFS, QBUF, STREAMON/OFF, ENCODER_CMD, the run work | ioctls under `dev_mutex`, work under `hw_mutex`, queues under their spinlocks |
| encoders | `ave_v4l2.c`, `ave_drv.c` | per encoder: counts of contexts and files, owner, hung flag, PM state, power | open (moves to a free encoder), release, re-probe, suspend, resume boot | list lock, `hw_mutex`, PM notifier chain, workqueues |
| firmware session | `ave_session.c` | the client, its buffers and caches, results per slot | Open, Start, Process (one frame or a batch), Stop, Close, Halt | called under `hw_mutex`; completes from the interrupt |
| command builders | `ave_cmd.c` | none | build Start and Process for both codecs, read replies and coded headers | pure; called by the session |
| IPC rings | `ave_abi_boot.h`, `ave_ipc.c` | slots in shared memory, private cursors | send, receive, doorbell | host and firmware run the same algorithm on the same slots |
| IPC link | `ave_ipc.c` | FwIPC pool, handshake state, mailbox, SHAREDMALLOC's table | messages 1-5, bind, drain on interrupt, IO_T2H echo, SHAREDMALLOC, TERMINAL | interrupt, probe |
| bring-up | `ave_drv.c` | stage, power holders and votes, core state, interrupt | stages 1-16, core reset, unload, re-probe, sleep | probe, remove, PM works |
| image and DATA | `ave_fw.c` | the core's DATA, the pristine copy, leftover mappings | load, map, capture, restore, unload | bring-up; outlives the module |
| DAPF | `ave_dapf.c` | the filter's entries and their capture | fingerprint, capture, program | bring-up; outlives the module |
| SMMU watch, SoC tables, ADT, firmware versions | `ave_smmu.c`, `ave_soc.c`, `ave_adt.c`, `ave_version.c` | tables | look up, report | called by bring-up |
| tools, ffmpeg patches, overlays, docs | `tools/`, `ffmpeg/`, `test/`, `docs/`, `results/` | - | - | not part of the running driver |

What is hard, and what must hold:

* **planner** - short mini-GOPs (drain, forced key, GOP boundary) on a sparse
  numbering. Every source is coded once; numbers agree with display order; the
  firmware finds each frame at the distance its reference sets need; no B waits
  for an anchor that may not come; GOPs are closed and no longer than asked.
* **context, running** - the client's ioctls interleave with a job that peeks at
  its buffers and removes them late. No buffer is lost or done twice; a drain
  ends with LAST, once, on the right buffer; keys come where they must; no
  runnable context is left without a job.
* **context, set up** - controls, formats and buffers may come in any order and
  are judged together only at STREAMON and in the builders. A frame fits its
  buffer; what was negotiated starts; the parts of a command fit each other.
* **encoders** - the last close, a failed suspend and a failed resume each may
  decide to re-probe; a re-probe frees what an open may just have found. No
  device goes under an open file; a stream's owner and the firmware's client
  agree; nothing is gated or unmapped under a live core; a hung encoder nobody
  uses is reset.
* **rings and link** - two processors, no lock, one bit per slot; five channels
  and the mailbox on shared doorbell bits. Nothing torn, nothing twice, in
  order, room for every answer, no doorbell lost, one account of the memory
  lent to the firmware.
* **session** - several frames in flight, completions from the interrupt, a
  batch that fails part of the way, headers the firmware writes only in part.
  A result is its own frame's picture; buffers are freed when the firmware is
  done with them and never published after; only a firmware that does not
  answer is declared hung.
* **bring-up** - everything it does outlives the module: a started core stays
  started and its DATA drifts. A core starts only over memory it can run from,
  keeps power and memory while it executes, and can be started again.

## The modules

Algorithms and their proofs:

* `Gop.tla` translates `ave_gop.h` operator by operator. `GopPlanner.tla` is a
  stream of sources seen by the planner alone: each step is one job of
  `ave_run_work_b` (hold, anchor, key, close), with a forced key or the end of a
  drain at any source. `coded` is a history of the frames sent.
* `HevcSets.tla` is the reference sets the host puts in the HEVC SPS
  (`ave_hevc_b_sets`, `ave_hevc_b_set` in `ave_cmd.c`). `GopReferences.tla`
  says of a planner's stream what those sets must do: the firmware picks a set
  by a frame's distance from the IDR alone (`SetRpsVars`, from
  `docs/81-bframes.md`), and every picture of it must still be in a decoded
  picture buffer of two.
* `IpcRing.tla` is one bidirectional ring: two ends, each half-way through a
  send or a receive or idle, on shared slots. `Channel.tla` says what it
  promises with no ring in it, two FIFOs and N credits; `IpcRing` implements it.
* `GopProofs.tla` (the planner and its references) and `IpcRingProofs.tla` prove
  these; `EncStreamProofs.tla`, `StreamSetupProofs.tla`, `BringupProofs.tla`,
  `EncodersProofs.tla`, `IpcLinkProofs.tla` and `SessionProofs.tla` are about the
  modules of those names, below.

The V4L2 node:

* `EncStream.tla` is one running context. Its client (`QbufSource`,
  `QbufCapture`, `ForceKey`, `EncoderStop`, `EncoderStart`, `StreamOn`,
  `StreamOffOut`, `StreamOffCap`) runs between the steps of the work:
  `StartFrame`, `EncodeFrame`, `RemoveSource`, `RemoveCapture` are the one-frame
  path of `ave_run_work`, split wherever it lets go of a queue's spinlock with a
  decision in hand; `StartBatches`, `ClearForceKey`,
  `EncodeBatch`, `RemoveBatch` are the B path (`ave_run_work_b`, `ave_b_batch`);
  `force_key` is read and cleared in separate steps on both. `Suspend` is `ave_v4l2_pm_quiesce`. The m2m
  core (ready queues, drain flags, job scheduling) is the kernel's and is
  modelled from how this driver uses it. The firmware is an outcome: how many
  frames of a job complete, and whether it hangs.
* `StreamSetup.tla` is the same node before, between and at the ends of streams:
  formats and crop (`SFmtOut`, which sets the profile too for ten bits, `SFmtCap`,
  whose buffer size the client may ask to be larger, `SSelection`), the controls
  as the control framework clamps them, REQBUFS and CREATE_BUFS, STREAMON with all it
  refuses, an encode, the stop, and a reboot of the firmware. It EXTENDS
  `Commands.tla`, the Start and Process commands as records (what
  `ave_session.c` puts in, what `ave_cmd.c` refuses, and the fields that go on
  the wire), and through it `SessionBuffers.tla`, the
  memory of a session as operators (what is allocated, kept across streams,
  freed and published). Memory is named for what it is for and the stream it
  was allocated for, so that a freed address is told from its successor.

The firmware's side:

* `Session.tla` is what one encoder's session says to its firmware. A call of
  the V4L2 layer (`EncStart`, `EncEncode`, `EncBatch`, `EndSession`, one at a
  time as under `hw_mutex`) becomes commands. `CmdSend`, `CmdAnswered` and
  `CmdTimeout` are `ave_session_cmd`; what it returns decides what follows
  (`AfterCommand`: Start after Open, Stop after a failed Start, Close after
  Stop). `BatchArm` to `BatchDone` are `ave_session_process_batch`. `IpcRx` is
  `ave_session_ipc_rx`, the interrupt, and may come between any two steps. The
  firmware (`FwBegin`, `FwFrame`, `FwCommand`, `FwHang`) is external: it codes
  the frames in the order sent, a B only after a later anchor, may reject or
  drop a frame or garble its header and goes on with the next, answers Stop when
  it codes nothing, and may hang. The batches come from `Gop`'s operators. An
  answer carries the frame it is about as a history only; the driver sees its
  slot.
* `CodedFrame.tla`, which it EXTENDS, is a slot's coded header and buffer: what
  a picture writes of them (the rest stays as the last picture left it),
  `ave_cmd_coded_length_codec` walking the slice records, and
  `ave_session_process_result` putting slice headers, slices, trimming and
  parameter sets into the caller's stream. IDRs have two slices and other
  pictures one, so that a record left over can be read.
* `IpcLink.tla` is one encoder's link from reset on: the boot thread's waits and
  messages (`ave_ipc_handshake`), the mailbox bit that both it and the handler
  look for, the binding of channels, then the interrupt's drain channel by
  channel, the IO_T2H echo, SHAREDMALLOC's allocations and frees, TERMINAL, and
  `ave_ipc_fini`. A channel is what `Channel` promises.
* `Bringup.tla` is one encoder through loads, removals, re-probes after a hang
  and sleeps: a stage is an action, `par` holds the module parameters, `site`
  what the SoC table and the file system say of it. The machine's part of the
  state (core, DATA, DAPF, leftover mappings and power holders) survives the
  driver's.
* `Encoders.tla` has several encoders and files. A file is open, stopping,
  releasing or unbinding, and has a session or not; an encoder has its counts,
  `fw_hung`, the re-probe's progress, `pm_state`, owner, `client_open`, and the
  hardware: what the core does and whether it has memory and power. `Open` is
  `ave_v4l2_bind`; `StreamOn`, `ProcessTimeout`, `EndSession` are the session as
  `ave_enc_start`, `ave_enc_encode` and `ave_enc_stop` change it; `Remove`,
  `Teardown`, `Probe` are `ave_recover_fn`'s re-probe; `PmPrepare`, `PmQuiesce`,
  `PmHalt`, `PmIdleCheck`, `PmReturn` are `ave_pm_prepare` and `PmBoot`,
  `BootOk`, `BootFails` the resume boot, with `hw_mutex` held where the code
  holds it. The PM chain, the freezer and the devices' suspend are external.

`MCGopPlanner`, `MCIpcLink`, `MCBringup` and `MCStreamSetup` define the values
of constants that a `.cfg` cannot write.

An operator whose name ends in `Bug` is not the code: it is a plausible mistake
in the definition below it, and `PROJECT.json` says which property each must
break when it takes that definition's place.

Where two modules model the same code they split it: `EncStream` has the queues
and not their sizes, `StreamSetup` the sizes and not the contents; `Session` has
the exchange of commands and answers, `Commands` their contents;
`Encoders` has several encoders and the locks between them with a boot as one
step, `Bringup` one encoder and the boot's steps.

## The runs

| run | bounds | what it shows |
|---|---|---|
| `gop_planner` | B 1-2, GOP 0 and 3-6, 12 sources | every stream: twelve sources are four full mini-GOPs, so each kind of batch follows each other kind across a GOP boundary, and the DPB (two pictures) is refilled twice. |
| `enc_stream` | B 0 or 2, GOP 0 or 3, 4 OUTPUT and 3 CAPTURE buffers, 4 sources, 3 STREAMONs, one forced key, one drain, every fault | buffers conserved, LAST, keys, order, no lost wakeup. Three STREAMONs are a session and one restart of a queue; 3 CAPTURE buffers are exactly a mini-GOP, the least the driver asks for; 4 sources are an IDR and a whole mini-GOP. |
| `enc_live` | the same without GOPs and forced keys; errors, hangs and a sleep | `DrainEnds`, `SourceTaken` under fairness. |
| `ipc_ring` | 3 slots, 2 messages, 7 sends | the ring goes round twice and a bit; two messages tell a torn slot from a whole one. The proof lifts the bound. |
| `ipc_link` | 2 slots, 1 TERMINAL slot, 2 interchangeable blocks of which the table holds one, two boots; the firmware says one message on IO, IO_T2H, BUF_T2H and TERMINAL each and three on SHAREDMALLOC | each mailbox message taken once, no doorbell lost, memory accounted for. Three requests for one table entry are a grant, a refusal and a free; the second boot starts on what the first left. |
| `bringup` | 6 encoders, 10 sets of parameters, 3 loads, 2 sleeps, 2 faults | 1.5 million states: starts, power, interrupt, sleep, and what a blob is enough for. Three loads are the first, one over what it left, and one over what an unclean removal left. The parameters are the defaults and, each at least once, every value that changes the control flow; the encoders are those of the SoC table that differ. |
| `encoders` | 2 encoders, 2 files, one hang, one sleep, every fault; no `remove()` under an open file | both files on one node, on two, one moved to the other; a hang before, in and after a sleep. |
| `session` | B 0 (H.264) or 2 (HEVC), at most 5 calls and 3 frames or batches in 2 sessions, 2 faults of six kinds | 5 million states: an IDR and two mini-GOPs use every slot twice, so that a late completion of one batch names a frame of the next; a second session starts after the first, with what it left in `rx` and in the slots. |
| `stream_setup` | default size and one that is no multiple of anything, eight settings, three kinds of lab parameters, one refused allocation of five kinds or one unanswered command, 3 changes and faults in all, 2 starts | 0.6 million states: nothing freed is published, frames fit, what was negotiated starts, the commands fit together. Each setting is the one that meets the others' limits; three of them are needed for the deepest conflict (codec, B frames, profile); a P010 stream is Main 10 unless the client takes that back; two starts are needed for anything stale. |
| `enc_stop_race` | one-frame path, STOP allowed in the completion | finding 1 |
| `setup_stale` | no settings, one refused allocation, two starts | finding 2 |
| `reprobe_race` | 1 encoder, 1 file, one hang, opens after the re-probe is decided | finding 3 |

Passing runs set some constants to keep the findings out of the way, so that
what else is true can be seen: `enc_stream` and `enc_live` have
`StopInCompletion = FALSE` and no source queued during a B-frame drain
(`QbufInDrain = {0}`), `encoders` has `Races = {}` (no `remove()` runs under
a file opened since the re-probe was decided, and no sleep begins between
`remove()` and `probe()`), `stream_setup` refuses no allocation of the three
tables of finding 2. Others say so in the property:
`StreamIsPicture` excepts streams in which a frame outlived its batch,
`BlobSuffices` an owned DATA after a hang, `LiveCoreKept` the places where the
code says it gives up (`GivesUp`). `EncStream` assumes the buffers a B stream
needs (`BuffersAssumption`), which the code does not enforce: `queue_setup`
counts them by B_FRAMES as it is at REQBUFS, and not at all for CREATE_BUFS.

Deadlock is not checked: a client may stop asking, and every bound ends a run.

**Fairness.** `EncStream!FairSpec` has the workqueue run the job to its end
(`system` workqueues do; the encode itself is bounded by the session timeout), a
client that keeps queuing CAPTURE buffers, and a sleeping system that wakes. It
assumes nothing of sources, drains or STREAMON. `Encoders!FairSpec` has the
re-probe and the PM work run (kernel workqueues), the PM core go on (it either
sleeps or gives up, and wakes), and a close that has begun end. A client need
never open, stream or close.

## Findings

1. **A STOP after the last-source check is lost** (`ave_v4l2.c:1366`). Between
   the check and the removal of the source a STOP can name that source as the
   drain's last. LAST is never delivered. Moving the check after the removal, or
   both under the queue lock, closes it.
2. **A table that could not be allocated is published at the last stream's
   addresses** (`ave_session.c:2896`). `n_nbr`, `n_entropy` and
   `n_low_res_result` are not cleared when a stream stops or when their
   allocation fails, so that the next Start names memory that was freed.
   Clearing them with the other caches in `ave_enc_stop` closes it.
3. **An open may bind to an encoder about to be re-probed**
   (`ave_v4l2.c:1447`). `ave_v4l2_unbind` decides the re-probe under the list
   lock, but `ave_v4l2_bind` does not look for one that is scheduled, and
   `remove()` comes later: it unregisters the device and frees it under the
   open file, with a warning. The lock orders the decision with an open, and
   not the removal. Either `bind` refuses an encoder whose re-probe is
   scheduled, or the work looks at `users` again under the lock and takes the
   node off the list in the same critical section.

Also seen, each with its line under `hazards`, and not checked as
violations because the repository promises otherwise only in passing, not at
all, or of a firmware nobody has observed: a key frame requested after the work
has read `force_key` is cleared with the request before it, for as long as a
frame is coded on the one-frame path and for a moment with B frames
(`docs/68-uapi.md:654` says "applies to the next queued OUTPUT buffer"); a B
stream may have fewer buffers than a mini-GOP, and `job_ready` then waits for
buffers that do not exist (`docs/81-bframes.md:645-646` has `queue_setup` raise
them "when B > 0"); with a source queued during a B drain, a
drain may wait on a held source, or a forced key's second batch follow LAST; a sleep may fall
between a re-probe's remove and probe; a batch that is given up leaves its
completions to the next, and a B of it that is coded late may tear a later
frame's buffer; after a failed IDR the B path sends P frames; a Stop that is not
answered leaves the client open and later STREAMONs get EBUSY; an owned DATA
cannot be loaded again after a hang without a reboot.

## The proofs

`GopProofs`: for every subset of B counts the planner supports, every set
of GOP sizes and any number of sources, the invariants of `gop_planner` hold.
None of them is inductive alone. The invariant says what the planner knows of
its history: `coded` is exactly the oldest `planned - n_held` sources; every
number used is at most `fn_anchor`, and `fn_anchor` is a multiple of `nb + 1`
above the last IDR's; `dist` is the distance of the next source from that IDR,
at most the GOP size; the frame before an IDR is an anchor. Each action extends
the history by one batch (or by two), and one lemma about extending by a batch
serves all of them.

Its second part adds the reference sets: a frame's set is in the SPS and
each picture it names is in the DPB (`AlwaysReferencesExist`). Its invariant
says which two anchors the DPB holds by their numbers; it rests on the planner's
invariant for the distances between them.

`IpcRingProofs`: for any number of slots, any messages and any length, the
invariants of `ipc_ring` hold and the ring implements `Channel`. The invariant
counts messages (`nsend`, `nrecv`), says which slot each is in (`k % N`), what
phase each slot shows, and what each end is in the middle of. The refinement
maps the messages between the counters to the FIFOs: `SendPublish` is a send,
`RecvEnd` a receive, the others stutter.

`BringupProofs`: for every encoder, every combination of the module parameters,
and any number of loads, sleeps and faults, `IrqSafe`, `SleepsStopped` and
`LiveCoreKept` hold, and the first half of `StartsRight` (`StartsFresh`). None
is inductive. `Inv` adds, for each place in a load's life, whether the block is
powered and by which holders, whether the line may be on, whether `started`
tells the truth (a failed resume powers off by it), and where the core is known
to have stopped. `LiveCoreKept` then follows action by action: the steps that
take power or memory are at places where `Still` has a stopped core, leave a
holder that `Holding` has, or are on the list of those that give up. `DataInv`
follows DATA from stage 7, which sees the drift and raises `recover`, to stage
13, which restores. The other half of `StartsRight` (`StartsAdmitted`) is true
of the run's parameter sets and not of every combination: after a load with
`stop_after=15 fw_halt=0`, a pulse that loses the DAPF, and a load with
`fw_reload=0` and no blob, the third load finds the running core, captures the
DAPF as it is, and a resume whose DAPF matches that capture asks no more of it
(`ave_dapf_pm_restore`).

`EncodersProofs`: for any set of encoders and any finite set of files, any
faults and any number of hangs and sleeps, `NeverGatesLive`, `UsersCounted`,
`OwnerHasClient` and `AsleepMeansStopped` hold. The invariant has
three layers, each proved with the ones before it. `HwInv` says, for each
combination of `pm_state`, re-probe and place of the PM code, whether the core is
up and mapped and when a block has power: exactly while its boot runs, once a
suspend has stopped it. `NeverGatesLive` follows for every choice of `Races`.
`CountInv` says `ctxs` and `users` are the cardinalities of the files on an
encoder and its node, and that an encoder that is not registered has none:
that needs `"open" \notin Races`, which keeps `remove()` from an encoder with an
open file (finding 3). `OwnerInv` follows an
encoder's owner through stop, release and the PM code, and needs the counts
because a re-probe that found a user would drop his session.
`AsleepMeansStopped` needs only the first layer and `"sleep" \notin Races`.
An encoder's choice takes the least of a set; that there is one is proved from
the library's well-founded order on the naturals.

`IpcLinkProofs`: for any blocks, any number of slots in the table and the
channels, any faults and any number of boots, the four invariants of `ipc_link`
hold, again in three layers. `BootInv` is a table over the places of the boot
thread: how many messages it has taken, what the scratch register can hold, what
`boot_phase` and `ipc_up` say. A message that waits is in one place, the register
with its status bit or the mailbox the handler saves it to, and is the next; the
thread that polls can therefore take it from either. `RingInv` says of each
message in a served channel where its doorbell is: not yet rung, asserted, or in
the snapshot of a handler that has not passed the channel yet. That third place
is why clearing the register at once loses nothing. `ShmInv` keeps the firmware's
memory by name (held, in a reply, in a request, each block once);
`ShmAgrees` counts the same, and its cardinalities are derived from the names
only at the end. Two assumptions are new and the code's: the table's size is a
number, and the pool's own two blocks are not among those the firmware asks for.

`SessionProofs`: for any set of B counts and codecs, any number of calls, batches
and streams, and any faults, `FreedIsQuiet`, `HungIsTrue` and `ResultsOwn` hold
(the last with the type invariant). The invariant has six layers. `StopInv` follows
the answer to a Stop: it is the last one there is, and nothing is left of the frames
from there until a stream is open again. `DueInv` is an inequality: the answers a
call still waits for are at most the frames the firmware has, the answers on the way
and the completions that have come. It survives everything that goes wrong because
late answers only add to the right-hand side; a call that hears nothing more is
therefore one whose frames the firmware keeps. `BoundInv` bounds every frame number,
wherever it is, by the calls made. `AloneInv` is what makes the unchecked echo of a
single frame harmless: without B frames nothing else is ever in flight, so the slot
of the frame was cleared and no other frame is written to it; that holds only until
a timeout, and the code sends nothing more after one. `OutInv` says each result of a
batch is of a frame completed in it, once, and no two frames of a batch have one
number. None of the three excepts what outlived its batch, as `StreamIsPicture` has to.

`EncStreamProofs`: for any controls and faults and any number of buffers, sources,
STREAMONs, requests and drains, all the properties of `enc_stream`. `StreamInv`
is the first of six layers. Sources are numbered, so that what a job has in hand and what it may still remove are intervals above
those given back: taking a batch's sources out of the queue by buffer is then
taking its head off, which is what a lemma about `Without` says. It also says
when a job may be queued (both queues on, something on each) and that the planner
holds no more than is queued, and it needs no assumption about STOP;
`NoLostWakeup` follows action by action.

The other layers suppose that no STOP falls in a completion
(`~StopInCompletion`): that is finding 1, and `enc_stop_race` shows a drain that
never gets its LAST without it. `CaptureInv` says that the CAPTURE buffers the
work counts on are queued; STOP takes one only when nothing is queued to code,
and so from no job. `DrainInv` says that a drain waits for a queued source that
is not past its check, or for a CAPTURE buffer while no job runs. `LastInv` needs
`QbufInDrain \subseteq {0}` besides (no source queued in a drain with B frames;
with one, a forced key's second batch can follow LAST): the drain's last source
is then the last there is, so that the job that stops the context has no batch
after it. `OutInv` bounds the results' sources by those coded; one lemma on
joining a batch to what was delivered before gives `ReorderBounded`.

`KeyInv` is for `KeysInPlace`, which counts frames the client has while the code
counts frames it has decided on, on each path differently. The one-frame path
numbers frames as it codes them: the frames without an IDR that end the results
are at most those since the last number that was due, with one in the work's hand
counted and not yet delivered. The planner counts when it decides: with the batch
still to be coded, those that end the results are at most its `dist`, less the IDR
itself and the sources held; while a job has an IDR to code, which is its last
batch, the GOP's size is the bound. A failed frame or an empty LAST buffer ends a
row, so nothing is assumed of what fails. The property was restated without
`SelectSeq`, a recursive definition the prover cannot use: the first frame
delivered is the one with none delivered before it.

Proving `LastIsFinal` corrected it. It looked at whether the last result had the
LAST flag, which with a second drain may be an earlier drain's; it now says that
nothing but the frame in hand with LAST (`LastInHand`) is delivered once the
context has stopped.

`StreamSetupProofs`: for every size a client may ask for, every setting in its
control's range (`ControlRange`), any set of allocations the kernel refuses and
any number of buffers, streams, frames and faults, the four invariants of
`stream_setup` hold. The invariant has three layers.

* `CtxInv` is the context: what its formats, its crop and its queues promise each
  other, and that a running session was latched from what they still say.
  `SessionGeometry` follows from it and from what the commands put on the wire.
* `MemInv` is the memory. An operation on the two tables of allocations adds at
  their ends or takes off their ends down to a mark (`Grows`, `Longer`,
  `Marked`), so what is in a table stays in it; a start asks for its tables in
  groups, and the lemmas on `Take` say which of them it got. A running stream
  then has every buffer its commands name (`StreamMem`), and, when none of the
  three tables of finding 2 is refused (`TablesGranted`), everything it publishes
  is of this stream (`Given`). `PublishedIsLive` has that hypothesis because
  without it `setup_stale` shows it violated; `StreamsKeepMemory` has not. The
  tables of DMA are never full: Config and the three calls of a start bring at
  most 30 requests, the pictures' arena one more.
* The commands: what is started is what the settings allow, the fields of a Start
  and a Process are functions of it and of the memory, and the builders of both
  codecs accept each frame of either type in every slot (`StartAccepted`,
  `FrameAccepted`). `FirmwareTakesIt` is read off these and needs no hypothesis:
  levels, QP limits, references, sets and tools fit together for every
  combination of settings, not only for the eight of the run.

`NegotiatedStarts` counts the command slots too (`RoomInv`): one for Config, one
for each Open, one for Start, and one for each of the four frames in flight. An
Open that fails keeps its slot until a stream stops. It is proved for at most one
fault (`OneFault`), as the run has it; with two unanswered Opens TLC finds the
fourth frame without a slot, which is the hazard at `ave_session.c:1252`.

The assumptions are the constants' (`NAssumption`, `NBsAssumption`,
`ParamsAssumption`, `SizesAssumption`, `SettingsAssumption`, ...), which TLC
evaluates in the runs: those of `StreamSetup` say that V4L2 gives sizes as
unsigned numbers and no control a value out of its range. Model-checked only: of
`Session`, `StreamIsPicture` and
`CleanNeverFails`, which rest on sums over the slices of a frame (a fold, whose
proof would be by induction over data); of `Bringup`, `StartsAdmitted` and
`BlobSuffices`; and all liveness (`DrainEnds`, `SourceTaken`,
`HungIsRecovered`), which is out of the prover's reach.

## What the models leave out

* Data: pixels, entropy-coded bits, timestamps, register values, addresses.
* `EncStream`: buffers queued before STREAMON; controls other than
  FORCE_KEY_FRAME changed in a stream (the code reads `ctx->gop` live on the
  one-frame path).
* `StreamSetup` and `Commands`: colorimetry, frame rate, levels, the bitrate's
  value, the events' plumbing; alignment and sizes of allocations; lambda tables
  and timeouts; lab parameters other than the final pass and macOS's buffers;
  what is the same in every command. Fields are by name: offsets and widths
  (`ave_abi.h`) are data that `tools/abi_selftest` compares byte by byte.
* `Session`: Config and Halt (`Bringup` has them), allocations that fail
  (`StreamSetup`), system sleep (`Encoders`), the IO acks. A command that the
  firmware will answer is answered before `AVE_SESS_TIMEOUT_MS`: a timeout means
  silence. A hang ends the behaviour; what follows is `Encoders`' and
  `Bringup`'s. The frames after a batch's P that failed may be coded or held.
  The firmware forgets the frames it cancels for Stop without an answer. A
  command that cannot be built counts with the sends that fail.
* `CodedFrame`: the check that an SPS heads the coded buffer of an IDR; the
  firmware asks for one slice per picture, more stands for what the clearing of
  the header is there for.
* `IpcRing`: addresses and sizes; the doorbell (`IpcLink`).
* `IpcLink`: the three BUF channels the host does not serve are one; the text of
  TERMINAL's messages.
* `Bringup`: register values, the reset cookies' checks, the debug parameters
  that only print; the image's format, tags, digests and tunables (whether a
  usable blob is there is `site.blob`); DAPF entries by whose they are.
* `Encoders`: `pm_sleep` 0 and 1, `pm_hung_reset=0`, staged loads and module
  unload (all in `Bringup`); an encoder whose node fails to register. A mutex
  waiter that was overtaken once gets the mutex next, as the kernel's handoff
  does.

Not modelled at all:

* the self-test session (`session_selftest` and its diagnostics): a linear
  script on the commands `Session` has, run from a lab parameter;
* the SMMU/DART watch: an interrupt handler that reports; `Bringup` has that it
  holds power;
* SoC tables, ADT placement, firmware versions: constant tables and parsers;
* tools, ffmpeg patches, overlays, docs, recorded results: not the running
  driver, or text;
* macOS's and the lambda command groups, register sequences: data with no
  behaviour a model would tell apart.

## What is left

Proofs of `StartsAdmitted` and of `BlobSuffices`, which is about where every mapping
of the machine came from. `Session` as an implementation of the outcomes `EncStream` has of the firmware,
and `Bringup` of `Encoders`' `Probe` and `PmBoot`.
