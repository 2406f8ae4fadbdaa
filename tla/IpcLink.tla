------------------------------ MODULE IpcLink ------------------------------
(***************************************************************************)
(* The link between the driver and its firmware (driver/ave_ipc.c): the    *)
(* boot conversation over the scratch mailbox (messages 1 to 5 and the     *)
(* ready flag), then the interrupt that drains the channels, echoes        *)
(* IO_T2H, serves SHAREDMALLOC and reads TERMINAL.  The interrupt is live  *)
(* from the start, so the boot thread's poll and the handler both look     *)
(* for the mailbox bit.                                                    *)
(*                                                                         *)
(* A channel is what Channel.tla promises and IpcRing implements: two      *)
(* FIFOs and a fixed number of slots.  TERMINAL's unidirectional ring has  *)
(* its slots here.  The firmware is external: it speaks when the protocol  *)
(* has it speak, and may fall silent, send a bad message or describe a     *)
(* channel wrongly.                                                        *)
(***************************************************************************)
EXTENDS Integers, Sequences, FiniteSets

CONSTANTS Slots,     \* slots of a bidirectional channel
          TermSlots, \* slots of TERMINAL
          Blocks,    \* allocations the firmware can hold
          ShmMax,    \* AVE_SHMALLOC_MAX
          Lenient,   \* boot_lenient
          Speaks,    \* bound: channel -> messages its odd end sends
          MaxBoots   \* bound: boots
ASSUME SlotsAssumption == Slots \in Nat \ {0} /\ TermSlots \in Nat \ {0}
ASSUME LenientAssumption == Lenient \in BOOLEAN
ASSUME ShmMaxAssumption == ShmMax \in Nat
ASSUME BlocksAssumption == {"chanmem", "ipcinfo", "null"} \cap Blocks = {}

\* 13.5's channels.  BUF_T2H stands for the three the host does not serve.
IO == 1   IO_T2H == 2   SHAREDMALLOC == 3   TERMINAL == 4   BUF_T2H == 7
Chans == {IO, IO_T2H, SHAREDMALLOC, TERMINAL, BUF_T2H}
Rings == Chans \ {TERMINAL}
ChMax == 8
\* Doorbell bits: the mailbox's is TERMINAL's too, and three channels share 3.
Mbox == 0
DoorbellBit == [c \in Chans |-> CASE c = TERMINAL -> 0 [] c = IO -> 1 [] OTHER -> 3]
Bits == {DoorbellBit[c] : c \in Chans}

VARIABLES
  at,      \* where the boot thread is
  phase,   \* boot_phase
  msg1,    \* message 1 as kept
  taken,   \* history: the messages ave_recv_iop_msg returned in this boot
  scratch, \* scratch 0..3
  status,  \* SVE interrupt status
  mbox,    \* a message the handler captured (mbox_pending), or None
  up,      \* ipc_up
  bound,   \* channels bound
  irq,     \* the handler: its snapshot of status, the channel it is at (0: idle)
  chan,    \* ring -> [out, owed, back]: odd to even, owed by the even end, back
  term,    \* TERMINAL's slots and cursors
  pool,    \* what is allocated in FwIPC
  sized,   \* chanmem_size is set
  leaked,  \* ave_ipc_fini left the pool behind
  shm,     \* SHAREDMALLOC's table: the blocks tracked
  unserved,\* requests that failed: the firmware waits for ever
  fw,      \* where the firmware is
  holds,   \* blocks it was given
  ring,    \* the doorbell of what it has just published, or none
  said, boots, faults
driver   == << at, phase, msg1, taken, bound >>
mailbox  == << scratch, mbox >>
rings    == << chan, term >>
memory   == << pool, sized, leaked, shm, unserved >>
firmware == << fw, holds, ring, said >>
vars == << driver, mailbox, status, up, irq, rings, memory, firmware, boots, faults >>

None == [k |-> 0]
Msg(k) == [k |-> k]
\* Message 1: channels, size of the channel block in descriptors, version.
Msg1s == [k : {1}, nch : 0 .. 3, chsz : 0 .. 3, ver : BOOLEAN]
ExpectNch == 2
ExpectChsz == 3
MaxChannels == 2
Expected == [k |-> 1, nch |-> ExpectNch, chsz |-> ExpectChsz, ver |-> TRUE]

NoLines == [slot |-> [i \in 0 .. TermSlots - 1 |-> "free"], rd |-> 0, wr |-> 0]
Empty == [c \in Rings |-> [out |-> << >>, owed |-> 0, back |-> << >>]]

Init ==
  /\ at = "idle" /\ phase = "IDLE" /\ msg1 = None /\ taken = << >>
  /\ scratch = None /\ status = {} /\ mbox = None /\ up = FALSE /\ bound = {}
  /\ irq = [status |-> {}, id |-> 0]
  /\ chan = Empty /\ term = NoLines
  /\ pool = {} /\ sized = FALSE /\ leaked = FALSE /\ shm = {} /\ unserved = 0
  /\ fw = "off" /\ holds = {} /\ ring = {} /\ said = [c \in Chans |-> 0]
  /\ boots = 0 /\ faults = {}

-----------------------------------------------------------------------------
(* The boot thread.                                                        *)

\* ave_boot_config, then the core is released.
BootConfig ==
  /\ at = "idle" /\ boots < MaxBoots
  /\ boots' = boots + 1 /\ faults' = {}
  /\ mbox' = None /\ up' = FALSE /\ phase' = "ARGS_WRITTEN"
  /\ scratch' = Msg(0) /\ at' = "early" /\ taken' = << >> /\ msg1' = None
  /\ fw' = "booting"
  /\ UNCHANGED << status, bound, irq, rings, memory, holds, ring, said >>

Waiting == at \in {"early", "recv1", "recv3", "recv5"}
\* The early read of message 1 leads to the handshake, which does not wait
\* for it a second time.
AfterRecv == CASE at = "early" -> "check1" [] at = "recv1" -> "check1"
               [] at = "recv3" -> "alloc"  [] at = "recv5" -> "bind"

\* A round of ave_recv_iop_msg, under ipc_lock: the handler's message if it
\* has one, else the status bit, cleared before scratch is read.
NotClearedBug == status
Cleared == status \ {Mbox}
RecvMsg ==
  /\ Waiting
  /\ \/ mbox # None /\ taken' = Append(taken, mbox) /\ mbox' = None /\ UNCHANGED status
     \/ /\ mbox = None /\ Mbox \in status
        /\ taken' = Append(taken, scratch) /\ status' = Cleared /\ UNCHANGED mbox
  /\ IF phase = "ARGS_WRITTEN"
     THEN phase' = "MSG1" /\ msg1' = taken'[Len(taken')]
     ELSE UNCHANGED << phase, msg1 >>
  /\ at' = AfterRecv
  /\ UNCHANGED << scratch, up, bound, irq, rings, memory, firmware, boots, faults >>

\* ave_ipc_handshake's failure path.
Fails == at' = "failed" /\ up' = FALSE /\ phase' = "FAILED"

\* No message in time.  That is a fault of the firmware's if it has not sent
\* the one awaited.
Awaited == CASE at = "recv3" -> "sent1" [] at = "recv5" -> "sent3" [] OTHER -> "booting"
RecvTimeout ==
  /\ Waiting /\ mbox = None /\ Mbox \notin status
  /\ IF at = "early" THEN at' = "recv1" /\ UNCHANGED << phase, up >> ELSE Fails
  /\ faults' = IF fw \in {Awaited, "silent"} THEN faults \cup {"slow"} ELSE faults
  /\ UNCHANGED << msg1, taken, mailbox, status, bound, irq, rings, memory, firmware, boots >>

\* ave_boot_check_msg1 and ave_boot_check_msg1_log.
Rejected(m) == m.nch \notin 1 .. MaxChannels \/ m.chsz = 0 \/ ~m.ver
TooShort(m) == m.nch \in 1 .. MaxChannels /\ m.chsz < m.nch
Unexpected(m) == m.nch # ExpectNch \/ m.chsz # ExpectChsz
Accepts(m) == ~Rejected(m) /\ ~TooShort(m) /\ (Unexpected(m) => Lenient)

\* Message 2, FwIPC's address: scratch, then the doorbell.
CheckMsg1 ==
  /\ at = "check1"
  /\ IF Accepts(msg1)
     THEN at' = "recv3" /\ scratch' = Msg(2) /\ UNCHANGED << phase, up >>
     ELSE Fails /\ UNCHANGED scratch
  /\ UNCHANGED << msg1, taken, mbox, status, bound, irq, rings, memory, firmware,
                  boots, faults >>

\* The channel block, then the info block; message 4 says where they are.
\* Their sizes are set once both exist.
SendMsg4 ==
  /\ at = "alloc"
  /\ \/ /\ pool' = pool \cup {"chanmem", "ipcinfo"} /\ sized' = TRUE
        /\ at' = "recv5" /\ scratch' = Msg(4) /\ UNCHANGED << phase, up, faults >>
     \/ /\ \E got \in {{}, {"chanmem"}, {"ipcinfo"}} : pool' = pool \cup got
        /\ Fails /\ faults' = faults \cup {"memory"} /\ UNCHANGED << scratch, sized >>
  /\ UNCHANGED << msg1, taken, mbox, status, bound, irq, rings, leaked, shm,
                  unserved, firmware, boots >>

\* ave_boot_bind: each descriptor in turn; a bad one leaves those before it
\* bound.  The client buffer's size is looked at after all are bound.
Bind ==
  /\ at = "bind"
  /\ \/ bound' = Chans /\ at' = "flip" /\ UNCHANGED << phase, up, faults >>
     \/ /\ \E some \in SUBSET Chans : bound' = some
        /\ Fails /\ faults' = faults \cup {"descriptor"}
  /\ UNCHANGED << msg1, taken, mailbox, status, irq, rings, memory, firmware, boots >>

\* The handler is flipped to doorbells before the flag is written.
UpBeforeFlag == TRUE
FlipUp ==
  /\ at = "flip" /\ up' = UpBeforeFlag /\ mbox' = None /\ at' = "flag"
  /\ UNCHANGED << phase, msg1, taken, scratch, status, bound, irq, rings, memory,
                  firmware, boots, faults >>

ReadyFlag ==
  /\ at = "flag" /\ scratch' = Msg(6) /\ at' = "poll"
  /\ UNCHANGED << phase, msg1, taken, mbox, status, up, bound, irq, rings, memory,
                  firmware, boots, faults >>

PollReady ==
  /\ at = "poll"
  /\ \/ /\ scratch = None
        /\ phase' = "READY" /\ up' = TRUE /\ at' = "up"
        /\ UNCHANGED faults
     \/ scratch # None /\ Fails /\ faults' = faults \cup {"slow"}
  /\ UNCHANGED << msg1, taken, mailbox, status, bound, irq, rings, memory, firmware, boots >>

\* ave_power_off and then ave_ipc_fini: no handler runs any more, status is
\* acknowledged, the core is gone.  The pool is destroyed only if everything
\* came back to it; an object whose size was never set does not.
Freed == shm \cup {"ipcinfo"} \cup (IF sized THEN {"chanmem"} ELSE {})
Teardown ==
  /\ at \in {"failed", "up"} /\ irq.id = 0
  /\ at' = "idle" /\ phase' = "IDLE" /\ up' = FALSE /\ mbox' = None /\ bound' = {}
  /\ status' = {} /\ shm' = {} /\ pool' = {}
  /\ leaked' = (pool \ Freed # {})
  /\ chan' = Empty /\ term' = NoLines /\ unserved' = 0
  /\ fw' = "off" /\ holds' = {} /\ ring' = {}
  /\ UNCHANGED << msg1, taken, scratch, irq, sized, said, boots, faults >>

-----------------------------------------------------------------------------
(* The interrupt handler (ave_irq_handler, ave_ipc_irq_dispatch).          *)

EatenBug == mbox
Captured == IF ~up /\ Mbox \in status THEN scratch ELSE mbox
\* Under ipc_lock: a mailbox message is kept while the link is not up, the
\* whole status is cleared, and what to drain is decided.
IrqEnter ==
  /\ irq.id = 0 /\ status # {}
  /\ mbox' = Captured
  /\ status' = {}
  /\ irq' = IF up THEN [status |-> status, id |-> 1] ELSE irq
  /\ UNCHANGED << driver, scratch, up, rings, memory, firmware, boots, faults >>

FirstOfBitBug(c) ==
  /\ c \in bound /\ DoorbellBit[c] \in irq.status
  /\ \A d \in Chans : d < c => DoorbellBit[d] # DoorbellBit[c]
Drains(c) == c \in bound /\ DoorbellBit[c] \in irq.status
NextChan == [irq EXCEPT !.id = (@ + 1) % ChMax, !.status = IF irq.id = ChMax - 1 THEN {} ELSE @]

\* What the host reads of a ring: its own messages come back on IO.
Inbox(c) == IF c = IO THEN chan[c].back ELSE chan[c].out
HasMessage(c) == IF c = TERMINAL THEN term.slot[term.rd] = "line" ELSE Inbox(c) # << >>

SkipChannel ==
  /\ irq.id # 0
  /\ ~(irq.id \in Chans /\ Drains(irq.id) /\ HasMessage(irq.id))
  /\ irq' = NextChan
  /\ UNCHANGED << driver, mailbox, status, up, rings, memory, firmware, boots, faults >>

At(c) == irq.id = c /\ Drains(c) /\ HasMessage(c)

\* IO: an acknowledgement.
DrainIO ==
  /\ At(IO)
  /\ chan' = [chan EXCEPT ![IO].back = Tail(@)]
  /\ UNCHANGED << driver, mailbox, status, up, irq, term, memory, firmware, boots, faults >>

\* IO_T2H: echoed, then handed to the session.
DrainT2H ==
  /\ At(IO_T2H)
  /\ chan' = [chan EXCEPT ![IO_T2H].out = Tail(@),
                          ![IO_T2H].back = Append(@, Head(chan[IO_T2H].out))]
  /\ UNCHANGED << driver, mailbox, status, up, irq, term, memory, firmware, boots, faults >>

\* ave_ipc_shmalloc.  A free is answered whether or not the block was
\* tracked; a request that cannot be met is not.
ShmReply(m) == chan' = [chan EXCEPT ![SHAREDMALLOC].out = Tail(@),
                                         ![SHAREDMALLOC].back = Append(@, m)]
StaysTrackedBug(b) == shm
ForgetsBlock(b) == shm \ {b}
ShmFree ==
  /\ At(SHAREDMALLOC)
  /\ LET b == Head(chan[SHAREDMALLOC].out).b IN
       /\ b \in Blocks
       /\ shm' = ForgetsBlock(b)
       /\ pool' = IF b \in shm THEN pool \ {b} ELSE pool
       /\ ShmReply([b |-> b, size |-> 0])
  /\ UNCHANGED << driver, mailbox, status, up, irq, term, sized, leaked, unserved, firmware,
                  boots, faults >>

FreeBlocks == Blocks \ pool
Fits == Cardinality(shm) < ShmMax
ShmAlloc ==
  /\ At(SHAREDMALLOC)
  /\ Head(chan[SHAREDMALLOC].out).b \notin Blocks
  /\ \/ \E b \in FreeBlocks :
          /\ Fits
          /\ pool' = pool \cup {b} /\ shm' = shm \cup {b}
          /\ ShmReply([b |-> b, size |-> 1])
          /\ UNCHANGED unserved
     \/ /\ unserved' = unserved + 1
        /\ chan' = [chan EXCEPT ![SHAREDMALLOC].out = Tail(@), ![SHAREDMALLOC].owed = @ + 1]
        /\ UNCHANGED << pool, shm >>
  /\ UNCHANGED << driver, mailbox, status, up, irq, term, sized, leaked, firmware,
                  boots, faults >>

\* TERMINAL, ave_ring_urecv: the slot is handed back, with no doorbell.
DrainTerminal ==
  /\ At(TERMINAL)
  /\ term' = [term EXCEPT !.slot[term.rd] = "free", !.rd = (@ + 1) % TermSlots]
  /\ UNCHANGED << driver, mailbox, status, up, irq, chan, memory, firmware, boots, faults >>

\* Any other channel: one message is consumed and the rest is left.
DrainOther ==
  /\ At(BUF_T2H)
  /\ chan' = [chan EXCEPT ![BUF_T2H].out = Tail(@), ![BUF_T2H].owed = @ + 1]
  /\ irq' = NextChan
  /\ UNCHANGED << driver, mailbox, status, up, term, memory, firmware, boots, faults >>

-----------------------------------------------------------------------------
(* ave_ipc_send: only a booted link takes commands.                        *)

Outstanding(c) == Len(chan[c].out) + chan[c].owed + Len(chan[c].back)
IpcSend ==
  /\ phase = "READY" /\ at = "up" /\ said[IO] < Speaks[IO]
  /\ Outstanding(IO) < Slots
  /\ chan' = [chan EXCEPT ![IO].out = Append(@, [b |-> "cmd", size |-> 1])]
  /\ said' = [said EXCEPT ![IO] = @ + 1]
  /\ UNCHANGED << driver, mailbox, status, up, irq, term, memory, fw, holds, ring,
                  boots, faults >>

-----------------------------------------------------------------------------
(* The firmware (external).                                                *)

FwSpeak(k, m) ==
  /\ scratch' = m /\ fw' = k /\ status' = status \cup {Mbox}
  /\ UNCHANGED << driver, mbox, up, irq, rings, memory, holds, ring, said, boots >>

FwBoots == /\ fw = "booting"
           /\ \/ FwSpeak("sent1", Expected) /\ UNCHANGED faults
              \/ \E m \in Msg1s \ {Expected} :
                   FwSpeak("sent1", m) /\ faults' = faults \cup {"msg1"}
FwMaps ==  /\ fw = "sent1" /\ scratch = Msg(2)
           /\ FwSpeak("sent3", Msg(3)) /\ UNCHANGED faults
FwBuilds == /\ fw = "sent3" /\ scratch = Msg(4)
            /\ FwSpeak("sent5", Msg(5)) /\ UNCHANGED faults
FwReady == /\ fw = "sent5" /\ scratch = Msg(6)
           /\ scratch' = None /\ fw' = "running"
           /\ UNCHANGED << driver, mbox, status, up, irq, rings, memory, holds, ring,
                           said, boots, faults >>
FwSilent == /\ fw \notin {"off", "silent"} /\ ring = {}
            /\ fw' = "silent" /\ faults' = faults \cup {"silent"}
            /\ UNCHANGED << driver, mailbox, status, up, irq, rings, memory, holds,
                            ring, said, boots >>

\* Publishes on a channel; the doorbell comes after.
FwPublishes(c) ==
  /\ fw = "running" /\ ring = {} /\ ring' = {DoorbellBit[c]}
  /\ said[c] < Speaks[c] /\ said' = [said EXCEPT ![c] = @ + 1]
  /\ UNCHANGED << driver, mailbox, status, up, irq, memory, fw, boots, faults >>
FwSend(c, m) ==
  /\ Outstanding(c) < Slots
  /\ chan' = [chan EXCEPT ![c].out = Append(@, m)] /\ UNCHANGED term
FwNotify == \E c \in {IO_T2H, BUF_T2H} :
              FwPublishes(c) /\ FwSend(c, [b |-> "msg", size |-> 1]) /\ UNCHANGED holds
FwMalloc == /\ FwPublishes(SHAREDMALLOC) /\ FwSend(SHAREDMALLOC, [b |-> "null", size |-> 1])
            /\ UNCHANGED holds
FwFree == \E b \in holds :
            /\ FwPublishes(SHAREDMALLOC) /\ FwSend(SHAREDMALLOC, [b |-> b, size |-> 0])
            /\ holds' = holds \ {b}
\* ave_ring_usend: into a slot the host has handed back.
FwLog == /\ FwPublishes(TERMINAL) /\ term.slot[term.wr] = "free"
         /\ term' = [term EXCEPT !.slot[term.wr] = "line", !.wr = (@ + 1) % TermSlots]
         /\ UNCHANGED << chan, holds >>
FwDoorbell == /\ ring # {} /\ status' = status \cup ring /\ ring' = {}
              /\ UNCHANGED << driver, mailbox, up, irq, rings, memory, fw, holds, said,
                              boots, faults >>
\* Takes a command and acknowledges it.
FwAck == /\ fw = "running" /\ ring = {} /\ chan[IO].out # << >>
         /\ chan' = [chan EXCEPT ![IO].out = Tail(@), ![IO].back = Append(@, Head(chan[IO].out))]
         /\ ring' = {DoorbellBit[IO]}
         /\ UNCHANGED << driver, mailbox, status, up, irq, term, memory, fw, holds, said,
                         boots, faults >>
FwTakes == \E c \in {IO_T2H, SHAREDMALLOC} :
             /\ fw = "running" /\ chan[c].back # << >>
             /\ chan' = [chan EXCEPT ![c].back = Tail(@)]
             /\ holds' = IF c = SHAREDMALLOC /\ Head(chan[c].back).size # 0
                         THEN holds \cup {Head(chan[c].back).b} ELSE holds
             /\ UNCHANGED << driver, mailbox, status, up, irq, term, memory, fw, ring,
                             said, boots, faults >>

-----------------------------------------------------------------------------

Boot == BootConfig \/ RecvMsg \/ RecvTimeout \/ CheckMsg1 \/ SendMsg4 \/ Bind
        \/ FlipUp \/ ReadyFlag \/ PollReady \/ Teardown
Irq == IrqEnter \/ SkipChannel \/ DrainIO \/ DrainT2H \/ ShmFree \/ ShmAlloc
       \/ DrainTerminal \/ DrainOther
Firmware == FwBoots \/ FwMaps \/ FwBuilds \/ FwReady \/ FwSilent \/ FwNotify
            \/ FwMalloc \/ FwFree \/ FwLog \/ FwDoorbell \/ FwAck \/ FwTakes
Next == Boot \/ Irq \/ IpcSend \/ Firmware
Spec == Init /\ [][Next]_vars

-----------------------------------------------------------------------------

Requests == chan[SHAREDMALLOC].out
Replies == chan[SHAREDMALLOC].back

TypeOK ==
  /\ at \in {"idle", "early", "recv1", "check1", "recv3", "alloc", "recv5", "bind",
             "flip", "flag", "poll", "up", "failed"}
  /\ phase \in {"IDLE", "ARGS_WRITTEN", "MSG1", "READY", "FAILED"}
  /\ status \subseteq Bits /\ up \in BOOLEAN /\ bound \subseteq Chans
  /\ irq.status \subseteq Bits /\ irq.id \in 0 .. ChMax - 1
  /\ \A c \in Rings : Outstanding(c) <= Slots
  /\ pool \subseteq Blocks \cup {"chanmem", "ipcinfo"} /\ Cardinality(shm) <= ShmMax
  /\ ring \subseteq Bits

\* The boot thread's poll and the handler both see the mailbox bit, and yet
\* each message of the firmware's is taken once, in order: what was sent and
\* not taken is in the handler's hands or still asserted.
FwSaid == CASE fw = "sent1" -> 1 [] fw = "sent3" -> 2 [] fw = "sent5" -> 3
MailboxOnce ==
  /\ \A i \in DOMAIN taken : taken[i].k = 2 * i - 1
  /\ fw \in {"sent1", "sent3", "sent5"} =>
       FwSaid = Len(taken) + Cardinality({m \in {mbox} : m # None})
                + Cardinality(status \cap {Mbox})

\* A boot fails only when something did: the firmware was late or silent,
\* sent a bad message or descriptor, or memory ran out.
FailsOnlyOnFault == phase = "FAILED" => faults # {}

\* When no handler runs and no doorbell is asserted or about to be, nothing
\* waits in a channel the host serves, although three channels share a bit
\* and one doorbell may stand for many messages.
NoLostDoorbell ==
  up /\ irq.id = 0 /\ ring = {} =>
    \A c \in bound \ {BUF_T2H} : HasMessage(c) => DoorbellBit[c] \in status

\* The pool is left behind only when a boot had one of the two blocks of
\* message 4 and not the other.
PoolReturned == at = "idle" /\ leaked => ~sized /\ "memory" \in faults

\* The table has exactly the blocks taken from the pool, each in one place:
\* with the firmware, on its way to it, or on its way back.  The only slots
\* of SHAREDMALLOC the firmware does not get back are those of requests that
\* failed.
Granted == {i \in DOMAIN Replies : Replies[i].size # 0}
Returned == {i \in DOMAIN Requests : Requests[i].b \in Blocks}
ShmAgrees ==
  /\ TypeOK /\ PoolReturned
  /\ shm = pool \cap Blocks
  /\ shm = holds \cup {Replies[i].b : i \in Granted}
                 \cup {Requests[i].b : i \in Returned}
  /\ Cardinality(shm) = Cardinality(holds) + Cardinality(Granted) + Cardinality(Returned)
  /\ chan[SHAREDMALLOC].owed = unserved
=============================================================================
