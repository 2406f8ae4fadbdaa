-------------------------- MODULE IpcLinkProofs --------------------------
(***************************************************************************)
(* What IpcLink keeps for any blocks, any capacities of the table and the  *)
(* channels, any faults and any number of boots, in three layers, each of  *)
(* which uses the one before it.                                           *)
(*                                                                         *)
(* BootInv is the conversation that the boot thread, the handler and the   *)
(* firmware have through two scratch registers and one status bit: where   *)
(* the boot thread is fixes how many messages it has taken and what        *)
(* scratch can hold, and at most one message waits, in the register or in  *)
(* the handler's mailbox.  MailboxOnce and FailsOnlyOnFault follow.        *)
(*                                                                         *)
(* RingInv is the channels: a message that nobody has read has a doorbell  *)
(* not yet rung, asserted, or in the snapshot of a handler that has not    *)
(* passed its channel yet.  NoLostDoorbell follows.                        *)
(*                                                                         *)
(* ShmInv is the firmware's memory: each block of the table is held, in a  *)
(* reply or in a request, named once.  ShmAgrees counts them.              *)
(***************************************************************************)
EXTENDS IpcLink, TLAPS, FiniteSetTheorems

\* What scratch can hold: a message by its number, or message 1 with its fields.
Messages == {Msg(k) : k \in 0 .. 6} \cup Msg1s
\* What a channel can carry.
Items == [b : Blocks \cup {"cmd", "msg", "null"}, size : {0, 1}]

-----------------------------------------------------------------------------
\* The first layer: the boot conversation.

\* How many messages the boot thread has taken.
Taken == Len(taken)
\* The handler has saved a message that is not taken.
Kept == mbox # None
\* The mailbox bit is asserted: scratch holds a message that is not taken.
Rung == Mbox \in status

\* The types of what the boot conversation uses.
BootTypes ==
  /\ at \in {"idle", "early", "recv1", "check1", "recv3", "alloc", "recv5", "bind",
             "flip", "flag", "poll", "up", "failed"}
  /\ fw \in {"off", "booting", "sent1", "sent3", "sent5", "running", "silent"}
  /\ scratch \in Messages /\ mbox \in Messages
  /\ taken \in Seq(Messages)
  /\ Taken \in 0 .. 3
  /\ up \in BOOLEAN /\ bound \subseteq Chans
  /\ status \subseteq Bits /\ ring \subseteq Bits

\* What has been taken where the boot thread is.
AtTaken ==
  /\ at \in {"early", "recv1"} => Taken = 0
  /\ at \in {"check1", "recv3"} => Taken = 1
  /\ at \in {"alloc", "recv5"} => Taken = 2
  /\ at \in {"bind", "flip", "flag", "poll", "up"} => Taken = 3

\* What scratch can hold there: the last message of either side.
AtScratch ==
  /\ at \in {"early", "recv1"} => scratch.k \in {0, 1}
  /\ at = "check1" => scratch.k = 1
  /\ at = "recv3" => scratch.k \in {2, 3}
  /\ at = "alloc" => scratch.k = 3
  /\ at = "recv5" => scratch.k \in {4, 5}
  /\ at \in {"bind", "flip", "flag"} => scratch.k = 5
  /\ at = "failed" =>
       /\ Taken = 0 => scratch.k \in {0, 1}
       /\ Taken = 1 => scratch.k \in {1, 2, 3}
       /\ Taken = 2 => scratch.k \in {3, 4, 5}

\* What boot_phase and ipc_up say there.
AtPhase ==
  /\ at = "idle" => phase = "IDLE"
  /\ at \in {"early", "recv1"} => phase = "ARGS_WRITTEN"
  /\ at \in {"check1", "recv3", "alloc", "recv5", "bind", "flip", "flag", "poll"} =>
       phase = "MSG1"
  /\ at = "up" => phase = "READY"
  /\ at = "failed" => phase = "FAILED"
  /\ up <=> at \in {"flag", "poll", "up"}

\* Before the last message is taken at most one waits, in one place, and it is the
\* next.
OneWaits ==
  fw # "off" /\ Taken <= 2 =>
    /\ ~(Kept /\ Rung)
    /\ Kept => mbox.k = 2 * Taken + 1
    /\ Kept \/ Rung => scratch.k = 2 * Taken + 1

\* What the firmware has sent is taken or waits.
FwCounts ==
  /\ fw = "off" <=> at = "idle"
  /\ fw = "off" => ~Kept /\ ~Rung
  /\ fw = "booting" => Taken = 0 /\ ~Kept /\ ~Rung
  /\ fw = "sent1" => (Taken = 0 /\ (Kept \/ Rung)) \/ (Taken = 1 /\ ~Kept /\ ~Rung)
  /\ fw = "sent3" => (Taken = 1 /\ (Kept \/ Rung)) \/ (Taken = 2 /\ ~Kept /\ ~Rung)
  /\ fw = "sent5" => (Taken = 2 /\ (Kept \/ Rung)) \/ (Taken = 3 /\ ~Kept /\ ~Rung)
  /\ fw = "running" => Taken = 3 /\ at \in {"poll", "up", "failed"}
  /\ ring # {} => fw = "running"

\* A message 1 other than the one expected is a fault of the firmware's.
GoodMsg1(m) == m.k = 1 => m = Expected \/ "msg1" \in faults
Msg1Good ==
  /\ GoodMsg1(scratch) /\ GoodMsg1(mbox)
  /\ at = "check1" => msg1.k = 1 /\ GoodMsg1(msg1)
\* So is silence, and a failure has a reason.
Reasons == phase = "FAILED" \/ fw = "silent" => faults # {}

\* The messages taken are the firmware's, in order.
InOrder == \A i \in DOMAIN taken : taken[i].k = 2 * i - 1

\* The first layer.
BootInv ==
  /\ BootTypes /\ AtTaken /\ AtScratch /\ AtPhase /\ OneWaits /\ FwCounts
  /\ Msg1Good /\ Reasons /\ InOrder

-----------------------------------------------------------------------------
\* The second layer: channels and doorbells.

\* A bidirectional channel.
Ring == [out : Seq(Items), owed : Nat, back : Seq(Items)]
Size(r) == Len(r.out) + r.owed + Len(r.back)
\* The types of the channels.
ChanTypes == chan \in [Rings -> Ring] /\ \A c \in Rings : Size(chan[c]) <= Slots
\* The types of TERMINAL and of the handler.
TermTypes ==
  /\ term \in [slot : [0 .. TermSlots - 1 -> {"free", "line"}],
               rd : 0 .. TermSlots - 1, wr : 0 .. TermSlots - 1]
  /\ irq \in [status : SUBSET Bits, id : 0 .. ChMax - 1]

\* Nothing is in a channel before the ready flag.
Quiet ==
  /\ at \notin {"poll", "up", "failed"} => chan = Empty /\ term = NoLines
  /\ at \notin {"flag", "poll", "up", "failed"} => irq.id = 0

\* Doorbells the handler has taken and will yet look at channel c for.
Pending(c) == IF irq.id # 0 /\ irq.id <= c THEN irq.status ELSE {}
\* A message has a doorbell: not yet rung, asserted, or in the handler's hands.
Heard == up => \A c \in bound \ {BUF_T2H} :
                 HasMessage(c) => DoorbellBit[c] \in ring \cup status \cup Pending(c)

\* The second layer.
RingInv == ChanTypes /\ TermTypes /\ Quiet /\ Heard

-----------------------------------------------------------------------------
\* The third layer: SHAREDMALLOC.

\* Blocks granted by the replies of s, and returned by the requests of s.
Grants(s) == {s[i].b : i \in {i \in DOMAIN s : s[i].size # 0}}
Frees(s) == {s[i].b : i \in {i \in DOMAIN s : s[i].b \in Blocks}}
\* None is named twice.
GrantsOnce(s) ==
  \A i, j \in DOMAIN s : s[i].size # 0 /\ s[j].size # 0 /\ s[i].b = s[j].b => i = j
FreesOnce(s) ==
  \A i, j \in DOMAIN s : s[i].b \in Blocks /\ s[i].b = s[j].b => i = j

\* The table against the pool.
TableInv ==
  /\ pool \subseteq Blocks \cup {"chanmem", "ipcinfo"}
  /\ shm = pool \cap Blocks /\ IsFiniteSet(shm) /\ Cardinality(shm) <= ShmMax
  /\ at = "idle" => pool = {}
\* The table against the firmware's blocks, each in one place.
PlacesInv ==
  /\ shm = holds \cup Grants(Replies) \cup Frees(Requests)
  /\ holds \cap Grants(Replies) = {} /\ holds \cap Frees(Requests) = {}
  /\ Grants(Replies) \cap Frees(Requests) = {}
  /\ GrantsOnce(Replies) /\ FreesOnce(Requests)
  /\ unserved = chan[SHAREDMALLOC].owed
\* The pool comes back.
PoolInv ==
  /\ PoolReturned
  /\ "chanmem" \in pool /\ ~sized => "memory" \in faults
  /\ sized \in BOOLEAN

\* The third layer.
ShmInv == TableInv /\ PlacesInv /\ PoolInv
-----------------------------------------------------------------------------

\* Messages by their numbers.
LEMMA MessageFacts ==
  /\ Msg(0) \in Messages /\ Msg(2) \in Messages /\ Msg(3) \in Messages
  /\ Msg(4) \in Messages /\ Msg(5) \in Messages /\ Msg(6) \in Messages
  /\ Msg(0).k = 0 /\ Msg(2).k = 2 /\ Msg(3).k = 3
  /\ Msg(4).k = 4 /\ Msg(5).k = 5 /\ Msg(6).k = 6
  /\ \A m \in Messages : m.k \in 0 .. 6
  /\ None \in Messages /\ None.k = 0
  /\ Expected \in Messages /\ Expected.k = 1
  /\ \A m \in Msg1s : m \in Messages /\ m.k = 1
  /\ Mbox \in Bits
<1>1. \A k \in 0 .. 6 : Msg(k) \in Messages /\ Msg(k).k = k BY DEF Messages, Msg
<1>2. \A m \in Msg1s : m \in Messages /\ m.k = 1 BY DEF Messages, Msg1s
<1>3. \A m \in Messages : m.k \in 0 .. 6 BY <1>1, <1>2 DEF Messages
<1>4. None = Msg(0) BY DEF None, Msg
<1>5. Expected \in Msg1s BY DEF Expected, Msg1s, ExpectNch, ExpectChsz
<1>6. Mbox \in Bits
  BY DEF Mbox, Bits, Chans, DoorbellBit, TERMINAL, IO, IO_T2H, SHAREDMALLOC, BUF_T2H
<1> QED BY <1>1, <1>2, <1>3, <1>4, <1>5, <1>6

\* Taking a message.
LEMMA TakenGrows ==
  ASSUME NEW m \in Messages, taken \in Seq(Messages), taken' = Append(taken, m)
  PROVE  /\ taken' \in Seq(Messages) /\ Taken' = Taken + 1 /\ Taken \in Nat
         /\ taken'[Taken + 1] = m
         /\ \A i \in 1 .. Taken : taken'[i] = taken[i]
         /\ DOMAIN taken' = 1 .. Taken + 1
<1> QED BY DEF Taken

\* A boot starts with nothing taken and nothing waiting.
LEMMA BootBootConfig == ASSUME BootInv, BootConfig PROVE BootInv'
<1>1. /\ at = "idle" /\ at' = "early" /\ phase' = "ARGS_WRITTEN" /\ msg1' = None /\ taken' = << >>
      /\ scratch' = Msg(0) /\ mbox' = None /\ up' = FALSE /\ fw' = "booting" /\ faults' = {}
      /\ status' = status /\ bound' = bound /\ ring' = ring
  BY DEF BootConfig, rings, memory
<1>2. Taken' = 0 BY <1>1 DEF Taken
<1>3. ~Kept' /\ Rung' = Rung BY <1>1 DEF Kept, Rung
<1>4. << >> \in Seq(Messages) OBVIOUS
<1>5. taken' \in Seq(Messages) /\ scratch' \in Messages /\ mbox' \in Messages
  BY <1>1, <1>4, MessageFacts
<1>6. at' = "early" /\ fw' = "booting" /\ up' = FALSE /\ Taken' \in 0 .. 3
      /\ bound' = bound /\ status' = status /\ ring' = ring
  BY <1>1, <1>2
<1>7. BootTypes' BY <1>5, <1>6 DEF BootInv, BootTypes
<1>8. AtTaken' BY <1>1, <1>2 DEF AtTaken
<1>9. AtScratch' BY <1>1, MessageFacts DEF AtScratch
<1>10. AtPhase' BY <1>1 DEF AtPhase
<1>11. OneWaits' BY <1>1, <1>3 DEF BootInv, OneWaits, FwCounts
<1>12. FwCounts' BY <1>1, <1>2, <1>3 DEF BootInv, FwCounts
<1>13. Msg1Good' BY <1>1, MessageFacts DEF Msg1Good, GoodMsg1
<1>14. Reasons' BY <1>1 DEF Reasons
<1>15. InOrder' BY <1>1 DEF InOrder
<1> QED BY <1>7, <1>8, <1>9, <1>10, <1>11, <1>12, <1>13, <1>14, <1>15 DEF BootInv

\* Taking the message that waits.
LEMMA BootRecvMsg == ASSUME BootInv, RecvMsg PROVE BootInv'
<1>1. /\ at \in {"early", "recv1", "recv3", "recv5"} /\ at' = AfterRecv
      /\ IF phase = "ARGS_WRITTEN" THEN phase' = "MSG1" /\ msg1' = taken'[Taken']
         ELSE phase' = phase /\ msg1' = msg1
      /\ scratch' = scratch /\ up' = up /\ bound' = bound /\ fw' = fw
      /\ ring' = ring /\ faults' = faults
  BY DEF RecvMsg, Waiting, Taken, rings, memory, firmware
<1>2. PICK m \in Messages :
         /\ taken' = Append(taken, m)
         /\ \/ m = mbox /\ Kept /\ mbox' = None /\ status' = status
            \/ m = scratch /\ ~Kept /\ mbox' = mbox /\ Rung /\ status' = status \ {Mbox}
  BY DEF RecvMsg, BootInv, BootTypes, Kept, Rung, Cleared
<1>3. /\ taken' \in Seq(Messages) /\ Taken' = Taken + 1 /\ Taken \in Nat
      /\ taken'[Taken + 1] = m
      /\ \A i \in 1 .. Taken : taken'[i] = taken[i]
      /\ DOMAIN taken' = 1 .. Taken + 1 /\ DOMAIN taken = 1 .. Taken
  BY <1>2, TakenGrows DEF BootInv, BootTypes
<1>4. \/ at \in {"early", "recv1"} /\ at' = "check1" /\ Taken = 0 /\ phase = "ARGS_WRITTEN"
      \/ at = "recv3" /\ at' = "alloc" /\ Taken = 1 /\ phase = "MSG1"
      \/ at = "recv5" /\ at' = "bind" /\ Taken = 2 /\ phase = "MSG1"
  <2>1. CASE at = "early" BY <1>1, <2>1 DEF AfterRecv, BootInv, AtTaken, AtPhase
  <2>2. CASE at = "recv1" BY <1>1, <2>2 DEF AfterRecv, BootInv, AtTaken, AtPhase
  <2>3. CASE at = "recv3" BY <1>1, <2>3 DEF AfterRecv, BootInv, AtTaken, AtPhase
  <2>4. CASE at = "recv5" BY <1>1, <2>4 DEF AfterRecv, BootInv, AtTaken, AtPhase
  <2> QED BY <1>1, <2>1, <2>2, <2>3, <2>4
<1>5. ~Kept' /\ (Rung' => Kept /\ Rung) /\ fw # "off" /\ m.k = 2 * Taken + 1
      /\ scratch.k = 2 * Taken + 1
  BY <1>1, <1>2, <1>4, MessageFacts DEF BootInv, BootTypes, OneWaits, FwCounts, Kept, Rung
<1>6. ~Rung' BY <1>4, <1>5 DEF BootInv, OneWaits
<1>7. BootTypes' BY <1>1, <1>2, <1>3, <1>4, MessageFacts DEF BootInv, BootTypes
<1>8. AtTaken' BY <1>3, <1>4 DEF AtTaken
<1>9. AtScratch' BY <1>1, <1>4, <1>5 DEF AtScratch
<1>10. AtPhase' BY <1>1, <1>4 DEF BootInv, AtPhase
<1>11. OneWaits' BY <1>5, <1>6 DEF OneWaits
<1>12. FwCounts' BY <1>1, <1>2, <1>3, <1>4, <1>5, <1>6 DEF BootInv, FwCounts
<1>13. Msg1Good'
  BY <1>1, <1>2, <1>3, <1>4, <1>5, MessageFacts DEF BootInv, Msg1Good, GoodMsg1
<1>14. Reasons' BY <1>1 DEF BootInv, Reasons
<1>15. InOrder'
  <2> SUFFICES ASSUME NEW i \in DOMAIN taken' PROVE taken'[i].k = 2 * i - 1 BY DEF InOrder
  <2>1. CASE i = Taken + 1 BY <1>3, <1>5, <2>1
  <2>2. CASE i \in 1 .. Taken BY <1>3, <2>2 DEF BootInv, InOrder
  <2> QED BY <1>3, <2>1, <2>2
<1> QED BY <1>7, <1>8, <1>9, <1>10, <1>11, <1>12, <1>13, <1>14, <1>15 DEF BootInv

\* What was awaited had not been sent, or the firmware is silent.
LEMMA BootRecvTimeout == ASSUME BootInv, RecvTimeout PROVE BootInv'
<1>1. /\ at \in {"early", "recv1", "recv3", "recv5"} /\ ~Kept /\ ~Rung
      /\ \/ at = "early" /\ at' = "recv1" /\ phase' = phase /\ up' = up
         \/ at # "early" /\ at' = "failed" /\ phase' = "FAILED" /\ up' = FALSE
      /\ faults' = IF fw \in {Awaited, "silent"} THEN faults \cup {"slow"} ELSE faults
      /\ msg1' = msg1 /\ taken' = taken /\ scratch' = scratch
      /\ status' = status /\ mbox' = mbox /\ bound' = bound /\ fw' = fw
      /\ ring' = ring
  BY DEF RecvTimeout, Waiting, Fails, Kept, Rung, mailbox, rings, memory, firmware
<1>2. Taken' = Taken BY <1>1 DEF Taken
<1>3. at # "early" => fw \in {Awaited, "silent"}
  BY <1>1 DEF BootInv, BootTypes, AtTaken, FwCounts, Awaited
<1>4. Rung' = Rung /\ Kept' = Kept BY <1>1 DEF Kept, Rung
<1>5. BootTypes' BY <1>1, <1>2 DEF BootInv, BootTypes
<1>6. AtTaken' BY <1>1, <1>2 DEF BootInv, AtTaken
<1>7. AtScratch' BY <1>1, <1>2 DEF BootInv, AtScratch, AtTaken
<1>8. AtPhase' BY <1>1 DEF BootInv, AtPhase
<1>9. OneWaits' BY <1>1, <1>4 DEF OneWaits
<1>10. FwCounts' BY <1>1, <1>2, <1>4 DEF BootInv, FwCounts
<1>11. Msg1Good' BY <1>1 DEF BootInv, Msg1Good, GoodMsg1
<1>12. Reasons' BY <1>1, <1>3 DEF BootInv, Reasons
<1>13. InOrder' BY <1>1 DEF BootInv, InOrder
<1> QED BY <1>5, <1>6, <1>7, <1>8, <1>9, <1>10, <1>11, <1>12, <1>13 DEF BootInv

\* The host answers message 1 when nothing waits.
LEMMA BootCheckMsg1 == ASSUME BootInv, CheckMsg1 PROVE BootInv'
<1>1. /\ at = "check1"
      /\ \/ at' = "recv3" /\ scratch' = Msg(2) /\ phase' = phase /\ up' = up
         \/ at' = "failed" /\ phase' = "FAILED" /\ up' = FALSE
            /\ scratch' = scratch /\ ~Accepts(msg1)
      /\ msg1' = msg1 /\ taken' = taken /\ status' = status /\ mbox' = mbox
      /\ bound' = bound /\ fw' = fw /\ ring' = ring /\ faults' = faults
  BY DEF CheckMsg1, Fails, rings, memory, firmware
<1>2. Taken' = Taken BY <1>1 DEF Taken
<1>3. Taken = 1 /\ ~Kept /\ ~Rung /\ fw # "off" /\ fw # "running" /\ fw # "booting"
  BY <1>1, MessageFacts DEF BootInv, Kept, Rung, AtTaken, AtScratch, OneWaits, FwCounts
<1>4. at' = "failed" => faults # {}
  BY <1>1, MessageFacts DEF BootInv, Msg1Good, GoodMsg1, Accepts, Rejected, TooShort, Unexpected,
     Expected, ExpectNch, ExpectChsz, MaxChannels
<1>5. Rung' = Rung /\ Kept' = Kept BY <1>1 DEF Kept, Rung
<1>6. BootTypes' BY <1>1, <1>2, MessageFacts DEF BootInv, BootTypes
<1>7. AtTaken' BY <1>1, <1>2 DEF BootInv, AtTaken
<1>8. AtScratch' BY <1>1, <1>2, MessageFacts DEF BootInv, AtScratch, AtTaken
<1>9. AtPhase' BY <1>1 DEF BootInv, AtPhase
<1>10. OneWaits' BY <1>3, <1>5 DEF OneWaits
<1>11. FwCounts' BY <1>1, <1>2, <1>5 DEF BootInv, FwCounts
<1>12. Msg1Good' BY <1>1, MessageFacts DEF BootInv, Msg1Good, GoodMsg1
<1>13. Reasons' BY <1>1, <1>4 DEF BootInv, Reasons
<1>14. InOrder' BY <1>1 DEF BootInv, InOrder
<1> QED BY <1>6, <1>7, <1>8, <1>9, <1>10, <1>11, <1>12, <1>13, <1>14 DEF BootInv

\* The host sends message 4 when nothing waits.
LEMMA BootSendMsg4 == ASSUME BootInv, SendMsg4 PROVE BootInv'
<1>1. /\ at = "alloc"
      /\ \/ at' = "recv5" /\ scratch' = Msg(4) /\ phase' = phase /\ up' = up /\ faults' = faults
         \/ /\ at' = "failed" /\ phase' = "FAILED" /\ up' = FALSE /\ scratch' = scratch
            /\ faults' = faults \cup {"memory"}
      /\ msg1' = msg1 /\ taken' = taken /\ status' = status /\ mbox' = mbox
      /\ bound' = bound /\ fw' = fw /\ ring' = ring
  BY DEF SendMsg4, Fails, rings, firmware
<1>2. Taken' = Taken BY <1>1 DEF Taken
<1>3. Taken = 2 /\ ~Kept /\ ~Rung /\ fw # "off" /\ fw # "running" /\ scratch.k = 3
  BY <1>1, MessageFacts DEF BootInv, Kept, Rung, AtTaken, AtScratch, OneWaits, FwCounts
<1>4. Rung' = Rung /\ Kept' = Kept BY <1>1 DEF Kept, Rung
<1>5. BootTypes' BY <1>1, <1>2, MessageFacts DEF BootInv, BootTypes
<1>6. AtTaken' BY <1>1, <1>2 DEF BootInv, AtTaken
<1>7. AtScratch' BY <1>1, <1>2, MessageFacts DEF BootInv, AtScratch, AtTaken
<1>8. AtPhase' BY <1>1 DEF BootInv, AtPhase
<1>9. OneWaits' BY <1>3, <1>4 DEF OneWaits
<1>10. FwCounts' BY <1>1, <1>2, <1>4 DEF BootInv, FwCounts
<1>11. Msg1Good' BY <1>1, MessageFacts DEF BootInv, Msg1Good, GoodMsg1
<1>12. Reasons' BY <1>1 DEF BootInv, Reasons
<1>13. InOrder' BY <1>1 DEF BootInv, InOrder
<1> QED BY <1>5, <1>6, <1>7, <1>8, <1>9, <1>10, <1>11, <1>12, <1>13 DEF BootInv

\* The channels are bound, or not.
LEMMA BootBind == ASSUME BootInv, Bind PROVE BootInv'
<1>1. /\ at = "bind" /\ bound' \subseteq Chans
      /\ \/ at' = "flip" /\ phase' = phase /\ up' = up /\ faults' = faults
         \/ /\ at' = "failed" /\ phase' = "FAILED" /\ up' = FALSE
            /\ faults' = faults \cup {"descriptor"}
      /\ msg1' = msg1 /\ taken' = taken /\ scratch' = scratch
      /\ status' = status /\ mbox' = mbox /\ fw' = fw /\ ring' = ring
  BY DEF Bind, Fails, mailbox, firmware
<1>2. Taken' = Taken BY <1>1 DEF Taken
<1>3. Taken = 3
  BY <1>1, MessageFacts DEF BootInv, AtTaken
<1>4. Rung' = Rung /\ Kept' = Kept BY <1>1 DEF Kept, Rung
<1>5. BootTypes' BY <1>1, <1>2 DEF BootInv, BootTypes
<1>6. AtTaken' BY <1>1, <1>2 DEF BootInv, AtTaken
<1>7. AtScratch' BY <1>1, <1>2 DEF BootInv, AtScratch, AtTaken
<1>8. AtPhase' BY <1>1 DEF BootInv, AtPhase
<1>9. OneWaits' BY <1>2, <1>3 DEF OneWaits
<1>10. FwCounts' BY <1>1, <1>2, <1>4 DEF BootInv, FwCounts
<1>11. Msg1Good' BY <1>1 DEF BootInv, Msg1Good, GoodMsg1
<1>12. Reasons' BY <1>1 DEF BootInv, Reasons
<1>13. InOrder' BY <1>1 DEF BootInv, InOrder
<1> QED BY <1>5, <1>6, <1>7, <1>8, <1>9, <1>10, <1>11, <1>12, <1>13 DEF BootInv

\* What the handler kept is dropped when it was taken already.
LEMMA BootFlipUp == ASSUME BootInv, FlipUp PROVE BootInv'
<1>1. /\ at = "flip" /\ at' = "flag" /\ up' = TRUE /\ mbox' = None
      /\ phase' = phase /\ msg1' = msg1 /\ taken' = taken
      /\ scratch' = scratch /\ status' = status /\ bound' = bound
      /\ fw' = fw /\ ring' = ring /\ faults' = faults
  BY DEF FlipUp, UpBeforeFlag, firmware
<1>2. Taken' = Taken BY <1>1 DEF Taken
<1>3. Taken = 3 /\ fw # "off" /\ fw # "booting"
  BY <1>1, MessageFacts DEF BootInv, Kept, Rung, AtTaken, FwCounts
<1>4. ~Kept' /\ Rung' = Rung BY <1>1 DEF Kept, Rung
<1>5. BootTypes' BY <1>1, <1>2, MessageFacts DEF BootInv, BootTypes
<1>6. AtTaken' BY <1>1, <1>2 DEF BootInv, AtTaken
<1>7. AtScratch' BY <1>1 DEF BootInv, AtScratch
<1>8. AtPhase' BY <1>1 DEF BootInv, AtPhase
<1>9. OneWaits' BY <1>2, <1>3 DEF OneWaits
<1>10. FwCounts' BY <1>1, <1>2, <1>4 DEF BootInv, FwCounts, AtTaken
<1>11. Msg1Good' BY <1>1, MessageFacts DEF BootInv, Msg1Good, GoodMsg1
<1>12. Reasons' BY <1>1 DEF BootInv, Reasons
<1>13. InOrder' BY <1>1 DEF BootInv, InOrder
<1> QED BY <1>5, <1>6, <1>7, <1>8, <1>9, <1>10, <1>11, <1>12, <1>13 DEF BootInv

\* The ready flag is written after the last message was taken.
LEMMA BootReadyFlag == ASSUME BootInv, ReadyFlag PROVE BootInv'
<1>1. /\ at = "flag" /\ at' = "poll" /\ scratch' = Msg(6)
      /\ phase' = phase /\ msg1' = msg1 /\ taken' = taken
      /\ status' = status /\ mbox' = mbox /\ up' = up /\ bound' = bound
      /\ fw' = fw /\ ring' = ring /\ faults' = faults
  BY DEF ReadyFlag, firmware
<1>2. Taken' = Taken BY <1>1 DEF Taken
<1>3. Taken = 3
  BY <1>1, MessageFacts DEF BootInv, AtTaken
<1>4. Rung' = Rung /\ Kept' = Kept BY <1>1 DEF Kept, Rung
<1>5. BootTypes' BY <1>1, <1>2, MessageFacts DEF BootInv, BootTypes
<1>6. AtTaken' BY <1>1, <1>2 DEF BootInv, AtTaken
<1>7. AtScratch' BY <1>1 DEF AtScratch
<1>8. AtPhase' BY <1>1 DEF BootInv, AtPhase
<1>9. OneWaits' BY <1>2, <1>3 DEF OneWaits
<1>10. FwCounts' BY <1>1, <1>2, <1>4 DEF BootInv, FwCounts
<1>11. Msg1Good' BY <1>1, MessageFacts DEF BootInv, Msg1Good, GoodMsg1
<1>12. Reasons' BY <1>1 DEF BootInv, Reasons
<1>13. InOrder' BY <1>1 DEF BootInv, InOrder
<1> QED BY <1>5, <1>6, <1>7, <1>8, <1>9, <1>10, <1>11, <1>12, <1>13 DEF BootInv

\* The flag is cleared, or is not in time.
LEMMA BootPollReady == ASSUME BootInv, PollReady PROVE BootInv'
<1>1. /\ at = "poll"
      /\ \/ at' = "up" /\ phase' = "READY" /\ up' = TRUE /\ faults' = faults
         \/ /\ at' = "failed" /\ phase' = "FAILED" /\ up' = FALSE
            /\ faults' = faults \cup {"slow"}
      /\ msg1' = msg1 /\ taken' = taken /\ scratch' = scratch
      /\ status' = status /\ mbox' = mbox /\ bound' = bound /\ fw' = fw
      /\ ring' = ring
  BY DEF PollReady, Fails, mailbox, firmware
<1>2. Taken' = Taken BY <1>1 DEF Taken
<1>3. Taken = 3
  BY <1>1, MessageFacts DEF BootInv, AtTaken
<1>4. Rung' = Rung /\ Kept' = Kept BY <1>1 DEF Kept, Rung
<1>5. BootTypes' BY <1>1, <1>2 DEF BootInv, BootTypes
<1>6. AtTaken' BY <1>1, <1>2 DEF BootInv, AtTaken
<1>7. AtScratch' BY <1>1, <1>2 DEF BootInv, AtScratch, AtTaken
<1>8. AtPhase' BY <1>1 DEF AtPhase
<1>9. OneWaits' BY <1>2, <1>3 DEF OneWaits
<1>10. FwCounts' BY <1>1, <1>2, <1>4 DEF BootInv, FwCounts
<1>11. Msg1Good' BY <1>1 DEF BootInv, Msg1Good, GoodMsg1
<1>12. Reasons' BY <1>1 DEF BootInv, Reasons
<1>13. InOrder' BY <1>1 DEF BootInv, InOrder
<1> QED BY <1>5, <1>6, <1>7, <1>8, <1>9, <1>10, <1>11, <1>12, <1>13 DEF BootInv

\* Nothing is left of a conversation.
LEMMA BootTeardown == ASSUME BootInv, Teardown PROVE BootInv'
<1>1. /\ at \in {"failed", "up"} /\ at' = "idle" /\ phase' = "IDLE"
      /\ status' = {} /\ mbox' = None
      /\ up' = FALSE /\ bound' = {} /\ fw' = "off" /\ ring' = {}
      /\ msg1' = msg1 /\ taken' = taken /\ scratch' = scratch
      /\ faults' = faults
  BY DEF Teardown
<1>2. Taken' = Taken BY <1>1 DEF Taken
<1>3. ~Rung' /\ ~Kept' BY <1>1 DEF Kept, Rung
<1>4. BootTypes' BY <1>1, <1>2, MessageFacts DEF BootInv, BootTypes
<1>5. AtTaken' BY <1>1 DEF AtTaken
<1>6. AtScratch' BY <1>1 DEF AtScratch
<1>7. AtPhase' BY <1>1 DEF AtPhase
<1>8. OneWaits' BY <1>3 DEF OneWaits
<1>9. FwCounts' BY <1>1, <1>3 DEF FwCounts
<1>10. Msg1Good' BY <1>1, MessageFacts DEF BootInv, Msg1Good, GoodMsg1
<1>11. Reasons' BY <1>1 DEF Reasons
<1>12. InOrder' BY <1>1 DEF BootInv, InOrder
<1> QED BY <1>4, <1>5, <1>6, <1>7, <1>8, <1>9, <1>10, <1>11, <1>12 DEF BootInv

\* The handler keeps what waits.
LEMMA BootIrqEnter == ASSUME BootInv, IrqEnter PROVE BootInv'
<1>1. /\ status' = {} /\ mbox' = IF ~up /\ Rung THEN scratch ELSE mbox
      /\ at' = at /\ phase' = phase /\ msg1' = msg1 /\ taken' = taken
      /\ scratch' = scratch /\ up' = up /\ bound' = bound /\ fw' = fw
      /\ ring' = ring /\ faults' = faults
  BY DEF IrqEnter, Captured, driver, firmware, Rung
<1>2. Taken' = Taken BY <1>1 DEF Taken
<1>3. BootTypes' BY <1>1, <1>2 DEF BootInv, BootTypes
<1>4. AtTaken' BY <1>1, <1>2 DEF BootInv, AtTaken
<1>5. AtScratch' BY <1>1, <1>2 DEF BootInv, AtScratch
<1>6. AtPhase' BY <1>1 DEF BootInv, AtPhase
<1>7. OneWaits' BY <1>1, <1>2 DEF BootInv, OneWaits, Kept, Rung
<1>8. FwCounts'
  BY <1>1, <1>2, MessageFacts DEF BootInv, FwCounts, AtTaken, OneWaits, AtPhase, Kept, Rung
<1>9. Msg1Good' BY <1>1 DEF BootInv, Msg1Good, GoodMsg1
<1>10. Reasons' BY <1>1 DEF BootInv, Reasons
<1>11. InOrder' BY <1>1 DEF BootInv, InOrder
<1> QED BY <1>3, <1>4, <1>5, <1>6, <1>7, <1>8, <1>9, <1>10, <1>11 DEF BootInv

\* The firmware sends message 1.
LEMMA BootFwBoots == ASSUME BootInv, FwBoots PROVE BootInv'
<1>1. /\ fw = "booting" /\ fw' = "sent1" /\ status' = status \cup {Mbox}
      /\ \/ scratch' = Expected /\ faults' = faults
         \/ scratch' \in Msg1s /\ faults' = faults \cup {"msg1"}
      /\ at' = at /\ phase' = phase /\ msg1' = msg1 /\ taken' = taken
      /\ mbox' = mbox /\ up' = up /\ bound' = bound /\ ring' = ring
  BY DEF FwBoots, FwSpeak, driver
<1>2. Taken' = Taken BY <1>1 DEF Taken
<1>3. Taken = 0 /\ ~Kept /\ ~Rung /\ at \in {"early", "recv1", "failed"}
  BY <1>1, MessageFacts DEF BootInv, Kept, Rung, BootTypes, AtTaken, FwCounts
<1>4. Rung' /\ ~Kept' BY <1>1, <1>3 DEF Kept, Rung
<1>5. BootTypes' BY <1>1, <1>2, MessageFacts DEF BootInv, BootTypes
<1>6. AtTaken' BY <1>1, <1>2 DEF BootInv, AtTaken
<1>7. AtScratch' BY <1>1, <1>2, <1>3, MessageFacts DEF AtScratch
<1>8. AtPhase' BY <1>1 DEF BootInv, AtPhase
<1>9. OneWaits' BY <1>1, <1>2, <1>3, <1>4, MessageFacts DEF OneWaits
<1>10. FwCounts' BY <1>1, <1>2, <1>4 DEF BootInv, FwCounts
<1>11. Msg1Good' BY <1>1 DEF BootInv, Msg1Good, GoodMsg1
<1>12. Reasons' BY <1>1 DEF BootInv, Reasons
<1>13. InOrder' BY <1>1 DEF BootInv, InOrder
<1> QED BY <1>5, <1>6, <1>7, <1>8, <1>9, <1>10, <1>11, <1>12, <1>13 DEF BootInv

\* The firmware sends message 3 when message 1 was taken.
LEMMA BootFwMaps == ASSUME BootInv, FwMaps PROVE BootInv'
<1>1. /\ fw = "sent1" /\ scratch = Msg(2) /\ fw' = "sent3" /\ scratch' = Msg(3)
      /\ status' = status \cup {Mbox}
      /\ at' = at /\ phase' = phase /\ msg1' = msg1 /\ taken' = taken
      /\ mbox' = mbox /\ up' = up /\ bound' = bound /\ ring' = ring
      /\ faults' = faults
  BY DEF FwMaps, FwSpeak, driver
<1>2. Taken' = Taken BY <1>1 DEF Taken
<1>3. Taken = 1 /\ ~Kept /\ ~Rung /\ at \in {"recv3", "failed"}
  BY <1>1, MessageFacts DEF BootInv, Kept, Rung, BootTypes, AtTaken, AtScratch, FwCounts
<1>4. Rung' /\ ~Kept' BY <1>1, <1>3 DEF Kept, Rung
<1>5. BootTypes' BY <1>1, <1>2, MessageFacts DEF BootInv, BootTypes
<1>6. AtTaken' BY <1>1, <1>2 DEF BootInv, AtTaken
<1>7. AtScratch' BY <1>1, <1>2, MessageFacts DEF BootInv, AtScratch
<1>8. AtPhase' BY <1>1 DEF BootInv, AtPhase
<1>9. OneWaits' BY <1>1, <1>2, <1>3, <1>4, MessageFacts DEF OneWaits
<1>10. FwCounts' BY <1>1, <1>2, <1>3, <1>4 DEF BootInv, FwCounts
<1>11. Msg1Good' BY <1>1, MessageFacts DEF BootInv, Msg1Good, GoodMsg1
<1>12. Reasons' BY <1>1 DEF BootInv, Reasons
<1>13. InOrder' BY <1>1 DEF BootInv, InOrder
<1> QED BY <1>5, <1>6, <1>7, <1>8, <1>9, <1>10, <1>11, <1>12, <1>13 DEF BootInv

\* The firmware sends message 5 when message 3 was taken.
LEMMA BootFwBuilds == ASSUME BootInv, FwBuilds PROVE BootInv'
<1>1. /\ fw = "sent3" /\ scratch = Msg(4) /\ fw' = "sent5" /\ scratch' = Msg(5)
      /\ status' = status \cup {Mbox}
      /\ at' = at /\ phase' = phase /\ msg1' = msg1 /\ taken' = taken
      /\ mbox' = mbox /\ up' = up /\ bound' = bound /\ ring' = ring
      /\ faults' = faults
  BY DEF FwBuilds, FwSpeak, driver
<1>2. Taken' = Taken BY <1>1 DEF Taken
<1>3. Taken = 2 /\ ~Kept /\ ~Rung /\ at \in {"recv5", "failed"}
  BY <1>1, MessageFacts DEF BootInv, Kept, Rung, BootTypes, AtTaken, AtScratch, FwCounts
<1>4. Rung' /\ ~Kept' BY <1>1, <1>3 DEF Kept, Rung
<1>5. BootTypes' BY <1>1, <1>2, MessageFacts DEF BootInv, BootTypes
<1>6. AtTaken' BY <1>1, <1>2 DEF BootInv, AtTaken
<1>7. AtScratch' BY <1>1, <1>2, MessageFacts DEF BootInv, AtScratch
<1>8. AtPhase' BY <1>1 DEF BootInv, AtPhase
<1>9. OneWaits' BY <1>1, <1>2, <1>3, <1>4, MessageFacts DEF OneWaits
<1>10. FwCounts' BY <1>1, <1>2, <1>3, <1>4 DEF BootInv, FwCounts
<1>11. Msg1Good' BY <1>1, MessageFacts DEF BootInv, Msg1Good, GoodMsg1
<1>12. Reasons' BY <1>1 DEF BootInv, Reasons
<1>13. InOrder' BY <1>1 DEF BootInv, InOrder
<1> QED BY <1>5, <1>6, <1>7, <1>8, <1>9, <1>10, <1>11, <1>12, <1>13 DEF BootInv

\* The firmware runs once the flag is up.
LEMMA BootFwReady == ASSUME BootInv, FwReady PROVE BootInv'
<1>1. /\ fw = "sent5" /\ scratch = Msg(6) /\ fw' = "running" /\ scratch' = None
      /\ at' = at /\ phase' = phase /\ msg1' = msg1 /\ taken' = taken
      /\ status' = status /\ mbox' = mbox /\ up' = up /\ bound' = bound
      /\ ring' = ring /\ faults' = faults
  BY DEF FwReady, driver
<1>2. Taken' = Taken BY <1>1 DEF Taken
<1>3. Taken = 3 /\ ~Kept /\ ~Rung /\ at \in {"poll", "failed", "up"}
  BY <1>1, MessageFacts DEF BootInv, Kept, Rung, BootTypes, AtTaken, AtScratch, FwCounts
<1>4. Rung' = Rung /\ Kept' = Kept BY <1>1 DEF Kept, Rung
<1>5. BootTypes' BY <1>1, <1>2, MessageFacts DEF BootInv, BootTypes
<1>6. AtTaken' BY <1>1, <1>2 DEF BootInv, AtTaken
<1>7. AtScratch' BY <1>1, <1>2, MessageFacts DEF BootInv, AtScratch
<1>8. AtPhase' BY <1>1 DEF BootInv, AtPhase
<1>9. OneWaits' BY <1>3, <1>4 DEF OneWaits
<1>10. FwCounts' BY <1>1, <1>2, <1>3 DEF FwCounts
<1>11. Msg1Good' BY <1>1, MessageFacts DEF BootInv, Msg1Good, GoodMsg1
<1>12. Reasons' BY <1>1 DEF BootInv, Reasons
<1>13. InOrder' BY <1>1 DEF BootInv, InOrder
<1> QED BY <1>5, <1>6, <1>7, <1>8, <1>9, <1>10, <1>11, <1>12, <1>13 DEF BootInv

\* The firmware falls silent.
LEMMA BootFwSilent == ASSUME BootInv, FwSilent PROVE BootInv'
<1>1. /\ fw \notin {"off", "silent"} /\ ring = {} /\ fw' = "silent"
      /\ faults' = faults \cup {"silent"}
      /\ at' = at /\ phase' = phase /\ msg1' = msg1 /\ taken' = taken
      /\ scratch' = scratch /\ status' = status /\ mbox' = mbox /\ up' = up
      /\ bound' = bound /\ ring' = ring
  BY DEF FwSilent, driver, mailbox
<1>2. Taken' = Taken BY <1>1 DEF Taken
<1>3. Rung' = Rung /\ Kept' = Kept BY <1>1 DEF Kept, Rung
<1>4. BootTypes' BY <1>1, <1>2 DEF BootInv, BootTypes
<1>5. AtTaken' BY <1>1, <1>2 DEF BootInv, AtTaken
<1>6. AtScratch' BY <1>1, <1>2 DEF BootInv, AtScratch
<1>7. AtPhase' BY <1>1 DEF BootInv, AtPhase
<1>8. OneWaits' BY <1>1, <1>2, <1>3 DEF BootInv, OneWaits
<1>9. FwCounts' BY <1>1 DEF BootInv, FwCounts
<1>10. Msg1Good' BY <1>1 DEF BootInv, Msg1Good, GoodMsg1
<1>11. Reasons' BY <1>1 DEF Reasons
<1>12. InOrder' BY <1>1 DEF BootInv, InOrder
<1> QED BY <1>4, <1>5, <1>6, <1>7, <1>8, <1>9, <1>10, <1>11, <1>12 DEF BootInv

\* A doorbell of a channel is rung long after the conversation.
LEMMA BootFwDoorbell == ASSUME BootInv, FwDoorbell PROVE BootInv'
<1>1. /\ ring # {} /\ ring' = {} /\ status' = status \cup ring
      /\ at' = at /\ phase' = phase /\ msg1' = msg1 /\ taken' = taken
      /\ scratch' = scratch /\ mbox' = mbox /\ up' = up /\ bound' = bound
      /\ fw' = fw /\ faults' = faults
  BY DEF FwDoorbell, driver, mailbox
<1>2. Taken' = Taken BY <1>1 DEF Taken
<1>3. BootTypes' BY <1>1, <1>2 DEF BootInv, BootTypes
<1>4. AtTaken' BY <1>1, <1>2 DEF BootInv, AtTaken
<1>5. AtScratch' BY <1>1, <1>2 DEF BootInv, AtScratch
<1>6. AtPhase' BY <1>1 DEF BootInv, AtPhase
<1>7. OneWaits' BY <1>1, <1>2 DEF BootInv, OneWaits, FwCounts
<1>8. FwCounts' BY <1>1, <1>2 DEF BootInv, FwCounts
<1>9. Msg1Good' BY <1>1 DEF BootInv, Msg1Good, GoodMsg1
<1>10. Reasons' BY <1>1 DEF BootInv, Reasons
<1>11. InOrder' BY <1>1 DEF BootInv, InOrder
<1> QED BY <1>3, <1>4, <1>5, <1>6, <1>7, <1>8, <1>9, <1>10, <1>11 DEF BootInv

\* A step that leaves the conversation alone.
LEMMA BootOther ==
  ASSUME BootInv,
         UNCHANGED << at, phase, msg1, taken, scratch, status, mbox, up, bound, fw, faults >>,
         ring' \subseteq Bits, ring' # {} => fw = "running"
  PROVE  BootInv'
<1>1. /\ at' = at /\ phase' = phase /\ msg1' = msg1 /\ taken' = taken
      /\ scratch' = scratch /\ status' = status /\ mbox' = mbox /\ up' = up
      /\ bound' = bound /\ fw' = fw /\ faults' = faults OBVIOUS
<1>2. Taken' = Taken BY <1>1 DEF Taken
<1>3. Rung' = Rung /\ Kept' = Kept BY <1>1 DEF Kept, Rung
<1>4. BootTypes' BY <1>2 DEF BootInv, BootTypes
<1>5. AtTaken' BY <1>2 DEF BootInv, AtTaken
<1>6. AtScratch' BY <1>2 DEF BootInv, AtScratch
<1>7. AtPhase' BY DEF BootInv, AtPhase
<1>8. OneWaits' BY <1>2, <1>3 DEF BootInv, OneWaits
<1>9. FwCounts' BY <1>2, <1>3 DEF BootInv, FwCounts
<1>10. Msg1Good' BY DEF BootInv, Msg1Good, GoodMsg1
<1>11. Reasons' BY DEF BootInv, Reasons
<1>12. InOrder' BY DEF BootInv, InOrder
<1> QED BY <1>4, <1>5, <1>6, <1>7, <1>8, <1>9, <1>10, <1>11, <1>12 DEF BootInv
-----------------------------------------------------------------------------
\* The channels and the handler.

\* One channel changes.
LEMMA ChanStep ==
  ASSUME ChanTypes, NEW c \in Rings, NEW r \in Ring, Size(r) <= Slots,
         chan' = [chan EXCEPT ![c] = r]
  PROVE  ChanTypes' /\ chan'[c] = r /\ \A d \in Rings \ {c} : chan'[d] = chan[d]
<1>1. chan' \in [Rings -> Ring] BY DEF ChanTypes
<1>2. chan'[c] = r /\ \A d \in Rings \ {c} : chan'[d] = chan[d] BY DEF ChanTypes
<1> QED BY <1>1, <1>2 DEF ChanTypes

\* Where a message can be read, the ready flag has been written.
LEMMA MessageThere ==
  ASSUME RingInv, NEW c \in Chans, HasMessage(c)
  PROVE  at \in {"poll", "up", "failed"}
<1> SUFFICES ASSUME chan = Empty, term = NoLines PROVE FALSE BY DEF RingInv, Quiet
<1>1. CASE c = TERMINAL
  <2>1. term.rd \in 0 .. TermSlots - 1 BY DEF RingInv, TermTypes
  <2>2. term.slot[term.rd] = "free" BY <2>1 DEF NoLines
  <2> QED BY <1>1, <2>2 DEF HasMessage
<1>2. CASE c # TERMINAL
  <2>1. c \in Rings BY <1>2 DEF Rings
  <2>2. Inbox(c) = << >> BY <2>1 DEF Empty, Inbox
  <2> QED BY <1>2, <2>2 DEF HasMessage
<1> QED BY <1>1, <1>2

\* A step of the conversation that neither raises the link nor loses a doorbell.
LEMMA RingOther ==
  ASSUME RingInv, UNCHANGED << chan, term, irq, ring >>,
         up' => up /\ bound' = bound /\ status \subseteq status',
         at' \notin {"poll", "up", "failed"} => at \notin {"poll", "up", "failed"},
         at' \notin {"flag", "poll", "up", "failed"} => at \notin {"flag", "poll", "up", "failed"}
  PROVE  RingInv'
<1>1. ChanTypes' BY DEF RingInv, ChanTypes
<1>2. TermTypes' BY DEF RingInv, TermTypes
<1>3. Quiet' BY DEF RingInv, Quiet
<1>4. Heard'
  <2> SUFFICES ASSUME up', NEW c \in bound' \ {BUF_T2H}, HasMessage(c)'
               PROVE  DoorbellBit[c] \in (ring \cup status \cup Pending(c))'
    BY DEF Heard
  <2>1. HasMessage(c) BY DEF HasMessage, Inbox
  <2>2. DoorbellBit[c] \in ring \cup status \cup Pending(c) BY <2>1 DEF RingInv, Heard
  <2>3. Pending(c)' = Pending(c) BY DEF Pending
  <2> QED BY <2>2, <2>3
<1> QED BY <1>1, <1>2, <1>3, <1>4 DEF RingInv

\* The link is raised on empty channels.
LEMMA RingFlipUp == ASSUME BootInv, RingInv, FlipUp PROVE RingInv'
<1>1. /\ at = "flip" /\ at' = "flag" /\ bound' = bound /\ status' = status
      /\ chan' = chan /\ term' = term /\ irq' = irq /\ ring' = ring
  BY DEF FlipUp, rings, firmware
<1>2. ChanTypes' BY <1>1 DEF RingInv, ChanTypes
<1>3. TermTypes' BY <1>1 DEF RingInv, TermTypes
<1>4. Quiet' BY <1>1 DEF RingInv, Quiet
<1>5. Heard'
  <2> SUFFICES ASSUME NEW c \in bound \ {BUF_T2H}, HasMessage(c)', c \in Chans PROVE FALSE
    BY <1>1 DEF Heard, BootInv, BootTypes
  <2>1. HasMessage(c) BY <1>1 DEF HasMessage, Inbox
  <2> QED BY <1>1, <2>1, MessageThere
<1> QED BY <1>2, <1>3, <1>4, <1>5 DEF RingInv

\* Nothing is left in a channel.
LEMMA RingTeardown == ASSUME RingInv, Teardown PROVE RingInv'
<1>1. /\ irq.id = 0 /\ irq' = irq /\ up' = FALSE /\ chan' = Empty /\ term' = NoLines
  BY DEF Teardown
<1>2. ChanTypes'
  <2>1. << >> \in Seq(Items) OBVIOUS
  <2>2. [out |-> << >>, owed |-> 0, back |-> << >>] \in Ring BY <2>1 DEF Ring
  <2>3. Size([out |-> << >>, owed |-> 0, back |-> << >>]) <= Slots
    BY SlotsAssumption DEF Size
  <2> QED BY <1>1, <2>2, <2>3 DEF ChanTypes, Empty
<1>3. TermTypes' BY <1>1, SlotsAssumption DEF RingInv, TermTypes, NoLines
<1>4. Quiet' BY <1>1 DEF Quiet
<1>5. Heard' BY <1>1 DEF Heard
<1> QED BY <1>2, <1>3, <1>4, <1>5 DEF RingInv

\* The channels and their doorbells.
LEMMA ChannelFacts ==
  /\ IO \in Rings /\ IO_T2H \in Rings /\ SHAREDMALLOC \in Rings /\ BUF_T2H \in Rings
  /\ TERMINAL \in Chans /\ TERMINAL \notin Rings
  /\ Rings \subseteq Chans /\ \A c \in Chans : c # TERMINAL => c \in Rings
  /\ IO # IO_T2H /\ IO # SHAREDMALLOC /\ IO # BUF_T2H
  /\ IO_T2H # SHAREDMALLOC /\ IO_T2H # BUF_T2H /\ SHAREDMALLOC # BUF_T2H
  /\ \A c \in Chans : DoorbellBit[c] \in Bits
<1>1. \A c \in Chans : DoorbellBit[c] \in Bits BY DEF Bits
<1> QED BY <1>1 DEF Rings, Chans, IO, IO_T2H, SHAREDMALLOC, TERMINAL, BUF_T2H

\* A step that handles or publishes a message.
LEMMA RingMessage ==
  ASSUME RingInv, ChanTypes', TermTypes', UNCHANGED << at, up, bound, irq, status >>,
         ring \subseteq ring', at \in {"poll", "up", "failed"},
         \A c \in Chans \ {BUF_T2H} :
           HasMessage(c)' => HasMessage(c) \/ DoorbellBit[c] \in ring'
  PROVE  BootTypes => RingInv'
<1> SUFFICES ASSUME BootTypes PROVE RingInv' OBVIOUS
<1>1. Quiet' BY DEF RingInv, Quiet
<1>2. Heard'
  <2> SUFFICES ASSUME up, NEW c \in bound \ {BUF_T2H}, HasMessage(c)'
               PROVE  DoorbellBit[c] \in (ring \cup status \cup Pending(c))'
    BY DEF Heard
  <2>1. c \in Chans \ {BUF_T2H} BY DEF BootTypes
  <2>2. CASE DoorbellBit[c] \in ring' BY <2>2
  <2>3. CASE HasMessage(c)
    <3>1. DoorbellBit[c] \in ring \cup status \cup Pending(c) BY <2>3 DEF RingInv, Heard
    <3>2. Pending(c)' = Pending(c) BY DEF Pending
    <3> QED BY <3>1, <3>2
  <2> QED BY <2>1, <2>2, <2>3
<1> QED BY <1>1, <1>2 DEF RingInv

\* TERMINAL is as it was.
LEMMA TermSame == ASSUME RingInv, term' = term, irq' = irq PROVE TermTypes'
<1> QED BY DEF RingInv, TermTypes

\* What can happen to a channel: its odd or its even end takes a message, which
\* is moved on or left owed, or a message is put in.
LEMMA RingMoves ==
  ASSUME NEW r \in Ring, Size(r) <= Slots, NEW m \in Items
  PROVE  /\ r.back # << >> => /\ [r EXCEPT !.back = Tail(@)] \in Ring
                              /\ Size([r EXCEPT !.back = Tail(@)]) <= Slots
         /\ r.out # << >> =>
              /\ Head(r.out) \in Items
              /\ [r EXCEPT !.out = Tail(@), !.back = Append(@, m)] \in Ring
              /\ Size([r EXCEPT !.out = Tail(@), !.back = Append(@, m)]) <= Slots
              /\ [r EXCEPT !.out = Tail(@), !.owed = @ + 1] \in Ring
              /\ Size([r EXCEPT !.out = Tail(@), !.owed = @ + 1]) <= Slots
         /\ Size(r) < Slots => /\ [r EXCEPT !.out = Append(@, m)] \in Ring
                               /\ Size([r EXCEPT !.out = Append(@, m)]) <= Slots
<1>1. r.out \in Seq(Items) /\ r.back \in Seq(Items) /\ r.owed \in Nat BY DEF Ring
<1>2. Len(r.out) \in Nat /\ Len(r.back) \in Nat BY <1>1
<1>3. ASSUME r.back # << >>
      PROVE  /\ [r EXCEPT !.back = Tail(@)] \in Ring
             /\ Size([r EXCEPT !.back = Tail(@)]) <= Slots
  <2> DEFINE x == [r EXCEPT !.back = Tail(@)]
  <2>1. Tail(r.back) \in Seq(Items) /\ Len(Tail(r.back)) = Len(r.back) - 1 BY <1>1, <1>3
  <2>2. x.out = r.out /\ x.owed = r.owed /\ x.back = Tail(r.back) BY DEF Ring
  <2>3. x \in Ring BY <2>1 DEF Ring
  <2> QED BY <1>1, <1>2, <2>1, <2>2, <2>3, SlotsAssumption DEF Size
<1>4. ASSUME r.out # << >>
      PROVE  /\ Head(r.out) \in Items
             /\ Tail(r.out) \in Seq(Items) /\ Len(Tail(r.out)) = Len(r.out) - 1
  BY <1>1, <1>4
<1>5. ASSUME r.out # << >>
      PROVE  /\ [r EXCEPT !.out = Tail(@), !.back = Append(@, m)] \in Ring
             /\ Size([r EXCEPT !.out = Tail(@), !.back = Append(@, m)]) <= Slots
  <2> DEFINE x == [r EXCEPT !.out = Tail(@), !.back = Append(@, m)]
  <2>1. Append(r.back, m) \in Seq(Items) /\ Len(Append(r.back, m)) = Len(r.back) + 1 BY <1>1
  <2>2. x.out = Tail(r.out) /\ x.owed = r.owed /\ x.back = Append(r.back, m) BY DEF Ring
  <2>3. x \in Ring BY <1>4, <1>5, <2>1 DEF Ring
  <2> QED BY <1>1, <1>2, <1>4, <1>5, <2>1, <2>2, <2>3, SlotsAssumption DEF Size
<1>6. ASSUME r.out # << >>
      PROVE  /\ [r EXCEPT !.out = Tail(@), !.owed = @ + 1] \in Ring
             /\ Size([r EXCEPT !.out = Tail(@), !.owed = @ + 1]) <= Slots
  <2> DEFINE x == [r EXCEPT !.out = Tail(@), !.owed = @ + 1]
  <2>1. x.out = Tail(r.out) /\ x.owed = r.owed + 1 /\ x.back = r.back BY DEF Ring
  <2>2. x \in Ring
    <3>1. r.owed + 1 \in Nat BY <1>1
    <3> QED BY <1>4, <1>6, <3>1 DEF Ring
  <2> QED BY <1>1, <1>2, <1>4, <1>6, <2>1, <2>2, SlotsAssumption DEF Size
<1>7. ASSUME Size(r) < Slots
      PROVE  /\ [r EXCEPT !.out = Append(@, m)] \in Ring
             /\ Size([r EXCEPT !.out = Append(@, m)]) <= Slots
  <2> DEFINE x == [r EXCEPT !.out = Append(@, m)]
  <2>1. Append(r.out, m) \in Seq(Items) /\ Len(Append(r.out, m)) = Len(r.out) + 1 BY <1>1
  <2>2. x.out = Append(r.out, m) /\ x.owed = r.owed /\ x.back = r.back BY DEF Ring
  <2>3. x \in Ring BY <2>1 DEF Ring
  <2> QED BY <1>1, <1>2, <1>7, <2>1, <2>2, <2>3, SlotsAssumption DEF Size
<1> QED BY <1>3, <1>4, <1>5, <1>6, <1>7

\* A message of one ring is handled or published.
LEMMA RingChannel ==
  ASSUME BootInv, RingInv, NEW c \in Rings, NEW r \in Ring, Size(r) <= Slots,
         chan' = [chan EXCEPT ![c] = r], UNCHANGED << at, up, bound, irq, term, status >>,
         ring \subseteq ring', at \in {"poll", "up", "failed"},
         \/ (IF c = IO THEN r.back = << >> \/ chan[c].back # << >>
                       ELSE r.out = << >> \/ chan[c].out # << >>)
         \/ c = BUF_T2H \/ DoorbellBit[c] \in ring'
  PROVE  RingInv'
<1>1. ChanTypes' /\ chan'[c] = r /\ \A d \in Rings \ {c} : chan'[d] = chan[d]
  BY ChanStep DEF RingInv
<1>2. ASSUME NEW d \in Chans \ {BUF_T2H}, HasMessage(d)'
      PROVE  HasMessage(d) \/ DoorbellBit[d] \in ring'
  <2>1. CASE d = c BY <1>1, <1>2, <2>1, ChannelFacts DEF HasMessage, Inbox
  <2>2. CASE d # c BY <1>1, <1>2, <2>2, ChannelFacts DEF HasMessage, Inbox
  <2> QED BY <2>1, <2>2
<1>3. TermTypes' BY TermSame
<1> QED BY <1>1, <1>2, <1>3, RingMessage DEF BootInv

\* An acknowledgement is read.
LEMMA RingDrainIO == ASSUME BootInv, RingInv, DrainIO PROVE RingInv'
<1> DEFINE r == [chan[IO] EXCEPT !.back = Tail(@)]
<1>1. /\ At(IO) /\ chan' = [chan EXCEPT ![IO] = r]
      /\ UNCHANGED << at, up, bound, irq, term, status, ring >>
  BY DEF DrainIO, driver, firmware
<1>2. chan[IO] \in Ring /\ Size(chan[IO]) <= Slots BY ChannelFacts DEF RingInv, ChanTypes
<1>3. HasMessage(IO) /\ chan[IO].back # << >>
  BY <1>1, ChannelFacts DEF At, HasMessage, Inbox
<1>4. at \in {"poll", "up", "failed"} BY <1>3, MessageThere, ChannelFacts
<1>5. r \in Ring /\ Size(r) <= Slots
  <2>1. [b |-> "msg", size |-> 1] \in Items BY DEF Items
  <2> QED BY <1>2, <1>3, <2>1, RingMoves
<1> HIDE DEF r
<1> QED BY <1>1, <1>3, <1>4, <1>5, RingChannel, ChannelFacts

\* A notification is echoed.
LEMMA RingDrainT2H == ASSUME BootInv, RingInv, DrainT2H PROVE RingInv'
<1> DEFINE r == [chan[IO_T2H] EXCEPT !.out = Tail(@), !.back = Append(@, Head(chan[IO_T2H].out))]
<1>1. /\ At(IO_T2H) /\ chan' = [chan EXCEPT ![IO_T2H] = r]
      /\ UNCHANGED << at, up, bound, irq, term, status, ring >>
  BY DEF DrainT2H, driver, firmware
<1>2. chan[IO_T2H] \in Ring /\ Size(chan[IO_T2H]) <= Slots
  BY ChannelFacts DEF RingInv, ChanTypes
<1>3. HasMessage(IO_T2H) /\ chan[IO_T2H].out # << >>
  BY <1>1, ChannelFacts DEF At, HasMessage, Inbox
<1>4. at \in {"poll", "up", "failed"} BY <1>3, MessageThere, ChannelFacts
<1>5. Head(chan[IO_T2H].out) \in Items BY <1>2, <1>3 DEF Ring
<1>6. r \in Ring /\ Size(r) <= Slots BY <1>2, <1>3, <1>5, RingMoves
<1> HIDE DEF r
<1> QED BY <1>1, <1>3, <1>4, <1>6, RingChannel, ChannelFacts

\* Whatever SHAREDMALLOC's request was, its reply takes the place.
LEMMA RingShmReply ==
  ASSUME BootInv, RingInv, At(SHAREDMALLOC), NEW m \in Items, ShmReply(m),
         UNCHANGED << at, up, bound, irq, term, status, ring >>
  PROVE  RingInv'
<1> DEFINE r == [chan[SHAREDMALLOC] EXCEPT !.out = Tail(@), !.back = Append(@, m)]
<1>1. chan' = [chan EXCEPT ![SHAREDMALLOC] = r] BY DEF ShmReply
<1>2. chan[SHAREDMALLOC] \in Ring /\ Size(chan[SHAREDMALLOC]) <= Slots
  BY ChannelFacts DEF RingInv, ChanTypes
<1>3. HasMessage(SHAREDMALLOC) /\ chan[SHAREDMALLOC].out # << >>
  BY ChannelFacts DEF At, HasMessage, Inbox
<1>4. at \in {"poll", "up", "failed"} BY <1>3, MessageThere, ChannelFacts
<1>5. r \in Ring /\ Size(r) <= Slots BY <1>2, <1>3, RingMoves
<1> HIDE DEF r
<1> QED BY <1>1, <1>3, <1>4, <1>5, RingChannel, ChannelFacts

\* A request that failed is owed.
LEMMA RingOwed ==
  ASSUME BootInv, RingInv, At(SHAREDMALLOC),
         chan' = [chan EXCEPT ![SHAREDMALLOC].out = Tail(@), ![SHAREDMALLOC].owed = @ + 1],
         UNCHANGED << at, up, bound, irq, term, status, ring >>
  PROVE  RingInv'
<1> DEFINE r == [chan[SHAREDMALLOC] EXCEPT !.out = Tail(@), !.owed = @ + 1]
<1>1. chan' = [chan EXCEPT ![SHAREDMALLOC] = r] OBVIOUS
<1>2. chan[SHAREDMALLOC] \in Ring /\ Size(chan[SHAREDMALLOC]) <= Slots
  BY ChannelFacts DEF RingInv, ChanTypes
<1>3. HasMessage(SHAREDMALLOC) /\ chan[SHAREDMALLOC].out # << >>
  BY ChannelFacts DEF At, HasMessage, Inbox
<1>4. at \in {"poll", "up", "failed"} BY <1>3, MessageThere, ChannelFacts
<1>5. r \in Ring /\ Size(r) <= Slots
  <2>1. [b |-> "msg", size |-> 1] \in Items BY DEF Items
  <2> QED BY <1>2, <1>3, <2>1, RingMoves
<1> HIDE DEF r
<1> QED BY <1>1, <1>3, <1>4, <1>5, RingChannel, ChannelFacts

\* A block is freed.
LEMMA RingShmFree == ASSUME BootInv, RingInv, ShmFree PROVE RingInv'
<1>1. PICK b \in Blocks : ShmReply([b |-> b, size |-> 0]) BY DEF ShmFree
<1>2. [b |-> b, size |-> 0] \in Items BY DEF Items
<1>3. At(SHAREDMALLOC) /\ UNCHANGED << at, up, bound, irq, term, status, ring >>
  BY DEF ShmFree, driver, firmware
<1> QED BY <1>1, <1>2, <1>3, RingShmReply

\* A block is granted or refused.
LEMMA RingShmAlloc == ASSUME BootInv, RingInv, ShmAlloc PROVE RingInv'
<1>1. At(SHAREDMALLOC) /\ UNCHANGED << at, up, bound, irq, term, status, ring >>
  BY DEF ShmAlloc, driver, firmware
<1>2. CASE \E b \in FreeBlocks : ShmReply([b |-> b, size |-> 1])
  <2>1. PICK b \in FreeBlocks : ShmReply([b |-> b, size |-> 1]) BY <1>2
  <2>2. [b |-> b, size |-> 1] \in Items BY DEF Items, FreeBlocks
  <2> QED BY <1>1, <2>1, <2>2, RingShmReply
<1>3. CASE chan' = [chan EXCEPT ![SHAREDMALLOC].out = Tail(@), ![SHAREDMALLOC].owed = @ + 1]
  BY <1>1, <1>3, RingOwed
<1> QED BY <1>2, <1>3 DEF ShmAlloc

\* A line of TERMINAL is read.
LEMMA RingDrainTerminal == ASSUME BootInv, RingInv, DrainTerminal PROVE RingInv'
<1>1. /\ At(TERMINAL) /\ chan' = chan
      /\ term' = [term EXCEPT !.slot[term.rd] = "free", !.rd = (@ + 1) % TermSlots]
      /\ UNCHANGED << at, up, bound, irq, status, ring >>
  BY DEF DrainTerminal, driver, firmware
<1>2. HasMessage(TERMINAL) BY <1>1 DEF At
<1>3. at \in {"poll", "up", "failed"} BY <1>2, MessageThere, ChannelFacts
<1>4. TermTypes'
  <2>1. (term.rd + 1) % TermSlots \in 0 .. TermSlots - 1
    BY SlotsAssumption DEF RingInv, TermTypes
  <2> QED BY <1>1, <2>1 DEF RingInv, TermTypes
<1>5. ChanTypes' BY <1>1 DEF RingInv, ChanTypes
<1>6. \A c \in Chans \ {BUF_T2H} : HasMessage(c)' => HasMessage(c)
  BY <1>1, <1>2 DEF HasMessage, Inbox
<1> QED BY <1>1, <1>3, <1>4, <1>5, <1>6, RingMessage DEF BootInv

\* A message is put into a channel that has room.
LEMMA RingPut ==
  ASSUME BootInv, RingInv, NEW c \in Rings, NEW m \in Items, Outstanding(c) < Slots,
         chan' = [chan EXCEPT ![c].out = Append(@, m)],
         UNCHANGED << at, up, bound, irq, term, status >>, ring \subseteq ring',
         at \in {"poll", "up", "failed"}, c = IO \/ DoorbellBit[c] \in ring'
  PROVE  RingInv'
<1> DEFINE r == [chan[c] EXCEPT !.out = Append(@, m)]
<1>1. chan' = [chan EXCEPT ![c] = r] OBVIOUS
<1>2. chan[c] \in Ring /\ Size(chan[c]) < Slots BY DEF RingInv, ChanTypes, Size, Outstanding
<1>3. Size(chan[c]) <= Slots BY DEF RingInv, ChanTypes
<1>4. r \in Ring /\ Size(r) <= Slots BY <1>2, <1>3, RingMoves
<1>5. r.back = chan[c].back BY <1>2 DEF Ring
<1> HIDE DEF r
<1> QED BY <1>1, <1>4, <1>5, RingChannel

\* A command is sent.
LEMMA RingIpcSend == ASSUME BootInv, RingInv, IpcSend PROVE RingInv'
<1>1. /\ at = "up" /\ Outstanding(IO) < Slots
      /\ chan' = [chan EXCEPT ![IO].out = Append(@, [b |-> "cmd", size |-> 1])]
      /\ UNCHANGED << at, up, bound, irq, term, status, ring >>
  BY DEF IpcSend, driver
<1>2. [b |-> "cmd", size |-> 1] \in Items BY DEF Items
<1> QED BY <1>1, <1>2, RingPut, ChannelFacts

\* A running firmware publishes on a ring.
LEMMA RingPublish ==
  ASSUME BootInv, RingInv, NEW c \in Rings, NEW m \in Items, FwPublishes(c), FwSend(c, m)
  PROVE  RingInv'
<1>1. /\ fw = "running" /\ ring = {} /\ ring' = {DoorbellBit[c]} /\ Outstanding(c) < Slots
      /\ chan' = [chan EXCEPT ![c].out = Append(@, m)]
      /\ UNCHANGED << at, up, bound, irq, term, status >>
  BY DEF FwPublishes, FwSend, driver
<1>2. at \in {"poll", "up", "failed"} BY <1>1 DEF BootInv, FwCounts
<1> QED BY <1>1, <1>2, RingPut

\* Notifications.
LEMMA RingFwNotify == ASSUME BootInv, RingInv, FwNotify PROVE RingInv'
<1>1. [b |-> "msg", size |-> 1] \in Items BY DEF Items
<1>2. PICK c \in {IO_T2H, BUF_T2H} : FwPublishes(c) /\ FwSend(c, [b |-> "msg", size |-> 1])
  BY DEF FwNotify
<1>3. c \in Rings BY ChannelFacts
<1> QED BY <1>1, <1>2, <1>3, RingPublish

\* A request for memory.
LEMMA RingFwMalloc == ASSUME BootInv, RingInv, FwMalloc PROVE RingInv'
<1>1. [b |-> "null", size |-> 1] \in Items BY DEF Items
<1> QED BY <1>1, RingPublish, ChannelFacts DEF FwMalloc

\* A block is given back: it is one of the host's.
LEMMA RingFwFree == ASSUME BootInv, RingInv, holds \subseteq Blocks, FwFree PROVE RingInv'
<1>1. PICK b \in holds : FwPublishes(SHAREDMALLOC) /\ FwSend(SHAREDMALLOC, [b |-> b, size |-> 0])
  BY DEF FwFree
<1>2. [b |-> b, size |-> 0] \in Items BY DEF Items
<1> QED BY <1>1, <1>2, RingPublish, ChannelFacts

\* A line is written.
LEMMA RingFwLog == ASSUME BootInv, RingInv, FwLog PROVE RingInv'
<1>1. /\ fw = "running" /\ ring = {} /\ ring' = {DoorbellBit[TERMINAL]} /\ chan' = chan
      /\ term' = [term EXCEPT !.slot[term.wr] = "line", !.wr = (@ + 1) % TermSlots]
      /\ UNCHANGED << at, up, bound, irq, status >>
  BY DEF FwLog, FwPublishes, driver
<1>2. at \in {"poll", "up", "failed"} BY <1>1 DEF BootInv, FwCounts
<1>3. TermTypes'
  <2>1. (term.wr + 1) % TermSlots \in 0 .. TermSlots - 1
    BY SlotsAssumption DEF RingInv, TermTypes
  <2> QED BY <1>1, <2>1 DEF RingInv, TermTypes
<1>4. ChanTypes' BY <1>1 DEF RingInv, ChanTypes
<1>5. \A c \in Chans \ {BUF_T2H} : HasMessage(c)' => HasMessage(c) \/ DoorbellBit[c] \in ring'
  BY <1>1 DEF HasMessage, Inbox
<1> QED BY <1>1, <1>2, <1>3, <1>4, <1>5, RingMessage DEF BootInv

\* A command is acknowledged.
LEMMA RingFwAck == ASSUME BootInv, RingInv, FwAck PROVE RingInv'
<1> DEFINE r == [chan[IO] EXCEPT !.out = Tail(@), !.back = Append(@, Head(chan[IO].out))]
<1>1. /\ fw = "running" /\ ring = {} /\ ring' = {DoorbellBit[IO]} /\ chan[IO].out # << >>
      /\ chan' = [chan EXCEPT ![IO] = r]
      /\ UNCHANGED << at, up, bound, irq, term, status >>
  BY DEF FwAck, driver
<1>2. chan[IO] \in Ring /\ Size(chan[IO]) <= Slots BY ChannelFacts DEF RingInv, ChanTypes
<1>3. Head(chan[IO].out) \in Items BY <1>1, <1>2 DEF Ring
<1>4. r \in Ring /\ Size(r) <= Slots BY <1>1, <1>2, <1>3, RingMoves
<1>5. at \in {"poll", "up", "failed"} BY <1>1 DEF BootInv, FwCounts
<1> HIDE DEF r
<1> QED BY <1>1, <1>4, <1>5, RingChannel, ChannelFacts

\* A reply is taken.
LEMMA RingFwTakes == ASSUME BootInv, RingInv, FwTakes PROVE RingInv'
<1>1. PICK c \in {IO_T2H, SHAREDMALLOC} :
        /\ fw = "running" /\ chan[c].back # << >>
        /\ chan' = [chan EXCEPT ![c].back = Tail(@)]
        /\ UNCHANGED << at, up, bound, irq, term, status, ring >>
  BY DEF FwTakes, driver
<1> DEFINE r == [chan[c] EXCEPT !.back = Tail(@)]
<1>2. c \in Rings /\ c # IO BY ChannelFacts
<1>3. chan[c] \in Ring /\ Size(chan[c]) <= Slots BY <1>2 DEF RingInv, ChanTypes
<1>4. r \in Ring /\ Size(r) <= Slots
  <2>1. [b |-> "msg", size |-> 1] \in Items BY DEF Items
  <2> QED BY <1>1, <1>3, <2>1, RingMoves
<1>5. r.out = chan[c].out BY <1>3 DEF Ring
<1>6. at \in {"poll", "up", "failed"} BY <1>1 DEF BootInv, FwCounts
<1>7. chan' = [chan EXCEPT ![c] = r] BY <1>1
<1> HIDE DEF r
<1> QED BY <1>1, <1>2, <1>4, <1>5, <1>6, <1>7, RingChannel

\* A doorbell is asserted.
LEMMA RingFwDoorbell == ASSUME BootInv, RingInv, FwDoorbell PROVE RingInv'
<1>1. /\ status' = status \cup ring /\ ring' = {}
      /\ UNCHANGED << at, up, bound, irq, chan, term >>
  BY DEF FwDoorbell, driver, rings
<1>2. ChanTypes' BY <1>1 DEF RingInv, ChanTypes
<1>3. TermTypes' BY <1>1, TermSame
<1>4. Quiet' BY <1>1 DEF RingInv, Quiet
<1>5. Heard'
  <2> SUFFICES ASSUME up, NEW c \in bound \ {BUF_T2H}, HasMessage(c)'
               PROVE  DoorbellBit[c] \in (ring \cup status \cup Pending(c))'
    BY <1>1 DEF Heard
  <2>1. HasMessage(c) BY <1>1 DEF HasMessage, Inbox
  <2>2. Pending(c)' = Pending(c) BY <1>1 DEF Pending
  <2> QED BY <1>1, <2>1, <2>2 DEF RingInv, Heard
<1> QED BY <1>2, <1>3, <1>4, <1>5 DEF RingInv

\* The handler takes every doorbell that is asserted, and starts with the first
\* channel.
LEMMA RingIrqEnter == ASSUME BootInv, RingInv, IrqEnter PROVE RingInv'
<1>1. /\ irq.id = 0 /\ status' = {}
      /\ irq' = IF up THEN [status |-> status, id |-> 1] ELSE irq
      /\ UNCHANGED << at, up, bound, chan, term, ring >>
  BY DEF IrqEnter, driver, rings, firmware
<1>2. ChanTypes' BY <1>1 DEF RingInv, ChanTypes
<1>3. TermTypes' BY <1>1 DEF RingInv, TermTypes, BootInv, BootTypes, ChMax
<1>4. Quiet' BY <1>1 DEF RingInv, Quiet, BootInv, AtPhase
<1>5. Heard'
  <2> SUFFICES ASSUME up, NEW c \in bound \ {BUF_T2H}, HasMessage(c)'
               PROVE  DoorbellBit[c] \in (ring \cup status \cup Pending(c))'
    BY <1>1 DEF Heard
  <2>1. HasMessage(c) BY <1>1 DEF HasMessage, Inbox
  <2>2. c \in Chans BY DEF BootInv, BootTypes
  <2>3. c >= 1 BY <2>2 DEF Chans, IO, IO_T2H, SHAREDMALLOC, TERMINAL, BUF_T2H
  <2>4. Pending(c) = {} BY <1>1 DEF Pending
  <2>5. Pending(c)' = status
    <3>1. irq'.status = status /\ irq'.id = 1 BY <1>1
    <3> QED BY <2>2, <2>3, <3>1 DEF Pending
  <2> QED BY <1>1, <2>1, <2>4, <2>5 DEF RingInv, Heard
<1> QED BY <1>2, <1>3, <1>4, <1>5 DEF RingInv

\* The handler goes on to the next channel, with nothing to take left in this one.
LEMMA NextChannel ==
  ASSUME BootInv, RingInv, irq.id # 0, irq' = NextChan,
         UNCHANGED << at, up, bound, term, status, ring >>,
         \A d \in Rings \ {BUF_T2H} : chan'[d] = chan[d],
         irq.id \in Chans \ {BUF_T2H} => ~(Drains(irq.id) /\ HasMessage(irq.id))
  PROVE  TermTypes' /\ Heard'
<1>1. irq.id \in 1 .. 7 /\ irq.status \subseteq Bits
      /\ irq = [status |-> irq.status, id |-> irq.id]
  BY DEF RingInv, TermTypes, ChMax
<1>2. \/ irq.id < 7 /\ irq'.id = irq.id + 1 /\ irq'.status = irq.status
      \/ irq.id = 7 /\ irq'.id = 0 /\ irq'.status = {}
  BY <1>1 DEF NextChan, ChMax
<1>3. TermTypes'
  <2>1. irq'.id \in 0 .. ChMax - 1 /\ irq'.status \subseteq Bits BY <1>1, <1>2 DEF ChMax
  <2>2. irq' = [status |-> irq'.status, id |-> irq'.id] BY <1>1 DEF NextChan
  <2>3. irq' \in [status : SUBSET Bits, id : 0 .. ChMax - 1] BY <2>1, <2>2
  <2> QED BY <2>3 DEF RingInv, TermTypes
<1>4. Heard'
  <2> SUFFICES ASSUME up, NEW c \in bound \ {BUF_T2H}, HasMessage(c)'
               PROVE  DoorbellBit[c] \in (ring \cup status \cup Pending(c))'
    BY DEF Heard
  <2>1. c \in Chans /\ c # BUF_T2H BY DEF BootInv, BootTypes
  <2>2. HasMessage(c) BY <2>1, ChannelFacts DEF HasMessage, Inbox
  <2>3. DoorbellBit[c] \in ring \cup status \cup Pending(c) BY <2>2 DEF RingInv, Heard
  <2>4. c \in 1 .. 6
    BY <2>1 DEF Chans, IO, IO_T2H, SHAREDMALLOC, TERMINAL, BUF_T2H
  <2>5. CASE irq.id = c
    <3>1. ~Drains(c) BY <2>1, <2>2, <2>5
    <3>2. DoorbellBit[c] \notin irq.status BY <3>1 DEF Drains
    <3> QED BY <2>3, <3>2 DEF Pending
  <2>6. CASE irq.id # c
    <3>1. Pending(c)' = Pending(c) BY <1>1, <1>2, <2>4, <2>6 DEF Pending
    <3> QED BY <2>3, <3>1
  <2> QED BY <2>5, <2>6
<1> QED BY <1>3, <1>4

\* A channel is skipped.
LEMMA RingSkipChannel == ASSUME BootInv, RingInv, SkipChannel PROVE RingInv'
<1>1. /\ irq.id # 0 /\ irq' = NextChan
      /\ ~(irq.id \in Chans /\ Drains(irq.id) /\ HasMessage(irq.id))
      /\ UNCHANGED << at, up, bound, chan, term, status, ring >>
  BY DEF SkipChannel, driver, rings, firmware
<1>2. TermTypes' /\ Heard' BY <1>1, NextChannel
<1>3. ChanTypes' BY <1>1 DEF RingInv, ChanTypes
<1>4. Quiet' BY <1>1 DEF RingInv, Quiet
<1> QED BY <1>2, <1>3, <1>4 DEF RingInv

\* One message of BUF_T2H is dropped.
LEMMA RingDrainOther == ASSUME BootInv, RingInv, DrainOther PROVE RingInv'
<1> DEFINE r == [chan[BUF_T2H] EXCEPT !.out = Tail(@), !.owed = @ + 1]
<1>1. /\ At(BUF_T2H) /\ irq' = NextChan /\ chan' = [chan EXCEPT ![BUF_T2H] = r]
      /\ UNCHANGED << at, up, bound, term, status, ring >>
  BY DEF DrainOther, driver, firmware
<1>2. chan[BUF_T2H] \in Ring /\ Size(chan[BUF_T2H]) <= Slots
  BY ChannelFacts DEF RingInv, ChanTypes
<1>3. irq.id = BUF_T2H /\ HasMessage(BUF_T2H) /\ chan[BUF_T2H].out # << >>
  BY <1>1, ChannelFacts DEF At, HasMessage, Inbox
<1>4. at \in {"poll", "up", "failed"} BY <1>3, MessageThere, ChannelFacts
<1>5. r \in Ring /\ Size(r) <= Slots
  <2>1. [b |-> "msg", size |-> 1] \in Items BY DEF Items
  <2> QED BY <1>2, <1>3, <2>1, RingMoves
<1> HIDE DEF r
<1>6. ChanTypes' /\ \A d \in Rings \ {BUF_T2H} : chan'[d] = chan[d]
  BY <1>1, <1>5, ChanStep, ChannelFacts DEF RingInv
<1>7. TermTypes' /\ Heard'
  <2>1. irq.id # 0 BY <1>3 DEF BUF_T2H
  <2> QED BY <1>1, <1>3, <1>6, <2>1, NextChannel
<1>8. Quiet' BY <1>1, <1>4 DEF Quiet
<1> QED BY <1>6, <1>7, <1>8 DEF RingInv

-----------------------------------------------------------------------------
\* SHAREDMALLOC.

\* A reply added to those on their way, or taken from them.
LEMMA GrantsMove ==
  ASSUME NEW s \in Seq(Items), NEW m \in Items
  PROVE  /\ m.size = 0 => Grants(Append(s, m)) = Grants(s)
         /\ m.size # 0 => Grants(Append(s, m)) = Grants(s) \cup {m.b}
         /\ GrantsOnce(s) /\ (m.size # 0 => m.b \notin Grants(s)) => GrantsOnce(Append(s, m))
         /\ s # << >> /\ GrantsOnce(s) =>
              /\ GrantsOnce(Tail(s))
              /\ Head(s).size = 0 => Grants(Tail(s)) = Grants(s)
              /\ Head(s).size # 0 =>
                   Head(s).b \in Grants(s) /\ Grants(Tail(s)) = Grants(s) \ {Head(s).b}
<1>1. /\ DOMAIN Append(s, m) = 1 .. Len(s) + 1 /\ DOMAIN s = 1 .. Len(s) /\ Len(s) \in Nat
      /\ Append(s, m)[Len(s) + 1] = m
      /\ \A i \in 1 .. Len(s) : Append(s, m)[i] = s[i]
  OBVIOUS
<1>2. Grants(Append(s, m)) = Grants(s) \cup (IF m.size # 0 THEN {m.b} ELSE {})
  BY <1>1 DEF Grants
<1>3. ASSUME GrantsOnce(s), m.size # 0 => m.b \notin Grants(s)
      PROVE  GrantsOnce(Append(s, m))
  BY <1>1, <1>3 DEF Grants, GrantsOnce
<1>4. ASSUME s # << >>, GrantsOnce(s)
      PROVE  /\ GrantsOnce(Tail(s))
             /\ Head(s).size = 0 => Grants(Tail(s)) = Grants(s)
             /\ Head(s).size # 0 =>
                  Head(s).b \in Grants(s) /\ Grants(Tail(s)) = Grants(s) \ {Head(s).b}
  <2>1. /\ DOMAIN Tail(s) = 1 .. Len(s) - 1 /\ Len(s) >= 1 /\ Head(s) = s[1]
        /\ \A i \in 1 .. Len(s) - 1 : Tail(s)[i] = s[i + 1]
    BY <1>4
  <2>2. GrantsOnce(Tail(s)) BY <1>1, <1>4, <2>1 DEF GrantsOnce
  <2>3. \A i \in 2 .. Len(s) : i - 1 \in DOMAIN Tail(s) /\ Tail(s)[i - 1] = s[i] BY <1>1, <2>1
  <2>4. Grants(Tail(s)) \subseteq Grants(s) BY <1>1, <2>1 DEF Grants
  <2>5. ASSUME NEW x \in Grants(s), x \notin Grants(Tail(s))
        PROVE  Head(s).size # 0 /\ x = Head(s).b
    <3>1. PICK i \in DOMAIN s : s[i].size # 0 /\ x = s[i].b BY DEF Grants
    <3>2. ~(i \in 2 .. Len(s)) BY <2>3, <2>5, <3>1 DEF Grants
    <3> QED BY <1>1, <2>1, <3>1, <3>2
  <2>6. ASSUME Head(s).size # 0 PROVE Head(s).b \in Grants(s) /\ Head(s).b \notin Grants(Tail(s))
    <3>1. Head(s).b \in Grants(s) BY <1>1, <2>1, <2>6 DEF Grants
    <3>2. \A j \in 2 .. Len(s) : s[j].size # 0 => s[j].b # s[1].b
      BY <1>1, <1>4, <2>1, <2>6 DEF GrantsOnce
    <3>3. Head(s).b \notin Grants(Tail(s)) BY <1>1, <2>1, <3>2 DEF Grants
    <3> QED BY <3>1, <3>3
  <2> QED BY <2>2, <2>4, <2>5, <2>6
<1> QED BY <1>2, <1>3, <1>4

\* A request added to those on their way, or taken from them.
LEMMA FreesMove ==
  ASSUME NEW s \in Seq(Items), NEW m \in Items
  PROVE  /\ m.b \notin Blocks => Frees(Append(s, m)) = Frees(s)
         /\ m.b \in Blocks => Frees(Append(s, m)) = Frees(s) \cup {m.b}
         /\ FreesOnce(s) /\ m.b \notin Frees(s) => FreesOnce(Append(s, m))
         /\ s # << >> /\ FreesOnce(s) =>
              /\ FreesOnce(Tail(s))
              /\ Head(s).b \notin Blocks => Frees(Tail(s)) = Frees(s)
              /\ Head(s).b \in Blocks =>
                   Head(s).b \in Frees(s) /\ Frees(Tail(s)) = Frees(s) \ {Head(s).b}
<1>1. /\ DOMAIN Append(s, m) = 1 .. Len(s) + 1 /\ DOMAIN s = 1 .. Len(s) /\ Len(s) \in Nat
      /\ Append(s, m)[Len(s) + 1] = m
      /\ \A i \in 1 .. Len(s) : Append(s, m)[i] = s[i]
  OBVIOUS
<1>2. Frees(Append(s, m)) = Frees(s) \cup (IF m.b \in Blocks THEN {m.b} ELSE {})
  BY <1>1 DEF Frees
<1>3. ASSUME FreesOnce(s), m.b \notin Frees(s)
      PROVE  FreesOnce(Append(s, m))
  BY <1>1, <1>3 DEF Frees, FreesOnce
<1>4. ASSUME s # << >>, FreesOnce(s)
      PROVE  /\ FreesOnce(Tail(s))
             /\ Head(s).b \notin Blocks => Frees(Tail(s)) = Frees(s)
             /\ Head(s).b \in Blocks =>
                  Head(s).b \in Frees(s) /\ Frees(Tail(s)) = Frees(s) \ {Head(s).b}
  <2>1. /\ DOMAIN Tail(s) = 1 .. Len(s) - 1 /\ Len(s) >= 1 /\ Head(s) = s[1]
        /\ \A i \in 1 .. Len(s) - 1 : Tail(s)[i] = s[i + 1]
    BY <1>4
  <2>2. FreesOnce(Tail(s)) BY <1>1, <1>4, <2>1 DEF FreesOnce
  <2>3. \A i \in 2 .. Len(s) : i - 1 \in DOMAIN Tail(s) /\ Tail(s)[i - 1] = s[i] BY <1>1, <2>1
  <2>4. Frees(Tail(s)) \subseteq Frees(s) BY <1>1, <2>1 DEF Frees
  <2>5. ASSUME NEW x \in Frees(s), x \notin Frees(Tail(s))
        PROVE  Head(s).b \in Blocks /\ x = Head(s).b
    <3>1. PICK i \in DOMAIN s : s[i].b \in Blocks /\ x = s[i].b BY DEF Frees
    <3>2. ~(i \in 2 .. Len(s)) BY <2>3, <2>5, <3>1 DEF Frees
    <3> QED BY <1>1, <2>1, <3>1, <3>2
  <2>6. ASSUME Head(s).b \in Blocks
        PROVE  Head(s).b \in Frees(s) /\ Head(s).b \notin Frees(Tail(s))
    <3>1. Head(s).b \in Frees(s) BY <1>1, <2>1, <2>6 DEF Frees
    <3>2. \A j \in 2 .. Len(s) : s[j].b # s[1].b
      BY <1>1, <1>4, <2>1, <2>6 DEF FreesOnce
    <3>3. Head(s).b \notin Frees(Tail(s)) BY <1>1, <2>1, <3>2 DEF Frees
    <3> QED BY <3>1, <3>3
  <2> QED BY <2>2, <2>4, <2>5, <2>6
<1> QED BY <1>2, <1>3, <1>4

\* A step of something else.
LEMMA ShmOther ==
  ASSUME ShmInv, UNCHANGED << pool, sized, leaked, shm, unserved, holds >>,
         chan'[SHAREDMALLOC] = chan[SHAREDMALLOC], faults \subseteq faults',
         at' = "idle" => at = "idle"
  PROVE  ShmInv'
<1>1. TableInv' BY DEF ShmInv, TableInv
<1>2. PlacesInv' BY DEF ShmInv, PlacesInv, Replies, Requests
<1>3. PoolInv' BY DEF ShmInv, PoolInv, PoolReturned
<1> QED BY <1>1, <1>2, <1>3 DEF ShmInv

\* A boot starts with an empty pool.
LEMMA ShmBootConfig == ASSUME ShmInv, BootConfig PROVE ShmInv'
<1>1. /\ at = "idle" /\ at' = "early" /\ chan' = chan
      /\ UNCHANGED << pool, sized, leaked, shm, unserved, holds >>
  BY DEF BootConfig, rings, memory
<1>2. TableInv' BY <1>1 DEF ShmInv, TableInv
<1>3. PlacesInv' BY <1>1 DEF ShmInv, PlacesInv, Replies, Requests
<1>4. PoolInv' BY <1>1 DEF ShmInv, PoolInv, PoolReturned, TableInv
<1> QED BY <1>2, <1>3, <1>4 DEF ShmInv

\* The two blocks of message 4 are none of the firmware's.
LEMMA ShmSendMsg4 == ASSUME ShmInv, SendMsg4 PROVE ShmInv'
<1>1. /\ at = "alloc" /\ at' # "idle" /\ chan' = chan
      /\ UNCHANGED << leaked, shm, unserved, holds >>
  BY DEF SendMsg4, Fails, rings, firmware
<1>2. /\ pool' \subseteq pool \cup {"chanmem", "ipcinfo"} /\ pool \subseteq pool'
      /\ \/ sized' = TRUE /\ faults' = faults
         \/ sized' = sized /\ "memory" \in faults'
  BY DEF SendMsg4
<1>3. TableInv'
  <2>1. pool' \cap Blocks = pool \cap Blocks BY <1>2, BlocksAssumption
  <2> QED BY <1>1, <1>2, <2>1 DEF ShmInv, TableInv
<1>4. PlacesInv' BY <1>1 DEF ShmInv, PlacesInv, Replies, Requests
<1>5. PoolInv' BY <1>1, <1>2 DEF ShmInv, PoolInv, PoolReturned
<1> QED BY <1>3, <1>4, <1>5 DEF ShmInv

\* The pool comes back but for a channel block whose size was never set.
LEMMA ShmTeardown == ASSUME ShmInv, Teardown PROVE ShmInv'
<1>1. /\ shm' = {} /\ pool' = {} /\ chan' = Empty /\ unserved' = 0 /\ holds' = {}
      /\ leaked' = (pool \ Freed # {}) /\ sized' = sized /\ faults' = faults
  BY DEF Teardown
<1>2. TableInv'
  <2>1. IsFiniteSet(shm') /\ Cardinality(shm') = 0 BY <1>1, FS_EmptySet
  <2> QED BY <1>1, <2>1, ShmMaxAssumption DEF TableInv
<1>3. PlacesInv'
  <2>1. Replies' = << >> /\ Requests' = << >> /\ chan'[SHAREDMALLOC].owed = 0
    BY <1>1, ChannelFacts DEF Empty, Replies, Requests
  <2>2. Grants(<< >>) = {} /\ Frees(<< >>) = {} /\ GrantsOnce(<< >>) /\ FreesOnce(<< >>)
    BY DEF Grants, Frees, GrantsOnce, FreesOnce
  <2> QED BY <1>1, <2>1, <2>2 DEF PlacesInv
<1>4. PoolInv'
  <2>1. ASSUME leaked' PROVE ~sized /\ "memory" \in faults
    <3>1. PICK b \in pool : b \notin shm /\ b # "ipcinfo" /\ (sized => b # "chanmem")
      BY <1>1, <2>1 DEF Freed
    <3>2. b = "chanmem" BY <3>1 DEF ShmInv, TableInv
    <3> QED BY <3>1, <3>2 DEF ShmInv, PoolInv
  <2> QED BY <1>1, <2>1 DEF ShmInv, PoolInv, PoolReturned
<1> QED BY <1>2, <1>3, <1>4 DEF ShmInv

\* A block that comes back leaves the table and the pool.
LEMMA ShmShmFree == ASSUME RingInv, ShmInv, ShmFree PROVE ShmInv'
<1> DEFINE b == Head(Requests).b
           m == [b |-> b, size |-> 0]
<1>1. /\ At(SHAREDMALLOC) /\ b \in Blocks /\ shm' = shm \ {b}
      /\ pool' = (IF b \in shm THEN pool \ {b} ELSE pool) /\ ShmReply(m)
      /\ UNCHANGED << at, sized, leaked, unserved, faults, holds >>
  BY DEF ShmFree, driver, firmware, ForgetsBlock, Requests
<1>2. chan[SHAREDMALLOC] \in Ring /\ Requests # << >>
  BY <1>1, ChannelFacts DEF RingInv, ChanTypes, At, HasMessage, Inbox, Requests
<1>3. Replies \in Seq(Items) /\ Requests \in Seq(Items) BY <1>2 DEF Ring, Replies, Requests
<1>4. m \in Items BY <1>1 DEF Items
<1>5. Requests' = Tail(Requests) /\ Replies' = Append(Replies, m)
      /\ chan'[SHAREDMALLOC].owed = chan[SHAREDMALLOC].owed
  BY <1>1, <1>2, ChannelFacts DEF RingInv, ChanTypes, Ring, ShmReply, Requests, Replies
<1>6. Grants(Replies') = Grants(Replies) /\ GrantsOnce(Replies')
  BY <1>3, <1>4, <1>5, GrantsMove DEF ShmInv, PlacesInv
<1>7. b \in Frees(Requests) /\ Frees(Requests') = Frees(Requests) \ {b} /\ FreesOnce(Requests')
  BY <1>1, <1>2, <1>3, <1>4, <1>5, FreesMove DEF ShmInv, PlacesInv
<1>8. TableInv'
  <2>1. IsFiniteSet(shm) /\ b \in shm BY <1>7 DEF ShmInv, TableInv, PlacesInv
  <2>2. IsFiniteSet(shm') /\ Cardinality(shm') = Cardinality(shm) - 1 /\ Cardinality(shm) \in Nat
    BY <1>1, <2>1, FS_RemoveElement, FS_CardinalityType
  <2> HIDE DEF b
  <2> QED BY <1>1, <2>1, <2>2, ShmMaxAssumption DEF ShmInv, TableInv
<1>9. PlacesInv' BY <1>1, <1>5, <1>6, <1>7 DEF ShmInv, PlacesInv
<1>10. PoolInv' BY <1>1 DEF ShmInv, PoolInv, PoolReturned
<1> QED BY <1>8, <1>9, <1>10 DEF ShmInv

\* A block that is granted was in the pool, and the table had room.
LEMMA ShmShmAlloc == ASSUME RingInv, ShmInv, ShmAlloc PROVE ShmInv'
<1>1. /\ At(SHAREDMALLOC) /\ Head(Requests).b \notin Blocks
      /\ UNCHANGED << at, sized, leaked, faults, holds >>
  BY DEF ShmAlloc, driver, firmware, Requests
<1>2. chan[SHAREDMALLOC] \in Ring /\ Requests # << >>
  BY <1>1, ChannelFacts DEF RingInv, ChanTypes, At, HasMessage, Inbox, Requests
<1>3. Replies \in Seq(Items) /\ Requests \in Seq(Items) BY <1>2 DEF Ring, Replies, Requests
<1>4. Frees(Tail(Requests)) = Frees(Requests) /\ FreesOnce(Tail(Requests))
  <2>1. Head(Requests) \in Items BY <1>2, <1>3
  <2> QED BY <1>1, <1>2, <1>3, <2>1, FreesMove DEF ShmInv, PlacesInv
<1>5. PoolInv'
  <2>1. pool' = pool \/ \E b \in Blocks : pool' = pool \cup {b} BY DEF ShmAlloc, FreeBlocks
  <2>2. "chanmem" \in pool' => "chanmem" \in pool BY <2>1, BlocksAssumption
  <2> QED BY <1>1, <2>2 DEF ShmInv, PoolInv, PoolReturned
<1>6. CASE /\ unserved' = unserved + 1 /\ UNCHANGED << pool, shm >>
           /\ chan' = [chan EXCEPT ![SHAREDMALLOC].out = Tail(@), ![SHAREDMALLOC].owed = @ + 1]
  <2>1. /\ Requests' = Tail(Requests) /\ Replies' = Replies
        /\ chan'[SHAREDMALLOC].owed = chan[SHAREDMALLOC].owed + 1
    BY <1>2, <1>6, ChannelFacts DEF RingInv, ChanTypes, Ring, Requests, Replies
  <2>2. TableInv' BY <1>1, <1>6 DEF ShmInv, TableInv
  <2>3. PlacesInv' BY <1>1, <1>4, <1>6, <2>1 DEF ShmInv, PlacesInv
  <2> QED BY <1>5, <2>2, <2>3 DEF ShmInv
<1>7. CASE \E b \in FreeBlocks :
             /\ Fits /\ pool' = pool \cup {b} /\ shm' = shm \cup {b}
             /\ ShmReply([b |-> b, size |-> 1]) /\ unserved' = unserved
  <2>1. PICK b \in FreeBlocks :
             /\ Fits /\ pool' = pool \cup {b} /\ shm' = shm \cup {b}
             /\ ShmReply([b |-> b, size |-> 1]) /\ unserved' = unserved
    BY <1>7
  <2>2. b \in Blocks /\ b \notin shm BY DEF FreeBlocks, ShmInv, TableInv
  <2> DEFINE m == [b |-> b, size |-> 1]
  <2>3. m \in Items /\ m.b = b /\ m.size # 0 BY <2>2 DEF Items
  <2>4. Requests' = Tail(Requests) /\ Replies' = Append(Replies, m)
        /\ chan'[SHAREDMALLOC].owed = chan[SHAREDMALLOC].owed
    BY <1>2, <2>1, ChannelFacts DEF RingInv, ChanTypes, Ring, ShmReply, Requests, Replies
  <2> HIDE DEF m
  <2>5. b \notin Grants(Replies) BY <2>2 DEF ShmInv, PlacesInv
  <2>6. Grants(Replies') = Grants(Replies) \cup {b} /\ GrantsOnce(Replies')
    BY <1>3, <2>3, <2>4, <2>5, GrantsMove DEF ShmInv, PlacesInv
  <2>7. TableInv'
    <3>1. IsFiniteSet(shm) /\ Cardinality(shm) < ShmMax BY <2>1 DEF ShmInv, TableInv, Fits
    <3>2. IsFiniteSet(shm') /\ Cardinality(shm') = Cardinality(shm) + 1
          /\ Cardinality(shm) \in Nat
      BY <2>1, <2>2, <3>1, FS_AddElement, FS_CardinalityType
    <3>3. Cardinality(shm') <= ShmMax BY <3>1, <3>2, ShmMaxAssumption
    <3>4. at # "idle" BY <1>2, ChannelFacts DEF RingInv, Quiet, Empty, Requests
    <3> QED BY <1>1, <2>1, <2>2, <3>2, <3>3, <3>4 DEF ShmInv, TableInv
  <2>8. PlacesInv' BY <1>1, <1>4, <2>1, <2>2, <2>4, <2>6 DEF ShmInv, TableInv, PlacesInv
  <2> QED BY <1>5, <2>7, <2>8 DEF ShmInv
<1> QED BY <1>6, <1>7 DEF ShmAlloc

\* A request names no block.
LEMMA ShmFwMalloc == ASSUME RingInv, ShmInv, FwMalloc PROVE ShmInv'
<1> DEFINE m == [b |-> "null", size |-> 1]
<1>1. /\ chan' = [chan EXCEPT ![SHAREDMALLOC].out = Append(@, m)]
      /\ UNCHANGED << at, pool, sized, leaked, shm, unserved, faults, holds >>
  BY DEF FwMalloc, FwPublishes, FwSend, driver, memory
<1>2. chan[SHAREDMALLOC] \in Ring BY ChannelFacts DEF RingInv, ChanTypes
<1>3. m \in Items /\ m.b \notin Blocks BY BlocksAssumption DEF Items
<1>4. Requests \in Seq(Items) BY <1>2 DEF Ring, Requests
<1>5. Requests' = Append(Requests, m) /\ Replies' = Replies
      /\ chan'[SHAREDMALLOC].owed = chan[SHAREDMALLOC].owed
  BY <1>1, <1>2, ChannelFacts DEF RingInv, ChanTypes, Ring, Requests, Replies
<1> HIDE DEF m
<1>6. m.b \notin Frees(Requests) BY <1>3 DEF Frees
<1>7. Frees(Requests') = Frees(Requests) /\ FreesOnce(Requests')
  BY <1>3, <1>4, <1>5, <1>6, FreesMove DEF ShmInv, PlacesInv
<1>8. TableInv' BY <1>1 DEF ShmInv, TableInv
<1>9. PlacesInv' BY <1>1, <1>5, <1>7 DEF ShmInv, PlacesInv
<1>10. PoolInv' BY <1>1 DEF ShmInv, PoolInv, PoolReturned
<1> QED BY <1>8, <1>9, <1>10 DEF ShmInv

\* A block that is given back moves from the firmware to the request.
LEMMA ShmFwFree == ASSUME RingInv, ShmInv, FwFree PROVE ShmInv'
<1>1. PICK b \in holds :
        /\ chan' = [chan EXCEPT ![SHAREDMALLOC].out = Append(@, [b |-> b, size |-> 0])]
        /\ holds' = holds \ {b}
        /\ UNCHANGED << at, pool, sized, leaked, shm, unserved, faults >>
  BY DEF FwFree, FwPublishes, FwSend, driver, memory
<1> DEFINE m == [b |-> b, size |-> 0]
<1>2. chan[SHAREDMALLOC] \in Ring BY ChannelFacts DEF RingInv, ChanTypes
<1>3. b \in Blocks BY DEF ShmInv, TableInv, PlacesInv
<1>4. m \in Items /\ m.b = b BY <1>3 DEF Items
<1>5. Requests \in Seq(Items) BY <1>2 DEF Ring, Requests
<1>6. Requests' = Append(Requests, m) /\ Replies' = Replies
      /\ chan'[SHAREDMALLOC].owed = chan[SHAREDMALLOC].owed
  BY <1>1, <1>2, ChannelFacts DEF RingInv, ChanTypes, Ring, Requests, Replies
<1> HIDE DEF m
<1>7. b \notin Frees(Requests) BY DEF ShmInv, PlacesInv
<1>8. Frees(Requests') = Frees(Requests) \cup {b} /\ FreesOnce(Requests')
  BY <1>3, <1>4, <1>5, <1>6, <1>7, FreesMove DEF ShmInv, PlacesInv
<1>9. TableInv' BY <1>1 DEF ShmInv, TableInv
<1>10. PlacesInv' BY <1>1, <1>6, <1>8 DEF ShmInv, PlacesInv
<1>11. PoolInv' BY <1>1 DEF ShmInv, PoolInv, PoolReturned
<1> QED BY <1>9, <1>10, <1>11 DEF ShmInv

\* A grant that arrives moves its block from the reply to the firmware.
LEMMA ShmFwTakes == ASSUME RingInv, ShmInv, FwTakes PROVE ShmInv'
<1>1. PICK c \in {IO_T2H, SHAREDMALLOC} :
        /\ chan[c].back # << >> /\ chan' = [chan EXCEPT ![c].back = Tail(@)]
        /\ holds' = IF c = SHAREDMALLOC /\ Head(chan[c].back).size # 0
                    THEN holds \cup {Head(chan[c].back).b} ELSE holds
        /\ UNCHANGED << at, pool, sized, leaked, shm, unserved, faults >>
  BY DEF FwTakes, driver, memory
<1>2. CASE c # SHAREDMALLOC
  <2>1. chan'[SHAREDMALLOC] = chan[SHAREDMALLOC]
    BY <1>1, <1>2, ChannelFacts DEF RingInv, ChanTypes
  <2> QED BY <1>1, <1>2, <2>1, ShmOther
<1>3. CASE c = SHAREDMALLOC
  <2>1. chan[SHAREDMALLOC] \in Ring BY ChannelFacts DEF RingInv, ChanTypes
  <2>2. Replies \in Seq(Items) /\ Replies # << >> BY <1>1, <1>3, <2>1 DEF Ring, Replies
  <2>3. Requests' = Requests /\ Replies' = Tail(Replies)
        /\ chan'[SHAREDMALLOC].owed = chan[SHAREDMALLOC].owed
    BY <1>1, <1>3, <2>1, ChannelFacts DEF RingInv, ChanTypes, Ring, Requests, Replies
  <2>4. /\ GrantsOnce(Replies')
        /\ Head(Replies).size = 0 => Grants(Replies') = Grants(Replies)
        /\ Head(Replies).size # 0 => /\ Head(Replies).b \in Grants(Replies)
                                     /\ Grants(Replies') = Grants(Replies) \ {Head(Replies).b}
    <3>1. Head(Replies) \in Items BY <2>2
    <3> QED BY <2>2, <2>3, <3>1, GrantsMove DEF ShmInv, PlacesInv
  <2>5. holds' = IF Head(Replies).size # 0 THEN holds \cup {Head(Replies).b} ELSE holds
    BY <1>1, <1>3 DEF Replies
  <2>6. TableInv' BY <1>1 DEF ShmInv, TableInv
  <2>7. PlacesInv' BY <1>1, <2>3, <2>4, <2>5 DEF ShmInv, PlacesInv
  <2>8. PoolInv' BY <1>1 DEF ShmInv, PoolInv, PoolReturned
  <2> QED BY <2>6, <2>7, <2>8 DEF ShmInv
<1> QED BY <1>2, <1>3

-----------------------------------------------------------------------------
\* The layers together.
IpcInv == BootInv /\ RingInv /\ ShmInv

\* Every step keeps the first layer.
LEMMA BootNext == ASSUME BootInv, [Next]_vars PROVE BootInv'
<1> DEFINE Kind ==
             UNCHANGED << at, phase, msg1, taken, scratch, status, mbox, up, bound, fw, faults >>
<1>1. CASE Kind /\ ring' = ring
  <2>1. ring' \subseteq Bits /\ (ring' # {} => fw = "running")
    BY <1>1 DEF BootInv, BootTypes, FwCounts
  <2> QED BY <1>1, <2>1, BootOther
<1>2. CASE Kind /\ fw = "running" /\ \E c \in Chans : ring' = {DoorbellBit[c]}
  <2>1. ring' \subseteq Bits BY <1>2, ChannelFacts
  <2> QED BY <1>2, <2>1, BootOther
<1>3. CASE BootConfig BY <1>3, BootBootConfig
<1>4. CASE RecvMsg BY <1>4, BootRecvMsg
<1>5. CASE RecvTimeout BY <1>5, BootRecvTimeout
<1>6. CASE CheckMsg1 BY <1>6, BootCheckMsg1
<1>7. CASE SendMsg4 BY <1>7, BootSendMsg4
<1>8. CASE Bind BY <1>8, BootBind
<1>9. CASE FlipUp BY <1>9, BootFlipUp
<1>10. CASE ReadyFlag BY <1>10, BootReadyFlag
<1>11. CASE PollReady BY <1>11, BootPollReady
<1>12. CASE Teardown BY <1>12, BootTeardown
<1>13. CASE IrqEnter BY <1>13, BootIrqEnter
<1>14. CASE SkipChannel BY <1>14, <1>1 DEF SkipChannel, driver, mailbox, firmware
<1>15. CASE DrainIO BY <1>15, <1>1 DEF DrainIO, driver, mailbox, firmware
<1>16. CASE DrainT2H BY <1>16, <1>1 DEF DrainT2H, driver, mailbox, firmware
<1>17. CASE ShmFree BY <1>17, <1>1 DEF ShmFree, driver, mailbox, firmware
<1>18. CASE ShmAlloc BY <1>18, <1>1 DEF ShmAlloc, driver, mailbox, firmware
<1>19. CASE DrainTerminal BY <1>19, <1>1 DEF DrainTerminal, driver, mailbox, firmware
<1>20. CASE DrainOther BY <1>20, <1>1 DEF DrainOther, driver, mailbox, firmware
<1>21. CASE IpcSend BY <1>21, <1>1 DEF IpcSend, driver, mailbox
<1>22. CASE FwBoots BY <1>22, BootFwBoots
<1>23. CASE FwMaps BY <1>23, BootFwMaps
<1>24. CASE FwBuilds BY <1>24, BootFwBuilds
<1>25. CASE FwReady BY <1>25, BootFwReady
<1>26. CASE FwSilent BY <1>26, BootFwSilent
<1>27. CASE FwNotify BY <1>27, <1>2, ChannelFacts DEF FwNotify, FwPublishes, driver, mailbox
<1>28. CASE FwMalloc BY <1>28, <1>2, ChannelFacts DEF FwMalloc, FwPublishes, driver, mailbox
<1>29. CASE FwFree BY <1>29, <1>2, ChannelFacts DEF FwFree, FwPublishes, driver, mailbox
<1>30. CASE FwLog BY <1>30, <1>2, ChannelFacts DEF FwLog, FwPublishes, driver, mailbox
<1>31. CASE FwDoorbell BY <1>31, BootFwDoorbell
<1>32. CASE FwAck BY <1>32, <1>2, ChannelFacts DEF FwAck, driver, mailbox
<1>33. CASE FwTakes BY <1>33, <1>1 DEF FwTakes, driver, mailbox
<1>34. CASE UNCHANGED vars BY <1>34, <1>1 DEF vars, driver, mailbox, firmware
<1> QED BY <1>3, <1>4, <1>5, <1>6, <1>7, <1>8, <1>9, <1>10, <1>11, <1>12, <1>13,
  <1>14, <1>15, <1>16, <1>17, <1>18, <1>19, <1>20, <1>21, <1>22, <1>23, <1>24, <1>25,
  <1>26, <1>27, <1>28, <1>29, <1>30, <1>31, <1>32, <1>33, <1>34
  DEF Next, Boot, Irq, Firmware

\* Every step keeps the second layer.
LEMMA RingNext == ASSUME IpcInv, [Next]_vars PROVE RingInv'
<1> USE DEF IpcInv
<1>1. CASE BootConfig
  <2>1. ~up' /\ at = "idle" /\ UNCHANGED << chan, term, irq, ring >> BY <1>1 DEF BootConfig, rings
  <2> QED BY <2>1, RingOther
<1>2. CASE RecvMsg
  <2>1. ~up /\ at \notin {"poll", "up", "failed", "flag"}
    BY <1>2 DEF RecvMsg, Waiting, BootInv, AtPhase
  <2>2. up' = up /\ UNCHANGED << chan, term, irq, ring >>
    BY <1>2 DEF RecvMsg, rings, firmware
  <2> QED BY <2>1, <2>2, RingOther
<1>3. CASE RecvTimeout
  <2>1. /\ ~up /\ (up' = up \/ ~up') /\ UNCHANGED << chan, term, irq, ring >>
        /\ at \notin {"flag", "poll", "up", "failed"}
    BY <1>3 DEF RecvTimeout, Waiting, Fails, rings, firmware, BootInv, AtPhase
  <2> QED BY <2>1, RingOther
<1>4. CASE CheckMsg1
  <2>1. /\ ~up /\ (up' = up \/ ~up') /\ UNCHANGED << chan, term, irq, ring >>
        /\ at \notin {"flag", "poll", "up", "failed"}
    BY <1>4 DEF CheckMsg1, Fails, rings, firmware, BootInv, AtPhase
  <2> QED BY <2>1, RingOther
<1>5. CASE SendMsg4
  <2>1. /\ ~up /\ (up' = up \/ ~up') /\ UNCHANGED << chan, term, irq, ring >>
        /\ at \notin {"flag", "poll", "up", "failed"}
    BY <1>5 DEF SendMsg4, Fails, rings, firmware, BootInv, AtPhase
  <2> QED BY <2>1, RingOther
<1>6. CASE Bind
  <2>1. /\ ~up /\ (up' = up \/ ~up') /\ UNCHANGED << chan, term, irq, ring >>
        /\ at \notin {"flag", "poll", "up", "failed"}
    BY <1>6 DEF Bind, Fails, rings, firmware, BootInv, AtPhase
  <2> QED BY <2>1, RingOther
<1>7. CASE FlipUp BY <1>7, RingFlipUp
<1>8. CASE ReadyFlag
  <2>1. /\ UNCHANGED << chan, term, irq, ring, up, bound >> /\ status \subseteq status'
        /\ at = "flag" /\ at' = "poll"
    BY <1>8 DEF ReadyFlag, rings, firmware
  <2> QED BY <2>1, RingOther
<1>9. CASE PollReady
  <2>1. /\ at = "poll" /\ at' \in {"up", "failed"} /\ up
        /\ UNCHANGED << chan, term, irq, ring, status, bound >>
    BY <1>9 DEF PollReady, Fails, rings, firmware, mailbox, BootInv, AtPhase
  <2> QED BY <2>1, RingOther
<1>10. CASE Teardown BY <1>10, RingTeardown
<1>11. CASE IrqEnter BY <1>11, RingIrqEnter
<1>12. CASE SkipChannel BY <1>12, RingSkipChannel
<1>13. CASE DrainIO BY <1>13, RingDrainIO
<1>14. CASE DrainT2H BY <1>14, RingDrainT2H
<1>15. CASE ShmFree BY <1>15, RingShmFree
<1>16. CASE ShmAlloc BY <1>16, RingShmAlloc
<1>17. CASE DrainTerminal BY <1>17, RingDrainTerminal
<1>18. CASE DrainOther BY <1>18, RingDrainOther
<1>19. CASE IpcSend BY <1>19, RingIpcSend
<1>20. CASE FwBoots
  <2>1. /\ UNCHANGED << chan, term, irq, ring, up, bound >> /\ status \subseteq status'
        /\ at' = at
    BY <1>20 DEF FwBoots, FwSpeak, driver, rings
  <2> QED BY <2>1, RingOther
<1>21. CASE FwMaps
  <2>1. /\ UNCHANGED << chan, term, irq, ring, up, bound >> /\ status \subseteq status'
        /\ at' = at
    BY <1>21 DEF FwMaps, FwSpeak, driver, rings
  <2> QED BY <2>1, RingOther
<1>22. CASE FwBuilds
  <2>1. /\ UNCHANGED << chan, term, irq, ring, up, bound >> /\ status \subseteq status'
        /\ at' = at
    BY <1>22 DEF FwBuilds, FwSpeak, driver, rings
  <2> QED BY <2>1, RingOther
<1>23. CASE FwReady
  <2>1. /\ UNCHANGED << chan, term, irq, ring, up, bound >> /\ status \subseteq status'
        /\ at' = at
    BY <1>23 DEF FwReady, driver, rings
  <2> QED BY <2>1, RingOther
<1>24. CASE FwSilent
  <2>1. /\ UNCHANGED << chan, term, irq, ring, up, bound >> /\ status \subseteq status'
        /\ at' = at
    BY <1>24 DEF FwSilent, driver, rings
  <2> QED BY <2>1, RingOther
<1>25. CASE FwNotify BY <1>25, RingFwNotify
<1>26. CASE FwMalloc BY <1>26, RingFwMalloc
<1>27. CASE FwFree
  <2>1. holds \subseteq Blocks BY DEF ShmInv, TableInv, PlacesInv
  <2> QED BY <1>27, <2>1, RingFwFree
<1>28. CASE FwLog BY <1>28, RingFwLog
<1>29. CASE FwDoorbell BY <1>29, RingFwDoorbell
<1>30. CASE FwAck BY <1>30, RingFwAck
<1>31. CASE FwTakes BY <1>31, RingFwTakes
<1>32. CASE UNCHANGED vars
  <2>1. UNCHANGED << at, up, bound, status, chan, term, irq, ring >>
    BY <1>32 DEF vars, driver, rings, firmware
  <2> QED BY <2>1, RingOther
<1> QED BY <1>1, <1>2, <1>3, <1>4, <1>5, <1>6, <1>7, <1>8, <1>9, <1>10, <1>11, <1>12,
  <1>13, <1>14, <1>15, <1>16, <1>17, <1>18, <1>19, <1>20, <1>21, <1>22, <1>23, <1>24,
  <1>25, <1>26, <1>27, <1>28, <1>29, <1>30, <1>31, <1>32
  DEF Next, Boot, Irq, Firmware

\* Every step keeps the third layer.
LEMMA ShmNext == ASSUME IpcInv, [Next]_vars PROVE ShmInv'
<1> USE DEF IpcInv
<1>1. ASSUME UNCHANGED << chan, pool, sized, leaked, shm, unserved, holds >>,
             faults \subseteq faults', at' = "idle" => at = "idle"
      PROVE  ShmInv'
  BY <1>1, ShmOther
<1>2. CASE BootConfig BY <1>2, ShmBootConfig
<1>3. CASE RecvMsg
  <2>1. at' # "idle"
    <3>1. at' = AfterRecv /\ at \in {"early", "recv1", "recv3", "recv5"}
      BY <1>3 DEF RecvMsg, Waiting
    <3>2. CASE at = "early" BY <3>1, <3>2 DEF AfterRecv
    <3>3. CASE at = "recv1" BY <3>1, <3>3 DEF AfterRecv
    <3>4. CASE at = "recv3" BY <3>1, <3>4 DEF AfterRecv
    <3>5. CASE at = "recv5" BY <3>1, <3>5 DEF AfterRecv
    <3> QED BY <3>1, <3>2, <3>3, <3>4, <3>5
  <2> QED BY <1>1, <1>3, <2>1 DEF RecvMsg, rings, memory, firmware
<1>4. CASE RecvTimeout BY <1>1, <1>4 DEF RecvTimeout, Fails, rings, memory, firmware
<1>5. CASE CheckMsg1 BY <1>1, <1>5 DEF CheckMsg1, Fails, rings, memory, firmware
<1>6. CASE SendMsg4 BY <1>6, ShmSendMsg4
<1>7. CASE Bind BY <1>1, <1>7 DEF Bind, Fails, rings, memory, firmware
<1>8. CASE FlipUp BY <1>1, <1>8 DEF FlipUp, rings, memory, firmware
<1>9. CASE ReadyFlag BY <1>1, <1>9 DEF ReadyFlag, rings, memory, firmware
<1>10. CASE PollReady BY <1>1, <1>10 DEF PollReady, Fails, rings, memory, firmware
<1>11. CASE Teardown BY <1>11, ShmTeardown
<1>12. CASE IrqEnter BY <1>1, <1>12 DEF IrqEnter, driver, rings, memory, firmware
<1>13. CASE SkipChannel BY <1>1, <1>13 DEF SkipChannel, driver, rings, memory, firmware
<1>14. CASE DrainIO
  <2>1. chan'[SHAREDMALLOC] = chan[SHAREDMALLOC]
    BY <1>14, ChannelFacts DEF DrainIO, RingInv, ChanTypes
  <2> QED BY <1>14, <2>1, ShmOther DEF DrainIO, driver, memory, firmware
<1>15. CASE DrainT2H
  <2>1. chan'[SHAREDMALLOC] = chan[SHAREDMALLOC]
    BY <1>15, ChannelFacts DEF DrainT2H, RingInv, ChanTypes
  <2> QED BY <1>15, <2>1, ShmOther DEF DrainT2H, driver, memory, firmware
<1>16. CASE ShmFree BY <1>16, ShmShmFree
<1>17. CASE ShmAlloc BY <1>17, ShmShmAlloc
<1>18. CASE DrainTerminal BY <1>1, <1>18 DEF DrainTerminal, driver, memory, firmware
<1>19. CASE DrainOther
  <2>1. chan'[SHAREDMALLOC] = chan[SHAREDMALLOC]
    BY <1>19, ChannelFacts DEF DrainOther, RingInv, ChanTypes
  <2> QED BY <1>19, <2>1, ShmOther DEF DrainOther, driver, memory, firmware
<1>20. CASE IpcSend
  <2>1. chan'[SHAREDMALLOC] = chan[SHAREDMALLOC]
    BY <1>20, ChannelFacts DEF IpcSend, RingInv, ChanTypes
  <2> QED BY <1>20, <2>1, ShmOther DEF IpcSend, driver, memory
<1>21. CASE FwBoots BY <1>1, <1>21 DEF FwBoots, FwSpeak, driver, rings, memory
<1>22. CASE FwMaps BY <1>1, <1>22 DEF FwMaps, FwSpeak, driver, rings, memory
<1>23. CASE FwBuilds BY <1>1, <1>23 DEF FwBuilds, FwSpeak, driver, rings, memory
<1>24. CASE FwReady BY <1>1, <1>24 DEF FwReady, driver, rings, memory
<1>25. CASE FwSilent BY <1>1, <1>25 DEF FwSilent, driver, rings, memory
<1>26. CASE FwNotify
  <2>1. PICK c \in {IO_T2H, BUF_T2H} : FwPublishes(c) /\ FwSend(c, [b |-> "msg", size |-> 1])
    BY <1>26 DEF FwNotify
  <2>2. chan'[SHAREDMALLOC] = chan[SHAREDMALLOC]
    BY <2>1, ChannelFacts DEF FwSend, RingInv, ChanTypes
  <2> QED BY <1>26, <2>1, <2>2, ShmOther DEF FwNotify, FwPublishes, driver, memory
<1>27. CASE FwMalloc BY <1>27, ShmFwMalloc
<1>28. CASE FwFree BY <1>28, ShmFwFree
<1>29. CASE FwLog BY <1>1, <1>29 DEF FwLog, FwPublishes, driver, memory
<1>30. CASE FwDoorbell BY <1>1, <1>30 DEF FwDoorbell, driver, rings, memory
<1>31. CASE FwAck
  <2>1. chan'[SHAREDMALLOC] = chan[SHAREDMALLOC]
    BY <1>31, ChannelFacts DEF FwAck, RingInv, ChanTypes
  <2> QED BY <1>31, <2>1, ShmOther DEF FwAck, driver, memory
<1>32. CASE FwTakes BY <1>32, ShmFwTakes
<1>33. CASE UNCHANGED vars BY <1>1, <1>33 DEF vars, driver, rings, memory, firmware
<1> QED BY <1>2, <1>3, <1>4, <1>5, <1>6, <1>7, <1>8, <1>9, <1>10, <1>11, <1>12, <1>13,
  <1>14, <1>15, <1>16, <1>17, <1>18, <1>19, <1>20, <1>21, <1>22, <1>23, <1>24, <1>25,
  <1>26, <1>27, <1>28, <1>29, <1>30, <1>31, <1>32, <1>33
  DEF Next, Boot, Irq, Firmware

\* Nothing is powered at first.
LEMMA IpcInit == Init => IpcInv
<1> SUFFICES ASSUME Init PROVE IpcInv OBVIOUS
<1>1. BootInv
  <2>1. /\ at = "idle" /\ fw = "off" /\ phase = "IDLE" /\ up = FALSE
        /\ scratch = None /\ mbox = None /\ taken = << >>
        /\ status = {} /\ ring = {} /\ bound = {} /\ faults = {}
    BY DEF Init
  <2>2. taken \in Seq(Messages) /\ Taken = 0 /\ DOMAIN taken = {} BY <2>1 DEF Taken
  <2>3. ~Kept /\ ~Rung BY <2>1 DEF Kept, Rung
  <2>4. BootTypes
    <3>1. at = "idle" /\ fw = "off" /\ up = FALSE /\ status = {} /\ ring = {} /\ bound = {}
          /\ Taken \in 0 .. 3
      BY <2>1, <2>2
    <3>2. scratch \in Messages /\ mbox \in Messages BY <2>1, MessageFacts
    <3> QED BY <2>2, <3>1, <3>2 DEF BootTypes
  <2>5. AtTaken /\ AtScratch /\ AtPhase BY <2>1 DEF AtTaken, AtScratch, AtPhase
  <2>6. OneWaits BY <2>1 DEF OneWaits
  <2>7. FwCounts BY <2>1, <2>3 DEF FwCounts
  <2>8. Msg1Good BY <2>1, MessageFacts DEF Msg1Good, GoodMsg1
  <2>9. Reasons BY <2>1 DEF Reasons
  <2>10. InOrder BY <2>2 DEF InOrder
  <2> QED BY <2>4, <2>5, <2>6, <2>7, <2>8, <2>9, <2>10 DEF BootInv
<1>2. RingInv
  <2>1. ChanTypes
    <3>1. << >> \in Seq(Items) OBVIOUS
    <3>2. [out |-> << >>, owed |-> 0, back |-> << >>] \in Ring BY <3>1 DEF Ring
    <3>3. Size([out |-> << >>, owed |-> 0, back |-> << >>]) <= Slots
      BY SlotsAssumption DEF Size
    <3> QED BY <3>2, <3>3 DEF Init, ChanTypes, Empty
  <2>2. TermTypes BY SlotsAssumption DEF Init, TermTypes, NoLines, ChMax
  <2>3. Quiet BY DEF Init, Quiet
  <2>4. Heard BY DEF Init, Heard
  <2> QED BY <2>1, <2>2, <2>3, <2>4 DEF RingInv
<1>3. ShmInv
  <2>1. TableInv BY FS_EmptySet, ShmMaxAssumption DEF Init, TableInv
  <2>2. PlacesInv
    <3>1. Replies = << >> /\ Requests = << >> /\ chan[SHAREDMALLOC].owed = 0
      BY ChannelFacts DEF Init, Empty, Replies, Requests
    <3>2. Grants(<< >>) = {} /\ Frees(<< >>) = {} /\ GrantsOnce(<< >>) /\ FreesOnce(<< >>)
      BY DEF Grants, Frees, GrantsOnce, FreesOnce
    <3> QED BY <3>1, <3>2 DEF Init, PlacesInv
  <2>3. PoolInv BY DEF Init, PoolInv, PoolReturned
  <2> QED BY <2>1, <2>2, <2>3 DEF ShmInv
<1> QED BY <1>1, <1>2, <1>3 DEF IpcInv

\* The inductive invariant holds, whatever the firmware says or fails to say, for any
\* number of slots, blocks and boots.
THEOREM LinkInvariant == Spec => []IpcInv
<1>1. IpcInv /\ [Next]_vars => IpcInv'
  BY BootNext, RingNext, ShmNext DEF IpcInv
<1> QED BY <1>1, IpcInit, PTL DEF Spec

\* The boot thread and the handler take each message of the firmware's once and in
\* order (ave_recv_iop_msg, ave_ipc_irq_dispatch).
THEOREM MessagesOnce == Spec => []MailboxOnce
<1>1. ASSUME IpcInv PROVE MailboxOnce
  <2>1. \A i \in DOMAIN taken : taken[i].k = 2 * i - 1 BY <1>1 DEF IpcInv, BootInv, InOrder
  <2> DEFINE mail == Cardinality({m \in {mbox} : m # None})
             bell == Cardinality(status \cap {Mbox})
  <2>2. mail = IF Kept THEN 1 ELSE 0
    <3>1. CASE Kept
      <4>1. {m \in {mbox} : m # None} = {mbox} BY <3>1 DEF Kept
      <4> QED BY <3>1, <4>1, FS_Singleton
    <3>2. CASE ~Kept
      <4>1. {m \in {mbox} : m # None} = {} BY <3>2 DEF Kept
      <4> QED BY <3>2, <4>1, FS_EmptySet
    <3> QED BY <3>1, <3>2
  <2>3. bell = IF Rung THEN 1 ELSE 0
    <3>1. CASE Rung
      <4>1. status \cap {Mbox} = {Mbox} BY <3>1 DEF Rung
      <4> QED BY <3>1, <4>1, FS_Singleton
    <3>2. CASE ~Rung
      <4>1. status \cap {Mbox} = {} BY <3>2 DEF Rung
      <4> QED BY <3>2, <4>1, FS_EmptySet
    <3> QED BY <3>1, <3>2
  <2> HIDE DEF mail, bell
  <2>4. ASSUME fw \in {"sent1", "sent3", "sent5"} PROVE FwSaid = Len(taken) + mail + bell
    <3>1. Taken <= 2 => ~(Kept /\ Rung) BY <1>1, <2>4 DEF IpcInv, BootInv, OneWaits
    <3>2. /\ Taken <= 2 /\ (Kept \/ Rung) => (mail = 1 /\ bell = 0) \/ (mail = 0 /\ bell = 1)
          /\ ~Kept /\ ~Rung => mail = 0 /\ bell = 0
      BY <2>2, <2>3, <3>1
    <3>3. Taken = Len(taken) /\ FwCounts BY <1>1 DEF IpcInv, BootInv, Taken
    <3>4. CASE fw = "sent1"
      <4>1. FwSaid = 1 BY <3>4 DEF FwSaid
      <4>2. \/ Taken = 0 /\ (Kept \/ Rung)
            \/ Taken = 1 /\ ~Kept /\ ~Rung
        BY <3>3, <3>4 DEF FwCounts
      <4>3. CASE Taken = 0 /\ (Kept \/ Rung)
        <5>1. (mail = 1 /\ bell = 0) \/ (mail = 0 /\ bell = 1) BY <3>2, <4>3
        <5> QED BY <3>3, <4>1, <4>3, <5>1
      <4>4. CASE Taken = 1 /\ ~Kept /\ ~Rung
        <5>1. mail = 0 /\ bell = 0 BY <3>2, <4>4
        <5> QED BY <3>3, <4>1, <4>4, <5>1
      <4> QED BY <4>2, <4>3, <4>4
    <3>5. CASE fw = "sent3"
      <4>1. FwSaid = 2 BY <3>5 DEF FwSaid
      <4>2. \/ Taken = 1 /\ (Kept \/ Rung)
            \/ Taken = 2 /\ ~Kept /\ ~Rung
        BY <3>3, <3>5 DEF FwCounts
      <4>3. CASE Taken = 1 /\ (Kept \/ Rung)
        <5>1. (mail = 1 /\ bell = 0) \/ (mail = 0 /\ bell = 1) BY <3>2, <4>3
        <5> QED BY <3>3, <4>1, <4>3, <5>1
      <4>4. CASE Taken = 2 /\ ~Kept /\ ~Rung
        <5>1. mail = 0 /\ bell = 0 BY <3>2, <4>4
        <5> QED BY <3>3, <4>1, <4>4, <5>1
      <4> QED BY <4>2, <4>3, <4>4
    <3>6. CASE fw = "sent5"
      <4>1. FwSaid = 3 BY <3>6 DEF FwSaid
      <4>2. \/ Taken = 2 /\ (Kept \/ Rung)
            \/ Taken = 3 /\ ~Kept /\ ~Rung
        BY <3>3, <3>6 DEF FwCounts
      <4>3. CASE Taken = 2 /\ (Kept \/ Rung)
        <5>1. (mail = 1 /\ bell = 0) \/ (mail = 0 /\ bell = 1) BY <3>2, <4>3
        <5> QED BY <3>3, <4>1, <4>3, <5>1
      <4>4. CASE Taken = 3 /\ ~Kept /\ ~Rung
        <5>1. mail = 0 /\ bell = 0 BY <3>2, <4>4
        <5> QED BY <3>3, <4>1, <4>4, <5>1
      <4> QED BY <4>2, <4>3, <4>4
    <3> QED BY <2>4, <3>4, <3>5, <3>6
  <2> QED BY <2>1, <2>4 DEF MailboxOnce, mail, bell
<1> QED BY <1>1, LinkInvariant, PTL

\* A handshake that fails has been failed: nothing the boot thread and the handler do
\* between them fails it (ave_ipc_handshake).
THEOREM FailuresHaveReasons == Spec => []FailsOnlyOnFault
<1>1. IpcInv => FailsOnlyOnFault BY DEF IpcInv, BootInv, Reasons, FailsOnlyOnFault
<1> QED BY <1>1, LinkInvariant, PTL

\* No message waits in a served channel without a doorbell, although the handler
\* clears all of them at once and channels share them (ave_irq_handler).
THEOREM DoorbellsHeard == Spec => []NoLostDoorbell
<1>1. ASSUME IpcInv PROVE NoLostDoorbell
  <2> SUFFICES ASSUME up, irq.id = 0, ring = {}, NEW c \in bound \ {BUF_T2H}, HasMessage(c)
               PROVE  DoorbellBit[c] \in status
    BY DEF NoLostDoorbell
  <2>1. DoorbellBit[c] \in ring \cup status \cup Pending(c) BY <1>1 DEF IpcInv, RingInv, Heard
  <2>2. Pending(c) = {} BY DEF Pending
  <2> QED BY <2>1, <2>2
<1> QED BY <1>1, LinkInvariant, PTL

\* Distinct items name as many blocks as they are.
LEMMA NamesCounted ==
  ASSUME NEW s \in Seq(Items), NEW I \in SUBSET DOMAIN s,
         \A i, j \in I : s[i].b = s[j].b => i = j
  PROVE  /\ IsFiniteSet({s[i].b : i \in I})
         /\ Cardinality({s[i].b : i \in I}) = Cardinality(I)
<1> DEFINE T == {s[i].b : i \in I}
           f == [i \in I |-> s[i].b]
<1>1. IsFiniteSet(I)
  <2>1. DOMAIN s = 1 .. Len(s) /\ Len(s) \in Int OBVIOUS
  <2>2. IsFiniteSet(1 .. Len(s)) BY <2>1, FS_Interval
  <2> QED BY <2>1, <2>2, FS_Subset
<1>2. f \in Bijection(I, T)
  <2>1. f \in [I -> T] OBVIOUS
  <2>2. \A i, j \in I : f[i] = f[j] => i = j OBVIOUS
  <2>3. \A x \in T : \E i \in I : f[i] = x OBVIOUS
  <2> QED BY <2>1, <2>2, <2>3 DEF Bijection, Injection, Surjection, IsInjective
<1>3. ExistsBijection(I, T) BY <1>2 DEF ExistsBijection
<1> QED BY <1>1, <1>3, FS_Bijection

\* SHAREDMALLOC's memory is accounted for: the table is what the pool gave, each block
\* is in one place, and only failed requests keep a slot (ave_ipc_shmalloc,
\* ave_ipc_fini).
THEOREM MemoryAccounted == Spec => []ShmAgrees
<1>1. ASSUME IpcInv PROVE ShmAgrees
  <2> USE <1>1 DEF IpcInv
  <2>1. TypeOK
    <3>1. \A c \in Rings : Outstanding(c) <= Slots
      BY DEF RingInv, ChanTypes, Outstanding, Size
    <3>2. phase \in {"IDLE", "ARGS_WRITTEN", "MSG1", "READY", "FAILED"}
      BY DEF BootInv, BootTypes, AtPhase
    <3>3. irq.status \subseteq Bits /\ irq.id \in 0 .. ChMax - 1 BY DEF RingInv, TermTypes
    <3>4. pool \subseteq Blocks \cup {"chanmem", "ipcinfo"} /\ Cardinality(shm) <= ShmMax
      BY DEF ShmInv, TableInv
    <3>5. /\ at \in {"idle", "early", "recv1", "check1", "recv3", "alloc", "recv5", "bind",
                     "flip", "flag", "poll", "up", "failed"}
          /\ status \subseteq Bits /\ up \in BOOLEAN
          /\ bound \subseteq Chans /\ ring \subseteq Bits
      BY DEF BootInv, BootTypes
    <3> QED BY <3>1, <3>2, <3>3, <3>4, <3>5 DEF TypeOK
  <2>2. Grants(Replies) = {Replies[i].b : i \in Granted} BY DEF Grants, Granted
  <2>3. Frees(Requests) = {Requests[i].b : i \in Returned} BY DEF Frees, Returned
  <2>4. Replies \in Seq(Items) /\ Requests \in Seq(Items)
    BY ChannelFacts DEF RingInv, ChanTypes, Ring, Replies, Requests
  <2>5. IsFiniteSet(Grants(Replies)) /\ Cardinality(Grants(Replies)) = Cardinality(Granted)
    <3>1. Granted \in SUBSET DOMAIN Replies
          /\ \A i, j \in Granted : Replies[i].b = Replies[j].b => i = j
      BY DEF Granted, ShmInv, PlacesInv, GrantsOnce
    <3> QED BY <2>2, <2>4, <3>1, NamesCounted
  <2>6. IsFiniteSet(Frees(Requests)) /\ Cardinality(Frees(Requests)) = Cardinality(Returned)
    <3>1. Returned \in SUBSET DOMAIN Requests
          /\ \A i, j \in Returned : Requests[i].b = Requests[j].b => i = j
      BY DEF Returned, ShmInv, PlacesInv, FreesOnce
    <3> QED BY <2>3, <2>4, <3>1, NamesCounted
  <2>7. Cardinality(shm) = Cardinality(holds) + Cardinality(Granted) + Cardinality(Returned)
    <3> DEFINE G == Grants(Replies)
               F == Frees(Requests)
    <3>1. shm = (holds \cup G) \cup F /\ holds \cap G = {} /\ (holds \cup G) \cap F = {}
          /\ IsFiniteSet(shm)
      BY DEF ShmInv, TableInv, PlacesInv
    <3>2. IsFiniteSet(holds) BY <3>1, FS_Subset
    <3> HIDE DEF G, F
    <3>3. /\ IsFiniteSet(holds \cup G)
          /\ Cardinality(holds \cup G) = Cardinality(holds) + Cardinality(G) - Cardinality({})
      BY <2>5, <3>1, <3>2, FS_Union DEF G
    <3>4. Cardinality(shm) = Cardinality(holds \cup G) + Cardinality(F) - Cardinality({})
      BY <2>6, <3>1, <3>3, FS_Union DEF F
    <3>5. Cardinality({}) = 0 BY FS_EmptySet
    <3>6. Cardinality(holds) \in Nat /\ Cardinality(G) \in Nat /\ Cardinality(F) \in Nat
      BY <2>5, <2>6, <3>2, FS_CardinalityType DEF G, F
    <3> QED BY <2>5, <2>6, <3>3, <3>4, <3>5, <3>6 DEF G, F
  <2> QED BY <2>1, <2>2, <2>3, <2>7 DEF ShmInv, TableInv, PlacesInv, PoolInv, ShmAgrees
<1> QED BY <1>1, LinkInvariant, PTL
=============================================================================
