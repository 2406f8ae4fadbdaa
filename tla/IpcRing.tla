------------------------------ MODULE IpcRing ------------------------------
(***************************************************************************)
(* One bidirectional IPC ring (driver/ave_abi_boot.h, struct ave_ring): a  *)
(* memory of N slots that the host and the firmware share, each with       *)
(* private cursors.  Both run the same algorithm, one with ring type 1     *)
(* (the "odd" end, which sends first: the host on IO, the firmware on      *)
(* IO_T2H), the other with type 0.  Bit 0 of a slot's first word says      *)
(* whose turn the slot is.                                                 *)
(*                                                                         *)
(* Nothing but the slots is shared, so a send or a receive is split where  *)
(* the other end can see the difference: the arguments are written before  *)
(* the first word publishes them, and read after it was seen.  An end does *)
(* one thing at a time (ipc_lock).                                         *)
(***************************************************************************)
EXTENDS Integers, Sequences

CONSTANTS N,        \* nslots
          Msgs,     \* messages
          MaxSends  \* bound: messages the odd end sends
ASSUME NAssumption == N \in Nat \ {0}
ASSUME MaxSendsAssumption == MaxSends \in Nat

Ends == {"odd", "even"}
Type(e) == IF e = "odd" THEN 1 ELSE 0

VARIABLES
  slot,   \* shared: slot -> [phase, payload, args]
  rd, wr, \* end -> cursor; rd: -1, nothing outstanding; wr: -1, full
  nsend, nrecv,
  op,     \* end -> the send or receive it is in the middle of
  got     \* end -> the message it received last
vars == << slot, rd, wr, nsend, nrecv, op, got >>

Slots == 0 .. N - 1
NoMsg == << >>
Idle == [at |-> "idle"]

\* A message is a payload with its arguments: they belong together.
Message(payload, args) == [payload |-> payload, args |-> args]

\* ave_ring_init, both ends: the odd end marks every slot its own.
Init ==
  /\ slot = [i \in Slots |-> [phase |-> 1, payload |-> NoMsg, args |-> NoMsg]]
  /\ rd = [e \in Ends |-> IF e = "odd" THEN -1 ELSE 0]
  /\ wr = [e \in Ends |-> IF e = "odd" THEN 0 ELSE -1]
  /\ nsend = [e \in Ends |-> 0] /\ nrecv = [e \in Ends |-> 0]
  /\ op = [e \in Ends |-> Idle]
  /\ got = [e \in Ends |-> NoMsg]

NextSlot(i) == IF i = N - 1 THEN 0 ELSE i + 1

-----------------------------------------------------------------------------
(* ave_ring_send: arguments, first word, write barrier, cursors.           *)

SendBegin(e) ==
  /\ op[e] = Idle /\ wr[e] >= 0
  /\ e = "odd" => nsend[e] < MaxSends
  /\ \E m \in Msgs :
       /\ slot' = [slot EXCEPT ![wr[e]].args = m]
       /\ op' = [op EXCEPT ![e] = [at |-> "send", msg |-> m]]
  /\ UNCHANGED << rd, wr, nsend, nrecv, got >>

\* The cursors of e after a send: [rd, wr].
NeverFullBug(e) ==
  [rd |-> IF rd[e] < 0 THEN wr[e] ELSE rd[e], wr |-> NextSlot(wr[e])]
AfterSend(e) ==
  LET r == IF rd[e] < 0 THEN wr[e] ELSE rd[e]
      w == NextSlot(wr[e])
  IN  [rd |-> r, wr |-> IF r = w THEN -1 ELSE w]

PhaseKeptBug(e) == Type(e)
SendPhase(e) == 1 - Type(e)

SendPublish(e) ==
  /\ op[e].at = "send"
  /\ slot' = [slot EXCEPT ![wr[e]] =
                [@ EXCEPT !.phase = SendPhase(e), !.payload = op[e].msg]]
  /\ rd' = [rd EXCEPT ![e] = AfterSend(e).rd]
  /\ wr' = [wr EXCEPT ![e] = AfterSend(e).wr]
  /\ nsend' = [nsend EXCEPT ![e] = @ + 1]
  /\ op' = [op EXCEPT ![e] = Idle]
  /\ UNCHANGED << nrecv, got >>

-----------------------------------------------------------------------------
(* ave_ring_recv: first word, read barrier, arguments, cursors.  The slot  *)
(* is left as it is.                                                       *)

Readable(e) == rd[e] >= 0 /\ slot[rd[e]].phase = Type(e)

RecvBegin(e) ==
  /\ op[e] = Idle /\ Readable(e)
  /\ op' = [op EXCEPT ![e] = [at |-> "recv", msg |-> slot[rd[e]].payload]]
  /\ UNCHANGED << slot, rd, wr, nsend, nrecv, got >>

\* The cursors of e after a receive: [rd, wr].
AfterRecv(e) ==
  LET w == IF wr[e] < 0 THEN rd[e] ELSE wr[e]
      r == NextSlot(rd[e])
  IN  [rd |-> IF w = r THEN -1 ELSE r, wr |-> w]

RecvEnd(e) ==
  /\ op[e].at = "recv"
  /\ got' = [got EXCEPT ![e] = Message(op[e].msg, slot[rd[e]].args)]
  /\ rd' = [rd EXCEPT ![e] = AfterRecv(e).rd]
  /\ wr' = [wr EXCEPT ![e] = AfterRecv(e).wr]
  /\ nrecv' = [nrecv EXCEPT ![e] = @ + 1]
  /\ op' = [op EXCEPT ![e] = Idle]
  /\ UNCHANGED << slot, nsend >>

Next == \E e \in Ends : SendBegin(e) \/ SendPublish(e) \/ RecvBegin(e) \/ RecvEnd(e)
Spec == Init /\ [][Next]_vars

-----------------------------------------------------------------------------

TypeOK ==
  /\ slot \in [Slots -> [phase : {0, 1}, payload : Msgs \cup {NoMsg},
                         args : Msgs \cup {NoMsg}]]
  /\ rd \in [Ends -> Slots \cup {-1}] /\ wr \in [Ends -> Slots \cup {-1}]
  /\ nsend \in [Ends -> Nat] /\ nrecv \in [Ends -> Nat]
  /\ op \in [Ends -> {Idle} \cup [at : {"send", "recv"}, msg : Msgs]]
  /\ \A e \in Ends : op[e].at = "send" => wr[e] # -1
  /\ \A e \in Ends : op[e].at = "recv" => rd[e] # -1

\* The k-th message of a direction lives in slot k % N.
SlotOf(k) == k % N

\* What the cursors mean: the odd end has N slots to lend, the even end
\* those it received and has not answered.  -1 is exactly "full" for wr and
\* "nothing outstanding" for rd, never a slot that is free or pending.
Cursors ==
  /\ nrecv["odd"] <= nsend["even"] /\ nsend["even"] <= nrecv["even"]
  /\ nrecv["even"] <= nsend["odd"] /\ nsend["odd"] <= nrecv["odd"] + N
  /\ wr["odd"]  = IF nsend["odd"] = nrecv["odd"] + N THEN -1 ELSE SlotOf(nsend["odd"])
  /\ rd["odd"]  = IF nsend["odd"] = nrecv["odd"] THEN -1 ELSE SlotOf(nrecv["odd"])
  /\ wr["even"] = IF nsend["even"] = nrecv["even"] THEN -1 ELSE SlotOf(nsend["even"])
  /\ rd["even"] = IF nrecv["even"] = nsend["even"] + N THEN -1 ELSE SlotOf(nrecv["even"])

\* A slot shows the phase of the end it is published to, and then its
\* payload and arguments are of one message; neither end writes a slot the
\* other may read.
Whole(k) == slot[SlotOf(k)].payload \in Msgs
            /\ slot[SlotOf(k)].args = slot[SlotOf(k)].payload
Published ==
  /\ \A k \in nrecv["even"] .. nsend["odd"] - 1 :
       slot[SlotOf(k)].phase = 0 /\ Whole(k)
  /\ \A k \in nsend["even"] .. nrecv["even"] - 1 : slot[SlotOf(k)].phase = 0
  /\ \A k \in nrecv["odd"] .. nsend["even"] - 1 :
       slot[SlotOf(k)].phase = 1 /\ Whole(k)
  /\ \A k \in nsend["odd"] .. nrecv["odd"] + N - 1 : slot[SlotOf(k)].phase = 1

\* Bit 0 alone tells an end whether the slot under rd is for it: it never
\* reads back what it has just written, or an answer twice.
NoFalseReceive ==
  /\ Readable("even") => nrecv["even"] < nsend["odd"]
  /\ Readable("odd")  => nrecv["odd"] < nsend["even"]

\* Messages arrive whole, in order, once, and within the credits.
InFlight(from, to) == [k \in 1 .. to - from |->
                         Message(slot[SlotOf(from + k - 1)].payload,
                                 slot[SlotOf(from + k - 1)].args)]
Promise == INSTANCE Channel WITH
  Msgs   <- {Message(m, m) : m \in Msgs},
  toEven <- InFlight(nrecv["even"], nsend["odd"]),
  toOdd  <- InFlight(nrecv["odd"], nsend["even"]),
  owed   <- nrecv["even"] - nsend["even"]
ImplementsChannel == Promise!Spec
=============================================================================
