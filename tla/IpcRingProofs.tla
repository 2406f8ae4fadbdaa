--------------------------- MODULE IpcRingProofs ---------------------------
(***************************************************************************)
(* The ring keeps its cursors and slots straight for every number of slots *)
(* and every message set, and implements Channel.                          *)
(*                                                                         *)
(* The counters nsend and nrecv say everything: a cursor is a counter      *)
(* modulo N (or -1), and the phases say which of the two windows of        *)
(* counters a slot is in.  The first lemmas are the arithmetic of that.    *)
(***************************************************************************)
EXTENDS IpcRing, TLAPS

-----------------------------------------------------------------------------
(* k % N.                                                                  *)

\* Quotient and remainder of a counter.
LEMMA DivMod ==
  ASSUME NEW k \in Nat
  PROVE  /\ SlotOf(k) \in Slots /\ (k \div N) \in Int
         /\ k = (N * (k \div N)) + SlotOf(k)
BY NAssumption DEF SlotOf, Slots

\* They are the only ones.
LEMMA DivModUnique ==
  ASSUME NEW q \in Int, NEW p \in Int, NEW r \in Slots, NEW s \in Slots,
         N * q + r = N * p + s
  PROVE  r = s /\ p = q
<1> USE NAssumption DEF Slots
<1>1. CASE q = p
  BY <1>1
<1>2. CASE q > p
  <2>1. N * (q - p) >= N
    BY <1>2
  <2>2. N * (q - p) = s - r
    OBVIOUS
  <2> QED BY <2>1, <2>2
<1>3. CASE q < p
  <2>1. N * (p - q) >= N
    BY <1>3
  <2>2. N * (p - q) = r - s
    OBVIOUS
  <2> QED BY <2>1, <2>2
<1> QED BY <1>1, <1>2, <1>3

\* One step of a counter is one step of the cursor (NextSlot).
LEMMA SlotStep ==
  ASSUME NEW k \in Nat
  PROVE  SlotOf(k + 1) = NextSlot(SlotOf(k))
<1>1. PICK q \in Int, r \in Slots : SlotOf(k) = r /\ k = N * q + r
  BY DivMod
<1>2. PICK q1 \in Int, r1 \in Slots : SlotOf(k + 1) = r1 /\ k + 1 = N * q1 + r1
  BY DivMod
<1>3. CASE r = N - 1
  <2>1. N * (q + 1) = N * q + N
    BY NAssumption
  <2>2. 0 \in Slots /\ q + 1 \in Int /\ N * (q + 1) + 0 = N * q1 + r1
    BY <1>1, <1>2, <1>3, <2>1, NAssumption DEF Slots
  <2>3. r1 = 0
    BY <2>2, DivModUnique
  <2> QED BY <1>1, <1>2, <2>3, <1>3 DEF NextSlot
<1>4. CASE r # N - 1
  <2>1. r + 1 \in Slots
    BY <1>4, NAssumption DEF Slots
  <2>2. N * q + (r + 1) = N * q1 + r1
    BY <1>1, <1>2, NAssumption DEF Slots
  <2>3. r1 = r + 1
    BY <2>1, <2>2, DivModUnique
  <2> QED BY <1>1, <1>2, <2>3, <1>4 DEF NextSlot
<1> QED BY <1>3, <1>4

\* Going round once comes back to the same slot.
LEMMA SlotPeriod ==
  ASSUME NEW k \in Nat
  PROVE  SlotOf(k + N) = SlotOf(k)
<1>1. PICK q \in Int, r \in Slots : SlotOf(k) = r /\ k = N * q + r
  BY DivMod
<1>2. k + N \in Nat
  BY NAssumption
<1>3. PICK q1 \in Int, r1 \in Slots : SlotOf(k + N) = r1 /\ k + N = N * q1 + r1
  BY <1>2, DivMod
<1>4. N * (q + 1) = N * q + N
  BY NAssumption
<1>5. N * (q + 1) + r = N * q1 + r1 /\ q + 1 \in Int
  BY <1>1, <1>3, <1>4, NAssumption DEF Slots
<1> QED BY <1>1, <1>3, <1>5, DivModUnique

\* Counters less than N apart are in different slots.
LEMMA SlotsDiffer ==
  ASSUME NEW j \in Nat, NEW k \in Nat, j < k, k < j + N
  PROVE  SlotOf(j) # SlotOf(k)
<1> SUFFICES ASSUME SlotOf(j) = SlotOf(k) PROVE FALSE
  OBVIOUS
<1> DEFINE q == j \div N
           p == k \div N
<1>1. q \in Int /\ j = N * q + SlotOf(j) /\ SlotOf(j) \in Slots
  BY DivMod
<1>2. p \in Int /\ k = N * p + SlotOf(k)
  BY DivMod
<1>3. N * (p - q) = k - j
  BY <1>1, <1>2, NAssumption DEF Slots
<1>4. CASE p <= q
  <2>1. N * (p - q) <= 0
    BY <1>1, <1>2, <1>4, NAssumption
  <2> QED BY <1>3, <2>1
<1>5. CASE p > q
  <2>1. N * (p - q) >= N
    BY <1>1, <1>2, <1>5, NAssumption
  <2> QED BY <1>3, <2>1, NAssumption
<1> QED BY <1>1, <1>2, <1>4, <1>5

\* Two cursors meet exactly when their counters are N apart.
LEMMA SlotsMeet ==
  ASSUME NEW j \in Nat, NEW k \in Nat, j < k, k <= j + N
  PROVE  (SlotOf(j) = SlotOf(k)) <=> (k = j + N)
<1>1. CASE k = j + N
  BY <1>1, SlotPeriod
<1>2. CASE k < j + N
  BY <1>2, SlotsDiffer, NAssumption
<1> QED BY <1>1, <1>2, NAssumption

LEMMA SlotRange ==
  ASSUME NEW k \in Nat
  PROVE  SlotOf(k) \in Slots /\ SlotOf(k) # -1
<1>1. SlotOf(k) \in Slots
  BY DivMod
<1> QED BY <1>1, NAssumption DEF Slots

-----------------------------------------------------------------------------
(* The inductive invariant.                                                *)

\* What an operation under way relies on: nobody else writes the slot.
Ops ==
  \A e \in Ends :
    /\ op[e].at = "send" => slot[wr[e]].args = op[e].msg
    /\ op[e].at = "recv" => /\ slot[rd[e]].payload = op[e].msg
                            /\ slot[rd[e]].phase = Type(e)

IInv == TypeOK /\ Cursors /\ Published /\ Ops

\* The counters are naturals, in the order Cursors gives.
LEMMA Counters ==
  ASSUME TypeOK, Cursors
  PROVE  /\ nsend["odd"] \in Nat /\ nrecv["odd"] \in Nat
         /\ nsend["even"] \in Nat /\ nrecv["even"] \in Nat
         /\ nrecv["odd"] <= nsend["even"] /\ nsend["even"] <= nrecv["even"]
         /\ nrecv["even"] <= nsend["odd"] /\ nsend["odd"] <= nrecv["odd"] + N
BY DEF TypeOK, Cursors, Ends

\* An end that may write has credit, and the slot is the next counter's.
LEMMA Writable ==
  ASSUME TypeOK, Cursors
  PROVE  /\ wr["odd"] # -1 => /\ nsend["odd"] < nrecv["odd"] + N
                              /\ wr["odd"] = SlotOf(nsend["odd"])
         /\ wr["even"] # -1 => /\ nsend["even"] < nrecv["even"]
                               /\ wr["even"] = SlotOf(nsend["even"])
BY Counters, NAssumption DEF Cursors

\* The slot an end may write holds no message in flight.
LEMMA NotInFlight ==
  ASSUME TypeOK, Cursors, NEW e \in Ends, wr[e] # -1
  PROVE  \A k \in Nat : \/ k \in nrecv["even"] .. nsend["odd"] - 1
                        \/ k \in nrecv["odd"] .. nsend["even"] - 1
                        => SlotOf(k) # wr[e]
<1> DEFINE a == nsend["odd"]
           b == nrecv["even"]
           c == nsend["even"]
           d == nrecv["odd"]
<1>1. /\ a \in Nat /\ b \in Nat /\ c \in Nat /\ d \in Nat
      /\ d <= c /\ c <= b /\ b <= a /\ a <= d + N /\ N \in Nat \ {0}
  BY Counters, NAssumption
<1>2. CASE e = "odd"
  <2>1. a < d + N /\ wr[e] = SlotOf(a)
    BY <1>2, Writable
  <2> QED BY <1>1, <2>1, SlotsDiffer
<1>3. CASE e = "even"
  <2>1. c < b /\ wr[e] = SlotOf(c)
    BY <1>3, Writable
  <2> QED BY <1>1, <2>1, SlotsDiffer
<1> QED BY <1>2, <1>3 DEF Ends

\* A slot with this end's phase under rd holds a message for it: NoFalseReceive
\* with what the counters make of it.
LEMMA Pending ==
  ASSUME TypeOK, Cursors, Published
  PROVE  /\ Readable("even") => /\ nrecv["even"] < nsend["odd"]
                                /\ rd["even"] = SlotOf(nrecv["even"])
         /\ Readable("odd") => /\ nrecv["odd"] < nsend["even"]
                               /\ rd["odd"] = SlotOf(nrecv["odd"])
<1> DEFINE a == nsend["odd"]
           b == nrecv["even"]
           c == nsend["even"]
           d == nrecv["odd"]
<1>1. /\ a \in Nat /\ b \in Nat /\ c \in Nat /\ d \in Nat
      /\ d <= c /\ c <= b /\ b <= a /\ a <= d + N /\ N \in Nat \ {0}
  BY Counters, NAssumption
<1>2. ASSUME Readable("even") PROVE b < a /\ rd["even"] = SlotOf(b)
  <2>1. rd["even"] = SlotOf(b) /\ b # c + N
    BY <1>2, NAssumption DEF Readable, Cursors
  <2>2. slot[SlotOf(b)].phase = 0
    BY <1>2, <2>1 DEF Readable, Type
  <2>3. SUFFICES ASSUME b = a PROVE FALSE
    BY <1>1, <2>1
  <2>4. CASE a < d + N
    <3>1. a \in a .. d + N - 1
      BY <1>1, <2>4
    <3> QED BY <2>2, <2>3, <3>1 DEF Published
  <2>5. CASE a = d + N
    <3>1. d \in d .. c - 1
      BY <1>1, <2>1, <2>3, <2>5
    <3>2. SlotOf(b) = SlotOf(d)
      BY <1>1, <2>3, <2>5, SlotPeriod
    <3> QED BY <2>2, <3>1, <3>2 DEF Published
  <2> QED BY <1>1, <2>4, <2>5
<1>3. ASSUME Readable("odd") PROVE d < c /\ rd["odd"] = SlotOf(d)
  <2>1. rd["odd"] = SlotOf(d) /\ d # a
    BY <1>3, NAssumption DEF Readable, Cursors
  <2>2. slot[SlotOf(d)].phase = 1
    BY <1>3, <2>1 DEF Readable, Type
  <2>3. SUFFICES ASSUME d = c PROVE FALSE
    BY <1>1, <2>1
  <2>4. d \in c .. b - 1 \/ d \in b .. a - 1
    BY <1>1, <2>1, <2>3
  <2> QED BY <2>2, <2>4 DEF Published
<1> QED BY <1>2, <1>3

-----------------------------------------------------------------------------
(* The cursors after a send and after a receive.                           *)

LEMMA AfterSendOdd ==
  ASSUME TypeOK, Cursors, wr["odd"] # -1
  PROVE  /\ AfterSend("odd").rd = SlotOf(nrecv["odd"])
         /\ AfterSend("odd").wr = IF nsend["odd"] + 1 = nrecv["odd"] + N THEN -1
                                  ELSE SlotOf(nsend["odd"] + 1)
<1> DEFINE a == nsend["odd"]
           d == nrecv["odd"]
<1>1. a \in Nat /\ d \in Nat /\ d <= a /\ a < d + N /\ wr["odd"] = SlotOf(a)
  BY Counters, Writable, NAssumption
<1>2. NextSlot(wr["odd"]) = SlotOf(a + 1)
  BY <1>1, SlotStep
<1>3. AfterSend("odd").rd = SlotOf(d)
  <2>1. CASE a = d
    BY <1>1, <2>1, NAssumption DEF AfterSend, Cursors
  <2>2. CASE a # d
    <3>1. rd["odd"] = SlotOf(d) /\ SlotOf(d) \in Slots
      BY <1>1, <2>2, SlotRange DEF Cursors
    <3>2. ~(rd["odd"] < 0)
      BY <3>1, NAssumption DEF Slots
    <3> QED BY <3>1, <3>2 DEF AfterSend
  <2> QED BY <2>1, <2>2
<1>4. (SlotOf(d) = SlotOf(a + 1)) <=> (a + 1 = d + N)
  BY <1>1, SlotsMeet, NAssumption
<1> QED BY <1>2, <1>3, <1>4 DEF AfterSend

LEMMA AfterSendEven ==
  ASSUME TypeOK, Cursors, wr["even"] # -1
  PROVE  /\ AfterSend("even").rd = SlotOf(nrecv["even"])
         /\ AfterSend("even").wr = IF nsend["even"] + 1 = nrecv["even"] THEN -1
                                   ELSE SlotOf(nsend["even"] + 1)
<1> DEFINE b == nrecv["even"]
           c == nsend["even"]
<1>1. b \in Nat /\ c \in Nat /\ c < b /\ b <= c + N /\ wr["even"] = SlotOf(c)
  BY Counters, Writable, NAssumption
<1>2. NextSlot(wr["even"]) = SlotOf(c + 1)
  BY <1>1, SlotStep
<1>3. AfterSend("even").rd = SlotOf(b)
  <2>1. CASE b = c + N
    <3>1. rd["even"] = -1 /\ SlotOf(b) = SlotOf(c)
      BY <1>1, <2>1, SlotPeriod DEF Cursors
    <3> QED BY <1>1, <3>1 DEF AfterSend
  <2>2. CASE b # c + N
    <3>1. rd["even"] = SlotOf(b) /\ SlotOf(b) \in Slots
      BY <1>1, <2>2, SlotRange DEF Cursors
    <3>2. ~(rd["even"] < 0)
      BY <3>1, NAssumption DEF Slots
    <3> QED BY <3>1, <3>2 DEF AfterSend
  <2> QED BY <2>1, <2>2
<1>4. (SlotOf(b) = SlotOf(c + 1)) <=> (c + 1 = b)
  <2>1. CASE c + 1 = b
    BY <2>1
  <2>2. CASE c + 1 < b
    BY <1>1, <2>2, SlotsDiffer, NAssumption
  <2> QED BY <1>1, <2>1, <2>2
<1> QED BY <1>2, <1>3, <1>4 DEF AfterSend

LEMMA AfterRecvOdd ==
  ASSUME TypeOK, Cursors, nrecv["odd"] < nsend["even"]
  PROVE  /\ AfterRecv("odd").wr = SlotOf(nsend["odd"])
         /\ AfterRecv("odd").rd = IF nrecv["odd"] + 1 = nsend["odd"] THEN -1
                                  ELSE SlotOf(nrecv["odd"] + 1)
<1> DEFINE a == nsend["odd"]
           d == nrecv["odd"]
<1>1. a \in Nat /\ d \in Nat /\ d < a /\ a <= d + N
  BY Counters, NAssumption
<1>2. rd["odd"] = SlotOf(d) /\ NextSlot(rd["odd"]) = SlotOf(d + 1)
  BY <1>1, SlotStep DEF Cursors
<1>3. AfterRecv("odd").wr = SlotOf(a)
  <2>1. CASE a = d + N
    <3>1. wr["odd"] = -1 /\ SlotOf(a) = SlotOf(d)
      BY <1>1, <2>1, SlotPeriod DEF Cursors
    <3> QED BY <1>2, <3>1 DEF AfterRecv
  <2>2. CASE a # d + N
    <3>1. wr["odd"] = SlotOf(a) /\ SlotOf(a) \in Slots
      BY <1>1, <2>2, SlotRange DEF Cursors
    <3>2. ~(wr["odd"] < 0)
      BY <3>1, NAssumption DEF Slots
    <3> QED BY <3>1, <3>2 DEF AfterRecv
  <2> QED BY <2>1, <2>2
<1>4. (SlotOf(a) = SlotOf(d + 1)) <=> (d + 1 = a)
  <2>1. CASE d + 1 = a
    BY <2>1
  <2>2. CASE d + 1 < a
    BY <1>1, <2>2, SlotsDiffer, NAssumption
  <2> QED BY <1>1, <2>1, <2>2
<1> QED BY <1>2, <1>3, <1>4 DEF AfterRecv

LEMMA AfterRecvEven ==
  ASSUME TypeOK, Cursors, nrecv["even"] < nsend["odd"]
  PROVE  /\ AfterRecv("even").wr = SlotOf(nsend["even"])
         /\ AfterRecv("even").rd = IF nrecv["even"] + 1 = nsend["even"] + N THEN -1
                                   ELSE SlotOf(nrecv["even"] + 1)
<1> DEFINE b == nrecv["even"]
           c == nsend["even"]
<1>1. b \in Nat /\ c \in Nat /\ c <= b /\ b < c + N
  BY Counters, NAssumption
<1>2. rd["even"] = SlotOf(b) /\ NextSlot(rd["even"]) = SlotOf(b + 1)
  BY <1>1, SlotStep DEF Cursors
<1>3. AfterRecv("even").wr = SlotOf(c)
  <2>1. CASE b = c
    BY <1>2, <2>1, NAssumption DEF AfterRecv, Cursors
  <2>2. CASE b # c
    <3>1. wr["even"] = SlotOf(c) /\ SlotOf(c) \in Slots
      BY <1>1, <2>2, SlotRange DEF Cursors
    <3>2. ~(wr["even"] < 0)
      BY <3>1, NAssumption DEF Slots
    <3> QED BY <3>1, <3>2 DEF AfterRecv
  <2> QED BY <2>1, <2>2
<1>4. (SlotOf(c) = SlotOf(b + 1)) <=> (b + 1 = c + N)
  BY <1>1, SlotsMeet, NAssumption
<1> QED BY <1>2, <1>3, <1>4 DEF AfterRecv

-----------------------------------------------------------------------------
(* Invariance.                                                             *)

LEMMA InitIInv == Init => IInv
<1> SUFFICES ASSUME Init PROVE IInv
  OBVIOUS
<1>1. TypeOK
  BY NAssumption DEF Init, TypeOK, Ends, Slots, Idle
<1>2. SlotOf(0) = 0
  <2>1. PICK q \in Int, r \in Slots : SlotOf(0) = r /\ 0 = N * q + r
    BY DivMod
  <2>2. N * 0 + 0 = N * q + r /\ 0 \in Slots
    BY <2>1, NAssumption DEF Slots
  <2> QED BY <2>1, <2>2, DivModUnique
<1>3. Cursors
  BY <1>2, NAssumption DEF Init, Cursors, Ends
<1>4. Published
  <2>1. \A k \in 0 .. 0 + N - 1 : slot[SlotOf(k)].phase = 1
    BY SlotRange DEF Init
  <2> QED BY <2>1, NAssumption DEF Init, Published, Ends
<1>5. Ops
  BY DEF Init, Ops, Idle
<1> QED BY <1>1, <1>3, <1>4, <1>5 DEF IInv

\* A send that has begun has written arguments where nobody else looks.
LEMMA SendBeginStep ==
  ASSUME IInv, NEW e \in Ends, SendBegin(e)
  PROVE  IInv'
<1> DEFINE a == nsend["odd"]
           b == nrecv["even"]
           c == nsend["even"]
           d == nrecv["odd"]
<1>1. PICK m \in Msgs :
        /\ slot' = [slot EXCEPT ![wr[e]].args = m]
        /\ op' = [op EXCEPT ![e] = [at |-> "send", msg |-> m]]
  BY DEF SendBegin
<1>2. /\ UNCHANGED << rd, wr, nsend, nrecv >> /\ wr[e] \in Slots /\ wr[e] # -1
      /\ TypeOK /\ Cursors /\ Published /\ Ops
  BY NAssumption DEF SendBegin, IInv, TypeOK, Slots
<1>3. /\ a \in Nat /\ b \in Nat /\ c \in Nat /\ d \in Nat
      /\ d <= c /\ c <= b /\ b <= a /\ a <= d + N /\ N \in Nat \ {0}
  BY <1>2, Counters, NAssumption
<1>4. TypeOK'
  <2>1. slot' \in [Slots -> [phase : {0, 1}, payload : Msgs \cup {NoMsg},
                             args : Msgs \cup {NoMsg}]]
    BY <1>1, <1>2 DEF TypeOK
  <2>2. op' \in [Ends -> {Idle} \cup [at : {"send", "recv"}, msg : Msgs]]
    BY <1>1, <1>2 DEF TypeOK
  <2> QED BY <1>1, <1>2, <2>1, <2>2 DEF TypeOK, Idle
<1>5. Cursors'
  BY <1>2 DEF Cursors, SlotOf
<1>6. \A i \in Slots : /\ slot'[i].phase = slot[i].phase
                       /\ slot'[i].payload = slot[i].payload
                       /\ i # wr[e] => slot'[i].args = slot[i].args
  BY <1>1, <1>2 DEF TypeOK
<1>7. \A k \in Nat : k \in b .. a - 1 \/ k \in d .. c - 1 => SlotOf(k) # wr[e]
  BY <1>2, NotInFlight
<1>8. Published'
  <2>1. \A k \in Nat : SlotOf(k)' = SlotOf(k) /\ SlotOf(k) \in Slots
    BY SlotRange DEF SlotOf
  <2>2. \A k \in b .. a - 1 : slot'[SlotOf(k)].phase = 0 /\ Whole(k)'
    BY <1>2, <1>3, <1>6, <1>7, <2>1 DEF Published, Whole
  <2>3. \A k \in c .. b - 1 : slot'[SlotOf(k)].phase = 0
    BY <1>2, <1>3, <1>6, <2>1 DEF Published
  <2>4. \A k \in d .. c - 1 : slot'[SlotOf(k)].phase = 1 /\ Whole(k)'
    BY <1>2, <1>3, <1>6, <1>7, <2>1 DEF Published, Whole
  <2>5. \A k \in a .. d + N - 1 : slot'[SlotOf(k)].phase = 1
    BY <1>2, <1>3, <1>6, <2>1 DEF Published
  <2> QED BY <1>2, <2>1, <2>2, <2>3, <2>4, <2>5 DEF Published
<1>9. Ops'
  <2> SUFFICES ASSUME NEW f \in Ends
               PROVE  /\ op'[f].at = "send" => slot'[wr[f]].args = op'[f].msg
                      /\ op'[f].at = "recv" => /\ slot'[rd[f]].payload = op'[f].msg
                                               /\ slot'[rd[f]].phase = Type(f)
    BY <1>2 DEF Ops, Type
  <2>1. CASE f = e
    BY <1>1, <1>2, <2>1 DEF TypeOK
  <2>2. CASE f # e
    <3>1. op'[f] = op[f]
      BY <1>1, <1>2, <2>2 DEF TypeOK
    <3>2. op[f].at = "send" => wr[f] \in Slots /\ wr[f] # wr[e]
      <4> SUFFICES ASSUME op[f].at = "send" PROVE wr[f] \in Slots /\ wr[f] # wr[e]
        OBVIOUS
      <4>1. wr[f] # -1 /\ wr[f] \in Slots
        BY <1>2 DEF TypeOK
      <4>2. /\ a < d + N /\ c < b
            /\ {wr[e], wr[f]} = {SlotOf(a), SlotOf(c)}
        BY <1>2, <4>1, <2>2, Writable DEF Ends
      <4>3. SlotOf(c) # SlotOf(a)
        BY <1>3, <4>2, SlotsDiffer
      <4> QED BY <4>1, <4>2, <4>3
    <3>3. op[f].at = "recv" => rd[f] \in Slots
      BY <1>2 DEF TypeOK
    <3> QED BY <1>2, <1>6, <3>1, <3>2, <3>3 DEF Ops
  <2> QED BY <2>1, <2>2
<1> QED BY <1>4, <1>5, <1>8, <1>9 DEF IInv

\* Publishing hands the slot over: it leaves this end's window of counters
\* and enters the other's.
LEMMA SendPublishStep ==
  ASSUME IInv, NEW e \in Ends, SendPublish(e)
  PROVE  IInv'
<1> DEFINE a == nsend["odd"]
           b == nrecv["even"]
           c == nsend["even"]
           d == nrecv["odd"]
<1>1. /\ TypeOK /\ Cursors /\ Published /\ Ops
      /\ wr[e] \in Slots /\ wr[e] # -1 /\ op[e].msg \in Msgs
      /\ slot[wr[e]].args = op[e].msg
  BY NAssumption DEF SendPublish, IInv, TypeOK, Ops, Idle, Slots
<1>2. /\ a \in Nat /\ b \in Nat /\ c \in Nat /\ d \in Nat
      /\ d <= c /\ c <= b /\ b <= a /\ a <= d + N /\ N \in Nat \ {0}
  BY <1>1, Counters, NAssumption
<1>3. /\ \A i \in Slots : i # wr[e] => slot'[i] = slot[i]
      /\ slot'[wr[e]].phase = SendPhase(e)
      /\ slot'[wr[e]].payload = op[e].msg /\ slot'[wr[e]].args = op[e].msg
  BY <1>1 DEF SendPublish, TypeOK
<1>4. /\ op' = [op EXCEPT ![e] = Idle]
      /\ nrecv' = nrecv /\ nsend' = [nsend EXCEPT ![e] = @ + 1]
  BY DEF SendPublish
<1>5. AfterSend(e).rd \in Slots /\ AfterSend(e).wr \in Slots \cup {-1}
  <2>1. CASE e = "odd"
    BY <1>1, <1>2, <2>1, AfterSendOdd, SlotRange
  <2>2. CASE e = "even"
    BY <1>1, <1>2, <2>2, AfterSendEven, SlotRange
  <2> QED BY <2>1, <2>2 DEF Ends
<1>6. /\ rd' \in [Ends -> Slots \cup {-1}] /\ wr' \in [Ends -> Slots \cup {-1}]
      /\ \A f \in Ends : f # e => rd'[f] = rd[f] /\ wr'[f] = wr[f]
      /\ rd'[e] = AfterSend(e).rd /\ wr'[e] = AfterSend(e).wr
  BY <1>1, <1>5 DEF SendPublish, TypeOK
<1>7. TypeOK'
  <2>1. slot' \in [Slots -> [phase : {0, 1}, payload : Msgs \cup {NoMsg},
                             args : Msgs \cup {NoMsg}]]
    <3>1. SendPhase(e) \in {0, 1}
      BY DEF SendPhase, Type, Ends
    <3> DEFINE Slot == [phase : {0, 1}, payload : Msgs \cup {NoMsg},
                        args : Msgs \cup {NoMsg}]
    <3>2. slot \in [Slots -> Slot] /\ slot[wr[e]] \in Slot BY <1>1 DEF TypeOK
    <3>3. [slot[wr[e]] EXCEPT !.phase = SendPhase(e), !.payload = op[e].msg] \in Slot
      BY <1>1, <3>1, <3>2
    <3>4. slot' = [slot EXCEPT ![wr[e]] =
                     [slot[wr[e]] EXCEPT !.phase = SendPhase(e), !.payload = op[e].msg]]
      BY DEF SendPublish
    <3> HIDE DEF Slot
    <3>5. slot' \in [Slots -> Slot] BY <1>1, <3>2, <3>3, <3>4
    <3> QED BY <3>5 DEF Slot
  <2>2. op' \in [Ends -> {Idle} \cup [at : {"send", "recv"}, msg : Msgs]]
    BY <1>1, <1>4 DEF TypeOK
  <2>3. nsend' \in [Ends -> Nat] /\ nrecv' \in [Ends -> Nat]
    BY <1>1, <1>4 DEF TypeOK
  <2>4. \A f \in Ends : /\ op'[f].at = "send" => wr'[f] # -1
                        /\ op'[f].at = "recv" => rd'[f] # -1
    BY <1>1, <1>4, <1>6 DEF TypeOK, Idle
  <2> QED BY <1>6, <2>1, <2>2, <2>3, <2>4 DEF TypeOK
<1>8. ASSUME NEW f \in Ends, f # e
      PROVE  /\ op'[f] = op[f]
             /\ op[f].at = "send" => wr[f] \in Slots /\ wr[f] # wr[e]
             /\ op[f].at = "recv" => rd[f] \in Slots /\ rd[f] # wr[e]
  <2>1. op'[f] = op[f]
    BY <1>1, <1>4, <1>8 DEF TypeOK
  <2>2. ASSUME op[f].at = "send" PROVE wr[f] \in Slots /\ wr[f] # wr[e]
    <3>1. wr[f] # -1 /\ wr[f] \in Slots
      BY <1>1, <2>2 DEF TypeOK
    <3>2. a < d + N /\ c < b /\ {wr[e], wr[f]} = {SlotOf(a), SlotOf(c)}
      BY <1>1, <1>8, <3>1, Writable DEF Ends
    <3>3. SlotOf(c) # SlotOf(a)
      BY <1>2, <3>2, SlotsDiffer
    <3> QED BY <3>1, <3>2, <3>3
  <2>3. ASSUME op[f].at = "recv" PROVE rd[f] \in Slots /\ rd[f] # wr[e]
    <3>1. rd[f] \in Slots /\ Readable(f)
      BY <1>1, <2>3, NAssumption DEF TypeOK, Ops, Readable, Slots
    <3>2. CASE e = "odd"
      <4>1. b < a /\ rd[f] = SlotOf(b) /\ wr[e] = SlotOf(a) /\ a < d + N
        BY <1>1, <1>8, <3>1, <3>2, Pending, Writable DEF Ends
      <4> QED BY <1>2, <3>1, <4>1, SlotsDiffer
    <3>3. CASE e = "even"
      <4>1. d < c /\ rd[f] = SlotOf(d) /\ wr[e] = SlotOf(c) /\ c < b
        BY <1>1, <1>8, <3>1, <3>3, Pending, Writable DEF Ends
      <4> QED BY <1>2, <3>1, <4>1, SlotsDiffer
    <3> QED BY <3>2, <3>3 DEF Ends
  <2> QED BY <2>1, <2>2, <2>3
<1>9. Ops'
  <2> SUFFICES ASSUME NEW f \in Ends
               PROVE  /\ op'[f].at = "send" => slot'[wr'[f]].args = op'[f].msg
                      /\ op'[f].at = "recv" => /\ slot'[rd'[f]].payload = op'[f].msg
                                               /\ slot'[rd'[f]].phase = Type(f)
    BY DEF Ops, Type
  <2>1. CASE f = e
    BY <1>1, <1>4, <2>1 DEF TypeOK, Idle
  <2>2. CASE f # e
    BY <1>1, <1>3, <1>6, <1>8, <2>2 DEF Ops
  <2> QED BY <2>1, <2>2
<1>10. \A k \in Nat : SlotOf(k)' = SlotOf(k) /\ SlotOf(k) \in Slots
  BY SlotRange DEF SlotOf
<1>11. CASE e = "odd"
  <2>1. /\ a' = a + 1 /\ b' = b /\ c' = c /\ d' = d
        /\ a < d + N /\ wr[e] = SlotOf(a) /\ SendPhase(e) = 0
    BY <1>1, <1>4, <1>11, Writable DEF TypeOK, Ends, SendPhase, Type
  <2>2. Cursors'
    <3>1. /\ rd'["odd"] = SlotOf(d)
          /\ wr'["odd"] = IF a + 1 = d + N THEN -1 ELSE SlotOf(a + 1)
          /\ rd'["even"] = rd["even"] /\ wr'["even"] = wr["even"]
      BY <1>1, <1>6, <1>11, AfterSendOdd DEF Ends
    <3> QED BY <1>1, <1>2, <1>10, <2>1, <3>1 DEF Cursors
  <2>3. \A k \in Nat : k \in d .. a - 1 \/ k \in a + 1 .. d + N - 1
                         => slot'[SlotOf(k)] = slot[SlotOf(k)]
    BY <1>2, <1>3, <1>10, <2>1, SlotsDiffer
  <2>4. \A k \in b .. a : slot'[SlotOf(k)].phase = 0 /\ Whole(k)'
    <3>1. /\ slot'[SlotOf(a)].phase = 0
          /\ slot'[SlotOf(a)].payload \in Msgs
          /\ slot'[SlotOf(a)].args = slot'[SlotOf(a)].payload
      BY <1>1, <1>3, <2>1
    <3>2. \A k \in b .. a - 1 : slot'[SlotOf(k)].phase = 0 /\ Whole(k)'
      BY <1>1, <1>2, <1>10, <2>3 DEF Published, Whole
    <3>3. \A k \in Nat : k = a => Whole(k)'
      BY <1>10, <3>1 DEF Whole
    <3> QED BY <1>2, <3>1, <3>2, <3>3
  <2>5. \A k \in c .. b - 1 : slot'[SlotOf(k)].phase = 0
    BY <1>1, <1>2, <2>3 DEF Published
  <2>6. \A k \in d .. c - 1 : slot'[SlotOf(k)].phase = 1 /\ Whole(k)'
    BY <1>1, <1>2, <1>10, <2>3 DEF Published, Whole
  <2>7. \A k \in a + 1 .. d + N - 1 : slot'[SlotOf(k)].phase = 1
    BY <1>1, <1>2, <2>3 DEF Published
  <2>8. Published'
    <3>1. a' - 1 = a
      BY <1>2, <2>1
    <3>2. \A k \in b' .. a' - 1 : slot'[SlotOf(k)'].phase = 0 /\ Whole(k)'
      BY <1>2, <1>10, <2>1, <2>4, <3>1
    <3>3. \A k \in c' .. b' - 1 : slot'[SlotOf(k)'].phase = 0
      BY <1>2, <1>10, <2>1, <2>5
    <3>4. \A k \in d' .. c' - 1 : slot'[SlotOf(k)'].phase = 1 /\ Whole(k)'
      BY <1>2, <1>10, <2>1, <2>6
    <3>5. \A k \in a' .. d' + N - 1 : slot'[SlotOf(k)'].phase = 1
      BY <1>2, <1>10, <2>1, <2>7
    <3> QED BY <3>2, <3>3, <3>4, <3>5 DEF Published
  <2> QED BY <1>7, <1>9, <2>2, <2>8 DEF IInv
<1>12. CASE e = "even"
  <2>1. /\ a' = a /\ b' = b /\ c' = c + 1 /\ d' = d
        /\ c < b /\ wr[e] = SlotOf(c) /\ SendPhase(e) = 1
    BY <1>1, <1>4, <1>12, Writable DEF TypeOK, Ends, SendPhase, Type
  <2>2. Cursors'
    <3>1. /\ rd'["even"] = SlotOf(b)
          /\ wr'["even"] = IF c + 1 = b THEN -1 ELSE SlotOf(c + 1)
          /\ rd'["odd"] = rd["odd"] /\ wr'["odd"] = wr["odd"]
      BY <1>1, <1>6, <1>12, AfterSendEven DEF Ends
    <3> QED BY <1>1, <1>2, <1>10, <2>1, <3>1 DEF Cursors
  <2>3. \A k \in Nat : k \in d .. c - 1 \/ k \in c + 1 .. d + N - 1
                         => slot'[SlotOf(k)] = slot[SlotOf(k)]
    BY <1>2, <1>3, <1>10, <2>1, SlotsDiffer
  <2>4. \A k \in d .. c : slot'[SlotOf(k)].phase = 1 /\ Whole(k)'
    <3>1. /\ slot'[SlotOf(c)].phase = 1
          /\ slot'[SlotOf(c)].payload \in Msgs
          /\ slot'[SlotOf(c)].args = slot'[SlotOf(c)].payload
      BY <1>1, <1>3, <2>1
    <3>2. \A k \in d .. c - 1 : slot'[SlotOf(k)].phase = 1 /\ Whole(k)'
      BY <1>1, <1>2, <1>10, <2>3 DEF Published, Whole
    <3>3. \A k \in Nat : k = c => Whole(k)'
      BY <1>10, <3>1 DEF Whole
    <3> QED BY <1>2, <3>1, <3>2, <3>3
  <2>5. \A k \in b .. a - 1 : slot'[SlotOf(k)].phase = 0 /\ Whole(k)'
    BY <1>1, <1>2, <1>10, <2>1, <2>3 DEF Published, Whole
  <2>6. \A k \in c + 1 .. b - 1 : slot'[SlotOf(k)].phase = 0
    BY <1>1, <1>2, <2>3 DEF Published
  <2>7. \A k \in a .. d + N - 1 : slot'[SlotOf(k)].phase = 1
    BY <1>1, <1>2, <2>1, <2>3 DEF Published
  <2>8. Published'
    <3>1. c' - 1 = c
      BY <1>2, <2>1
    <3>2. \A k \in b' .. a' - 1 : slot'[SlotOf(k)'].phase = 0 /\ Whole(k)'
      BY <1>2, <1>10, <2>1, <2>5
    <3>3. \A k \in c' .. b' - 1 : slot'[SlotOf(k)'].phase = 0
      BY <1>2, <1>10, <2>1, <2>6
    <3>4. \A k \in d' .. c' - 1 : slot'[SlotOf(k)'].phase = 1 /\ Whole(k)'
      BY <1>2, <1>10, <2>1, <2>4, <3>1
    <3>5. \A k \in a' .. d' + N - 1 : slot'[SlotOf(k)'].phase = 1
      BY <1>2, <1>10, <2>1, <2>7
    <3> QED BY <3>2, <3>3, <3>4, <3>5 DEF Published
  <2> QED BY <1>7, <1>9, <2>2, <2>8 DEF IInv
<1> QED BY <1>11, <1>12 DEF Ends

LEMMA RecvBeginStep ==
  ASSUME IInv, NEW e \in Ends, RecvBegin(e)
  PROVE  IInv'
<1> DEFINE m == slot[rd[e]].payload
<1>1. /\ TypeOK /\ Cursors /\ Published /\ Ops /\ Readable(e)
      /\ UNCHANGED << slot, rd, wr, nsend, nrecv >>
      /\ op' = [op EXCEPT ![e] = [at |-> "recv", msg |-> m]]
  BY DEF RecvBegin, IInv
<1>2. /\ m \in Msgs /\ rd[e] # -1
  <2>1. rd[e] # -1
    BY <1>1 DEF Readable
  <2>2. CASE e = "odd"
    <3>1. /\ nrecv["odd"] \in nrecv["odd"] .. nsend["even"] - 1
          /\ rd["odd"] = SlotOf(nrecv["odd"])
      BY <1>1, <2>2, Pending, Counters
    <3> QED BY <1>1, <2>1, <2>2, <3>1 DEF Published, Whole
  <2>3. CASE e = "even"
    <3>1. /\ nrecv["even"] \in nrecv["even"] .. nsend["odd"] - 1
          /\ rd["even"] = SlotOf(nrecv["even"])
      BY <1>1, <2>3, Pending, Counters
    <3> QED BY <1>1, <2>1, <2>3, <3>1 DEF Published, Whole
  <2> QED BY <2>2, <2>3 DEF Ends
<1>3. TypeOK'
  <2>1. op' \in [Ends -> {Idle} \cup [at : {"send", "recv"}, msg : Msgs]]
    BY <1>1, <1>2 DEF TypeOK
  <2>2. \A f \in Ends : /\ op'[f].at = "send" => wr[f] # -1
                        /\ op'[f].at = "recv" => rd[f] # -1
    BY <1>1, <1>2 DEF TypeOK
  <2> QED BY <1>1, <2>1, <2>2 DEF TypeOK
<1>4. Cursors' /\ Published'
  BY <1>1 DEF Cursors, Published, Whole, SlotOf
<1>5. Ops'
  <2> SUFFICES ASSUME NEW f \in Ends
               PROVE  /\ op'[f].at = "send" => slot[wr[f]].args = op'[f].msg
                      /\ op'[f].at = "recv" => /\ slot[rd[f]].payload = op'[f].msg
                                               /\ slot[rd[f]].phase = Type(f)
    BY <1>1 DEF Ops, Type
  <2>1. CASE f = e
    BY <1>1, <2>1 DEF TypeOK, Readable
  <2>2. CASE f # e
    BY <1>1, <2>2 DEF TypeOK, Ops
  <2> QED BY <2>1, <2>2
<1> QED BY <1>3, <1>4, <1>5 DEF IInv

\* A receive that is under way has a message: the phase it saw still stands.
LEMMA RecvPending ==
  ASSUME IInv, NEW e \in Ends, op[e].at = "recv"
  PROVE  /\ e = "odd"  => nrecv["odd"] < nsend["even"]
         /\ e = "even" => nrecv["even"] < nsend["odd"]
         /\ rd[e] = SlotOf(nrecv[e])
<1>1. TypeOK /\ Cursors /\ Published /\ Ops
  BY DEF IInv
<1>2. Readable(e)
  BY <1>1, NAssumption DEF TypeOK, Ops, Readable, Slots
<1> QED BY <1>1, <1>2, Pending DEF Ends

LEMMA RecvEndStep ==
  ASSUME IInv, NEW e \in Ends, RecvEnd(e)
  PROVE  IInv'
<1> DEFINE a == nsend["odd"]
           b == nrecv["even"]
           c == nsend["even"]
           d == nrecv["odd"]
<1>1. TypeOK /\ Cursors /\ Published /\ Ops /\ op[e].at = "recv"
  BY DEF RecvEnd, IInv
<1>2. /\ a \in Nat /\ b \in Nat /\ c \in Nat /\ d \in Nat
      /\ d <= c /\ c <= b /\ b <= a /\ a <= d + N /\ N \in Nat \ {0}
  BY <1>1, Counters, NAssumption
<1>3. /\ slot' = slot /\ nsend' = nsend
      /\ nrecv' = [nrecv EXCEPT ![e] = @ + 1] /\ op' = [op EXCEPT ![e] = Idle]
  BY DEF RecvEnd
<1>4. AfterRecv(e).wr \in Slots /\ AfterRecv(e).rd \in Slots \cup {-1}
  <2>1. CASE e = "odd"
    BY <1>1, <1>2, <2>1, RecvPending, AfterRecvOdd, SlotRange
  <2>2. CASE e = "even"
    BY <1>1, <1>2, <2>2, RecvPending, AfterRecvEven, SlotRange
  <2> QED BY <2>1, <2>2 DEF Ends
<1>5. /\ rd' \in [Ends -> Slots \cup {-1}] /\ wr' \in [Ends -> Slots \cup {-1}]
      /\ \A f \in Ends : f # e => rd'[f] = rd[f] /\ wr'[f] = wr[f]
      /\ rd'[e] = AfterRecv(e).rd /\ wr'[e] = AfterRecv(e).wr
  BY <1>1, <1>4 DEF RecvEnd, TypeOK
<1>6. TypeOK'
  <2>1. op' \in [Ends -> {Idle} \cup [at : {"send", "recv"}, msg : Msgs]]
    BY <1>1, <1>3 DEF TypeOK
  <2>2. nsend' \in [Ends -> Nat] /\ nrecv' \in [Ends -> Nat]
    BY <1>1, <1>3 DEF TypeOK
  <2>3. \A f \in Ends : /\ op'[f].at = "send" => wr'[f] # -1
                        /\ op'[f].at = "recv" => rd'[f] # -1
    BY <1>1, <1>3, <1>5 DEF TypeOK, Idle
  <2> QED BY <1>1, <1>3, <1>5, <2>1, <2>2, <2>3 DEF TypeOK
<1>7. Ops'
  <2> SUFFICES ASSUME NEW f \in Ends
               PROVE  /\ op'[f].at = "send" => slot[wr'[f]].args = op'[f].msg
                      /\ op'[f].at = "recv" => /\ slot[rd'[f]].payload = op'[f].msg
                                               /\ slot[rd'[f]].phase = Type(f)
    BY <1>3 DEF Ops, Type
  <2>1. CASE f = e
    BY <1>1, <1>3, <2>1 DEF TypeOK, Idle
  <2>2. CASE f # e
    BY <1>1, <1>3, <1>5, <2>2 DEF TypeOK, Ops
  <2> QED BY <2>1, <2>2
<1>8. \A k \in Nat : SlotOf(k)' = SlotOf(k)
  BY DEF SlotOf
<1>9. CASE e = "odd"
  <2>1. a' = a /\ b' = b /\ c' = c /\ d' = d + 1 /\ d < c
    BY <1>1, <1>3, <1>9, RecvPending DEF TypeOK, Ends
  <2>2. Cursors'
    <3>1. /\ wr'["odd"] = SlotOf(a)
          /\ rd'["odd"] = IF d + 1 = a THEN -1 ELSE SlotOf(d + 1)
          /\ rd'["even"] = rd["even"] /\ wr'["even"] = wr["even"]
      BY <1>1, <1>5, <1>9, <2>1, AfterRecvOdd DEF Ends
    <3> QED BY <1>1, <1>2, <1>8, <2>1, <3>1 DEF Cursors
  <2>3. \A k \in a .. d + N : slot[SlotOf(k)].phase = 1
    <3>1. SlotOf(d + N) = SlotOf(d) /\ d \in d .. c - 1
      BY <1>2, <2>1, SlotPeriod
    <3>2. slot[SlotOf(d + N)].phase = 1
      BY <1>1, <3>1 DEF Published
    <3>3. \A k \in a .. d + N : k = d + N \/ k \in a .. d + N - 1
      BY <1>2
    <3> QED BY <1>1, <3>2, <3>3 DEF Published
  <2>4. Published'
    <3>1. \A k \in d' .. c' - 1 : k \in d .. c - 1
      BY <1>2, <2>1
    <3>2. \A k \in a' .. d' + N - 1 : k \in a .. d + N
      BY <1>2, <2>1
    <3> QED BY <1>1, <1>2, <1>3, <1>8, <2>1, <2>3, <3>1, <3>2 DEF Published, Whole
  <2> QED BY <1>6, <1>7, <2>2, <2>4 DEF IInv
<1>10. CASE e = "even"
  <2>1. a' = a /\ b' = b + 1 /\ c' = c /\ d' = d /\ b < a
    BY <1>1, <1>3, <1>10, RecvPending DEF TypeOK, Ends
  <2>2. Cursors'
    <3>1. /\ wr'["even"] = SlotOf(c)
          /\ rd'["even"] = IF b + 1 = c + N THEN -1 ELSE SlotOf(b + 1)
          /\ rd'["odd"] = rd["odd"] /\ wr'["odd"] = wr["odd"]
      BY <1>1, <1>5, <1>10, <2>1, AfterRecvEven DEF Ends
    <3> QED BY <1>1, <1>2, <1>8, <2>1, <3>1 DEF Cursors
  <2>3. \A k \in c .. b : slot[SlotOf(k)].phase = 0
    <3>1. \A k \in c .. b : k \in c .. b - 1 \/ k \in b .. a - 1
      BY <1>2, <2>1
    <3> QED BY <1>1, <3>1 DEF Published
  <2>4. Published'
    <3>1. \A k \in c' .. b' - 1 : k \in c .. b
      BY <1>2, <2>1
    <3>2. \A k \in b' .. a' - 1 : k \in b .. a - 1
      BY <1>2, <2>1
    <3> QED BY <1>1, <1>2, <1>3, <1>8, <2>1, <2>3, <3>1, <3>2 DEF Published, Whole
  <2> QED BY <1>6, <1>7, <2>2, <2>4 DEF IInv
<1> QED BY <1>9, <1>10 DEF Ends

LEMMA NextIInv == IInv /\ [Next]_vars => IInv'
<1> SUFFICES ASSUME IInv, [Next]_vars PROVE IInv'
  OBVIOUS
<1>1. ASSUME NEW e \in Ends, SendBegin(e) PROVE IInv'
  BY <1>1, SendBeginStep
<1>2. ASSUME NEW e \in Ends, SendPublish(e) PROVE IInv'
  BY <1>2, SendPublishStep
<1>3. ASSUME NEW e \in Ends, RecvBegin(e) PROVE IInv'
  BY <1>3, RecvBeginStep
<1>4. ASSUME NEW e \in Ends, RecvEnd(e) PROVE IInv'
  BY <1>4, RecvEndStep
<1>5. CASE UNCHANGED vars
  BY <1>5 DEF vars, IInv, TypeOK, Cursors, Published, Whole, SlotOf, Ops, Type
<1> QED BY <1>1, <1>2, <1>3, <1>4, <1>5 DEF Next

\* The inductive invariant of the ring.
THEOREM RingInvariance == Spec => []IInv
<1>1. Init => IInv
  BY InitIInv
<1>2. IInv /\ [Next]_vars => IInv'
  BY NextIInv
<1> QED BY <1>1, <1>2, PTL DEF Spec

\* Types, for any N and any messages.
THEOREM RingTypeCorrect == Spec => []TypeOK
<1>1. IInv => TypeOK
  BY DEF IInv
<1> QED BY <1>1, RingInvariance, PTL

\* ave_ring_send and ave_ring_recv: -1 in wr is exactly "full", -1 in rd
\* exactly "nothing outstanding", and the cursors of the two ends never
\* disagree about a slot.
THEOREM CursorsAgree == Spec => []Cursors
<1>1. IInv => Cursors
  BY DEF IInv
<1> QED BY <1>1, RingInvariance, PTL

\* What is published is whole: no slot another end may read is half written
\* (payload and arguments of different messages).
THEOREM NothingTorn == Spec => []Published
<1>1. IInv => Published
  BY DEF IInv
<1> QED BY <1>1, RingInvariance, PTL

\* The phase bit alone is enough: an end never takes for a message what it
\* wrote itself or has read already.
THEOREM PhaseIsEnough == Spec => []NoFalseReceive
<1>1. IInv => NoFalseReceive
  BY Pending DEF IInv, NoFalseReceive
<1> QED BY <1>1, RingInvariance, PTL

-----------------------------------------------------------------------------
(* Refinement: the ring implements Channel.                                *)

\* Sequences given as functions.
LEMMA EmptySeq ==
  ASSUME NEW S, NEW t \in [1 .. 0 -> S]
  PROVE  t = << >>
OBVIOUS

LEMMA SeqAppend ==
  ASSUME NEW S, NEW n \in Nat, NEW s \in [1 .. n -> S], NEW x \in S,
         NEW t \in [1 .. n + 1 -> S],
         \A k \in 1 .. n : t[k] = s[k], t[n + 1] = x
  PROVE  t = Append(s, x)
<1>1. s \in Seq(S) /\ t \in Seq(S) /\ Len(s) = n /\ Len(t) = n + 1
  OBVIOUS
<1>2. Append(s, x) \in Seq(S) /\ Len(Append(s, x)) = n + 1
  BY <1>1
<1>3. \A k \in 1 .. n + 1 : t[k] = Append(s, x)[k]
  BY <1>1
<1> QED BY <1>1, <1>2, <1>3

LEMMA SeqTail ==
  ASSUME NEW S, NEW n \in Nat, NEW s \in [1 .. n + 1 -> S],
         NEW t \in [1 .. n -> S],
         \A k \in 1 .. n : t[k] = s[k + 1]
  PROVE  s # << >> /\ Head(s) = s[1] /\ t = Tail(s)
<1>1. s \in Seq(S) /\ t \in Seq(S) /\ Len(s) = n + 1 /\ Len(t) = n
  OBVIOUS
<1>2. s # << >> /\ Head(s) = s[1]
  BY <1>1
<1>3. Tail(s) \in Seq(S) /\ Len(Tail(s)) = n
  BY <1>1, <1>2
<1>4. \A k \in 1 .. n : t[k] = Tail(s)[k]
  BY <1>1, <1>2
<1> QED BY <1>1, <1>2, <1>3, <1>4

WholeMsgs == {Message(m, m) : m \in Msgs}
ToEven == InFlight(nrecv["even"], nsend["odd"])
ToOdd  == InFlight(nrecv["odd"], nsend["even"])
Owed   == nrecv["even"] - nsend["even"]

\* The messages in flight are whole ones.
LEMMA Flights ==
  ASSUME IInv
  PROVE  /\ ToEven \in [1 .. nsend["odd"] - nrecv["even"] -> WholeMsgs]
         /\ ToOdd \in [1 .. nsend["even"] - nrecv["odd"] -> WholeMsgs]
         /\ ToEven \in Seq(WholeMsgs) /\ Len(ToEven) = nsend["odd"] - nrecv["even"]
         /\ ToOdd \in Seq(WholeMsgs) /\ Len(ToOdd) = nsend["even"] - nrecv["odd"]
         /\ \A k \in 1 .. nsend["odd"] - nrecv["even"] :
              ToEven[k] = Message(slot[SlotOf(nrecv["even"] + k - 1)].payload,
                                  slot[SlotOf(nrecv["even"] + k - 1)].args)
         /\ \A k \in 1 .. nsend["even"] - nrecv["odd"] :
              ToOdd[k] = Message(slot[SlotOf(nrecv["odd"] + k - 1)].payload,
                                 slot[SlotOf(nrecv["odd"] + k - 1)].args)
<1> DEFINE a == nsend["odd"]
           b == nrecv["even"]
           c == nsend["even"]
           d == nrecv["odd"]
<1>1. /\ a \in Nat /\ b \in Nat /\ c \in Nat /\ d \in Nat
      /\ d <= c /\ c <= b /\ b <= a
  BY Counters DEF IInv
<1>2. \A k \in 1 .. a - b : Message(slot[SlotOf(b + k - 1)].payload,
                                   slot[SlotOf(b + k - 1)].args) \in WholeMsgs
  <2> SUFFICES ASSUME NEW k \in 1 .. a - b
               PROVE  Message(slot[SlotOf(b + k - 1)].payload,
                              slot[SlotOf(b + k - 1)].args) \in WholeMsgs
    OBVIOUS
  <2>1. b + k - 1 \in b .. a - 1
    BY <1>1
  <2>2. Whole(b + k - 1)
    BY <2>1 DEF IInv, Published
  <2> QED BY <2>2 DEF Whole, WholeMsgs
<1>3. \A k \in 1 .. c - d : Message(slot[SlotOf(d + k - 1)].payload,
                                   slot[SlotOf(d + k - 1)].args) \in WholeMsgs
  <2> SUFFICES ASSUME NEW k \in 1 .. c - d
               PROVE  Message(slot[SlotOf(d + k - 1)].payload,
                              slot[SlotOf(d + k - 1)].args) \in WholeMsgs
    OBVIOUS
  <2>1. d + k - 1 \in d .. c - 1
    BY <1>1
  <2>2. Whole(d + k - 1)
    BY <2>1 DEF IInv, Published
  <2> QED BY <2>2 DEF Whole, WholeMsgs
<1>4. ToEven \in [1 .. a - b -> WholeMsgs] /\ ToOdd \in [1 .. c - d -> WholeMsgs]
  BY <1>2, <1>3 DEF ToEven, ToOdd, InFlight
<1>5. a - b \in Nat /\ c - d \in Nat
  BY <1>1
<1>6. /\ ToEven \in Seq(WholeMsgs) /\ Len(ToEven) = a - b
      /\ ToOdd \in Seq(WholeMsgs) /\ Len(ToOdd) = c - d
  BY <1>4, <1>5
<1> QED BY <1>4, <1>6 DEF ToEven, ToOdd, InFlight

LEMMA InitRefines == Init => Promise!Init
<1> SUFFICES ASSUME Init PROVE Promise!Init
  OBVIOUS
<1>1. IInv
  BY InitIInv
<1>2. /\ nsend["odd"] = 0 /\ nrecv["odd"] = 0
      /\ nsend["even"] = 0 /\ nrecv["even"] = 0
  BY DEF Init, Ends
<1>3. ToEven = << >> /\ ToOdd = << >>
  BY <1>1, <1>2, Flights, EmptySeq
<1> QED BY <1>2, <1>3 DEF Init, Ends, NoMsg, ToEven, ToOdd, Promise!Init, Promise!NoMsg

\* What is in flight does not move while the slots in flight do not.
LEMMA SameFlights ==
  ASSUME IInv, IInv', UNCHANGED << nsend, nrecv >>,
         \A k \in Nat : \/ k \in nrecv["even"] .. nsend["odd"] - 1
                        \/ k \in nrecv["odd"] .. nsend["even"] - 1
                        => slot'[SlotOf(k)] = slot[SlotOf(k)]
  PROVE  ToEven' = ToEven /\ ToOdd' = ToOdd /\ Owed' = Owed
<1>1. /\ nsend["odd"] \in Nat /\ nrecv["odd"] \in Nat
      /\ nsend["even"] \in Nat /\ nrecv["even"] \in Nat
  BY Counters DEF IInv
<1>2. \A k \in 1 .. nsend["odd"] - nrecv["even"] :
        slot'[SlotOf(nrecv["even"] + k - 1)] = slot[SlotOf(nrecv["even"] + k - 1)]
  BY <1>1
<1>3. \A k \in 1 .. nsend["even"] - nrecv["odd"] :
        slot'[SlotOf(nrecv["odd"] + k - 1)] = slot[SlotOf(nrecv["odd"] + k - 1)]
  BY <1>1
<1> QED BY <1>2, <1>3 DEF ToEven, ToOdd, Owed, InFlight, SlotOf

\* Beginning to send or to receive shows nothing to the other end.
LEMMA BeginRefines ==
  ASSUME IInv, IInv', NEW e \in Ends, SendBegin(e) \/ RecvBegin(e)
  PROVE  UNCHANGED Promise!vars
<1>1. UNCHANGED << nsend, nrecv, got >>
  BY DEF SendBegin, RecvBegin
<1>2. \A k \in Nat : \/ k \in nrecv["even"] .. nsend["odd"] - 1
                     \/ k \in nrecv["odd"] .. nsend["even"] - 1
                     => slot'[SlotOf(k)] = slot[SlotOf(k)]
  <2>1. CASE RecvBegin(e)
    BY <2>1 DEF RecvBegin
  <2>2. CASE SendBegin(e)
    <3>1. wr[e] # -1 /\ \A i \in Slots : i # wr[e] => slot'[i] = slot[i]
      BY <2>2, NAssumption DEF SendBegin, IInv, TypeOK, Slots
    <3> QED BY <3>1, NotInFlight, SlotRange DEF IInv
  <2> QED BY <2>1, <2>2
<1>3. ToEven' = ToEven /\ ToOdd' = ToOdd /\ Owed' = Owed
  BY <1>1, <1>2, SameFlights
<1> QED BY <1>1, <1>3 DEF Promise!vars, ToEven, ToOdd, Owed

\* Publishing is the abstract send.
LEMMA SendRefines ==
  ASSUME IInv, IInv', NEW e \in Ends, SendPublish(e)
  PROVE  Promise!Next
<1> DEFINE a == nsend["odd"]
           b == nrecv["even"]
           c == nsend["even"]
           d == nrecv["odd"]
           x == Message(op[e].msg, op[e].msg)
<1>1. /\ TypeOK /\ Cursors /\ Ops /\ wr[e] # -1 /\ wr[e] \in Slots
      /\ op[e].msg \in Msgs /\ slot[wr[e]].args = op[e].msg
      /\ nrecv' = nrecv /\ nsend' = [nsend EXCEPT ![e] = @ + 1] /\ got' = got
  BY NAssumption DEF SendPublish, IInv, TypeOK, Ops, Idle, Slots
<1>2. /\ a \in Nat /\ b \in Nat /\ c \in Nat /\ d \in Nat
      /\ d <= c /\ c <= b /\ b <= a /\ a <= d + N /\ N \in Nat \ {0}
  BY <1>1, Counters, NAssumption
<1>3. /\ \A i \in Slots : i # wr[e] => slot'[i] = slot[i]
      /\ slot'[wr[e]].payload = op[e].msg /\ slot'[wr[e]].args = op[e].msg
  BY <1>1 DEF SendPublish, TypeOK
<1>4. \A k \in Nat : k \in b .. a - 1 \/ k \in d .. c - 1
                       => slot'[SlotOf(k)] = slot[SlotOf(k)]
  BY <1>1, <1>3, NotInFlight, SlotRange
<1>5. x \in WholeMsgs
  BY <1>1 DEF WholeMsgs
<1>6. \A k \in Nat : SlotOf(k)' = SlotOf(k)
  BY DEF SlotOf
<1>7. CASE e = "odd"
  <2>1. a' = a + 1 /\ b' = b /\ c' = c /\ d' = d /\ a < d + N /\ wr[e] = SlotOf(a)
    BY <1>1, <1>7, Writable DEF TypeOK, Ends
  <2>2. ToEven' = Append(ToEven, x)
    <3>1. a' - b' = (a - b) + 1 /\ a - b \in Nat
      BY <1>2, <2>1
    <3>2. ToEven' = [k \in 1 .. (a - b) + 1 |->
                      Message(slot'[SlotOf(b + k - 1)].payload,
                              slot'[SlotOf(b + k - 1)].args)]
      BY <1>6, <2>1, <3>1 DEF ToEven, InFlight, Message
    <3>3. \A k \in 1 .. a - b : ToEven'[k] = ToEven[k]
      <4> SUFFICES ASSUME NEW k \in 1 .. a - b PROVE ToEven'[k] = ToEven[k]
        OBVIOUS
      <4>1. b + k - 1 \in b .. a - 1 /\ b + k - 1 \in Nat /\ k \in 1 .. (a - b) + 1
        BY <1>2
      <4> QED BY <1>4, <3>2, <4>1, Flights
    <3>4. ToEven'[(a - b) + 1] = x
      <4>1. b + ((a - b) + 1) - 1 = a /\ (a - b) + 1 \in 1 .. (a - b) + 1
        BY <1>2
      <4> QED BY <1>3, <2>1, <3>2, <4>1
    <3>5. ToEven \in [1 .. a - b -> WholeMsgs]
      BY Flights
    <3>6. ToEven' \in [1 .. (a - b) + 1 -> WholeMsgs]
      <4>1. \A k \in 1 .. (a - b) + 1 : k \in 1 .. a - b \/ k = (a - b) + 1
        BY <3>1
      <4>2. \A k \in 1 .. (a - b) + 1 : ToEven'[k] \in WholeMsgs
        BY <1>5, <3>3, <3>4, <3>5, <4>1
      <4> QED BY <3>2, <4>2
    <3> QED BY <1>5, <3>1, <3>3, <3>4, <3>5, <3>6, SeqAppend
  <2>3. ToOdd' = ToOdd /\ Owed' = Owed
    <3>1. \A k \in 1 .. c - d : slot'[SlotOf(d + k - 1)] = slot[SlotOf(d + k - 1)]
      BY <1>2, <1>4
    <3> QED BY <1>6, <2>1, <3>1 DEF ToOdd, Owed, InFlight
  <2>4. Len(ToEven) + Owed + Len(ToOdd) < N
    <3>1. Len(ToEven) = a - b /\ Len(ToOdd) = c - d BY Flights
    <3>2. Owed = b - c BY DEF Owed
    <3> HIDE DEF a, b, c, d
    <3> QED BY <1>2, <2>1, <3>1, <3>2
  <2>5. Promise!SendOdd
    BY <1>1, <1>5, <2>2, <2>3, <2>4
       DEF Promise!SendOdd, ToEven, ToOdd, Owed, WholeMsgs
  <2> QED BY <2>5 DEF Promise!Next
<1>8. CASE e = "even"
  <2>1. a' = a /\ b' = b /\ c' = c + 1 /\ d' = d /\ c < b /\ wr[e] = SlotOf(c)
    BY <1>1, <1>8, Writable DEF TypeOK, Ends
  <2>2. ToOdd' = Append(ToOdd, x)
    <3>1. c' - d' = (c - d) + 1 /\ c - d \in Nat
      BY <1>2, <2>1
    <3>2. ToOdd' = [k \in 1 .. (c - d) + 1 |->
                      Message(slot'[SlotOf(d + k - 1)].payload,
                              slot'[SlotOf(d + k - 1)].args)]
      BY <1>6, <2>1, <3>1 DEF ToOdd, InFlight, Message
    <3>3. \A k \in 1 .. c - d : ToOdd'[k] = ToOdd[k]
      <4> SUFFICES ASSUME NEW k \in 1 .. c - d PROVE ToOdd'[k] = ToOdd[k]
        OBVIOUS
      <4>1. d + k - 1 \in d .. c - 1 /\ d + k - 1 \in Nat /\ k \in 1 .. (c - d) + 1
        BY <1>2
      <4> QED BY <1>4, <3>2, <4>1, Flights
    <3>4. ToOdd'[(c - d) + 1] = x
      <4>1. d + ((c - d) + 1) - 1 = c /\ (c - d) + 1 \in 1 .. (c - d) + 1
        BY <1>2
      <4> QED BY <1>3, <2>1, <3>2, <4>1
    <3>5. ToOdd \in [1 .. c - d -> WholeMsgs]
      BY Flights
    <3>6. ToOdd' \in [1 .. (c - d) + 1 -> WholeMsgs]
      <4>1. \A k \in 1 .. (c - d) + 1 : k \in 1 .. c - d \/ k = (c - d) + 1
        BY <3>1
      <4>2. \A k \in 1 .. (c - d) + 1 : ToOdd'[k] \in WholeMsgs
        BY <1>5, <3>3, <3>4, <3>5, <4>1
      <4> QED BY <3>2, <4>2
    <3> QED BY <1>5, <3>1, <3>3, <3>4, <3>5, <3>6, SeqAppend
  <2>3. ToEven' = ToEven /\ Owed' = Owed - 1 /\ Owed > 0
    <3>1. \A k \in 1 .. a - b : slot'[SlotOf(b + k - 1)] = slot[SlotOf(b + k - 1)]
      BY <1>2, <1>4
    <3>2. ToEven' = ToEven
      BY <1>6, <2>1, <3>1 DEF ToEven, InFlight
    <3> QED BY <1>2, <2>1, <3>2 DEF Owed
  <2>4. Promise!SendEven
    BY <1>1, <1>5, <2>2, <2>3
       DEF Promise!SendEven, ToEven, ToOdd, Owed, WholeMsgs
  <2> QED BY <2>4 DEF Promise!Next
<1> QED BY <1>7, <1>8 DEF Ends

\* The end of a receive is the abstract one: it hands over the oldest message.
LEMMA RecvRefines ==
  ASSUME IInv, NEW e \in Ends, RecvEnd(e)
  PROVE  Promise!Next
<1> DEFINE a == nsend["odd"]
           b == nrecv["even"]
           c == nsend["even"]
           d == nrecv["odd"]
<1>1. /\ TypeOK /\ Cursors /\ Published /\ Ops /\ op[e].at = "recv"
      /\ slot' = slot /\ nsend' = nsend /\ nrecv' = [nrecv EXCEPT ![e] = @ + 1]
      /\ got' = [got EXCEPT ![e] = Message(op[e].msg, slot[rd[e]].args)]
  BY DEF RecvEnd, IInv
<1>2. /\ a \in Nat /\ b \in Nat /\ c \in Nat /\ d \in Nat
      /\ d <= c /\ c <= b /\ b <= a
  BY <1>1, Counters
<1>3. \A k \in Nat : SlotOf(k)' = SlotOf(k)
  BY DEF SlotOf
<1>4. CASE e = "odd"
  <2>1. a' = a /\ b' = b /\ c' = c /\ d' = d + 1 /\ d < c
        /\ rd[e] = SlotOf(d)
    BY <1>1, <1>4, RecvPending DEF TypeOK, Ends
  <2>2. c - d = ((c - d) - 1) + 1 /\ (c - d) - 1 \in Nat
    BY <1>2, <2>1
  <2>3. ToOdd \in [1 .. ((c - d) - 1) + 1 -> WholeMsgs]
    BY <2>2, Flights
  <2>4. ToOdd' = [k \in 1 .. (c - d) - 1 |->
                  Message(slot[SlotOf((d + 1) + k - 1)].payload,
                          slot[SlotOf((d + 1) + k - 1)].args)]
    <3>1. c' - d' = (c - d) - 1 /\ d' = d + 1
      BY <1>2, <2>1
    <3> QED BY <1>1, <1>3, <3>1 DEF ToOdd, InFlight, Message
  <2>5. \A k \in 1 .. (c - d) - 1 : ToOdd'[k] = ToOdd[k + 1]
    <3> SUFFICES ASSUME NEW k \in 1 .. (c - d) - 1
                 PROVE  ToOdd'[k] = ToOdd[k + 1]
      OBVIOUS
    <3>1. k + 1 \in 1 .. c - d /\ d + (k + 1) - 1 = (d + 1) + k - 1
      BY <1>2, <2>1
    <3>2. ToOdd[k + 1] = Message(slot[SlotOf(d + (k + 1) - 1)].payload,
                               slot[SlotOf(d + (k + 1) - 1)].args)
      BY <3>1, Flights
    <3> QED BY <2>4, <3>1, <3>2
  <2>6. ToOdd' \in [1 .. (c - d) - 1 -> WholeMsgs]
    <3>1. \A k \in 1 .. (c - d) - 1 : k + 1 \in 1 .. ((c - d) - 1) + 1
      BY <2>2
    <3>2. \A k \in 1 .. (c - d) - 1 : ToOdd'[k] \in WholeMsgs
      BY <2>3, <2>5, <3>1
    <3> QED BY <2>4, <3>2
  <2>7. ToOdd # << >> /\ Head(ToOdd) = ToOdd[1] /\ ToOdd' = Tail(ToOdd)
    BY <2>2, <2>3, <2>5, <2>6, SeqTail
  <2>8. ToOdd[1] = Message(op[e].msg, slot[rd[e]].args)
    <3>1. 1 \in 1 .. c - d /\ d + 1 - 1 = d
      BY <1>2, <2>1
    <3>2. ToOdd[1] = Message(slot[SlotOf(d + 1 - 1)].payload,
                           slot[SlotOf(d + 1 - 1)].args)
      BY <3>1, Flights
    <3> QED BY <1>1, <2>1, <3>1, <3>2 DEF Ops
  <2>9. ToEven' = ToEven /\ Owed' = Owed
    BY <1>1, <1>2, <1>3, <2>1 DEF ToEven, Owed, InFlight, Message
  <2>10. Promise!RecvOdd
    BY <1>1, <1>4, <2>7, <2>8, <2>9
       DEF Promise!RecvOdd, ToEven, ToOdd, Owed
  <2> QED BY <2>10 DEF Promise!Next
<1>5. CASE e = "even"
  <2>1. a' = a /\ b' = b + 1 /\ c' = c /\ d' = d /\ b < a
        /\ rd[e] = SlotOf(b)
    BY <1>1, <1>5, RecvPending DEF TypeOK, Ends
  <2>2. a - b = ((a - b) - 1) + 1 /\ (a - b) - 1 \in Nat
    BY <1>2, <2>1
  <2>3. ToEven \in [1 .. ((a - b) - 1) + 1 -> WholeMsgs]
    BY <2>2, Flights
  <2>4. ToEven' = [k \in 1 .. (a - b) - 1 |->
                  Message(slot[SlotOf((b + 1) + k - 1)].payload,
                          slot[SlotOf((b + 1) + k - 1)].args)]
    <3>1. a' - b' = (a - b) - 1 /\ b' = b + 1
      BY <1>2, <2>1
    <3> QED BY <1>1, <1>3, <3>1 DEF ToEven, InFlight, Message
  <2>5. \A k \in 1 .. (a - b) - 1 : ToEven'[k] = ToEven[k + 1]
    <3> SUFFICES ASSUME NEW k \in 1 .. (a - b) - 1
                 PROVE  ToEven'[k] = ToEven[k + 1]
      OBVIOUS
    <3>1. k + 1 \in 1 .. a - b /\ b + (k + 1) - 1 = (b + 1) + k - 1
      BY <1>2, <2>1
    <3>2. ToEven[k + 1] = Message(slot[SlotOf(b + (k + 1) - 1)].payload,
                               slot[SlotOf(b + (k + 1) - 1)].args)
      BY <3>1, Flights
    <3> QED BY <2>4, <3>1, <3>2
  <2>6. ToEven' \in [1 .. (a - b) - 1 -> WholeMsgs]
    <3>1. \A k \in 1 .. (a - b) - 1 : k + 1 \in 1 .. ((a - b) - 1) + 1
      BY <2>2
    <3>2. \A k \in 1 .. (a - b) - 1 : ToEven'[k] \in WholeMsgs
      BY <2>3, <2>5, <3>1
    <3> QED BY <2>4, <3>2
  <2>7. ToEven # << >> /\ Head(ToEven) = ToEven[1] /\ ToEven' = Tail(ToEven)
    BY <2>2, <2>3, <2>5, <2>6, SeqTail
  <2>8. ToEven[1] = Message(op[e].msg, slot[rd[e]].args)
    <3>1. 1 \in 1 .. a - b /\ b + 1 - 1 = b
      BY <1>2, <2>1
    <3>2. ToEven[1] = Message(slot[SlotOf(b + 1 - 1)].payload,
                           slot[SlotOf(b + 1 - 1)].args)
      BY <3>1, Flights
    <3> QED BY <1>1, <2>1, <3>1, <3>2 DEF Ops
  <2>9. ToOdd' = ToOdd /\ Owed' = Owed + 1
    BY <1>1, <1>2, <1>3, <2>1 DEF ToOdd, Owed, InFlight, Message
  <2>10. Promise!RecvEven
    BY <1>1, <1>5, <2>7, <2>8, <2>9
       DEF Promise!RecvEven, ToEven, ToOdd, Owed
  <2> QED BY <2>10 DEF Promise!Next
<1> QED BY <1>4, <1>5 DEF Ends

LEMMA NextRefines == IInv /\ IInv' /\ [Next]_vars => [Promise!Next]_(Promise!vars)
<1> SUFFICES ASSUME IInv, IInv', [Next]_vars PROVE [Promise!Next]_(Promise!vars)
  OBVIOUS
<1>1. ASSUME NEW e \in Ends, SendBegin(e) \/ RecvBegin(e) PROVE UNCHANGED Promise!vars
  BY <1>1, BeginRefines
<1>2. ASSUME NEW e \in Ends, SendPublish(e) PROVE Promise!Next
  BY <1>2, SendRefines
<1>3. ASSUME NEW e \in Ends, RecvEnd(e) PROVE Promise!Next
  BY <1>3, RecvRefines
<1>4. CASE UNCHANGED vars
  BY <1>4 DEF vars, Promise!vars, InFlight, SlotOf, Message
<1> QED BY <1>1, <1>2, <1>3, <1>4 DEF Next

\* ave_ring_send and ave_ring_recv at both ends are a channel: messages
\* arrive whole, once and in order in each direction, and the even end
\* always has room to answer what it received.
THEOREM RingRefinesChannel == Spec => ImplementsChannel
<1>1. Init => Promise!Init
  BY InitRefines
<1>2. IInv /\ IInv' /\ [Next]_vars => [Promise!Next]_(Promise!vars)
  BY NextRefines
<1> QED BY <1>1, <1>2, RingInvariance, PTL DEF Spec, ImplementsChannel, Promise!Spec
=============================================================================
