------------------------------ MODULE Channel ------------------------------
(***************************************************************************)
(* What a bidirectional IPC channel promises, with no ring in it: two      *)
(* FIFOs and N credits.  The "odd" end spends a credit on each message it  *)
(* sends and has it back when it has received an answer; the "even" end    *)
(* may answer what it has received, once each.  IpcRing implements it.     *)
(***************************************************************************)
EXTENDS Integers, Sequences

CONSTANTS N,     \* credits
          Msgs   \* messages

VARIABLES toEven, toOdd,  \* messages on their way
          owed,           \* received by the even end and not answered
          got             \* end -> what it received last
vars == << toEven, toOdd, owed, got >>

NoMsg == << >>
Init == /\ toEven = << >> /\ toOdd = << >> /\ owed = 0
        /\ got = [e \in {"odd", "even"} |-> NoMsg]

SendOdd == /\ Len(toEven) + owed + Len(toOdd) < N
           /\ \E m \in Msgs : toEven' = Append(toEven, m)
           /\ UNCHANGED << toOdd, owed, got >>
RecvEven == /\ toEven # << >>
            /\ toEven' = Tail(toEven)
            /\ got' = [got EXCEPT !["even"] = Head(toEven)]
            /\ owed' = owed + 1
            /\ UNCHANGED toOdd
SendEven == /\ owed > 0 /\ owed' = owed - 1
            /\ \E m \in Msgs : toOdd' = Append(toOdd, m)
            /\ UNCHANGED << toEven, got >>
RecvOdd == /\ toOdd # << >>
           /\ toOdd' = Tail(toOdd)
           /\ got' = [got EXCEPT !["odd"] = Head(toOdd)]
           /\ UNCHANGED << toEven, owed >>

Next == SendOdd \/ RecvEven \/ SendEven \/ RecvOdd
Spec == Init /\ [][Next]_vars
=============================================================================
