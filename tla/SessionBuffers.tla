--------------------------- MODULE SessionBuffers ---------------------------
(***************************************************************************)
(* The memory of a session (driver/ave_session.c, struct ave_sess_bufs):   *)
(* what ave_enc_start, the Start and Process builders and ave_enc_stop     *)
(* allocate, keep, free and publish to the firmware.  A module of          *)
(* operators: each takes the session's buffers b and gives them back as    *)
(* the function leaves them.  StreamSetup drives it.                       *)
(*                                                                         *)
(* A piece of memory is named for what it is for, its index, and the       *)
(* stream it was allocated for: addresses of the same table in two streams *)
(* are different memory.  Sizes and alignment are left out, except that    *)
(* the geometry latched for the stream is kept.                            *)
(***************************************************************************)
EXTENDS Naturals, Sequences, FiniteSetsExt, SequencesExt

AVE_SESS_MAX_DMA == 48
AVE_SESS_MAX_IPC == 8
AVE_SESS_FRAMES_MAX == 4
session_dpb == 2

Region(k, i, s) == [of |-> k, i |-> i, stream |-> s]
None == Region("none", 0, 0)
Slots == 0 .. AVE_SESS_FRAMES_MAX - 1

\* After ave_enc_init: Config's shared memory and its command, under the
\* marks ave_sess_free_to() stops at.
Config == Region("shmem", 0, 0)
mark_dma == 1
mark_ipc == 1
AfterConfig ==
  [dma |-> << Config >>, ipc |-> << Region("config", 0, 0) >>, stream |-> 0,
   nbr |-> None, entropy |-> None, res |-> None,   \* n_... = 0
   n_dpb |-> 0, recon |-> None, low |-> None, coloc |-> {}, coded |-> {},
   slice |-> {}, xc |-> {}, mp |-> {}, pic |-> None, last_idr |-> 0,
   proc |-> [i \in Slots |-> None]]

Live(b) == ToSet(b.dma) \cup ToSet(b.ipc)
Mine(b, k, i) == Region(k, i, b.stream)
Has(b, r) == Mine(b, r[1], r[2]) \in Live(b)

-----------------------------------------------------------------------------
(* The two allocation tables.  deny: the requests <<what, index>> for      *)
(* which the kernel has no memory.                                         *)

DmaFull(b) == Len(b.dma) >= AVE_SESS_MAX_DMA
IpcFull(b) == Len(b.ipc) >= AVE_SESS_MAX_IPC

ave_sess_dma_alloc(b, r, deny) ==
  IF DmaFull(b) \/ r \in deny THEN b
  ELSE [b EXCEPT !.dma = Append(@, Mine(b, r[1], r[2]))]
ave_sess_ipc_alloc(b, r, deny) ==
  IF IpcFull(b) \/ r \in deny THEN b
  ELSE [b EXCEPT !.ipc = Append(@, Mine(b, r[1], r[2]))]

\* The requests that are not in deny, in order.
NotDenied(reqs, deny) ==
  LET kept == {j \in DOMAIN reqs : reqs[j] \notin deny}
  IN  [k \in 1 .. Cardinality(kept) |->
         reqs[CHOOSE j \in kept : Cardinality({i \in kept : i <= j}) = k]]

\* DMA requests in groups of size, in order: every request of a group is
\* made, and the first group that did not get all it asked for ends the
\* sequence.
Take(b, reqs, size, deny) ==
  LET bad == {j \in DOMAIN reqs :
                reqs[j] \in deny \/ Len(b.dma) + j > AVE_SESS_MAX_DMA}
      asked == IF bad = {} THEN Len(reqs)
               ELSE Min({Len(reqs), ((Min(bad) + size - 1) \div size) * size})
      got == NotDenied(SubSeq(reqs, 1, asked), deny)
      all == b.dma \o [j \in DOMAIN got |-> Mine(b, got[j][1], got[j][2])]
  IN  [b |-> [b EXCEPT !.dma = SubSeq(all, 1, Min({Len(all), AVE_SESS_MAX_DMA}))],
       ok |-> bad = {}]

KeepsIpcBug(b, n) == b.ipc
\* ave_sess_free_to(): down to the marks, newest first.
IpcAfterFree(b, n) == SubSeq(b.ipc, 1, n)
ave_sess_free_to(b) ==
  [b EXCEPT !.dma = SubSeq(@, 1, mark_dma), !.ipc = IpcAfterFree(b, mark_ipc)]

\* The caches ave_enc_stop() clears once the memory is free.
Forget(b) == [b EXCEPT !.proc = [i \in Slots |-> None], !.pic = None,
                       !.slice = {}, !.xc = {}]

-----------------------------------------------------------------------------
(* ave_enc_start(): the tables allocated before Start.  None of them is    *)
(* fatal; a table that was not allocated leaves its field as it was.       *)

\* ave_session_alloc_nbr()
ave_session_alloc_nbr(b, deny) ==
  LET c == ave_sess_dma_alloc(b, <<"nbr", 0>>, deny)
  IN  IF Has(c, <<"nbr", 0>>) THEN [c EXCEPT !.nbr = Mine(b, "nbr", 0)] ELSE c

\* ave_session_alloc_entropy()
ave_session_alloc_entropy(b, deny) ==
  LET c == ave_sess_dma_alloc(b, <<"entropy", 0>>, deny)
  IN  IF Has(c, <<"entropy", 0>>)
        THEN [c EXCEPT !.entropy = Mine(b, "entropy", 0)] ELSE c

\* ave_session_alloc_dpb(), for n slots: one arena each of reconstruction
\* surfaces, LowResRefs and LowResResults.
TwoRefs(cfg) == cfg.bframes > 0 \/ cfg.p_refs >= 2
DpbSlots(cfg) == IF TwoRefs(cfg) THEN Max({session_dpb, 3}) ELSE session_dpb
ave_session_alloc_dpb(b, cfg, deny) ==
  LET r == ave_sess_dma_alloc([b EXCEPT !.n_dpb = 0], <<"recon", 0>>, deny)
      l == ave_sess_dma_alloc(r, <<"low", 0>>, deny)
      s == ave_sess_dma_alloc(l, <<"res", 0>>, deny)
  IN  IF ~Has(r, <<"recon", 0>>) THEN r
      ELSE [s EXCEPT
              !.n_dpb = DpbSlots(cfg),
              !.recon = Mine(b, "recon", 0),
              !.low = IF Has(l, <<"low", 0>>) THEN Mine(b, "low", 0) ELSE None,
              !.res = IF Has(s, <<"res", 0>>) THEN Mine(b, "res", 0) ELSE @]

-----------------------------------------------------------------------------
(* The memory of the Start command.                                        *)

Each(k, n) == [j \in 1 .. n |-> <<k, j - 1>>]
All(b, k, n) == {Mine(b, k, i) : i \in 0 .. n - 1}

\* ave_mp_session_start(): the final pass's inputs.
MpInputs(cfg) == IF cfg.mp = 2 THEN Each("mp", AVE_SESS_FRAMES_MAX) ELSE << >>
\* FwClient and FwClientMem, a coded buffer and header per slot, the
\* parameter sets: in pairs.
StartNeeds(n) ==
  << <<"fwc", 0>>, <<"fwcm", 0>> >>
  \o [j \in 1 .. 2 * n |-> << IF j % 2 = 1 THEN "coded" ELSE "hdr", (j - 1) \div 2 >>]
  \o << <<"psets", 0>> >>

\* The colocated buffers: one per DPB slot, or the table is dropped.
AllocColoc(b, deny) ==
  LET c == Take(b, Each("coloc", b.n_dpb), 1, deny)
  IN  [c.b EXCEPT !.coloc = IF c.ok THEN All(b, "coloc", b.n_dpb) ELSE {}]

\* ave_session_start_prep(): [b, ok]
ave_session_start_prep(b, cfg, deny) ==
  LET mp == Take(b, MpInputs(cfg), 1, deny)
      cmd == ave_sess_ipc_alloc(mp.b, <<"start", 0>>, deny)
      c == Take([cmd EXCEPT !.mp = IF cfg.mp = 2 THEN All(b, "mp", 4) ELSE {}],
                StartNeeds(cfg.slots), 2, deny)
  IN  IF ~mp.ok THEN mp
      ELSE IF ~Has(cmd, <<"start", 0>>) \/ b.n_dpb = 0
        THEN [b |-> cmd, ok |-> FALSE]
      ELSE IF ~c.ok THEN c
      ELSE [b |-> AllocColoc([c.b EXCEPT
                    !.coded = All(b, "coded", cfg.slots)
                              \cup All(b, "hdr", cfg.slots)], deny),
            ok |-> TRUE]

\* What ave_session_start_avc() and ave_session_start_hevc() add: HEVC a
\* SliceHeader surface per slot, and both TranscodedData where two
\* transcoders or macOS's buffers ask for them.  HEVC counts POCs anew.
CodecNeeds(cfg) ==
  (IF cfg.codec = "HEVC" THEN Each("slice", cfg.slots) ELSE << >>)
  \o (IF cfg.codec = "HEVC" \/ cfg.bufs THEN Each("xc", 2) ELSE << >>)
WithCodec(b, cfg, deny) ==
  LET c == Take(b, CodecNeeds(cfg), 1, deny)
  IN  [b |-> [c.b EXCEPT
         !.slice = IF cfg.codec = "HEVC" THEN All(b, "slice", cfg.slots) ELSE @,
         !.xc = IF cfg.codec = "HEVC" \/ cfg.bufs THEN All(b, "xc", 2) ELSE {},
         !.last_idr = IF cfg.codec = "HEVC" THEN 0 ELSE @],
       ok |-> c.ok]

-----------------------------------------------------------------------------
(* What the commands name.                                                 *)

Some(r) == {r} \ {None}
Tables(b) == Some(b.nbr) \cup Some(b.entropy)
\* The Start command, as ave_session_start_prep() and the codec fill it.
PublishedAtStart(b) ==
  {Mine(b, k, 0) : k \in {"start", "fwc", "fwcm", "psets"}} \cup {b.recon}
  \cup b.coded \cup b.coloc \cup b.xc \cup Some(b.low) \cup Some(b.res)
  \cup Tables(b)
\* The Process command of the frame in coded slot idx.
InSlot(S, idx) == {r \in S : r.i = idx}
PublishedInProcess(b, idx) ==
  {b.proc[idx], b.pic} \cup InSlot(b.coded, idx) \cup InSlot(b.slice, idx)
  \cup InSlot(b.mp, idx) \cup Some(b.low) \cup Tables(b)

\* ave_session_process_build(), for a V4L2 source: [b, ok].  The
\* reconstruction scratch and the slot's command are allocated once.
ave_session_process_build(b, idx, deny) ==
  LET p == IF b.pic # None THEN b
           ELSE ave_sess_dma_alloc(b, <<"pic", 0>>, deny)
      c == IF b.proc[idx] # None THEN p
           ELSE ave_sess_ipc_alloc(p, <<"proc", idx>>, deny)
      pic == IF b.pic # None THEN b.pic ELSE Mine(b, "pic", 0)
      cmd == IF b.proc[idx] # None THEN b.proc[idx] ELSE Mine(b, "proc", idx)
  IN  IF pic \notin Live(p) /\ b.pic = None THEN [b |-> p, ok |-> FALSE]
      ELSE IF cmd \notin Live(c) /\ b.proc[idx] = None
        THEN [b |-> [p EXCEPT !.pic = pic], ok |-> FALSE]
      ELSE [b |-> [c EXCEPT !.pic = pic, !.proc[idx] = cmd], ok |-> TRUE]

\* Everything one stream may ask the kernel for.
Requests ==
  {<<k, 0>> : k \in {"open", "start", "nbr", "entropy", "recon", "low", "res",
                     "fwc", "fwcm", "psets", "pic"}}
  \cup {<<k, i>> : k \in {"coded", "hdr", "coloc", "slice", "xc", "mp", "proc"},
                   i \in Slots}
=============================================================================
