----------------------------- MODULE CodedFrame -----------------------------
(***************************************************************************)
(* A coded frame, from what the firmware wrote for it to the bytes the     *)
(* caller gets: the slot's coded header, its coded buffer and its slice    *)
(* headers (HEVC), ave_cmd_coded_length_codec and what                     *)
(* ave_session_process_result makes of them.                               *)
(*                                                                         *)
(* A picture is what the firmware codes of one frame: its frameNumber,     *)
(* whether it is an IDR, and in how many slices.  A unit of memory says    *)
(* which picture wrote it, and its place there.                            *)
(***************************************************************************)
EXTENDS Integers, FiniteSetsExt, SequencesExt

\* AVE_CODED_SLICE_MAX; the slices a picture may have here, and the records
\* of a header: one more.
SLICE_MAX == 16
Slices == 1 .. 2
Records == 1 .. 3

\* A slice writes two units and the last is trimmed; the coded buffer
\* (coded_size) holds a picture's, and no more.
Written == 2
Trim    == 1
CodedSize == Written * Cardinality(Slices)

\* Units of the stream that no picture wrote.
PSETS == -10
CZW   == -11

BLANK   == -1    \* a header that is clear
DROPPED == -2    \* AVE135_FRAME_TYPE_DROPPED

Picture(fn, idr, slices) == [fn |-> fn, idr |-> idr, slices |-> slices]
NoPicture == Picture(BLANK, FALSE, 0)

\* The coded header: the frameNumber echoed, the slice records, the
\* cabac_zero_words; and the slot's SliceHeader surface (shdr).
ClearHeader ==
  [fn |-> BLANK, recs |-> [i \in Records |-> [n |-> 0, trim |-> 0]],
   czw |-> 0, shdr |-> [i \in Records |-> NoPicture]]
ClearBuffer == [u \in 1 .. CodedSize |-> [by |-> NoPicture, at |-> 0]]

-----------------------------------------------------------------------------
(* The firmware, external: a picture fills the start of its buffer, and    *)
(* its header's fields and records; the rest stays as it was.              *)

CodeInto(mem, pic) ==
  [u \in 1 .. CodedSize |->
     IF u <= pic.slices * Written THEN [by |-> pic, at |-> u] ELSE mem[u]]

HeaderOf(h, pic) ==
  [fn   |-> pic.fn,
   recs |-> [i \in Records |-> IF i <= pic.slices
                                 THEN [n |-> Written, trim |-> Trim]
                                 ELSE h.recs[i]],
   czw  |-> 1,
   shdr |-> [i \in Records |-> IF i <= pic.slices THEN pic ELSE h.shdr[i]]]

\* A header that makes no sense: more trimmed than was written.
GarbledOf(h, pic) == [HeaderOf(h, pic) EXCEPT !.recs[1].trim = Written + 1]

-----------------------------------------------------------------------------
(* ave_cmd_coded_length_codec                                              *)

\* The records are walked until one of no bytes.
NSlice(h) ==
  LET ends == {i \in Records : h.recs[i].n = 0}
  IN  IF ends = {} THEN Cardinality(Records) ELSE Min(ends) - 1

\* Where record i begins in the buffer.
Off(h, i) == MapThenSumSet(LAMBDA j : h.recs[j].n, 1 .. i - 1)

\* What it refuses: a record trimmed of more than it has, more slices than
\* the array, more bytes than the buffer (a stale record read).
CodedLengthOk(h) ==
  /\ \A i \in 1 .. NSlice(h) : h.recs[i].trim \in 0 .. h.recs[i].n
  /\ NSlice(h) <= SLICE_MAX
  /\ Off(h, NSlice(h) + 1) <= CodedSize

\* Its slices, as the stream takes them.
CodedSlices(h) ==
  [i \in 1 .. NSlice(h) |-> [off |-> Off(h, i),
                             len |-> h.recs[i].n - h.recs[i].trim]]

-----------------------------------------------------------------------------
(* ave_session_process_result                                              *)

\* It fails on a header it cannot decode, on a dropped frame, and on one of
\* no bytes.
ResultOk(h) == CodedLengthOk(h) /\ h.fn # DROPPED /\ NSlice(h) > 0

\* The type of the result: an IDR was sent, or the first slice's header
\* says that the firmware made one (HEVC).
ResultIsIdr(h, idr, hevc) == idr \/ (hevc /\ h.shdr[1].idr)

\* ave_sess_stream_append: on an IDR the parameter sets; the slices, HEVC's
\* after its header; H.264's cabac_zero_words.
StreamOf(h, mem, idr, hevc) ==
  LET slices == CodedSlices(h)
      data(i) == SubSeq(mem, slices[i].off + 1, slices[i].off + slices[i].len)
      head(i) == IF hevc THEN << [by |-> h.shdr[i], at |-> -i] >> ELSE << >>
      token(t, n) == [j \in 1 .. n |-> [by |-> NoPicture, at |-> t]]
  IN  token(PSETS, IF ResultIsIdr(h, idr, hevc) THEN 1 ELSE 0)
      \o FlattenSeq([i \in DOMAIN slices |-> head(i) \o data(i)])
      \o token(CZW, IF hevc THEN 0 ELSE h.czw)

\* The stream that a picture is, if it is read as it was written.
PictureStream(pic, hevc) ==
  StreamOf(HeaderOf(ClearHeader, pic), CodeInto(ClearBuffer, pic), pic.idr, hevc)
=============================================================================
