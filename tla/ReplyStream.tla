----------------------------- MODULE ReplyStream -----------------------------
(***************************************************************************)
(* The reply path of a connection.  A backend's query entry writes its    *)
(* reply to the outer sockmap stream (smap_stream_printf or a series of   *)
(* smap_stream_write calls, as the echo module does).  The outer stream   *)
(* has no buffer and passes each write to the inner output stream, which  *)
(* smap_sockmap_stream_create2 gives line buffering of 1024 bytes and     *)
(* SMAP_STREAM_EXPBUF.  smap_stream_write (stream.c) copies into that     *)
(* buffer and calls _stream_flush_buffer, which hands every complete line *)
(* to _sockmap_output_stream_write: one record per line.                  *)
(*                                                                         *)
(* One smap_stream_write call is one step: the process is single-threaded *)
(* and nothing else touches the stream meanwhile.  Its loop is the        *)
(* recursive operator WriteLoop.                                          *)
(*                                                                         *)
(* The buffer is described by cur (the unread bytes, level = Len(cur)),   *)
(* off = cur - buffer and size = bufsize.                                 *)
(***************************************************************************)
EXTENDS Naturals, SequencesExt

CONSTANTS
    BufSize,   \* the size smap_stream_set_buffer gives the output stream
    Pieces,    \* byte strings a backend passes to one smap_stream_write
    MaxBytes   \* bound on the bytes written in a behaviour

VARIABLES
    out,       \* [cur, off, size, dirty, overrun] of the output stream
    records,   \* the buffers handed to _sockmap_output_stream_write
    written    \* every byte the backends wrote, in order

vars == <<out, records, written>>

Byte == {"a", "\n"}

Newline(s) == SelectInSeq(s, LAMBDA b : b = "\n")

(* The index of the last '\n' in s, 0 if none. *)
LastNewline(s) == SelectLastInSeq(s, LAMBDA b : b = "\n")

(* Splitting a buffer after each '\n', as the memchr loop of              *)
(* _stream_flush_buffer does.                                             *)
RECURSIVE SplitLines(_)
SplitLines(s) ==
    IF s = <<>> THEN <<>>
    ELSE LET i == Newline(s)
         IN <<SubSeq(s, 1, i)>> \o SplitLines(SubSeq(s, i + 1, Len(s)))

(* BUFFER_FULL_P: the end of the data is the end of the buffer. *)
BUFFER_FULL_P(st) == st.off + Len(st.cur) = st.size

(* _stream_buffer_full_p for a line-buffered stream. *)
_stream_buffer_full_p(st) == BUFFER_FULL_P(st) \/ Newline(st.cur) > 0

(* _stream_realloc_buffer(stream, 0): twice the size. *)
_stream_realloc_buffer(st) == [st EXCEPT !.size = 2 * st.size]

(* The end of _stream_flush_buffer: move the unread bytes to the start of *)
(* the buffer, or mark it clean when there are none.                      *)
FlushTail(st) ==
    IF st.cur # <<>> THEN [st EXCEPT !.off = 0]
    ELSE [st EXCEPT !.off = 0, !.dirty = FALSE]

(* Mutant of _stream_flush_buffer: the buffer advanced one byte past     *)
(* each line written.                                                     *)
_stream_flush_buffer_skip(st) ==
    IF ~st.dirty \/ st.cur = <<>> THEN <<FlushTail(st), <<>>>>
    ELSE LET k    == LastNewline(st.cur)
             st1  == [st EXCEPT !.cur = SubSeq(st.cur, k + 2, Len(st.cur)),
                                !.off = st.off + k]
             recs == SplitLines(SubSeq(st.cur, 1, k))
         IN IF st1.cur # <<>> /\ BUFFER_FULL_P(st1)
            THEN <<_stream_realloc_buffer(st1), recs>>
            ELSE <<FlushTail(st1), recs>>

(* _stream_flush_buffer(stream, 0) on a line-buffered stream: each        *)
(* complete line is written as one record and the buffer advanced past    *)
(* it; a partial line left in a full buffer makes it grow, and that       *)
(* return skips the move to the start of the buffer.  The records go to   *)
(* the second component.                                                  *)
_stream_flush_buffer(st) ==
    IF ~st.dirty \/ st.cur = <<>> THEN <<FlushTail(st), <<>>>>
    ELSE LET k    == LastNewline(st.cur)
             st1  == [st EXCEPT !.cur = SubSeq(st.cur, k + 1, Len(st.cur)),
                                !.off = st.off + k]
             recs == SplitLines(SubSeq(st.cur, 1, k))
         IN IF st1.cur # <<>> /\ BUFFER_FULL_P(st1)
            THEN <<_stream_realloc_buffer(st1), recs>>
            ELSE <<FlushTail(st1), recs>>

(* Mutant of WriteLoop: the loop stops as soon as nothing is left to      *)
(* copy, before the flush test.                                           *)
RECURSIVE WriteLoop_lazy(_, _, _)
WriteLoop_lazy(st, b, recs) ==
    LET fl  == IF _stream_buffer_full_p(st) THEN _stream_flush_buffer(st)
               ELSE <<st, <<>>>>
        st1 == fl[1]
        n   == Min({st1.size - Len(st1.cur), Len(b)})
    IN IF b = <<>> THEN <<st, recs>>
       ELSE WriteLoop_lazy([st1 EXCEPT !.cur = @ \o SubSeq(b, 1, n),
                                       !.dirty = TRUE,
                                       !.overrun = @ \/ st1.off + Len(st1.cur) + n > st1.size],
                           SubSeq(b, n + 1, Len(b)), recs \o fl[2])

(* The loop of smap_stream_write for a buffered stream, on the bytes b    *)
(* still to copy: flush when the buffer is full or holds a line, stop     *)
(* when nothing is left, else copy n = bufsize - level bytes to           *)
(* cur + level.  overrun records a copy past the end of the buffer.       *)
RECURSIVE WriteLoop(_, _, _)
WriteLoop(st, b, recs) ==
    LET fl  == IF _stream_buffer_full_p(st) THEN _stream_flush_buffer(st)
               ELSE <<st, <<>>>>
        st1 == fl[1]
        n   == Min({st1.size - Len(st1.cur), Len(b)})
    IN IF b = <<>> THEN <<st1, recs \o fl[2]>>
       ELSE WriteLoop([st1 EXCEPT !.cur = @ \o SubSeq(b, 1, n),
                                  !.dirty = TRUE,
                                  !.overrun = @ \/ st1.off + Len(st1.cur) + n > st1.size],
                      SubSeq(b, n + 1, Len(b)), recs \o fl[2])

Init ==
    /\ out = [cur |-> <<>>, off |-> 0, size |-> BufSize, dirty |-> FALSE,
              overrun |-> FALSE]
    /\ records = <<>>
    /\ written = <<>>

(* A backend writes p.  After a copy past the end of the buffer the heap  *)
(* is corrupt and the model stops.                                        *)
smap_stream_write(p) ==
    /\ ~out.overrun
    /\ Len(written) + Len(p) <= MaxBytes
    /\ LET r == WriteLoop(out, p, <<>>)
       IN /\ out' = r[1]
          /\ records' = records \o r[2]
          /\ written' = written \o p

Write == \E p \in Pieces : smap_stream_write(p)

Done == (out.overrun \/ \A p \in Pieces : Len(written) + Len(p) > MaxBytes)
        /\ UNCHANGED vars

Next == Write \/ Done

Spec == Init /\ [][Next]_vars

-----------------------------------------------------------------------------
TypeOK ==
    /\ out.cur \in Seq(Byte) /\ out.size \in Nat \ {0} /\ out.off \in 0..out.size
    /\ out.dirty \in BOOLEAN /\ out.overrun \in BOOLEAN
    /\ records \in Seq(Seq(Byte)) /\ written \in Seq(Byte)

(* What the peer decodes from a record: the writer drops the buffer's     *)
(* last byte and the reader puts '\n' in place of the comma.              *)
Decoded(r) == Front(r) \o <<"\n">>

(* The bytes on the wire, decoded, followed by what is still buffered,    *)
(* are exactly the bytes the backends wrote: no byte is lost, doubled or  *)
(* reordered by the flush, the buffer growth or the move to the start.    *)
ReplyIntact ==
    FlattenSeq([i \in DOMAIN records |-> Decoded(records[i])]) \o out.cur = written

(* Between two writes no complete line is held back: every reply a        *)
(* backend finished with '\n' is already on the wire, so the peer is not  *)
(* left waiting for it.                                                   *)
LinesFlushed == Newline(out.cur) = 0

(* No copy of smap_stream_write goes past the end of the buffer. *)
NoWriteOverrun == ~out.overrun
====
