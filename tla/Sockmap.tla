------------------------------- MODULE Sockmap -------------------------------
(***************************************************************************)
(* The request path of the length-prefixed socket-map framing, as smapd   *)
(* runs it on every connection (smap_session_server, smapd.c):            *)
(*                                                                         *)
(*   smap_loop -> smap_stream_getline on the outer sockmap stream, which  *)
(*   has no buffer, so smap_stream_getdelim reads one byte at a time       *)
(*   through _sockmap_stream_read -> smap_stream_read on the inner input  *)
(*   stream (full buffering, 1024 bytes, SMAP_STREAM_EXPBUF) ->           *)
(*   _stream_fill_full_buffered -> _sockmap_input_stream_read ->          *)
(*   read_payload_length (sockmapstr.c).                                  *)
(*                                                                         *)
(* The peer writes records "<len>:<payload>," made by the codec's writer  *)
(* (_sockmap_output_stream_write), or raw malformed bytes.  Every recv()  *)
(* is one step and returns any number of the bytes queued on the socket,  *)
(* up to the length asked for: TCP gives no record boundaries.            *)
(*                                                                         *)
(* Bytes are one-character strings.                                       *)
(***************************************************************************)
EXTENDS Naturals, Integers, SequencesExt

CONSTANTS
    Bound,       \* SIZE_T_STRLEN_BOUND: bytes read_payload_length may take
    InitBufSize, \* size given to smap_stream_set_buffer for the input stream
    Lines,       \* lines the peer's line-buffered writer hands to the codec
    Garbage,     \* malformed byte strings a peer may send instead of a record
    MaxFrames,   \* bound on the records the peer sends
    Pipelined    \* whether the peer sends before the previous line was read

VARIABLES
    wire,        \* bytes sent by the peer and not yet received
    closed,      \* the peer has shut down its side (recv then returns 0)
    sent,        \* the lines the peer framed, in order
    bad,         \* the peer has sent a malformed record
    rpc,         \* where the reading side is
    nbuf,        \* sp->nbuf[0..nlen-1]; nlen is Len(nbuf)
    reqsz,       \* sp->reqsz: the parsed payload length
    need,        \* the local reqsz of the recv loop; -1 once it wrapped
    fill,        \* bytes stored from the start of the input stream's buffer
    bufsize,     \* the input stream's bufsize
    inbuf,       \* the input stream's unread bytes (cur .. cur+level)
    line,        \* the bytes getdelim has gathered for the current line
    delivered    \* the lines smap_stream_getline returned to smap_loop

vars == <<wire, closed, sent, bad, rpc, nbuf, reqsz, need, fill, bufsize,
          inbuf, line, delivered>>

DigitChar == <<"0", "1", "2", "3", "4", "5", "6", "7", "8", "9">>
Digit == Range(DigitChar)
DigitValue(b) == CHOOSE v \in 0..9 : DigitChar[v + 1] = b
Byte == Digit \cup {":", ",", "\n", "a", " ", "x"}

(* format_len: the decimal digits of n, most significant first; none for 0. *)
RECURSIVE format_len(_)
format_len(n) ==
    IF n = 0 THEN <<>> ELSE format_len(n \div 10) \o <<DigitChar[(n % 10) + 1]>>

(* _sockmap_output_stream_write: the record for a buffer ending in the     *)
(* line terminator; the last byte is dropped and ',' is written instead.   *)
_sockmap_output_stream_write(l) ==
    LET len == Len(l) - 1
    IN format_len(len) \o <<":">> \o SubSeq(l, 1, len) \o <<",">>

(* The decimal value of a digit string, as the loop at lines 273-283 adds *)
(* it up.                                                                 *)
ParseLen(ds) == FoldLeft(LAMBDA acc, d : acc * 10 + DigitValue(d), 0, ds)

Colon(s) == SelectInSeq(s, LAMBDA b : b = ":")

Init ==
    /\ wire = <<>>
    /\ closed = FALSE
    /\ sent = <<>>
    /\ bad = FALSE
    /\ rpc = "getline"
    /\ nbuf = <<>>
    /\ reqsz = 0
    /\ need = 0
    /\ fill = <<>>
    /\ bufsize = InitBufSize
    /\ inbuf = <<>>
    /\ line = <<>>
    /\ delivered = <<>>

-----------------------------------------------------------------------------
(* The peer. *)

PeerMaySend ==
    /\ ~bad /\ ~closed
    /\ Len(sent) < MaxFrames
    /\ Pipelined \/ (wire = <<>> /\ Len(delivered) = Len(sent))

SendRecord ==
    /\ PeerMaySend
    /\ \E l \in Lines :
         /\ wire' = wire \o _sockmap_output_stream_write(l)
         /\ sent' = Append(sent, l)
    /\ UNCHANGED <<closed, bad, rpc, nbuf, reqsz, need, fill, bufsize, inbuf,
                   line, delivered>>

SendGarbage ==
    /\ PeerMaySend
    /\ \E g \in Garbage : wire' = wire \o g
    /\ bad' = TRUE
    /\ UNCHANGED <<closed, sent, rpc, nbuf, reqsz, need, fill, bufsize, inbuf,
                   line, delivered>>

(* The peer dies part way through writing a record: the kernel delivers  *)
(* the bytes written so far and then end of file.                         *)
PeerCrash ==
    /\ PeerMaySend
    /\ \E l \in Lines :
         LET rec == _sockmap_output_stream_write(l)
         IN \E j \in 1..(Len(rec) - 1) : wire' = wire \o SubSeq(rec, 1, j)
    /\ closed' = TRUE
    /\ UNCHANGED <<sent, bad, rpc, nbuf, reqsz, need, fill, bufsize, inbuf,
                   line, delivered>>

Shutdown ==
    /\ ~closed
    /\ closed' = TRUE
    /\ UNCHANGED <<wire, sent, bad, rpc, nbuf, reqsz, need, fill, bufsize,
                   inbuf, line, delivered>>

-----------------------------------------------------------------------------
(* The reading side. *)

(* Mutants of RecordDone: the terminator left in place; the comma not    *)
(* checked.                                                               *)
RecordDone_keepcomma(f) ==
    /\ nbuf' = <<>> /\ reqsz' = 0 /\ need' = 0 /\ fill' = f
    /\ IF Last(f) = ","
       THEN inbuf' = f /\ rpc' = "getline"
       ELSE inbuf' = inbuf /\ rpc' = "error"

RecordDone_nocheck(f) ==
    /\ nbuf' = <<>> /\ reqsz' = 0 /\ need' = 0 /\ fill' = f
    /\ inbuf' = Front(f) \o <<"\n">> /\ rpc' = "getline"

(* Lines 325-334: the record is complete.  Its last byte must be ',' and  *)
(* becomes '\n'; *pret = reqsz+1 bytes are left readable in the buffer.   *)
(* The fields of sp are reset whether or not the comma is there; fill    *)
(* keeps what the record left in the buffer.                              *)
RecordDone(f) ==
    /\ nbuf' = <<>> /\ reqsz' = 0 /\ need' = 0 /\ fill' = f
    /\ IF Last(f) = ","
       THEN /\ inbuf' = Front(f) \o <<"\n">>
            /\ rpc' = "getline"
       ELSE /\ inbuf' = inbuf
            /\ rpc' = "error"

(* Mutant of AfterLength: the size test made before reqsz++, forgetting  *)
(* the terminator's byte.                                                 *)
AfterLength_noterm(size, nb, c, len) ==
    LET r   == len + 1
        rds == Len(nb) - c - 1
        f   == SubSeq(nb, c + 2, Len(nb))
    IN IF len > size
       THEN /\ rpc' = "morespc" /\ nbuf' = nb /\ reqsz' = len
            /\ UNCHANGED <<fill, need, inbuf>>
       ELSE IF r = rds
       THEN RecordDone(f)
       ELSE /\ fill' = f
            /\ need' = IF rds > r THEN -1 ELSE r - rds
            /\ rpc' = "payload" /\ nbuf' = nb /\ reqsz' = len
            /\ UNCHANGED inbuf

(* Lines 288-314 up to the recv loop, for payload length len and a buffer *)
(* of size free bytes: ERANGE with MORESPC if reqsz+1 does not fit, else  *)
(* copy the rds bytes nbuf holds after the colon and go on receiving.     *)
(* reqsz -= rds is size_t arithmetic: it wraps when nbuf already holds    *)
(* more than the record.                                                  *)
AfterLength(size, nb, c, len) ==
    LET r   == len + 1
        rds == Len(nb) - c - 1
        f   == SubSeq(nb, c + 2, Len(nb))
    IN IF r > size
       THEN /\ rpc' = "morespc" /\ nbuf' = nb /\ reqsz' = len
            /\ UNCHANGED <<fill, need, inbuf>>
       ELSE IF r = rds
       THEN RecordDone(f)
       ELSE /\ fill' = f
            /\ need' = IF rds > r THEN -1 ELSE r - rds
            /\ rpc' = "payload" /\ nbuf' = nb /\ reqsz' = len
            /\ UNCHANGED inbuf

(* A fill starts when getdelim asks for a byte and the buffer is empty;   *)
(* with nlen = 0 the read method calls read_payload_length.               *)
Filling == rpc = "prefix" \/ (rpc = "getline" /\ inbuf = <<>>)

(* Mutant of read_payload_length: recv() asks for one byte more than     *)
(* nbuf has room for.                                                     *)
read_payload_length_plusone ==
    /\ Filling
    /\ \E k \in 1..(Bound - Len(nbuf) + 1) :
         /\ k <= Len(wire)
         /\ LET nb == nbuf \o SubSeq(wire, 1, k)
                c  == Colon(nb) - 1
            IN /\ wire' = SubSeq(wire, k + 1, Len(wire))
               /\ CASE c >= 0 /\ \E i \in 1..c : nb[i] \notin Digit ->
                         /\ rpc' = "error" /\ nbuf' = <<>> /\ reqsz' = 0
                         /\ UNCHANGED <<need, fill, inbuf>>
                    [] c >= 0 ->
                         AfterLength(bufsize, nb, c, ParseLen(SubSeq(nb, 1, c)))
                    [] Len(nb) >= Bound ->
                         /\ rpc' = "error" /\ nbuf' = nb
                         /\ UNCHANGED <<reqsz, need, fill, inbuf>>
                    [] OTHER ->
                         /\ rpc' = "prefix" /\ nbuf' = nb
                         /\ UNCHANGED <<reqsz, need, fill, inbuf>>
    /\ UNCHANGED <<closed, sent, bad, bufsize, line, delivered>>

(* One recv() of k bytes into nbuf in read_payload_length, and the rest   *)
(* of _sockmap_input_stream_read once the colon is in: the digit loop     *)
(* (EPROTO at a non-digit), or EPROTO when Bound bytes hold no colon.      *)
read_payload_length ==
    /\ Filling
    /\ \E k \in 1..(Bound - Len(nbuf)) :
         /\ k <= Len(wire)
         /\ LET nb == nbuf \o SubSeq(wire, 1, k)
                c  == Colon(nb) - 1
            IN /\ wire' = SubSeq(wire, k + 1, Len(wire))
               /\ CASE c >= 0 /\ \E i \in 1..c : nb[i] \notin Digit ->
                         /\ rpc' = "error" /\ nbuf' = <<>> /\ reqsz' = 0
                         /\ UNCHANGED <<need, fill, inbuf>>
                    [] c >= 0 ->
                         AfterLength(bufsize, nb, c, ParseLen(SubSeq(nb, 1, c)))
                    [] Len(nb) = Bound ->
                         /\ rpc' = "error" /\ nbuf' = nb
                         /\ UNCHANGED <<reqsz, need, fill, inbuf>>
                    [] OTHER ->
                         /\ rpc' = "prefix" /\ nbuf' = nb
                         /\ UNCHANGED <<reqsz, need, fill, inbuf>>
    /\ UNCHANGED <<closed, sent, bad, bufsize, line, delivered>>

(* Mutant: the buffer grown to one byte less than asked for. *)
_stream_realloc_buffer_short(newsize) ==
    IF newsize = 0 THEN 2 * bufsize ELSE newsize - 1

(* _stream_realloc_buffer: the size asked for, or twice the old one.      *)
_stream_realloc_buffer(newsize) == IF newsize = 0 THEN 2 * bufsize ELSE newsize

(* _stream_fill_full_buffered after ERANGE with MORESPC: clear the error, *)
(* grow the buffer to the size the read method reported, and call it     *)
(* again; it takes reqsz from sp->reqsz and the bytes kept in nbuf.       *)
_stream_fill_full_buffered ==
    /\ rpc = "morespc"
    /\ bufsize' = _stream_realloc_buffer(reqsz + 1)
    /\ AfterLength(bufsize', nbuf, Colon(nbuf) - 1, reqsz)
    /\ UNCHANGED <<wire, closed, sent, bad, line, delivered>>

(* The recv loop of lines 303-314: recv(fd, buf, reqsz) returns k bytes.  *)
(* Once reqsz has wrapped it asks for (and may get) any number of bytes.  *)
RecvPayload ==
    /\ rpc = "payload"
    /\ \E k \in 1..Len(wire) :
         /\ need < 0 \/ k <= need
         /\ LET f == fill \o SubSeq(wire, 1, k)
            IN /\ wire' = SubSeq(wire, k + 1, Len(wire))
               /\ IF k = need
                  THEN RecordDone(f)
                  ELSE /\ fill' = f
                       /\ need' = IF need < 0 THEN -1 ELSE need - k
                       /\ UNCHANGED <<rpc, nbuf, reqsz, inbuf>>
    /\ UNCHANGED <<closed, sent, bad, bufsize, line, delivered>>

(* recv() returns 0 on a shut-down, drained socket.  In the prefix it is  *)
(* EOF: *pret = 0 and _SMAP_STR_EOF;: getdelim returns what it gathered and  *)
(* every later read returns 0 bytes, so smap_loop ends.  In the payload   *)
(* it is EIO, a read error that also ends smap_loop.                      *)
RecvEOF ==
    /\ wire = <<>> /\ closed
    /\ \/ /\ Filling
          /\ rpc' = "eof"
          /\ delivered' = IF line = <<>> THEN delivered ELSE Append(delivered, line)
       \/ /\ rpc = "payload"
          /\ rpc' = "error"
          /\ UNCHANGED delivered
    /\ UNCHANGED <<wire, closed, sent, bad, nbuf, reqsz, need, fill, bufsize,
                   inbuf, line>>

(* smap_stream_getdelim over the outer stream: bytes are taken one at a   *)
(* time from the input stream's buffer until '\n' or until it is empty.   *)
smap_stream_getline ==
    /\ rpc = "getline" /\ inbuf # <<>>
    /\ LET i == SelectInSeq(inbuf, LAMBDA b : b = "\n")
       IN IF i > 0
          THEN /\ delivered' = Append(delivered, line \o SubSeq(inbuf, 1, i))
               /\ line' = <<>>
               /\ inbuf' = SubSeq(inbuf, i + 1, Len(inbuf))
          ELSE /\ line' = line \o inbuf
               /\ inbuf' = <<>>
               /\ UNCHANGED delivered
    /\ UNCHANGED <<wire, closed, sent, bad, rpc, nbuf, reqsz, need, fill,
                   bufsize>>

(* The session is over; the child exits. *)
Halted == rpc \in {"eof", "error"} /\ UNCHANGED vars

Reader == read_payload_length \/ _stream_fill_full_buffered \/ RecvPayload
          \/ RecvEOF \/ smap_stream_getline

Next == SendRecord \/ SendGarbage \/ PeerCrash \/ Shutdown \/ Reader \/ Halted

(* The reading process runs whenever it is not blocked in recv(); the     *)
(* peer owes nothing.  (Liveness is checked on the whole session, in      *)
(* module Connection.)                                                    *)
Spec == Init /\ [][Next]_vars /\ WF_vars(Reader)

-----------------------------------------------------------------------------
TypeOK ==
    /\ wire \in Seq(Byte) /\ nbuf \in Seq(Byte) /\ fill \in Seq(Byte)
    /\ inbuf \in Seq(Byte) /\ line \in Seq(Byte)
    /\ closed \in BOOLEAN /\ bad \in BOOLEAN
    /\ rpc \in {"getline", "prefix", "morespc", "payload", "eof", "error"}
    /\ reqsz \in Nat /\ need \in Int /\ bufsize \in Nat \ {0}
    /\ Len(nbuf) <= Bound

(* Round trip (spec section 8): the lines smap_loop gets are, in order,   *)
(* the lines the peer framed: the prefix parse, the leftover copy from    *)
(* nbuf, the recv loop, the ERANGE retry and the comma rewrite together   *)
(* lose, add and reorder nothing.                                         *)
DeliveredInOrder == IsPrefix(delivered, sent)

(* The bytes the read method stores never run past the input stream's    *)
(* buffer: the ERANGE check before the copy and the recv loop is enough.  *)
NoBufferOverrun == Len(fill) <= bufsize
====
