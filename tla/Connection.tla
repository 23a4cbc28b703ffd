----------------------------- MODULE Connection -----------------------------
(***************************************************************************)
(* One session of smap_loop() (smapd.c) on a socket-map connection: the   *)
(* request path (module Sockmap) and the reply path (module ReplyStream)  *)
(* of the same stream, in the order smap_loop() drives them.  The loop     *)
(* calls smap_stream_getline(), and for each line dispatch_query() writes  *)
(* one reply with smap_stream_write() before the next getline.  The peer   *)
(* (sendmail, smapc) writes a request and, unless it pipelines, reads the  *)
(* reply before the next one.                                              *)
(*                                                                         *)
(* Which database answers and what it says is the Dispatch model; here a   *)
(* reply is any of Replies: the pieces a backend passes to successive     *)
(* smap_stream_write() calls.                                             *)
(***************************************************************************)
EXTENDS Naturals, Sequences, SequencesExt

CONSTANTS Bound, InitBufSize, Lines, Garbage, MaxFrames, Pipelined,
          BufSize, MaxBytes,
          Replies    \* replies, each a sequence of pieces written in turn

VARIABLES wire, closed, sent, bad, rpc, nbuf, reqsz, need, fill, bufsize,
          inbuf, line, delivered,
          out, records, written,
          pending,   \* the pieces of the current reply not yet written
          replied,   \* the lines dispatch_query() has answered
          exited     \* smap_loop() called exit(1) on a line with no map name

Req == INSTANCE Sockmap
Pieces == UNION {Range(r) : r \in Replies}
Rep == INSTANCE ReplyStream

reqvars == <<wire, closed, sent, bad, rpc, nbuf, reqsz, need, fill, bufsize,
             inbuf, line, delivered>>
repvars == <<out, records, written>>
vars == <<reqvars, repvars, pending, replied, exited>>

Init == Req!Init /\ Rep!Init /\ pending = <<>> /\ replied = 0 /\ exited = FALSE

(* strchr(buf, ' ') after smap_trimnl(): the line names a map.  Trimming  *)
(* the final '\n' does not change whether the line holds a blank.         *)
HasMapName(l) == SelectInSeq(l, LAMBDA b : b = " ") > 0

(* The peer sends a record, malformed bytes or part of a record before   *)
(* dying, or shuts down.  A lock-step peer sends only once the previous   *)
(* request is answered.  Nothing reads what it writes once the process  *)
(* has exited.                                                            *)
Peer ==
    /\ ~exited
    /\ \/ (Pipelined \/ replied = Len(delivered))
          /\ (Req!SendRecord \/ Req!SendGarbage \/ Req!PeerCrash)
       \/ Req!Shutdown
    /\ UNCHANGED <<repvars, pending, replied, exited>>

(* smap_stream_getline(): the reading side of Sockmap, run only while     *)
(* every line returned so far has been answered.                          *)
Read ==
    /\ replied = Len(delivered)
    /\ Req!Reader
    /\ UNCHANGED <<repvars, pending, replied, exited>>

(* dispatch_query() for the oldest unanswered line: the backend starts a  *)
(* reply or goes on with it, one smap_stream_write() per step; the line  *)
(* is answered when the last piece is written.                            *)
Reply ==
    /\ replied < Len(delivered)
    /\ HasMapName(delivered[replied + 1])
    /\ \E r \in IF pending = <<>> THEN Replies ELSE {pending} :
         /\ Rep!smap_stream_write(Head(r))
         /\ pending' = Tail(r)
         /\ replied' = IF Tail(r) = <<>> THEN replied + 1 ELSE replied
    /\ UNCHANGED <<reqvars, exited>>

(* smap_loop() on a line without a blank: "protocol error: missing map   *)
(* name" and exit(1), with no reply and without close_databases().        *)
MissingMapName ==
    /\ replied < Len(delivered) /\ pending = <<>>
    /\ ~HasMapName(delivered[replied + 1])
    /\ exited' = TRUE
    /\ UNCHANGED <<reqvars, repvars, pending, replied>>

(* The session is over (end of file or a read error, every line           *)
(* answered), the process exited on a line with no map name, or a copy past the output buffer corrupted the heap and     *)
(* the model stops the process.                                           *)
Halted ==
    /\ \/ rpc \in {"eof", "error"} /\ replied = Len(delivered)
       \/ exited
       \/ out.overrun
    /\ UNCHANGED vars

Next == Peer \/ Read \/ Reply \/ MissingMapName \/ Halted

(* The process runs whenever it is not blocked in recv(). *)
Spec == Init /\ [][Next]_vars /\ WF_vars(Read) /\ WF_vars(Reply)
        /\ WF_vars(MissingMapName)

-----------------------------------------------------------------------------
TypeOK == /\ Req!TypeOK /\ Rep!TypeOK
          /\ pending \in Seq(Seq(Rep!Byte)) /\ replied \in 0..Len(delivered)
          /\ exited \in BOOLEAN

(* Every request the peer frames is answered when it and every request    *)
(* before it name a map: smap_loop() reads it, dispatches it and the      *)
(* reply's record reaches the wire, however recv() splits the request and  *)
(* the output buffer grows; only heap corruption by the reply path stops  *)
(* it.  A request with no map name (the empty record ":,") ends the       *)
(* process with exit(1), so neither it nor any later request is answered. *)
RequestsAnswered ==
    \A i \in 1..MaxFrames :
        (Len(sent) >= i /\ \A j \in 1..i : HasMapName(sent[j]))
            ~> (Len(records) >= i \/ out.overrun)

(* A malformed record ends the session with a protocol error instead of   *)
(* leaving smap_loop() waiting for bytes, even if the peer keeps the      *)
(* connection open and replies are still being written.                   *)
MalformedRejected == bad ~> (rpc = "error" \/ out.overrun)

(* The request path's and the reply path's invariants, in the session. *)
DeliveredInOrder == Req!DeliveredInOrder
NoBufferOverrun == Req!NoBufferOverrun
ReplyIntact == Rep!ReplyIntact
LinesFlushed == Rep!LinesFlushed

(* Neither buffer of the session is written past its end: the read       *)
(* method's copies stay inside the input stream's buffer and the copies  *)
(* of smap_stream_write() inside the output stream's.                    *)
NoOverrun == NoBufferOverrun /\ Rep!NoWriteOverrun
====
