----------------------------- MODULE FcgiPackets -----------------------------
(***************************************************************************)
(* How main/fastcgi.c packs the two output streams of a request into       *)
(* FastCGI records: the output buffer of a request, and what its client    *)
(* makes of the bytes it receives.                                         *)
(*                                                                         *)
(* Bytes are not modelled one by one.  A segment is a run of bytes of one  *)
(* kind: a record header, content (of which stream, from which offset in   *)
(* it), padding, or the record that ends the request.                      *)
(***************************************************************************)
EXTENDS Integers, Sequences, SequencesExt

CONSTANT BufSize    (* sizeof(out_buf), 8192 in the code                   *)

ASSUME BufferAssumption == BufSize \in Nat /\ BufSize % 8 = 0 /\ BufSize >= 24

Stream     == {"stdout", "stderr"}
HeaderSize == 8         (* sizeof(fcgi_header)                             *)
EndSize    == 16        (* sizeof(fcgi_end_request_rec)                    *)
Reserved   == EndSize   (* sizeof(reserved), which follows out_buf         *)
MaxContent == 65535     (* 0xffff                                          *)
Chunk      == 65528     (* 0xfff8                                          *)
NoHdr      == -1        (* out_hdr is NULL                                 *)

Larger(a, b)  == IF a > b THEN a ELSE b
Smaller(a, b) == IF a < b THEN a ELSE b

(* fcgi_make_header: ((len + 7) & ~7) - len                                *)
Pad(len) == 8 * ((len + 7) \div 8) - len

Header(t, len)   == [what |-> "header", stream |-> t, size |-> HeaderSize,
                     from |-> len, pad |-> Pad(len)]
Data(t, from, n) == [what |-> "data", stream |-> t, size |-> n,
                     from |-> from, pad |-> 0]
EndRecord        == [what |-> "end", stream |-> "stdout", size |-> EndSize,
                     from |-> 0, pad |-> 0]
Padding(n) == IF n = 0 THEN <<>>
              ELSE <<[what |-> "padding", stream |-> "stdout", size |-> n,
                      from |-> 0, pad |-> 0]>>

Size(segs) == FoldLeft(LAMBDA sum, s : sum + s.size, 0, segs)

(* The first n bytes of segs. *)
Cut(segs, n) ==
  FoldLeft(LAMBDA acc, s :
             LET k == Smaller(acc.left, s.size)
             IN IF k = 0 THEN acc
                ELSE [left |-> acc.left - k,
                      got  |-> Append(acc.got, [s EXCEPT !.size = k])],
           [left |-> n, got |-> <<>>], segs).got

-----------------------------------------------------------------------------
(* The output buffer: pos is out_pos - out_buf and hdr is out_hdr - out_buf *)
(* or NoHdr; stream is the type in the open packet's header, body what has  *)
(* been copied behind it, done the segments in front of it.  top is the     *)
(* highest offset the operation that made this buffer has written below.    *)

Empty == [pos |-> 0, hdr |-> NoHdr, stream |-> "stdout", body |-> <<>>,
          done |-> <<>>, top |-> 0]

(* open_packet *)
OpenPacket(b, t) ==
  [b EXCEPT !.hdr = b.pos, !.stream = t, !.pos = @ + HeaderSize,
            !.top = Larger(@, b.pos + HeaderSize)]

(* Slip: the padding is announced in the header and not counted.           *)
ClosePacket_Unpadded(b) ==
  IF b.hdr = NoHdr THEN b
  ELSE LET len == b.pos - (b.hdr + HeaderSize)
       IN [b EXCEPT !.hdr = NoHdr, !.body = <<>>,
                    !.done = @ \o <<Header(b.stream, len)>> \o b.body]

(* close_packet: the header gets its length, the content its padding.      *)
ClosePacket(b) ==
  IF b.hdr = NoHdr THEN b
  ELSE LET len == b.pos - (b.hdr + HeaderSize)
       IN [b EXCEPT !.hdr = NoHdr, !.body = <<>>, !.pos = @ + Pad(len),
                    !.top = Larger(@, b.pos + Pad(len)),
                    !.done = @ \o <<Header(b.stream, len)>> \o b.body
                               \o Padding(Pad(len))]

(* memcpy of n bytes of stream t, those from offset from on.               *)
Put(b, t, from, n) ==
  IF n = 0 THEN b
  ELSE [b EXCEPT !.pos = @ + n, !.top = Larger(@, b.pos + n),
                 !.body = Append(@, Data(t, from, n))]

(* fcgi_flush up to its safe_write: what is written, and the highest       *)
(* offset touched, the record that ends the request included.              *)
Flushed(b, end) ==
  LET c == ClosePacket([b EXCEPT !.top = b.pos])
  IN [segs |-> c.done \o (IF end THEN <<EndRecord>> ELSE <<>>),
      top  |-> IF end THEN c.pos + EndSize ELSE c.top]

(* The records of 0xfff8 bytes that fcgi_write writes of n bytes before    *)
(* what is left fits in one record.                                        *)
Chunks(n) == IF n <= MaxContent THEN 0 ELSE 1 + (n - MaxContent - 1) \div Chunk

(* The third branch of fcgi_write: the content goes out without a copy,    *)
(* and only what does not fill eight bytes is buffered.                    *)
Large(b, t, base, len) ==
  LET c    == ClosePacket(b)
      k    == Chunks(len)
      left == len - k * Chunk
      rest == left % 8
      big  == [i \in 1 .. 2 * k |->
                 IF i % 2 = 1 THEN Header(t, Chunk)
                 ELSE Data(t, base + (i \div 2 - 1) * Chunk, Chunk)]
      small == Put(OpenPacket(Empty, t), t, base + len - rest, rest)
  IN [segs |-> c.done \o big
                 \o <<Header(t, left - rest),
                      Data(t, base + k * Chunk, left - rest)>>,
      buf  |-> [(IF rest = 0 THEN Empty ELSE small)
                  EXCEPT !.top = Larger(c.top, c.pos + HeaderSize)]]

(* Slip: the bytes kept for the end of the request are used as well.       *)
Room_Reserved(b) == BufSize + Reserved - b.pos

(* The limit of fcgi_write: content that fits behind what there is.        *)
Room(b) == IF b.hdr = NoHdr THEN Larger(BufSize - b.pos - HeaderSize, 0)
           ELSE BufSize - b.pos

(* A packet of the other stream is closed first.                           *)
Switched(b, t) ==
  LET fresh == [b EXCEPT !.top = b.pos]
  IN IF b.hdr # NoHdr /\ b.stream # t THEN ClosePacket(fresh) ELSE fresh

Opened(b, t) == IF b.hdr = NoHdr THEN OpenPacket(b, t) ELSE b

(* fcgi_write: len bytes of stream t, the first of them at offset base of  *)
(* the stream.  segs is what all its writes come to, buf the buffer left   *)
(* when they succeed.                                                      *)
Packed(b, t, base, len) ==
  LET b0   == Switched(b, t)
      room == Room(b0)
      full == Put(Opened(b0, t), t, base, room)
      more == Put(OpenPacket(Empty, t), t, base + room, len - room)
      out  == ClosePacket(full)
  IN IF len < room
     THEN [segs |-> <<>>, buf |-> Put(Opened(b0, t), t, base, len)]
     ELSE IF len - room < BufSize - HeaderSize
     THEN [segs |-> out.done,
           buf  |-> IF len > room
                    THEN [more EXCEPT !.top = Larger(out.top, more.pos)]
                    ELSE [Empty EXCEPT !.top = out.top]]
     ELSE Large(b0, t, base, len)

(* The bytes of each stream that segs carries. *)
Contents(segs) ==
  FoldLeft(LAMBDA sum, s : IF s.what = "data"
                           THEN [sum EXCEPT ![s.stream] = @ + s.size] ELSE sum,
           [t \in Stream |-> 0], segs)

(* The bytes of stream t that the buffer holds.                            *)
Buffered(b, t) == Contents(b.done \o b.body)[t]

-----------------------------------------------------------------------------
(* The client (external), a parser of records.  need and pad are the bytes  *)
(* of content and padding it still expects of the record it is in; got is   *)
(* how much of each stream it has; torn says that a header was cut, astray  *)
(* that it takes for one thing what was meant as another, and extra that    *)
(* something followed the end of the request.                               *)

NewClient == [need |-> 0, pad |-> 0, stream |-> "stdout",
              got |-> [t \in Stream |-> 0], ended |-> FALSE,
              torn |-> FALSE, astray |-> FALSE, extra |-> FALSE]

Expects(c, s) ==
  CASE s.what = "header"  -> c.need = 0 /\ c.pad = 0
    [] s.what = "data"    -> /\ s.size <= c.need /\ s.stream = c.stream
                             /\ s.from = c.got[s.stream]
    [] s.what = "padding" -> c.need = 0 /\ s.size <= c.pad
    [] s.what = "end"     -> c.need = 0 /\ c.pad = 0

Receive(c, s) ==
  IF c.ended THEN [c EXCEPT !.extra = TRUE]
  ELSE IF c.torn \/ c.astray \/ ~Expects(c, s) THEN [c EXCEPT !.astray = TRUE]
  ELSE CASE s.what = "header" ->
              IF s.size < HeaderSize THEN [c EXCEPT !.torn = TRUE]
              ELSE [c EXCEPT !.need = s.from, !.pad = s.pad, !.stream = s.stream]
         [] s.what = "data" ->
              [c EXCEPT !.need = @ - s.size, !.got[s.stream] = @ + s.size]
         [] s.what = "padding" -> [c EXCEPT !.pad = @ - s.size]
         [] s.what = "end" ->
              IF s.size < EndSize THEN [c EXCEPT !.torn = TRUE]
              ELSE [c EXCEPT !.ended = TRUE]

ReceiveAll(c, segs) == FoldLeft(Receive, c, segs)
==============================================================================
