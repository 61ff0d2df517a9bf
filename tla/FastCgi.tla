------------------------------- MODULE FastCgi -------------------------------
(***************************************************************************)
(* One FastCGI request of the worker (main/fastcgi.c), from the callback   *)
(* that reads it to the release of its connection: the parameters and the  *)
(* body are parsed from what libevent has buffered, the script writes to   *)
(* two streams, and what it wrote is packed into records and written to a  *)
(* descriptor that does not block.                                         *)
(*                                                                         *)
(* The worker is one thread and the request's callback does not return in  *)
(* between, so there are two sources of interleaving: where the request    *)
(* stood when the callback was made, and how much of each write the kernel *)
(* takes.                                                                  *)
(***************************************************************************)
EXTENDS FcgiPackets

CONSTANTS
  Requests,   (* what a client sends: [keep, recs], recs the records       *)
  Lens,       (* bound: lengths of the script's writes                     *)
  MaxWrites,  (* bound: how many writes and flushes it makes               *)
  SplitWrites,  (* bound: how many when the request has not all arrived    *)
  Blocks,     (* sizes in which the body is read                           *)
  Accepts,    (* bound: bytes the kernel takes of a write it cuts          *)
  Conduct     (* subset of Conducts                                        *)

(* "split": the callback is made before the whole request has arrived;     *)
(* "slow_client": the socket buffer is full, write() fails with EAGAIN;    *)
(* "finish_early": the script calls fastcgi_finish_request() on a          *)
(*   connection that is not kept; "finish_kept": also on one that is.      *)
Conducts == {"split", "slow_client", "finish_early", "finish_kept"}

(* A request of a web server: the record that begins it, records of        *)
(* parameters and an empty one, records of the body and an empty one.      *)
(* fcgi_read_request gives up a request of another form.                   *)
WellFormed(r) ==
  LET n == Len(r.recs)
  IN /\ r.keep \in BOOLEAN
     /\ r.recs \in Seq([type : {"begin", "params", "stdin"},
                        len : 0 .. MaxContent, pad : 0 .. 255])
     /\ \E e \in 2 .. n - 1 :
          \A i \in 1 .. n :
            /\ r.recs[i].type = CASE i = 1 -> "begin"
                                   [] i \in 2 .. e -> "params"
                                   [] i > e -> "stdin"
            /\ r.recs[i].len = 0 <=> i \in {e, n}
            /\ i \in {e, n} => r.recs[i].pad = 0
            /\ i <= e => r.recs[i].len + r.recs[i].pad <= MaxContent

ASSUME RequestAssumption ==
  /\ \A r \in Requests : WellFormed(r)
  /\ Lens \subseteq Nat \ {0} /\ Blocks \subseteq Nat \ {0}
  /\ Accepts \subseteq Nat /\ {MaxWrites, SplitWrites} \subseteq Nat
  /\ Conduct \subseteq Conducts

VARIABLES
  request,     (* what this request's client sends                         *)
  arrived,     (* bytes of it that libevent has for the callback           *)
  rd,          (* bytes of it that have been read                          *)
  env,         (* parameter records that have been understood              *)
  in_len, in_pad,                                (* of the body's record   *)
  call,        (* the read_post in progress                                *)
  body,        (* what the script has of the body, byte by byte            *)
  request_body, post_read,                       (* of SG                  *)
  buf,         (* out_buf, out_pos and out_hdr                             *)
  written,     (* bytes the script has written to each stream              *)
  writes,      (* how often it has written or flushed                      *)
  client,      (* what the client has made of the response                 *)
  keep, ended, (* of the request                                           *)
  fd,          (* its descriptor: "open", or "closed" when it is -1        *)
  failed,      (* a write on the open descriptor was cut                   *)
  pc           (* "begin", "params", "script", "read" or "closed"          *)

inVars  == <<request, arrived, rd, env, in_len, in_pad, call, body,
             request_body, post_read>>
outVars == <<buf, written, writes, client, ended, fd, failed>>
vars    == <<inVars, outVars, keep, pc>>

NoCall == [block |-> 0, left |-> 0, bytes |-> <<>>, total |-> 0]

-----------------------------------------------------------------------------
(* The request as a stream of bytes.                                       *)

RecSize(r) == HeaderSize + r.len + r.pad
Bytes(recs) == FoldLeft(LAMBDA sum, r : sum + RecSize(r), 0, recs)

recs     == request.recs
Start(i) == Bytes(SubSeq(recs, 1, i - 1))

(* The record that starts at offset o, or 0: a header is read in the       *)
(* middle of something.                                                    *)
RecordAt(o) ==
  LET S == {i \in DOMAIN recs : Start(i) = o}
  IN IF S = {} THEN 0 ELSE CHOOSE i \in S : TRUE

BodyBytes(r) == IF r.type = "stdin" THEN r.len ELSE 0
BodyLength(rs) == FoldLeft(LAMBDA sum, r : sum + BodyBytes(r), 0, rs)

(* The place in the body of the byte at offset o of the request, or 0 for  *)
(* a byte that is not of the body.                                         *)
Place(o) ==
  LET S == {i \in DOMAIN recs :
              /\ recs[i].type = "stdin"
              /\ o \in Start(i) + HeaderSize ..
                       Start(i) + HeaderSize + recs[i].len - 1}
  IN IF S = {} THEN 0
     ELSE LET i == CHOOSE i \in S : TRUE
          IN BodyLength(SubSeq(recs, 1, i - 1)) + o - Start(i) - HeaderSize + 1

ParamRecords == {i \in DOMAIN recs : recs[i].type = "params" /\ recs[i].len > 0}

(* SG(request_info).content_length: CONTENT_LENGTH is in the last record   *)
(* of the parameters.                                                      *)
ContentLength == IF env = Cardinality(ParamRecords) THEN BodyLength(recs) ELSE 0

(* Slip: what was asked for is taken to have come. *)
Available_All(n) == n

(* safe_read of n bytes: what libevent has of them, and no more will come  *)
(* while the callback runs.                                                *)
Available(n) == Smaller(n, arrived - rd)

-----------------------------------------------------------------------------
Init ==
  /\ request \in Requests
  /\ arrived \in IF "split" \in Conduct THEN 1 .. Bytes(recs) ELSE {Bytes(recs)}
  /\ rd = 0 /\ env = 0 /\ in_len = 0 /\ in_pad = 0
  /\ call = NoCall /\ body = <<>>
  /\ request_body = FALSE /\ post_read = FALSE
  /\ buf = Empty
  /\ written = [t \in Stream |-> 0] /\ writes = 0
  /\ client = NewClient
  /\ keep = FALSE /\ ended = FALSE /\ fd = "open" /\ failed = FALSE
  /\ pc = "begin"

(* fcgi_read_request up to the body of FCGI_BEGIN_REQUEST.  Its result is  *)
(* dropped by init_request_callback: the request goes on without           *)
(* parameters, so it has no method and is refused.                         *)
ReadRequest ==
  /\ pc = "begin"
  /\ rd' = Available(RecSize(recs[1]))
  /\ IF arrived >= RecSize(recs[1])
     THEN keep' = request.keep /\ pc' = "params"
     ELSE keep' = FALSE /\ pc' = "script"
  /\ UNCHANGED <<request, arrived, env, in_len, in_pad, call, body,
                 request_body, post_read, outVars>>

(* One turn of the loop over the parameters.  The header that should       *)
(* follow FCGI_BEGIN_REQUEST is the one whose absence leaves keep alone.   *)
ReadParams ==
  /\ pc = "params"
  /\ LET i == RecordAt(rd)
     IN \/ /\ arrived - rd < HeaderSize
           /\ rd' = arrived /\ pc' = "script"
           /\ keep' = (keep /\ env = 0)
           /\ UNCHANGED env
        \/ /\ arrived - rd >= HeaderSize
           /\ recs[i].type = "params" /\ recs[i].len > 0
           /\ rd' = rd + Available(RecSize(recs[i]))
           /\ IF arrived - rd >= RecSize(recs[i])
              THEN env' = env + 1 /\ UNCHANGED <<keep, pc>>
              ELSE keep' = FALSE /\ pc' = "script" /\ UNCHANGED env
        \/ /\ arrived - rd >= HeaderSize
           /\ ~(recs[i].type = "params" /\ recs[i].len > 0)
           /\ rd' = rd + HeaderSize /\ pc' = "script"
           /\ UNCHANGED <<env, keep>>
  /\ UNCHANGED <<request, arrived, in_len, in_pad, call, body, request_body,
                 post_read, outVars>>

-----------------------------------------------------------------------------
(* The body.                                                               *)

(* sapi_read_post_block, called for the content type's reader, for a read  *)
(* of php://input, or by sapi_deactivate to consume the rest.              *)
ReadPost(block) ==
  /\ pc = "script" /\ ~post_read
  /\ request_body' = TRUE
  /\ LET count == Smaller(block, ContentLength - Len(body))
     IN IF count = 0
        THEN post_read' = TRUE /\ UNCHANGED <<call, pc>>
        ELSE /\ call' = [block |-> block, left |-> count, bytes |-> <<>>,
                         total |-> 0]
             /\ pc' = "read"
             /\ UNCHANGED post_read
  /\ UNCHANGED <<request, arrived, rd, env, in_len, in_pad, body, outVars,
                 keep>>

(* fcgi_read returns the first n of the bytes it has copied.               *)
(* sapi_cgi_read_post calls it again unless it has all it wants or got     *)
(* nothing; sapi_read_post_block takes a short block for the last.         *)
ReadReturns(n, bytes) ==
  /\ body' = body \o SubSeq(bytes, 1, n)
  /\ IF n > 0 /\ n < call.left
     THEN /\ call' = [call EXCEPT !.left = @ - n, !.total = @ + n, !.bytes = <<>>]
          /\ UNCHANGED <<post_read, pc>>
     ELSE /\ post_read' = (call.total + n < call.block)
          /\ call' = NoCall /\ pc' = "script"

ReadGoesOn(bytes) ==
  /\ call' = [call EXCEPT !.bytes = bytes]
  /\ UNCHANGED <<body, post_read, pc>>

(* Slip: the padding stays in front of the next header. *)
PadRead_Missing == 0

PadRead == in_pad

(* A turn of the loop of fcgi_read at the header of a record.  Without a   *)
(* header it returns 0, whatever it has copied before.                     *)
ReadBodyHeader ==
  /\ pc = "read" /\ in_len = 0
  /\ LET i == RecordAt(rd)
         found == arrived - rd >= HeaderSize /\ i # 0 /\ recs[i].type = "stdin"
     IN \/ /\ ~found
           /\ keep' = FALSE
           /\ ReadReturns(0, call.bytes)
           /\ UNCHANGED <<in_len, in_pad>>
        \/ /\ found
           /\ in_len' = recs[i].len /\ in_pad' = recs[i].pad
           /\ UNCHANGED keep
           /\ IF recs[i].len = 0 THEN ReadReturns(Len(call.bytes), call.bytes)
              ELSE ReadGoesOn(call.bytes)
  /\ rd' = rd + Available(HeaderSize)
  /\ UNCHANGED <<request, arrived, env, request_body, outVars>>

(* A turn of the loop of fcgi_read inside a record.  When the padding is   *)
(* not all there, it returns what the last safe_read copied.               *)
ReadBodyContent ==
  /\ pc = "read" /\ in_len > 0
  /\ LET rest  == call.left - Len(call.bytes)
         ret   == Available(Smaller(rest, in_len))
         bytes == call.bytes \o [k \in 1 .. ret |-> Place(rd + k - 1)]
         pad   == Smaller(PadRead, arrived - rd - ret)
     IN /\ in_len' = in_len - ret
        /\ \/ /\ ret = 0 \/ ret < in_len
              /\ rd' = rd + ret
              /\ ReadReturns(Len(bytes), bytes)
              /\ UNCHANGED keep
           \/ /\ ret = in_len
              /\ rd' = rd + ret + pad
              /\ IF pad < PadRead
                 THEN keep' = FALSE /\ ReadReturns(ret, bytes)
                 ELSE /\ UNCHANGED keep
                      /\ IF ret = rest THEN ReadReturns(Len(bytes), bytes)
                         ELSE ReadGoesOn(bytes)
  /\ UNCHANGED <<request, arrived, env, in_pad, request_body, outVars>>

-----------------------------------------------------------------------------
(* The response.                                                           *)

(* safe_write: the kernel takes all the bytes of segs, or some of them     *)
(* until write() fails.                                                    *)
Sent(segs) == fd = "open" /\ client' = ReceiveAll(client, segs)

NotSent(segs) ==
  \/ fd = "closed" /\ UNCHANGED <<client, failed>>
  \/ /\ fd = "open" /\ "slow_client" \in Conduct
     /\ \E n \in Accepts : /\ n < Size(segs)
                           /\ client' = ReceiveAll(client, Cut(segs, n))
     /\ failed' = TRUE

(* Slip: a response that was cut leaves the connection to be kept.         *)
Emit_StillKept(segs, next) ==
  \/ Sent(segs) /\ buf' = next /\ UNCHANGED <<failed, keep>>
  \/ NotSent(segs) /\ buf' = [Empty EXCEPT !.top = next.top] /\ UNCHANGED keep

(* The bytes of segs are written and the buffer becomes next; when that    *)
(* fails, what the buffer held is dropped and the connection not kept.     *)
Emit(segs, next) ==
  \/ Sent(segs) /\ buf' = next /\ UNCHANGED <<failed, keep>>
  \/ NotSent(segs) /\ buf' = [Empty EXCEPT !.top = next.top] /\ keep' = FALSE

MayWrite ==
  writes < (IF arrived = Bytes(recs) THEN MaxWrites ELSE SplitWrites)

(* fcgi_write, for the script's output, its headers and its log.           *)
Write(t, len) ==
  /\ pc = "script" /\ MayWrite
  /\ LET p == Packed(buf, t, written[t], len)
     IN IF p.segs = <<>>
        THEN buf' = p.buf /\ UNCHANGED <<client, failed, keep>>
        ELSE Emit(p.segs, p.buf)
  /\ written' = [written EXCEPT ![t] = @ + len]
  /\ writes' = writes + 1
  /\ UNCHANGED <<inVars, ended, fd, pc>>

(* fcgi_flush for the script's flush().                                    *)
Flush ==
  /\ pc = "script" /\ MayWrite
  /\ LET p == Flushed(buf, FALSE)
     IN Emit(p.segs, [Empty EXCEPT !.top = p.top])
  /\ writes' = writes + 1
  /\ UNCHANGED <<inVars, written, ended, fd, pc>>

(* fcgi_end: the end of the request is sent once.                          *)
End ==
  \/ /\ ~ended
     /\ LET p == Flushed(buf, TRUE)
        IN Emit(p.segs, [Empty EXCEPT !.top = p.top])
     /\ ended' = TRUE
  \/ ended /\ UNCHANGED <<buf, client, failed, keep, ended>>

(* Slip: the descriptor is left to the bufferevent. *)
CloseUnlessKept_Never == fd' = fd

(* fcgi_close without force. *)
CloseUnlessKept == fd' = IF keep' THEN fd ELSE "closed"

(* fastcgi_finish_request(): the script goes on after the response, with   *)
(* the descriptor closed by fcgi_close unless the connection is kept.      *)
FinishEarly ==
  /\ pc = "script" /\ fd = "open"
  /\ IF keep THEN "finish_kept" \in Conduct ELSE "finish_early" \in Conduct
  /\ End
  /\ CloseUnlessKept
  /\ UNCHANGED <<inVars, written, writes, pc>>

(* close_request and free_coroutine_context.  A body nobody asked for has  *)
(* been consumed first.  fcgi_finish_request ends a request that is still  *)
(* open; after that the connection is closed with its bufferevent, kept or *)
(* not.                                                                    *)
EndRequest ==
  /\ pc = "script" /\ (request_body \/ post_read)
  /\ IF fd = "open" THEN End ELSE UNCHANGED <<buf, client, failed, keep, ended>>
  /\ fd' = "closed" /\ pc' = "closed"
  /\ UNCHANGED <<inVars, written, writes>>

Next ==
  \/ ReadRequest \/ ReadParams
  \/ \E block \in Blocks : ReadPost(block)
  \/ ReadBodyHeader \/ ReadBodyContent
  \/ \E t \in Stream, len \in Lens : Write(t, len)
  \/ Flush \/ FinishEarly \/ EndRequest

Spec == Init /\ [][Next]_vars

-----------------------------------------------------------------------------
TypeOK ==
  /\ arrived \in Nat /\ rd \in 0 .. arrived /\ env \in Nat
  /\ in_len \in 0 .. MaxContent /\ in_pad \in 0 .. 255
  /\ body \in Seq(Nat)
  /\ {request_body, post_read, keep, ended, failed} \subseteq BOOLEAN
  /\ buf.pos \in 0 .. BufSize /\ buf.hdr \in {NoHdr} \cup 0 .. BufSize
  /\ written \in [Stream -> Nat] /\ writes \in Nat
  /\ fd \in {"open", "closed"}
  /\ pc \in {"begin", "params", "script", "read", "closed"}

(* As long as no write was cut and the request is not ended, the client    *)
(* follows record by record, and each byte the script has written has      *)
(* either arrived in its place or is in the buffer: none is lost, doubled  *)
(* or taken for another (fcgi_write, whose three branches share a buffer   *)
(* in which two streams alternate and records are padded).                 *)
NothingLost ==
  ~failed /\ ~ended =>
    /\ ~client.torn /\ ~client.astray
    /\ client.need = 0 /\ client.pad = 0
    /\ \A t \in Stream : client.got[t] + Buffered(buf, t) = written[t]

(* Nothing is written behind the sixteen bytes reserved after out_buf, and *)
(* the record that ends the request always has its place in front of it:   *)
(* fcgi_write and fcgi_flush check no bound when they open a packet, pad   *)
(* one or append the end.                                                  *)
NeverOverflows ==
  /\ buf.top <= BufSize + Reserved
  /\ Flushed(buf, TRUE).top <= BufSize + Reserved

(* What the script reads is the body from its start, in order, with no     *)
(* byte of a header or of padding in it, whatever of the request has       *)
(* arrived; and when all of it has, it reads all of it, whatever the       *)
(* records and the blocks (fcgi_read).                                     *)
BodyInOrder ==
  /\ \A k \in DOMAIN body : body[k] = k
  /\ arrived = Bytes(recs) /\ post_read => Len(body) = ContentLength

(* A client that has received a cut record has its connection closed and   *)
(* not kept: no later response is taken for the rest of this one           *)
(* (fcgi_flush and fcgi_write reset keep).                                 *)
TornIsNotKept ==
  client.torn \/ client.astray \/ (failed /\ client.need > 0) => ~keep

Response == INSTANCE ResponseStream WITH
  delivered <- client.got,
  state <- IF client.extra THEN "overrun" ELSE IF failed THEN "broken"
           ELSE IF client.ended THEN "ended" ELSE "open"

(* The layer implements two streams with an end: a client that is told     *)
(* the request is over has all of both, and gets nothing behind it         *)
(* (fcgi_end after fcgi_flush, once; fcgi_close).                          *)
ImplementsStream == Response!Spec
==============================================================================
