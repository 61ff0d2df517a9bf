----------------------------- MODULE FastCgiProofs -----------------------------
(***************************************************************************)
(* The output buffer of a request is never overrun, whatever is written in *)
(* whatever pieces and whatever of it the kernel takes; and what its       *)
(* client receives is a prefix of what was written, with nothing lost or   *)
(* doubled as long as no write is cut.  And what a script reads of the     *)
(* body is the body, in order, however the request arrives.                *)
(***************************************************************************)
EXTENDS FastCgi, PacketProofs, FiniteSetTheorems

(* The buffer between two operations, and how far the last one went. *)
Within(b) == Sound(b) /\ b.top <= BufSize + Reserved

(* Whether a write is cut or not, the buffer left is within its bounds. *)
LEMMA EmittedWithin ==
  ASSUME NEW segs, NEW next, Within(next), Emit(segs, next)
  PROVE  Within(buf')
<1>1. CASE buf' = next
  BY <1>1
<1>2. CASE buf' = [Empty EXCEPT !.top = next.top]
  <2>1. next.top \in Nat
    BY DEF Within, Sound
  <2>2. LET m == [Empty EXCEPT !.top = next.top]
        IN Sound(m) /\ m.top = next.top
    BY <2>1, EmptyFacts, TopFacts
  <2>3. QED
    BY <1>2, <2>2 DEF Within
<1>3. QED
  BY <1>1, <1>2 DEF Emit

(* A flush leaves an empty buffer, after no more than the reserve was touched. *)
LEMMA FlushedWithin ==
  ASSUME NEW b, NEW end \in BOOLEAN, Sound(b)
  PROVE  Within([Empty EXCEPT !.top = Flushed(b, end).top])
<1> DEFINE k == Flushed(b, end).top
<1>1. k \in Nat /\ k <= BufSize + Reserved
  BY FlushedFacts
<1> HIDE DEF k
<1>2. LET m == [Empty EXCEPT !.top = k] IN Sound(m) /\ m.top = k
  BY <1>1, EmptyFacts, TopFacts
<1>3. QED
  BY <1>1, <1>2 DEF Within, k

(* Ending the request stays within the reserve. *)
LEMMA EndWithin ==
  ASSUME Within(buf), End
  PROVE  Within(buf')
<1>1. CASE UNCHANGED buf
  BY <1>1
<1>2. CASE LET p == Flushed(buf, TRUE)
           IN Emit(p.segs, [Empty EXCEPT !.top = p.top])
  BY <1>2, FlushedWithin, EmittedWithin DEF Within
<1>3. QED
  BY <1>1, <1>2 DEF End

(* Every step stays within the buffer and its reserve. *)
LEMMA StepWithin ==
  ASSUME Within(buf), [Next]_vars
  PROVE  Within(buf')
<1>1. CASE UNCHANGED buf
  BY <1>1
<1>2. CASE \E t \in Stream, len \in Lens : Write(t, len)
  <2>1. PICK t \in Stream, len \in Lens : Write(t, len)
    BY <1>2
  <2> DEFINE p == Packed(buf, t, written[t], len)
  <2>2. len \in Nat
    BY RequestAssumption
  <2>3. Within(p.buf)
    <3>1. Sound(p.buf) /\ p.buf.top <= BufSize + HeaderSize
      BY <2>2, PackedFacts DEF Within
    <3> HIDE DEF p
    <3>2. QED
      BY <3>1, BufferAssumption DEF Within, Sound, HeaderSize, Reserved, EndSize
  <2>4. buf' = p.buf \/ Emit(p.segs, p.buf)
    BY <2>1 DEF Write
  <2> HIDE DEF p
  <2>5. QED
    BY <2>3, <2>4, EmittedWithin
<1>3. CASE Flush
  <2>1. LET p == Flushed(buf, FALSE)
        IN Emit(p.segs, [Empty EXCEPT !.top = p.top])
    BY <1>3 DEF Flush
  <2>2. QED
    BY <2>1, FlushedWithin, EmittedWithin DEF Within
<1>4. CASE FinishEarly
  BY <1>4, EndWithin DEF FinishEarly
<1>5. CASE EndRequest
  BY <1>5, <1>1, EndWithin DEF EndRequest
<1>6. CASE ReadRequest \/ ReadParams \/ ReadBodyHeader \/ ReadBodyContent
           \/ \E block \in Blocks : ReadPost(block)
  BY <1>6, <1>1 DEF ReadRequest, ReadParams, ReadBodyHeader, ReadBodyContent,
                    ReadPost, outVars
<1>7. CASE UNCHANGED vars
  BY <1>7, <1>1 DEF vars, outVars
<1>8. QED
  BY <1>2, <1>3, <1>4, <1>5, <1>6, <1>7 DEF Next

(* Nothing is ever written behind the bytes reserved after out_buf, and    *)
(* the end of the request always fits (fcgi_write, fcgi_flush).            *)
THEOREM BufferNeverOverflows == Spec => []NeverOverflows
<1>1. Init => Within(buf)
  BY EmptyFacts, BufferAssumption DEF Init, Within, Reserved, EndSize
<1>2. Within(buf) /\ [Next]_vars => Within(buf)'
  BY StepWithin
<1>3. Within(buf) => NeverOverflows
  <2>1. Within(buf) => Flushed(buf, TRUE).top <= BufSize + Reserved
    BY FlushedFacts DEF Within
  <2>2. QED
    BY <2>1 DEF Within, NeverOverflows
<1>4. QED
  BY <1>1, <1>2, <1>3, PTL DEF Spec

CutIsNotKept == failed => ~keep

NoWriteYet == pc = "begin" => ~failed

(* Once a write was cut the connection is not kept, and nothing keeps it   *)
(* again: keep is set from the begin record alone, before any write        *)
(* (fcgi_read_request, and the resets of fcgi_write and fcgi_flush).       *)
THEOREM CutConnectionIsNotKept == Spec => []CutIsNotKept
<1> DEFINE Inv == CutIsNotKept /\ NoWriteYet
<1>1. Init => Inv
  BY DEF Init, CutIsNotKept, NoWriteYet
<1>2. Inv /\ [Next]_vars => Inv'
  <2> SUFFICES ASSUME Inv, [Next]_vars PROVE Inv'
    OBVIOUS
  <2> USE DEF CutIsNotKept, NoWriteYet
  <2>1. ASSUME NEW segs, NEW next, Emit(segs, next) PROVE CutIsNotKept'
    BY <2>1 DEF Emit, Sent, NotSent
  <2>2. ASSUME End PROVE CutIsNotKept'
    BY <2>1, <2>2 DEF End
  <2>3. CASE ReadRequest
    BY <2>3 DEF ReadRequest, outVars
  <2>4. CASE ReadParams
    <3>1. /\ pc' # "begin" \/ pc' = pc
          /\ \/ keep' = keep \/ keep' = FALSE \/ keep' = (keep /\ env = 0)
          /\ failed' = failed
      BY <2>4 DEF ReadParams, outVars
    <3>2. failed' => ~keep'
      BY <3>1
    <3>3. QED
      BY <3>1, <3>2
  <2>5. CASE \E block \in Blocks : ReadPost(block)
    BY <2>5 DEF ReadPost, outVars
  <2>6. CASE ReadBodyHeader \/ ReadBodyContent
    <3>1. ASSUME NEW n, NEW bytes, ReadReturns(n, bytes) \/ ReadGoesOn(bytes)
          PROVE  pc' # "begin" \/ pc' = pc
      BY <3>1 DEF ReadReturns, ReadGoesOn
    <3>2. CASE ReadBodyHeader
      BY <3>1, <3>2 DEF ReadBodyHeader, outVars
    <3>3. CASE ReadBodyContent
      BY <3>1, <3>3 DEF ReadBodyContent, outVars
    <3>4. QED
      BY <2>6, <3>2, <3>3
  <2>7. CASE \E t \in Stream, len \in Lens : Write(t, len)
    <3>1. PICK t \in Stream, len \in Lens : Write(t, len)
      BY <2>7
    <3>2. CutIsNotKept'
      BY <2>1, <3>1 DEF Write
    <3>3. QED
      BY <3>1, <3>2 DEF Write
  <2>8. CASE Flush
    BY <2>1, <2>8 DEF Flush
  <2>9. CASE FinishEarly
    BY <2>2, <2>9 DEF FinishEarly, inVars
  <2>10. CASE EndRequest
    BY <2>2, <2>10 DEF EndRequest
  <2>11. CASE UNCHANGED vars
    BY <2>11 DEF vars, outVars
  <2>12. QED
    BY <2>3, <2>4, <2>5, <2>6, <2>7, <2>8, <2>9, <2>10, <2>11 DEF Next
<1>3. QED
  BY <1>1, <1>2, PTL DEF Spec

-----------------------------------------------------------------------------
(* What is sent, and what the client makes of it.                          *)

(* After the end of the request nothing tears the response any more. *)
LEMMA AfterTheEnd ==
  ASSUME NEW c \in Client, NEW segs \in Seq(Segment), c.ended
  PROVE  LET d == ReceiveAll(c, segs)
         IN d.ended /\ d.torn = c.torn /\ d.astray = c.astray
<1> DEFINE T == {d \in Client : d.ended /\ d.torn = c.torn /\ d.astray = c.astray}
<1>1. c \in T
  OBVIOUS
<1>2. ASSUME NEW d \in T, NEW s \in Segment PROVE Receive(d, s) \in T
  <2>1. d \in Client /\ d.ended
    OBVIOUS
  <2>2. Receive(d, s) = [d EXCEPT !.extra = TRUE]
    BY <2>1 DEF Receive
  <2>3. QED
    BY <2>2 DEF Client
<1> HIDE DEF T
<1>3. Reception!Fold(c, segs) \in T
  BY <1>1, <1>2, Reception!FoldStays
<1>4. QED
  BY <1>3, ReceptionIsFold DEF T

(* The client stands between two records with g bytes of the streams. *)
Rests(c, g) == \E s \in Stream : c = Resting(g, s)

(* The fields of a client between two records. *)
LEMMA RestsFacts ==
  ASSUME NEW c, NEW g, Rests(c, g)
  PROVE  /\ c.got = g /\ c.need = 0 /\ c.pad = 0
         /\ ~c.torn /\ ~c.astray /\ ~c.ended /\ ~c.extra
BY DEF Rests, Resting, InRecord

(* What carries some of the response is made of bits of it. *)
LEMMA CarriedTyped ==
  ASSUME NEW segs, NEW g, NEW k, NEW w \in Counts, Carries(segs, g, k), Above(w, k)
  PROVE  segs \in Seq(Piece(w)) /\ segs \in Seq(Segment) /\ segs \in Seq(Bit(w))
BY PieceGrows, PiecesAreSegments, PiecesAreBits DEF Carries

(* The response as it is between two steps: the client has got a prefix of *)
(* each stream, and what the buffer holds begins where it left off.        *)
Received == client \in Client /\ written \in Counts /\ Above(written, client.got)

Matched ==
  \E g : /\ Holds(buf, g, written)
         /\ ~failed /\ ~ended => Rests(client, g)

Uncut == ~failed => ~client.torn /\ ~client.astray /\ (ended => client.ended)

NotOver == ~ended => ~client.ended /\ ~client.extra

EndedFirst == fd \in {"open", "closed"} /\ (fd = "closed" => ended)

StreamInv ==
  Within(buf) /\ Received /\ Matched /\ Uncut /\ NotOver /\ EndedFirst

(* Whole records are sent, all of them or some bytes.                      *)
LEMMA EmitReceived ==
  ASSUME NEW segs, NEW next, NEW g, NEW k, NEW w,
         StreamInv, Emit(segs, next), Carries(segs, g, k), w \in Counts,
         Above(w, k), Above(w, written), ~failed /\ ~ended => Rests(client, g)
  PROVE  /\ client' \in Client /\ Above(client'.got, client.got)
         /\ Above(w, client'.got)
         /\ ~failed' /\ ~ended => Rests(client', k)
         /\ ~failed' => ~client'.torn /\ ~client'.astray
                        /\ (ended => client'.ended)
         /\ ~ended => ~client'.ended /\ ~client'.extra
<1>1. /\ segs \in Seq(Piece(w)) /\ segs \in Seq(Segment) /\ segs \in Seq(Bit(w))
      /\ g \in Counts /\ k \in Counts
  BY CarriedTyped DEF Carries
<1>2. client \in Client /\ written \in Counts /\ Above(w, client.got)
  <2>1. client \in Client /\ written \in Counts /\ Above(written, client.got)
    BY DEF StreamInv, Received
  <2>2. client.got \in Counts
    BY <2>1 DEF Client, Counts
  <2>3. QED
    BY <2>1, <2>2, AboveTogether
<1>3. CASE Sent(segs) /\ UNCHANGED failed
  <2>1. client' = ReceiveAll(client, segs) /\ failed' = failed
    BY <1>3 DEF Sent
  <2>2. client' \in Client /\ Above(client'.got, client.got) /\ Above(w, client'.got)
    BY <1>1, <1>2, <2>1, ReceiveAllBetween
  <2>3. ASSUME ~failed, ~ended PROVE Rests(client', k)
    BY <2>1, <2>3 DEF Rests, Carries
  <2>4. ASSUME ~failed, ended
        PROVE  ~client'.torn /\ ~client'.astray /\ client'.ended
    <3>1. client.ended /\ ~client.torn /\ ~client.astray
      BY <2>4 DEF StreamInv, Uncut
    <3>2. QED
      BY <1>1, <1>2, <2>1, <3>1, AfterTheEnd
  <2>5. ASSUME ~ended PROVE ~client'.ended /\ ~client'.extra
    <3>1. ~client.ended /\ ~client.extra
      BY <2>5 DEF StreamInv, NotOver
    <3>2. QED
      BY <1>1, <1>2, <2>1, <3>1, ReceiveOpen
  <2>6. QED
    BY <2>1, <2>2, <2>3, <2>4, <2>5, RestsFacts
<1>4. CASE NotSent(segs) /\ fd = "closed"
  <2>1. client' = client /\ failed' = failed /\ ended
    BY <1>4 DEF NotSent, StreamInv, EndedFirst
  <2>2. client.got \in Counts /\ Above(client.got, client.got)
    BY <1>2 DEF Client, Counts, Above
  <2>3. QED
    BY <1>2, <2>1, <2>2 DEF StreamInv, Uncut
<1>5. CASE NotSent(segs) /\ fd # "closed"
  <2>1. PICK n \in Accepts : client' = ReceiveAll(client, Cut(segs, n))
    BY <1>5 DEF NotSent
  <2>2. failed' = TRUE
    BY <1>5 DEF NotSent
  <2>3. n \in Nat
    BY RequestAssumption
  <2> DEFINE x == Cut(segs, n)
  <2>4. x \in Seq(Piece(w)) /\ x \in Seq(Bit(w))
    BY <1>1, <2>3, CutTyped, PiecesAreBits
  <2> HIDE DEF x
  <2>5. client' \in Client /\ Above(client'.got, client.got) /\ Above(w, client'.got)
    BY <1>2, <2>1, <2>4, ReceiveAllBetween DEF x
  <2>6. ASSUME ~ended PROVE ~client'.ended /\ ~client'.extra
    <3>1. ~client.ended /\ ~client.extra
      BY <2>6 DEF StreamInv, NotOver
    <3>2. QED
      BY <1>2, <2>1, <2>4, <3>1, ReceiveOpen DEF x
  <2>7. QED
    BY <2>2, <2>5, <2>6
<1>6. QED
  BY <1>3, <1>4, <1>5 DEF Emit

(* The end of the request behind them.                                     *)
LEMMA EmitEnded ==
  ASSUME NEW segs, NEW next, NEW g,
         StreamInv, Emit(Append(segs, EndRecord), next), Carries(segs, g, written),
         ~ended, ~failed => Rests(client, g)
  PROVE  /\ client' \in Client /\ Above(client'.got, client.got)
         /\ Above(written, client'.got) /\ ~client'.extra
         /\ ~failed' => /\ client'.got = written /\ client'.ended
                        /\ ~client'.torn /\ ~client'.astray
<1> DEFINE w == written
           z == Append(segs, EndRecord)
<1>1. client \in Client /\ w \in Counts /\ Above(w, client.got)
  BY DEF StreamInv, Received
<1>2. ~client.ended /\ ~client.extra /\ fd # "closed"
  BY DEF StreamInv, NotOver, EndedFirst
<1>3. Above(w, w)
  BY <1>1 DEF Above, Counts
<1>4. /\ segs \in Seq(Piece(w)) /\ segs \in Seq(Segment) /\ segs \in Seq(Bit(w))
  BY <1>1, <1>3, CarriedTyped
<1>5. z \in Seq(Bit(w)) /\ EndRecord \in Segment /\ EndRecord.what = "end"
  BY <1>4, PiecesAreBits DEF Bit, EndRecord
<1> HIDE DEF w
<1>6. CASE Sent(z) /\ UNCHANGED failed
  <2>1. client' = ReceiveAll(client, z) /\ failed' = failed
    BY <1>6 DEF Sent
  <2>2. client' \in Client /\ Above(client'.got, client.got) /\ Above(w, client'.got)
    BY <1>1, <1>5, <2>1, ReceiveAllBetween
  <2>3. ~client'.extra
    <3> DEFINE d == ReceiveAll(client, segs)
    <3>1. client' = Receive(d, EndRecord)
      BY <1>4, <1>5, <2>1, ReceiveAppend
    <3>2. d \in Client /\ ~d.ended /\ ~d.extra
      BY <1>1, <1>2, <1>4, ReceiveOpen
    <3> HIDE DEF d
    <3>3. QED
      BY <1>5, <3>1, <3>2, ReceiveEnd
  <2>4. ASSUME ~failed
        PROVE  client'.got = w /\ client'.ended /\ ~client'.torn /\ ~client'.astray
    <3>1. PICK s \in Stream : client = Resting(g, s)
      BY <2>4 DEF Rests
    <3>2. QED
      BY <2>1, <3>1, EndReceived DEF w
  <2>5. QED
    BY <2>1, <2>2, <2>3, <2>4 DEF w
<1>7. CASE NotSent(z)
  <2>1. PICK n \in Accepts : client' = ReceiveAll(client, Cut(z, n))
    BY <1>2, <1>7 DEF NotSent
  <2>2. failed' = TRUE
    BY <1>2, <1>7 DEF NotSent
  <2>3. n \in Nat
    BY RequestAssumption
  <2> DEFINE x == Cut(segs, n)
  <2>4. x \in Seq(Piece(w)) /\ x \in Seq(Bit(w)) /\ x \in Seq(Segment)
    BY <1>1, <1>4, <2>3, CutTyped, PiecesAreBits, PiecesAreSegments
  <2>5. \/ Cut(z, n) = x
        \/ \E e \in Bit(w) : e.what = "end" /\ Cut(z, n) = Append(x, e)
    BY <1>1, <1>4, <2>3, CutOfAppend
  <2> HIDE DEF x, z
  <2>6. CASE Cut(z, n) = x
    <3>1. client' \in Client /\ Above(client'.got, client.got) /\ Above(w, client'.got)
      BY <1>1, <2>1, <2>4, <2>6, ReceiveAllBetween
    <3>2. ~client'.extra
      BY <1>1, <1>2, <2>1, <2>4, <2>6, ReceiveOpen
    <3>3. QED
      BY <2>2, <3>1, <3>2 DEF w
  <2>7. ASSUME NEW e \in Bit(w), e.what = "end", Cut(z, n) = Append(x, e)
        PROVE  /\ client' \in Client /\ Above(client'.got, client.got)
               /\ Above(w, client'.got) /\ ~client'.extra
    <3>1. Append(x, e) \in Seq(Bit(w)) /\ e \in Segment
      BY <2>4, <2>7 DEF Bit
    <3>2. client' \in Client /\ Above(client'.got, client.got) /\ Above(w, client'.got)
      BY <1>1, <2>1, <2>7, <3>1, ReceiveAllBetween
    <3> DEFINE d == ReceiveAll(client, x)
    <3>3. client' = Receive(d, e)
      BY <2>1, <2>4, <2>7, <3>1, ReceiveAppend
    <3>4. d \in Client /\ ~d.ended /\ ~d.extra
      BY <1>1, <1>2, <2>4, ReceiveOpen
    <3> HIDE DEF d
    <3>5. ~client'.extra
      BY <2>7, <3>1, <3>3, <3>4, ReceiveEnd
    <3>6. QED
      BY <3>2, <3>5
  <2>8. QED
    BY <2>2, <2>5, <2>6, <2>7 DEF w
<1>8. QED
  BY <1>6, <1>7 DEF Emit

(* No segment carries only nothing. *)
LEMMA CarriesNone ==
  ASSUME NEW g, NEW k, Carries(<<>>, g, k)
  PROVE  g = k
<1>1. PICK t \in Stream : ReceiveAll(Resting(g, "stdout"), <<>>) = Resting(k, t)
  BY DEF Carries, Stream
<1>2. Resting(g, "stdout") = Resting(k, t)
  BY <1>1, ReceiveNone
<1>3. QED
  BY <1>2 DEF Resting, InRecord

(* A buffer that was dropped holds nothing. *)
LEMMA DroppedHolds ==
  ASSUME NEW w \in Counts, NEW n
  PROVE  Holds([Empty EXCEPT !.top = n], w, w)
<1> DEFINE c == [Empty EXCEPT !.top = n]
<1>1. /\ c.done = Empty.done /\ c.body = Empty.body /\ c.hdr = Empty.hdr
      /\ c.stream = Empty.stream /\ c.pos = Empty.pos
  BY DEF Empty
<1> HIDE DEF c
<1>2. Holds(c, w, w)
  BY <1>1, EmptyHolds, HoldsFields
<1>3. QED
  BY <1>2 DEF c

(* The buffer after a write begins where the client left off, and after    *)
(* one that failed it is empty.                                            *)
LEMMA EmitHolds ==
  ASSUME NEW segs, NEW next, NEW k, NEW w,
         EndedFirst, Emit(segs, next), Holds(next, k, w)
  PROVE  \E g : Holds(buf', g, w) /\ (~failed' /\ ~ended => g = k)
<1>1. CASE buf' = next
  BY <1>1
<1>2. CASE NotSent(segs) /\ buf' = [Empty EXCEPT !.top = next.top]
  <2>1. w \in Counts
    BY HoldsTyped
  <2>2. Holds(buf', w, w)
    BY <1>2, <2>1, DroppedHolds
  <2>3. failed' \/ ended
    BY <1>2 DEF NotSent, EndedFirst
  <2>4. QED
    BY <2>2, <2>3
<1>3. QED
  BY <1>1, <1>2 DEF Emit

(* What a step does to the response: the streams and what the client has   *)
(* of them only grow, the end comes with all of them, and behind a closed  *)
(* descriptor nothing reaches the client.                                  *)
StreamMoves ==
  /\ Above(written', written) /\ Above(client'.got, client.got)
  /\ failed => failed'
  /\ ended => ended'
  /\ ~ended /\ ended' =>
       /\ written' = written /\ ~client'.extra
       /\ ~failed' => client'.got = written
  /\ fd = "closed" => client' = client /\ failed' = failed /\ fd' = "closed"

(* The types that StreamInv gives. *)
LEMMA OwnStream ==
  ASSUME StreamInv
  PROVE  /\ written \in Counts /\ client.got \in Counts /\ client \in Client
         /\ Above(written, written) /\ Above(client.got, client.got)
BY DEF StreamInv, Received, Client, Counts, Above

(* Steps that do not touch the response. *)
LEMMA StillStream ==
  ASSUME StreamInv, UNCHANGED <<buf, written, client, ended, fd, failed>>
  PROVE  StreamInv' /\ StreamMoves
<1>1. StreamInv'
  BY DEF StreamInv, Within, Sound, Shaped, Received, Matched, Uncut, NotOver, EndedFirst
<1>2. StreamMoves
  BY OwnStream DEF StreamMoves
<1>3. QED
  BY <1>1, <1>2

(* A write that goes out, or is cut, keeps the stream's invariant. *)
LEMMA EmittedStream ==
  ASSUME NEW segs, NEW next, NEW g, NEW k,
         StreamInv, Within(buf)', UNCHANGED <<ended, fd>>, Emit(segs, next),
         ~failed /\ ~ended => Rests(client, g), Carries(segs, g, k),
         Holds(next, k, written'), Above(written', written)
  PROVE  StreamInv' /\ StreamMoves
<1>1. written' \in Counts /\ Above(written', k) /\ k \in Counts
  BY HoldsTyped
<1>2. /\ client' \in Client /\ Above(client'.got, client.got)
      /\ Above(written', client'.got)
      /\ ~failed' /\ ~ended => Rests(client', k)
      /\ ~failed' => ~client'.torn /\ ~client'.astray
                     /\ (ended => client'.ended)
      /\ ~ended => ~client'.ended /\ ~client'.extra
  BY <1>1, EmitReceived
<1>3. PICK h : Holds(buf', h, written') /\ (~failed' /\ ~ended => h = k)
  BY EmitHolds DEF StreamInv
<1>4. Matched'
  BY <1>2, <1>3 DEF Matched
<1>5. Received' /\ Uncut' /\ NotOver' /\ EndedFirst'
  BY <1>1, <1>2 DEF Received, Uncut, NotOver, EndedFirst, StreamInv
<1>6. /\ failed => failed'
      /\ fd = "closed" => client' = client /\ failed' = failed
  BY DEF Emit, Sent, NotSent
<1>7. StreamMoves
  BY <1>2, <1>6 DEF StreamMoves
<1>8. QED
  BY <1>4, <1>5, <1>7 DEF StreamInv

(* fcgi_write keeps the stream's invariant. *)
LEMMA WriteStream ==
  ASSUME NEW t \in Stream, NEW len \in Lens, StreamInv, Write(t, len), Within(buf)'
  PROVE  StreamInv' /\ StreamMoves
<1> DEFINE p == Packed(buf, t, written[t], len)
<1>1. len \in Nat
  BY RequestAssumption
<1>2. PICK g : Holds(buf, g, written) /\ (~failed /\ ~ended => Rests(client, g))
  BY DEF StreamInv, Matched
<1>3. PICK k : Carries(p.segs, g, k) /\ Holds(p.buf, k, Plus(written, t, len))
  BY <1>1, <1>2, PackedHolds DEF StreamInv, Within
<1>4. /\ written' = Plus(written, t, len)
      /\ UNCHANGED <<ended, fd>>
      /\ IF p.segs = <<>> THEN buf' = p.buf /\ UNCHANGED <<client, failed, keep>>
         ELSE Emit(p.segs, p.buf)
  BY DEF Write, Plus
<1>5. Above(written', written) /\ written' \in Counts
  BY <1>1, <1>4, OwnStream, PlusFacts
<1> HIDE DEF p
<1>6. CASE p.segs # <<>>
  BY <1>2, <1>3, <1>4, <1>5, <1>6, EmittedStream
<1>7. CASE p.segs = <<>>
  <2>1. g = k
    BY <1>3, <1>7, CarriesNone
  <2>2. Matched'
    BY <1>2, <1>3, <1>4, <1>7, <2>1 DEF Matched
  <2>3. Above(written', client.got)
    BY <1>5, OwnStream, AboveTogether DEF StreamInv, Received
  <2>4. Received' /\ Uncut' /\ NotOver' /\ EndedFirst'
    BY <1>4, <1>5, <1>7, <2>3 DEF StreamInv, Received, Uncut, NotOver, EndedFirst
  <2>5. StreamMoves
    BY <1>4, <1>5, <1>7, OwnStream DEF StreamMoves
  <2>6. QED
    BY <2>2, <2>4, <2>5 DEF StreamInv
<1>8. QED
  BY <1>6, <1>7

(* fcgi_flush keeps the stream's invariant. *)
LEMMA FlushStream ==
  ASSUME StreamInv, Flush, Within(buf)'
  PROVE  StreamInv' /\ StreamMoves
<1> DEFINE p == Flushed(buf, FALSE)
<1>1. PICK g : Holds(buf, g, written) /\ (~failed /\ ~ended => Rests(client, g))
  BY DEF StreamInv, Matched
<1>2. Carries(p.segs, g, written)
  BY <1>1, FlushedHolds DEF StreamInv, Within
<1>3. /\ written' = written /\ UNCHANGED <<ended, fd>>
      /\ Emit(p.segs, [Empty EXCEPT !.top = p.top])
  BY DEF Flush
<1>4. Holds([Empty EXCEPT !.top = p.top], written, written')
  BY <1>3, OwnStream, DroppedHolds
<1>5. Above(written', written)
  BY <1>3, OwnStream
<1> HIDE DEF p
<1>6. QED
  BY <1>1, <1>2, <1>3, <1>4, <1>5, EmittedStream

(* Ending the request keeps the stream's invariant. *)
LEMMA EndStream ==
  ASSUME StreamInv, End, UNCHANGED written, Within(buf)',
         fd = "closed" => client' = client /\ failed' = failed /\ fd' = "closed",
         fd' \in {"open", "closed"}
  PROVE  StreamInv' /\ StreamMoves
<1>1. CASE ended /\ UNCHANGED <<buf, client, failed, keep, ended>>
  <2>1. Received' /\ Matched' /\ Uncut' /\ NotOver' /\ EndedFirst'
    BY <1>1 DEF StreamInv, Received, Matched, Uncut, NotOver, EndedFirst
  <2>2. StreamMoves
    BY <1>1, OwnStream DEF StreamMoves
  <2>3. QED
    BY <2>1, <2>2 DEF StreamInv
<1>2. CASE /\ ~ended
           /\ LET p == Flushed(buf, TRUE)
              IN Emit(p.segs, [Empty EXCEPT !.top = p.top])
           /\ ended' = TRUE
  <2> DEFINE p == Flushed(buf, TRUE)
  <2>1. PICK g : Holds(buf, g, written) /\ (~failed /\ ~ended => Rests(client, g))
    BY DEF StreamInv, Matched
  <2>2. PICK segs : Carries(segs, g, written) /\ p.segs = Append(segs, EndRecord)
    BY <2>1, FlushedHolds DEF StreamInv, Within
  <2>3. Emit(Append(segs, EndRecord), [Empty EXCEPT !.top = p.top])
    BY <1>2, <2>2
  <2>4. /\ client' \in Client /\ Above(client'.got, client.got)
        /\ Above(written, client'.got) /\ ~client'.extra
        /\ ~failed' => /\ client'.got = written /\ client'.ended
                       /\ ~client'.torn /\ ~client'.astray
    BY <1>2, <2>1, <2>2, <2>3, EmitEnded
  <2>5. Holds(buf', written, written)
    <3>1. \E n : buf' = [Empty EXCEPT !.top = n]
      BY <2>3 DEF Emit
    <3>2. QED
      BY <3>1, OwnStream, DroppedHolds
  <2>6. failed => failed'
    BY <2>3 DEF Emit, NotSent
  <2>7. Received' /\ Matched' /\ Uncut' /\ NotOver' /\ EndedFirst'
    BY <1>2, <2>4, <2>5, OwnStream
       DEF StreamInv, Received, Matched, Uncut, NotOver, EndedFirst
  <2>8. StreamMoves
    BY <1>2, <2>4, <2>6, OwnStream DEF StreamMoves
  <2>9. QED
    BY <2>7, <2>8 DEF StreamInv
<1>3. QED
  BY <1>1, <1>2 DEF End

(* Every step keeps the stream's invariant and only adds to the response. *)
LEMMA StreamStep ==
  ASSUME StreamInv, [Next]_vars
  PROVE  StreamInv' /\ StreamMoves
<1>1. Within(buf)'
  BY StepWithin DEF StreamInv
<1>2. CASE \E t \in Stream, len \in Lens : Write(t, len)
  BY <1>1, <1>2, WriteStream
<1>3. CASE Flush
  BY <1>1, <1>3, FlushStream
<1>4. CASE FinishEarly
  <2>1. End /\ written' = written /\ fd = "open" /\ fd' \in {"open", "closed"}
    BY <1>4 DEF FinishEarly, CloseUnlessKept
  <2>2. QED
    BY <1>1, <2>1, EndStream
<1>5. CASE EndRequest
  <2>1. CASE fd = "open"
    <3>1. End /\ written' = written /\ fd' \in {"open", "closed"}
      BY <1>5, <2>1 DEF EndRequest
    <3>2. QED
      BY <1>1, <2>1, <3>1, EndStream
  <2>2. CASE fd # "open"
    <3>1. UNCHANGED <<buf, client, failed, keep, ended, written>> /\ fd' = "closed"
      BY <1>5, <2>2 DEF EndRequest
    <3>2. fd = "closed"
      BY <2>2 DEF StreamInv, EndedFirst
    <3>3. QED
      BY <3>1, <3>2, StillStream
  <2>3. QED
    BY <2>1, <2>2
<1>6. CASE ReadRequest \/ ReadParams \/ ReadBodyHeader \/ ReadBodyContent
           \/ \E block \in Blocks : ReadPost(block)
  BY <1>6, StillStream DEF ReadRequest, ReadParams, ReadBodyHeader, ReadBodyContent,
                           ReadPost, outVars
<1>7. CASE UNCHANGED vars
  BY <1>7, StillStream DEF vars, outVars
<1>8. QED
  BY <1>2, <1>3, <1>4, <1>5, <1>6, <1>7 DEF Next

(* The stream's invariant holds at first. *)
LEMMA StreamInit ==
  ASSUME Init
  PROVE  StreamInv
<1>1. Within(buf) /\ buf = Empty
  BY EmptyFacts, BufferAssumption DEF Init, Within, Reserved, EndSize
<1>2. /\ client \in Client /\ written \in Counts /\ client = NewClient
      /\ written = Nothing /\ client.got = Nothing
  BY DEF Init, Client, Counts, NewClient, Nothing, Stream
<1>3. Holds(buf, Nothing, written)
  BY <1>1, <1>2, EmptyHolds
<1>4. Rests(client, Nothing)
  <2>1. client = Resting(Nothing, "stdout") /\ "stdout" \in Stream
    BY <1>2 DEF NewClient, Nothing, Resting, InRecord, Stream
  <2>2. QED
    BY <2>1 DEF Rests
<1>5. Received
  BY <1>2 DEF Received, Above, Nothing
<1>6. Uncut /\ NotOver /\ EndedFirst
  BY <1>2 DEF Init, Uncut, NotOver, EndedFirst, NewClient
<1>7. QED
  BY <1>1, <1>3, <1>4, <1>5, <1>6 DEF StreamInv, Matched

(* The stream's invariant always holds. *)
LEMMA StreamAlways == Spec => []StreamInv
<1>1. Init => StreamInv
  BY StreamInit
<1>2. StreamInv /\ [Next]_vars => StreamInv'
  BY StreamStep
<1>3. QED
  BY <1>1, <1>2, PTL DEF Spec

(* As long as no write was cut and the request is not ended, every byte    *)
(* the script has written has arrived in its place or is in the buffer,    *)
(* whatever is written in whatever pieces to whichever stream, however     *)
(* small the buffer (fcgi_write, open_packet, close_packet, fcgi_flush).   *)
THEOREM NoByteIsLost == Spec => []NothingLost
<1>1. StreamInv => NothingLost
  <2> SUFFICES ASSUME StreamInv, ~failed, ~ended
               PROVE  /\ ~client.torn /\ ~client.astray
                      /\ client.need = 0 /\ client.pad = 0
                      /\ \A t \in Stream : client.got[t] + Buffered(buf, t) = written[t]
    BY DEF NothingLost
  <2>1. PICK g : Holds(buf, g, written) /\ Rests(client, g)
    BY DEF StreamInv, Matched
  <2>2. /\ client.got = g /\ client.need = 0 /\ client.pad = 0
        /\ ~client.torn /\ ~client.astray
    BY <2>1, RestsFacts
  <2>3. \A t \in Stream : g[t] + Buffered(buf, t) = written[t]
    BY <2>1, BufferedFacts
  <2>4. QED
    BY <2>2, <2>3
<1>2. QED
  BY <1>1, StreamAlways, PTL

(* A client that was left in the middle of a record has its connection     *)
(* closed, not kept: only a cut write does that to a client, and a cut     *)
(* write resets keep (fcgi_write, fcgi_flush).                             *)
THEOREM TornConnectionIsDropped == Spec => []TornIsNotKept
<1>1. StreamInv /\ CutIsNotKept => TornIsNotKept
  BY DEF StreamInv, Uncut, CutIsNotKept, TornIsNotKept
<1>2. QED
  BY <1>1, StreamAlways, CutConnectionIsNotKept, PTL

-----------------------------------------------------------------------------
(* The abstract streams.                                                   *)

(* When no connection that is kept is finished early, the descriptor is    *)
(* closed with the end of the request and nothing follows it.              *)
Finished == ended => fd = "closed" /\ ~client.extra

(* An ended response stays as it is while the connection is closed. *)
LEMMA FinishedStep ==
  ASSUME "finish_kept" \notin Conduct, StreamInv, StreamMoves, Finished, [Next]_vars
  PROVE  Finished'
<1>1. CASE ended
  <2>1. fd = "closed" /\ ~client.extra
    BY <1>1 DEF Finished
  <2>2. QED
    BY <2>1 DEF Finished, StreamMoves
<1>2. CASE ~ended /\ ended'
  <2>1. ~client'.extra
    BY <1>2 DEF StreamMoves
  <2>2. FinishEarly \/ EndRequest
    BY <1>2 DEF Next, vars, outVars, ReadRequest, ReadParams, ReadPost,
                ReadBodyHeader, ReadBodyContent, Write, Flush
  <2>3. CASE FinishEarly
    <3>1. ~keep /\ End /\ fd' = IF keep' THEN fd ELSE "closed"
      BY <2>3 DEF FinishEarly, CloseUnlessKept
    <3>2. ~keep'
      <4>1. keep' = keep \/ keep' = FALSE
        BY <3>1 DEF End, Emit
      <4>2. QED
        BY <3>1, <4>1
    <3>3. QED
      BY <2>1, <3>1, <3>2 DEF Finished
  <2>4. CASE EndRequest
    BY <2>1, <2>4 DEF EndRequest, Finished
  <2>5. QED
    BY <2>2, <2>3, <2>4
<1>3. CASE ~ended'
  BY <1>3 DEF Finished
<1>4. QED
  BY <1>1, <1>2, <1>3

(* Every step is one of the abstract response, or changes nothing there. *)
LEMMA StreamRefines ==
  ASSUME StreamInv, StreamInv', StreamMoves, Finished, Finished'
  PROVE  [Response!Next]_(Response!vars)
<1>1. /\ \A t \in Stream : /\ written[t] <= written'[t]
                           /\ client.got[t] <= client'.got[t]
                           /\ client'.got[t] <= written'[t]
  BY DEF StreamMoves, StreamInv, Received, Above
<1>2. ~client.extra /\ ~client'.extra
  BY DEF Finished, StreamInv, NotOver
<1>3. CASE failed
  <2>1. failed'
    BY <1>3 DEF StreamMoves
  <2>2. Response!Proceed
    BY <1>1, <1>2, <1>3, <2>1 DEF Response!Proceed, Response!Progress
  <2>3. QED
    BY <2>2 DEF Response!Next
<1>4. CASE ~failed /\ ended
  <2>1. fd = "closed" /\ client' = client /\ failed' = failed /\ client.ended
    BY <1>4 DEF Finished, StreamMoves, StreamInv, Uncut
  <2>2. Response!Discard
    BY <1>1, <1>2, <1>4, <2>1 DEF Response!Discard
  <2>3. QED
    BY <2>2 DEF Response!Next
<1>5. CASE ~failed /\ ~ended
  <2>1. ~client.ended
    BY <1>5 DEF StreamInv, NotOver
  <2>2. CASE failed'
    <3>1. Response!Break
      BY <1>1, <1>2, <1>5, <2>1, <2>2 DEF Response!Break
    <3>2. QED
      BY <3>1 DEF Response!Next
  <2>3. CASE ~failed' /\ ended'
    <3>1. client'.ended /\ written' = written /\ client'.got = written
      BY <1>5, <2>3 DEF StreamMoves, StreamInv, Uncut
    <3>2. Response!End
      BY <1>2, <1>5, <2>1, <2>3, <3>1 DEF Response!End
    <3>3. QED
      BY <3>2 DEF Response!Next
  <2>4. CASE ~failed' /\ ~ended'
    <3>1. ~client'.ended
      BY <2>4 DEF StreamInv, NotOver
    <3>2. Response!Proceed
      BY <1>1, <1>2, <1>5, <2>1, <2>4, <3>1 DEF Response!Proceed, Response!Progress
    <3>3. QED
      BY <3>2 DEF Response!Next
  <2>5. QED
    BY <2>2, <2>3, <2>4
<1>6. QED
  BY <1>3, <1>4, <1>5

(* The layer implements two streams with an end, as long as no connection  *)
(* that is kept is finished early: a client that is told the request is    *)
(* over has all of both, and gets nothing behind it (fcgi_end after        *)
(* fcgi_flush, once; fcgi_close).                                          *)
THEOREM StreamsAreImplemented ==
  ASSUME "finish_kept" \notin Conduct
  PROVE  Spec => ImplementsStream
<1> DEFINE Inv == StreamInv /\ Finished
<1>1. Init => Inv
  BY StreamInit DEF Init, Finished
<1>2. Inv /\ [Next]_vars => Inv' /\ [Response!Next]_(Response!vars)
  BY StreamStep, FinishedStep, StreamRefines
<1>3. Init => Response!Init
  BY DEF Init, NewClient, Response!Init
<1>4. QED
  BY <1>1, <1>2, <1>3, PTL DEF Spec, ImplementsStream, Response!Spec

-----------------------------------------------------------------------------
(* The request as a sequence of records: where each of them starts, and    *)
(* how much of the body is in front of it.                                 *)

AddSize(sum, r) == sum + RecSize(r)
AddBody(sum, r) == sum + BodyBytes(r)
Sizing == INSTANCE FoldTheorems WITH Op <- AddSize
Bodying == INSTANCE FoldTheorems WITH Op <- AddBody

(* The size of a request is a fold over its records. *)
LEMMA BytesIsFold ==
  ASSUME NEW rs
  PROVE  Bytes(rs) = Sizing!Fold(0, rs)
BY DEF Bytes, AddSize, Sizing!Fold, Sizing!FoldLeft, FoldLeft,
       Sizing!MapThenFoldSet, MapThenFoldSet, Sizing!Max, Max

(* The length of a body is a fold over the records. *)
LEMMA BodyLengthIsFold ==
  ASSUME NEW rs
  PROVE  BodyLength(rs) = Bodying!Fold(0, rs)
BY DEF BodyLength, AddBody, Bodying!Fold, Bodying!FoldLeft, FoldLeft,
       Bodying!MapThenFoldSet, MapThenFoldSet, Bodying!Max, Max

Record == [type : {"begin", "params", "stdin"}, len : 0 .. MaxContent, pad : 0 .. 255]

At(rs, i)     == Bytes(SubSeq(rs, 1, i - 1))
BodyAt(rs, i) == BodyLength(SubSeq(rs, 1, i - 1))

(* The sizes of a record. *)
LEMMA RecordFacts ==
  ASSUME NEW r \in Record
  PROVE  /\ r.len \in Nat /\ r.pad \in Nat /\ RecSize(r) \in Nat
         /\ RecSize(r) = HeaderSize + r.len + r.pad /\ RecSize(r) >= HeaderSize
         /\ BodyBytes(r) \in Nat
         /\ BodyBytes(r) = IF r.type = "stdin" THEN r.len ELSE 0
BY DEF Record, RecSize, BodyBytes, HeaderSize

(* The bounds of a record's lengths. *)
LEMMA RecordBounds ==
  ASSUME NEW r \in Record
  PROVE  /\ r.len \in Nat /\ r.len <= MaxContent
         /\ r.pad \in Nat /\ r.pad <= 255
<1>1. MaxContent \in Nat
  BY DEF MaxContent
<1>2. r.len \in 0 .. MaxContent /\ r.pad \in 0 .. 255
  BY DEF Record
<1>3. QED
  BY <1>1, <1>2

(* Where a record begins, from where the one before does. *)
LEMMA AtFacts ==
  ASSUME NEW rs \in Seq(Record)
  PROVE  /\ At(rs, 1) = 0 /\ BodyAt(rs, 1) = 0
         /\ At(rs, Len(rs) + 1) = Bytes(rs)
         /\ BodyAt(rs, Len(rs) + 1) = BodyLength(rs)
         /\ \A i \in 1 .. Len(rs) :
              /\ At(rs, i + 1) = At(rs, i) + RecSize(rs[i])
              /\ BodyAt(rs, i + 1) = BodyAt(rs, i) + BodyBytes(rs[i])
         /\ \A i \in 1 .. Len(rs) + 1 : At(rs, i) \in Nat /\ BodyAt(rs, i) \in Nat
<1>1. SubSeq(rs, 1, 1 - 1) = <<>> /\ SubSeq(rs, 1, Len(rs) + 1 - 1) = rs
  <2>1. Len(rs) \in Nat /\ Len(rs) + 1 - 1 = Len(rs) /\ 1 - 1 = 0
    BY LenProperties
  <2>2. SubSeq(rs, 1, 0) = <<>>
    BY SubSeqEmpty
  <2>3. SubSeq(rs, 1, Len(rs)) = rs
    BY SubSeqFull
  <2>4. QED
    BY <2>1, <2>2, <2>3
<1>2. At(rs, 1) = 0 /\ BodyAt(rs, 1) = 0
  BY <1>1, BytesIsFold, BodyLengthIsFold, Sizing!FoldOfEmpty, Bodying!FoldOfEmpty
     DEF At, BodyAt
<1>3. At(rs, Len(rs) + 1) = Bytes(rs) /\ BodyAt(rs, Len(rs) + 1) = BodyLength(rs)
  <2> DEFINE k == Len(rs) + 1
  <2>1. SubSeq(rs, 1, k - 1) = rs
    BY <1>1
  <2> HIDE DEF k
  <2>2. At(rs, k) = Bytes(rs) /\ BodyAt(rs, k) = BodyLength(rs)
    BY <2>1 DEF At, BodyAt
  <2>3. QED
    BY <2>2 DEF k
<1>4. ASSUME NEW i \in 1 .. Len(rs)
      PROVE  /\ At(rs, i + 1) = At(rs, i) + RecSize(rs[i])
             /\ BodyAt(rs, i + 1) = BodyAt(rs, i) + BodyBytes(rs[i])
  <2> DEFINE p == SubSeq(rs, 1, i - 1)
  <2>1. i \in Nat /\ Len(rs) \in Nat /\ rs[i] \in Record /\ i + 1 - 1 = i
    BY LenProperties, ElementOfSeq
  <2>2. p \in Seq(Record)
    <3>1. \A j \in 1 .. i - 1 : rs[j] \in Record
      BY <2>1, ElementOfSeq
    <3>2. QED
      BY <2>1, <3>1, SubSeqProperties
  <2>3. SubSeq(rs, 1, i) = p \o <<rs[i]>>
    <3>1. 1 \in 1 .. Len(rs) /\ i \in 1 .. Len(rs)
      BY <2>1
    <3>2. QED
      BY <3>1, SubSeqRecursiveSecond
  <2>4. p \o <<rs[i]>> = Append(p, rs[i])
    BY <2>1, <2>2, AppendIsConcat
  <2> HIDE DEF p
  <2> DEFINE j == i + 1
  <2>5. SubSeq(rs, 1, j - 1) = Append(p, rs[i])
    BY <2>1, <2>3, <2>4
  <2>6. Bytes(Append(p, rs[i])) = Bytes(p) + RecSize(rs[i])
    BY <2>1, <2>2, BytesIsFold, Sizing!FoldOfAppend DEF AddSize
  <2>7. BodyLength(Append(p, rs[i])) = BodyLength(p) + BodyBytes(rs[i])
    BY <2>1, <2>2, BodyLengthIsFold, Bodying!FoldOfAppend DEF AddBody
  <2>8. /\ At(rs, i) = Bytes(p) /\ BodyAt(rs, i) = BodyLength(p)
        /\ i + 1 = j
    BY DEF At, BodyAt, p
  <2> HIDE DEF j
  <2>9. /\ At(rs, j) = Bytes(Append(p, rs[i]))
        /\ BodyAt(rs, j) = BodyLength(Append(p, rs[i]))
    BY <2>5 DEF At, BodyAt
  <2>10. QED
    BY <2>6, <2>7, <2>8, <2>9
<1>5. \A i \in 1 .. Len(rs) + 1 : At(rs, i) \in Nat /\ BodyAt(rs, i) \in Nat
  <2> DEFINE T == {k \in Nat : k <= Len(rs) => At(rs, k + 1) \in Nat
                                               /\ BodyAt(rs, k + 1) \in Nat}
  <2>1. 0 \in T
    BY <1>2
  <2>2. ASSUME NEW k \in Nat, k \in T PROVE k + 1 \in T
    <3>1. CASE k + 1 <= Len(rs)
      <4>1. k + 1 \in 1 .. Len(rs) /\ Len(rs) \in Nat /\ rs[k + 1] \in Record
        BY <3>1, LenProperties, ElementOfSeq
      <4>2. At(rs, k + 1) \in Nat /\ BodyAt(rs, k + 1) \in Nat
        BY <2>2, <3>1, <4>1
      <4>3. RecSize(rs[k + 1]) \in Nat /\ BodyBytes(rs[k + 1]) \in Nat
        BY <4>1, RecordFacts
      <4>4. At(rs, k + 1 + 1) \in Nat /\ BodyAt(rs, k + 1 + 1) \in Nat
        BY <1>4, <4>1, <4>2, <4>3
      <4>5. QED
        BY <4>4
    <3>2. QED
      BY <3>1, LenProperties
  <2> HIDE DEF T
  <2>3. Nat \subseteq T
    BY <2>1, <2>2, Sizing!InductionOnSet
  <2>4. ASSUME NEW i \in 1 .. Len(rs) + 1 PROVE At(rs, i) \in Nat /\ BodyAt(rs, i) \in Nat
    <3>1. i - 1 \in Nat /\ i - 1 <= Len(rs) /\ (i - 1) + 1 = i
      BY LenProperties
    <3>2. i - 1 \in T
      BY <2>3, <3>1
    <3>3. QED
      BY <3>1, <3>2 DEF T
  <2>5. QED
    BY <2>4
<1>6. QED
  BY <1>2, <1>3, <1>4, <1>5

(* A record ends where a later one begins, or before. *)
LEMMA Apart ==
  ASSUME NEW rs \in Seq(Record), NEW i \in 1 .. Len(rs), NEW j \in 1 .. Len(rs) + 1,
         i < j
  PROVE  At(rs, i) + RecSize(rs[i]) <= At(rs, j) /\ BodyAt(rs, i) <= BodyAt(rs, j)
                /\ BodyAt(rs, i) + BodyBytes(rs[i]) <= BodyAt(rs, j)
<1> DEFINE P(k) == /\ At(rs, i) + RecSize(rs[i]) <= At(rs, k)
                   /\ BodyAt(rs, i) + BodyBytes(rs[i]) <= BodyAt(rs, k)
           T == {d \in Nat : i + 1 + d <= Len(rs) + 1 => P(i + 1 + d)}
<1>1. /\ Len(rs) \in Nat /\ i \in Nat /\ j \in Nat /\ rs[i] \in Record
      /\ At(rs, i) \in Nat /\ BodyAt(rs, i) \in Nat
      /\ RecSize(rs[i]) \in Nat /\ BodyBytes(rs[i]) \in Nat
      /\ At(rs, i + 1) = At(rs, i) + RecSize(rs[i])
      /\ BodyAt(rs, i + 1) = BodyAt(rs, i) + BodyBytes(rs[i])
  <2>1. Len(rs) \in Nat /\ i \in Nat /\ j \in Nat
    BY LenProperties
  <2>2. i \in 1 .. Len(rs) + 1
    BY <2>1
  <2>3. rs[i] \in Record
    BY ElementOfSeq
  <2>4. RecSize(rs[i]) \in Nat /\ BodyBytes(rs[i]) \in Nat
    BY <2>3, RecordFacts
  <2>5. /\ At(rs, i) \in Nat /\ BodyAt(rs, i) \in Nat
        /\ At(rs, i + 1) = At(rs, i) + RecSize(rs[i])
        /\ BodyAt(rs, i + 1) = BodyAt(rs, i) + BodyBytes(rs[i])
    BY <2>2, AtFacts
  <2>6. QED
    BY <2>1, <2>3, <2>4, <2>5
<1>2. 0 \in T
  <2>1. i + 1 + 0 = i + 1
    BY <1>1
  <2>2. P(i + 1)
    BY <1>1
  <2>3. QED
    BY <2>1, <2>2
<1>3. ASSUME NEW d \in Nat, d \in T PROVE d + 1 \in T
  <2>1. CASE i + 1 + (d + 1) <= Len(rs) + 1
    <3> DEFINE m == i + 1 + d
    <3>1. m \in 1 .. Len(rs) /\ m + 1 = i + 1 + (d + 1) /\ rs[m] \in Record
      BY <1>1, <2>1, ElementOfSeq
    <3>2. P(m)
      BY <1>3, <3>1
    <3> HIDE DEF m
    <3>3. /\ At(rs, m) \in Nat /\ BodyAt(rs, m) \in Nat
          /\ RecSize(rs[m]) \in Nat /\ BodyBytes(rs[m]) \in Nat
          /\ At(rs, m + 1) = At(rs, m) + RecSize(rs[m])
          /\ BodyAt(rs, m + 1) = BodyAt(rs, m) + BodyBytes(rs[m])
      <4>1. m \in 1 .. Len(rs) + 1
        BY <1>1, <3>1
      <4>2. At(rs, m) \in Nat /\ BodyAt(rs, m) \in Nat
        BY <4>1, AtFacts
      <4>3. RecSize(rs[m]) \in Nat /\ BodyBytes(rs[m]) \in Nat
        BY <3>1, RecordFacts
      <4>4. QED
        BY <3>1, <4>2, <4>3, AtFacts
    <3>4. /\ At(rs, i) + RecSize(rs[i]) <= At(rs, m)
          /\ BodyAt(rs, i) + BodyBytes(rs[i]) <= BodyAt(rs, m)
      BY <3>2
    <3>5. P(m + 1)
      <4> DEFINE a == At(rs, i) + RecSize(rs[i])
                 b == BodyAt(rs, i) + BodyBytes(rs[i])
                 c == At(rs, m)  d1 == BodyAt(rs, m)
                 x == RecSize(rs[m])  y == BodyBytes(rs[m])
      <4>1. a \in Nat /\ b \in Nat
        BY <1>1
      <4>2. c \in Nat /\ d1 \in Nat /\ x \in Nat /\ y \in Nat
        BY <3>3
      <4>3. a <= c /\ b <= d1
        BY <3>4
      <4>4. At(rs, m + 1) = c + x /\ BodyAt(rs, m + 1) = d1 + y
        BY <3>3
      <4> HIDE DEF a, b, c, d1, x, y
      <4>5. a <= At(rs, m + 1) /\ b <= BodyAt(rs, m + 1)
        BY <4>1, <4>2, <4>3, <4>4
      <4>6. QED
        BY <4>5 DEF a, b
    <3>6. QED
      BY <3>1, <3>5 DEF m
  <2>2. QED
    BY <2>1
<1> HIDE DEF T
<1>4. Nat \subseteq T
  BY <1>2, <1>3, Sizing!InductionOnSet
<1>5. j - i - 1 \in Nat /\ i + 1 + (j - i - 1) = j
  BY <1>1
<1>6. P(j)
  <2>1. j - i - 1 \in T
    BY <1>4, <1>5
  <2>2. QED
    BY <1>5, <2>1 DEF T
<1>7. At(rs, j) \in Nat /\ BodyAt(rs, j) \in Nat
  BY AtFacts
<1>8. QED
  BY <1>1, <1>6, <1>7

(* The parameters end with record e. *)
Border(rs, e) ==
  /\ rs \in Seq(Record) /\ e \in 2 .. Len(rs) - 1
  /\ \A i \in 1 .. Len(rs) :
       /\ rs[i].type = CASE i = 1 -> "begin"
                         [] i \in 2 .. e -> "params"
                         [] i > e -> "stdin"
       /\ rs[i].len = 0 <=> i \in {e, Len(rs)}
       /\ i \in {e, Len(rs)} => rs[i].pad = 0

(* A well formed request has an end of its parameters. *)
LEMMA BorderExists ==
  ASSUME WellFormed(request)
  PROVE  request.keep \in BOOLEAN /\ \E e : Border(recs, e)
BY DEF WellFormed, Border, Record, recs

(* What lies before and after the end of the parameters. *)
LEMMA BorderFacts ==
  ASSUME NEW rs, NEW e, Border(rs, e)
  PROVE  /\ rs \in Seq(Record) /\ Len(rs) \in Nat /\ e \in Nat
         /\ 2 <= e /\ e + 1 <= Len(rs)
         /\ \A i \in 1 .. Len(rs) : rs[i] \in Record
         /\ \A i \in 2 .. e : rs[i].type = "params"
         /\ \A i \in e + 1 .. Len(rs) : rs[i].type = "stdin"
         /\ rs[1].type = "begin"
         /\ \A i \in 1 .. Len(rs) : rs[i].len = 0 <=> i = e \/ i = Len(rs)
         /\ rs[e].pad = 0
<1>1. /\ rs \in Seq(Record) /\ Len(rs) \in Nat /\ e \in Nat
      /\ 2 <= e /\ e + 1 <= Len(rs) /\ 1 \in 1 .. Len(rs)
      /\ e \in 1 .. Len(rs)
  BY LenProperties DEF Border
<1>2. \A i \in 1 .. Len(rs) : rs[i] \in Record
  BY <1>1, ElementOfSeq
<1>3. ASSUME NEW i \in 2 .. e PROVE rs[i].type = "params"
  <2>1. i \in 1 .. Len(rs) /\ i # 1
    BY <1>1
  <2>2. QED
    BY <2>1 DEF Border
<1>4. ASSUME NEW i \in e + 1 .. Len(rs) PROVE rs[i].type = "stdin"
  <2>1. i \in 1 .. Len(rs) /\ i # 1 /\ i \notin 2 .. e /\ i > e
    BY <1>1
  <2>2. QED
    BY <2>1 DEF Border
<1>5. rs[1].type = "begin" /\ rs[e].pad = 0
  BY <1>1 DEF Border
<1>6. \A i \in 1 .. Len(rs) : rs[i].len = 0 <=> i = e \/ i = Len(rs)
  BY DEF Border
<1>7. QED
  BY <1>1, <1>2, <1>3, <1>4, <1>5, <1>6

(* Nothing of the body is in front of record e + 1 or behind the one       *)
(* before the last.                                                        *)
LEMMA BodyBetween ==
  ASSUME NEW rs, NEW e, Border(rs, e)
  PROVE  /\ BodyAt(rs, e + 1) = 0
         /\ BodyAt(rs, Len(rs)) = BodyLength(rs)
         /\ BodyLength(rs) \in Nat
         /\ \A i \in 1 .. Len(rs) + 1 : BodyAt(rs, i) <= BodyLength(rs)
<1>1. /\ rs \in Seq(Record) /\ Len(rs) \in Nat /\ e \in Nat
      /\ 2 <= e /\ e + 1 <= Len(rs)
  BY BorderFacts
<1> DEFINE T == {k \in Nat : k <= e => BodyAt(rs, k + 1) = 0}
<1>2. 0 \in T
  BY <1>1, AtFacts
<1>3. ASSUME NEW k \in Nat, k \in T PROVE k + 1 \in T
  <2>1. CASE k + 1 <= e
    <3> DEFINE i == k + 1
    <3>1. /\ i \in 1 .. Len(rs) /\ i \in 1 .. e /\ rs[i] \in Record
          /\ rs[i].type # "stdin"
      <4>1. i \in 1 .. Len(rs) /\ (i = 1 \/ i \in 2 .. e)
        BY <1>1, <2>1
      <4>2. QED
        BY <1>1, <4>1, BorderFacts
    <3>2. BodyAt(rs, i) = 0
      BY <1>1, <1>3, <2>1
    <3> HIDE DEF i
    <3>3. BodyAt(rs, i + 1) = BodyAt(rs, i) + BodyBytes(rs[i])
      BY <1>1, <3>1, AtFacts
    <3>4. BodyBytes(rs[i]) = 0
      BY <3>1, RecordFacts
    <3>5. BodyAt(rs, i + 1) = 0
      BY <3>2, <3>3, <3>4
    <3>6. QED
      BY <3>5 DEF i
  <2>2. QED
    BY <1>1, <2>1
<1> HIDE DEF T
<1>4. Nat \subseteq T
  BY <1>2, <1>3, Sizing!InductionOnSet
<1>5. BodyAt(rs, e + 1) = 0
  <2>1. e \in T
    BY <1>1, <1>4
  <2>2. QED
    BY <1>1, <2>1 DEF T
<1> DEFINE n == Len(rs)
<1>6. n \in 1 .. n /\ n \in Nat /\ rs[n].len = 0 /\ rs[n].type = "stdin" /\ rs[n] \in Record
  BY <1>1, BorderFacts
<1>7. /\ BodyAt(rs, n + 1) = BodyAt(rs, n) + BodyBytes(rs[n])
      /\ BodyAt(rs, n + 1) = BodyLength(rs)
  BY <1>1, <1>6, AtFacts
<1>8. BodyAt(rs, n) \in Nat
  BY <1>1, AtFacts
<1>9. BodyBytes(rs[n]) = 0
  BY <1>6, RecordFacts
<1>10. BodyAt(rs, n) = BodyLength(rs) /\ BodyLength(rs) \in Nat
  BY <1>7, <1>8, <1>9
<1>11. ASSUME NEW i \in 1 .. n + 1 PROVE BodyAt(rs, i) <= BodyLength(rs)
  <2>1. CASE i = n + 1
    BY <1>7, <1>10, <2>1
  <2>2. CASE i # n + 1
    <3>1. i \in 1 .. n /\ n + 1 \in 1 .. Len(rs) + 1 /\ i < n + 1
      BY <1>1, <2>2
    <3>2. QED
      BY <1>1, <1>7, <3>1, Apart
  <2>3. QED
    BY <2>1, <2>2
<1>12. QED
  BY <1>5, <1>10, <1>11

(* The record found at the place where one begins is that one. *)
LEMMA RecordAtFacts ==
  ASSUME NEW i \in 1 .. Len(recs), recs \in Seq(Record)
  PROVE  RecordAt(At(recs, i)) = i
<1> DEFINE S == {j \in DOMAIN recs : Start(j) = At(recs, i)}
<1>1. DOMAIN recs = 1 .. Len(recs) /\ Len(recs) \in Nat
  BY LenProperties
<1>2. i \in S
  BY <1>1 DEF Start, At
<1>3. ASSUME NEW j \in S PROVE j = i
  <2>1. /\ j \in 1 .. Len(recs) /\ At(recs, j) = At(recs, i)
        /\ j \in 1 .. Len(recs) + 1 /\ i \in 1 .. Len(recs) + 1
        /\ recs[i] \in Record /\ recs[j] \in Record
    BY <1>1, ElementOfSeq DEF Start, At
  <2>2. /\ RecSize(recs[i]) \in Nat /\ RecSize(recs[i]) >= 8
        /\ RecSize(recs[j]) \in Nat /\ RecSize(recs[j]) >= 8
        /\ At(recs, i) \in Nat
    BY <2>1, RecordFacts, AtFacts DEF HeaderSize
  <2>3. ~(i < j)
    <3>1. i < j => At(recs, i) + RecSize(recs[i]) <= At(recs, j)
      BY <2>1, Apart
    <3>2. QED
      BY <2>1, <2>2, <3>1
  <2>4. ~(j < i)
    <3>1. j < i => At(recs, j) + RecSize(recs[j]) <= At(recs, i)
      BY <2>1, Apart
    <3>2. QED
      BY <2>1, <2>2, <3>1
  <2>5. QED
    BY <1>1, <2>1, <2>3, <2>4
<1>4. RecordAt(At(recs, i)) = IF S = {} THEN 0 ELSE CHOOSE j \in S : TRUE
  BY DEF RecordAt
<1> HIDE DEF S
<1>5. QED
  BY <1>2, <1>3, <1>4

(* A byte of a record's content, counted from the record's beginning. *)
LEMMA ContentByte ==
  ASSUME NEW a \in Nat, NEW len \in Nat, NEW pad \in Nat, NEW k \in Nat, k < len
  PROVE  /\ a + HeaderSize + k \in Nat
         /\ a + HeaderSize + k \in a + HeaderSize .. a + HeaderSize + len - 1
         /\ a + HeaderSize + k + 1 <= a + (HeaderSize + len + pad)
         /\ a <= a + HeaderSize + k
BY DEF HeaderSize

(* A byte among a record's content lies within the record. *)
LEMMA WithinRecord ==
  ASSUME NEW a \in Nat, NEW len \in Nat, NEW pad \in Nat, NEW o \in Nat,
         o \in a + HeaderSize .. a + HeaderSize + len - 1
  PROVE  o + 1 <= a + (HeaderSize + len + pad) /\ a <= o
BY DEF HeaderSize

(* Of two stretches that hold the same byte neither ends before the other. *)
LEMMA SameByteOverlaps ==
  ASSUME NEW a \in Nat, NEW r \in Nat, NEW b \in Nat, NEW q \in Nat, NEW o \in Nat,
         a <= o, o + 1 <= a + r, b <= o, o + 1 <= b + q
  PROVE  ~(a + r <= b) /\ ~(b + q <= a)
OBVIOUS

(* The k-th byte of the content of a record of the body. *)
LEMMA PlaceFacts ==
  ASSUME NEW i \in 1 .. Len(recs), recs \in Seq(Record), recs[i].type = "stdin",
         NEW k \in Nat, k < recs[i].len
  PROVE  Place(At(recs, i) + HeaderSize + k) = BodyAt(recs, i) + k + 1
<1> DEFINE o == At(recs, i) + HeaderSize + k
           S == {j \in DOMAIN recs :
                   /\ recs[j].type = "stdin"
                   /\ o \in Start(j) + HeaderSize ..
                            Start(j) + HeaderSize + recs[j].len - 1}
<1>1. DOMAIN recs = 1 .. Len(recs) /\ Len(recs) \in Nat
  BY LenProperties
<1>2. /\ recs[i] \in Record /\ i \in 1 .. Len(recs) + 1
      /\ recs[i].len \in Nat /\ At(recs, i) \in Nat /\ BodyAt(recs, i) \in Nat
      /\ RecSize(recs[i]) = HeaderSize + recs[i].len + recs[i].pad
      /\ recs[i].pad \in Nat /\ Start(i) = At(recs, i)
  BY <1>1, ElementOfSeq, RecordFacts, AtFacts DEF Start, At
<1>3. o \in Nat /\ i \in S
  <2>1. o \in Nat /\ o \in At(recs, i) + HeaderSize
                            .. At(recs, i) + HeaderSize + recs[i].len - 1
    BY <1>2, ContentByte
  <2>2. o \in Start(i) + HeaderSize .. Start(i) + HeaderSize + recs[i].len - 1
    BY <1>2, <2>1
  <2> HIDE DEF o
  <2>3. QED
    BY <1>1, <2>1, <2>2
<1>4. o + 1 <= At(recs, i) + RecSize(recs[i]) /\ At(recs, i) <= o
  BY <1>2, ContentByte
<1> HIDE DEF o
<1>5. ASSUME NEW j \in S PROVE j = i
  <2>1. /\ j \in 1 .. Len(recs) /\ j \in 1 .. Len(recs) + 1 /\ recs[j] \in Record
        /\ Start(j) = At(recs, j)
        /\ o \in Start(j) + HeaderSize .. Start(j) + HeaderSize + recs[j].len - 1
    BY <1>1, ElementOfSeq DEF Start, At
  <2>2. /\ RecSize(recs[j]) = HeaderSize + recs[j].len + recs[j].pad
        /\ recs[j].pad \in Nat /\ recs[j].len \in Nat /\ At(recs, j) \in Nat
    BY <2>1, RecordFacts, AtFacts
  <2>3. o + 1 <= At(recs, j) + RecSize(recs[j]) /\ At(recs, j) <= o
    BY <1>3, <2>1, <2>2, WithinRecord
  <2>4. RecSize(recs[i]) \in Nat /\ RecSize(recs[j]) \in Nat
    BY <1>2, <2>1, RecordFacts
  <2>5. /\ ~(At(recs, i) + RecSize(recs[i]) <= At(recs, j))
        /\ ~(At(recs, j) + RecSize(recs[j]) <= At(recs, i))
    BY <1>2, <1>3, <1>4, <2>2, <2>3, <2>4, SameByteOverlaps
  <2>6. ~(i < j)
    <3>1. i < j => At(recs, i) + RecSize(recs[i]) <= At(recs, j)
      BY <2>1, Apart
    <3>2. QED
      BY <2>5, <3>1
  <2>7. ~(j < i)
    <3>1. j < i => At(recs, j) + RecSize(recs[j]) <= At(recs, i)
      BY <1>2, <2>1, Apart
    <3>2. QED
      BY <2>5, <3>1
  <2>8. QED
    BY <1>1, <2>1, <2>6, <2>7
<1>6. Place(o) = IF S = {} THEN 0
                 ELSE LET j == CHOOSE j \in S : TRUE
                      IN BodyLength(SubSeq(recs, 1, j - 1)) + o - Start(j) - HeaderSize + 1
  BY DEF Place
<1>7. (CHOOSE j \in S : TRUE) = i /\ S # {}
  BY <1>3, <1>5
<1> HIDE DEF S
<1>8. Place(o) = BodyAt(recs, i) + o - At(recs, i) - HeaderSize + 1
  BY <1>2, <1>6, <1>7 DEF BodyAt
<1>9. BodyAt(recs, i) + o - At(recs, i) - HeaderSize + 1 = BodyAt(recs, i) + k + 1
  BY <1>2 DEF o, HeaderSize
<1>10. QED
  BY <1>8, <1>9 DEF o

(* The number of records that hold parameters. *)
LEMMA ParamsCounted ==
  ASSUME NEW e, Border(recs, e)
  PROVE  Cardinality(ParamRecords) = e - 2
<1>1. DOMAIN recs = 1 .. Len(recs) /\ Len(recs) \in Nat /\ e \in Nat /\ 2 <= e
      /\ e + 1 <= Len(recs)
  BY BorderFacts, LenProperties
<1>2. ASSUME NEW i \in 1 .. Len(recs)
      PROVE  recs[i].type = "params" /\ recs[i].len > 0 <=> i \in 2 .. e - 1
  <2>1. recs[i] \in Record /\ recs[i].len \in Nat
    BY BorderFacts, RecordFacts
  <2>2. CASE i = 1
    BY <2>2, BorderFacts
  <2>3. CASE i \in 2 .. e
    <3>1. recs[i].type = "params" /\ (recs[i].len = 0 <=> i = e \/ i = Len(recs))
      BY <2>3, BorderFacts
    <3>2. i # Len(recs)
      <4>1. i \in Nat /\ i <= e
        BY <1>1, <2>3
      <4> DEFINE n == Len(recs)
      <4>2. n \in Nat /\ e + 1 <= n
        BY <1>1
      <4> HIDE DEF n
      <4>3. i # n
        BY <1>1, <4>1, <4>2
      <4>4. QED
        BY <4>3 DEF n
    <3>3. recs[i].len > 0 <=> i # e
      BY <2>1, <3>1, <3>2
    <3>4. i # e <=> i \in 2 .. e - 1
      BY <1>1, <2>3
    <3>5. QED
      BY <3>1, <3>3, <3>4
  <2>4. CASE i \in e + 1 .. Len(recs)
    <3>1. recs[i].type = "stdin"
      BY <2>4, BorderFacts
    <3>2. QED
      BY <1>1, <2>4, <3>1
  <2>5. QED
    BY <1>1, <2>2, <2>3, <2>4
<1>3. ParamRecords = 2 .. e - 1
  BY <1>1, <1>2 DEF ParamRecords
<1>4. QED
  BY <1>1, <1>3, FS_Interval

(* CONTENT_LENGTH, once all parameters are read, is the length of the body. *)
LEMMA LengthFacts ==
  ASSUME NEW e, Border(recs, e)
  PROVE  /\ ContentLength \in Nat /\ ContentLength <= BodyLength(recs)
         /\ env = e - 2 => ContentLength = BodyLength(recs)
BY BodyBetween, ParamsCounted DEF ContentLength

-----------------------------------------------------------------------------
(* Where the request is read.                                              *)

(* Bytes of the body that have been read. *)
Taken == Len(body) + Len(call.bytes)

HeaderAt(i) == in_len = 0 /\ rd = At(recs, i) /\ Taken = BodyAt(recs, i)

InsideOf(i) ==
  /\ 1 <= in_len /\ in_len <= recs[i].len /\ in_pad = recs[i].pad
  /\ rd + in_len = At(recs, i) + HeaderSize + recs[i].len
  /\ Taken + in_len = BodyAt(recs, i) + recs[i].len

(* The request was cut off where nothing can be read any more. *)
CutOff == in_len = 0 /\ rd = arrived /\ call.bytes = <<>> /\ arrived # Bytes(recs)

Whereabouts(e) ==
  \/ \E i \in e + 1 .. Len(recs) + 1 : HeaderAt(i)
  \/ \E i \in e + 1 .. Len(recs) - 1 : InsideOf(i)
  \/ CutOff

Typed ==
  /\ arrived \in Nat /\ arrived <= Bytes(recs) /\ rd \in Nat /\ rd <= arrived
  /\ env \in Nat /\ in_len \in Nat /\ in_len <= MaxContent
  /\ in_pad \in Nat /\ in_pad <= 255
  /\ request_body \in BOOLEAN /\ post_read \in BOOLEAN
  /\ pc \in {"begin", "params", "script", "read", "closed"}

Flags == /\ keep \in BOOLEAN /\ ended \in BOOLEAN /\ failed \in BOOLEAN
         /\ request.keep \in BOOLEAN /\ writes \in Nat

Calls ==
  /\ call \in [block : Nat, left : Nat, bytes : Seq(Nat), total : Nat]
  /\ pc # "read" => call = NoCall
  /\ pc = "read" =>
       /\ ~post_read /\ Len(call.bytes) < call.left
       /\ call.total + call.left <= call.block
       /\ Len(body) + call.left <= ContentLength
       /\ call.total + call.left < call.block => Len(body) + call.left = ContentLength

Ordered ==
  /\ body \in Seq(Nat) /\ \A k \in 1 .. Len(body) : body[k] = k
  /\ \A k \in 1 .. Len(call.bytes) : call.bytes[k] = Len(body) + k

Reading(e) ==
  /\ pc = "begin" => rd = 0 /\ env = 0
  /\ pc = "params" => env + 2 <= e /\ rd = At(recs, env + 2)
  /\ pc \in {"begin", "params"} => body = <<>> /\ ~post_read /\ in_len = 0
  /\ pc \in {"script", "read", "closed"} =>
       /\ ~post_read => Whereabouts(e)
       /\ arrived = Bytes(recs) => env = e - 2
       /\ Len(body) <= ContentLength
       /\ arrived = Bytes(recs) /\ post_read => Len(body) = ContentLength

ReadInv == \E e : Border(recs, e) /\ Typed /\ Calls /\ Ordered /\ Reading(e)

(* The records are those of the request. *)
LEMMA SameRequest ==
  ASSUME UNCHANGED request
  PROVE  recs' = recs
BY DEF recs

(* CONTENT_LENGTH depends on the request and on the parameters read. *)
LEMMA SameLength ==
  ASSUME UNCHANGED <<request, env>>
  PROVE  ContentLength' = ContentLength
<1>1. recs' = recs /\ env' = env
  BY SameRequest
<1>2. ParamRecords' = ParamRecords
  BY <1>1 DEF ParamRecords
<1>3. QED
  BY <1>1, <1>2 DEF ContentLength

(* fcgi_read returns the first n bytes of what it has copied.              *)
LEMMA Returned ==
  ASSUME NEW bytes \in Seq(Nat), NEW n \in Nat, n <= Len(bytes),
         Calls, Ordered, pc = "read", Len(bytes) <= call.left,
         \A k \in 1 .. Len(bytes) : bytes[k] = Len(body) + k,
         ContentLength \in Nat, post_read \in BOOLEAN, UNCHANGED <<request, env>>,
         ReadReturns(n, bytes)
  PROVE  /\ Calls' /\ Ordered' /\ call'.bytes = <<>>
         /\ Len(body') = Len(body) + n /\ Len(body') <= ContentLength
         /\ pc' \in {"script", "read"} /\ post_read' \in BOOLEAN
         /\ n = 0 => post_read'
         /\ n # 0 /\ post_read' => Len(body') = ContentLength
<1> DEFINE s == SubSeq(bytes, 1, n)
<1>1. /\ call.block \in Nat /\ call.left \in Nat /\ call.total \in Nat
      /\ ~post_read /\ call.total + call.left <= call.block
      /\ Len(call.bytes) < call.left /\ Len(call.bytes) \in Nat
      /\ Len(body) + call.left <= ContentLength
      /\ call.total + call.left < call.block => Len(body) + call.left = ContentLength
      /\ body \in Seq(Nat) /\ Len(body) \in Nat /\ Len(bytes) \in Nat
  BY LenProperties DEF Calls, Ordered
<1>2. s \in Seq(Nat) /\ Len(s) = n /\ \A k \in 1 .. n : s[k] = bytes[k]
  <2>1. ASSUME NEW k \in 1 .. n PROVE bytes[k] \in Nat
    <3>1. k \in 1 .. Len(bytes)
      BY <1>1
    <3>2. QED
      BY <3>1, ElementOfSeq
  <2>2. /\ SubSeq(bytes, 1, n) \in Seq(Nat)
        /\ Len(SubSeq(bytes, 1, n)) = IF 1 <= n THEN n - 1 + 1 ELSE 0
        /\ \A k \in 1 .. n - 1 + 1 : SubSeq(bytes, 1, n)[k] = bytes[1 + k - 1]
    BY <2>1, SubSeqProperties
  <2>3. QED
    BY <2>2
<1>3. body' = body \o s
  BY DEF ReadReturns
<1> HIDE DEF s
<1>4. body' \in Seq(Nat) /\ Len(body') = Len(body) + n
  BY <1>1, <1>2, <1>3, ConcatProperties
<1>5. \A k \in 1 .. Len(body') : body'[k] = k
  <2>1. ASSUME NEW k \in 1 .. Len(body') PROVE body'[k] = k
    <3>1. body'[k] = IF k <= Len(body) THEN body[k] ELSE s[k - Len(body)]
      BY <1>1, <1>2, <1>3, <1>4, <2>1, ConcatProperties
    <3>2. CASE k <= Len(body)
      <4>1. k \in 1 .. Len(body)
        BY <1>1, <3>2
      <4>2. QED
        BY <3>1, <3>2, <4>1 DEF Ordered
    <3>3. CASE ~(k <= Len(body))
      <4> DEFINE b == Len(body)  m == Len(bytes)
      <4>1. k - Len(body) \in 1 .. n /\ k - Len(body) \in 1 .. Len(bytes)
        <5>1. b \in Nat /\ m \in Nat /\ k \in 1 .. b + n /\ n <= m /\ ~(k <= b)
          BY <1>1, <1>4, <3>3
        <5> HIDE DEF b, m
        <5>2. k - b \in 1 .. n /\ k - b \in 1 .. m
          BY <5>1
        <5>3. QED
          BY <5>2 DEF b, m
      <4>2. s[k - Len(body)] = Len(body) + (k - Len(body))
        BY <1>2, <4>1
      <4>3. Len(body) + (k - Len(body)) = k
        BY <1>1
      <4>4. QED
        BY <3>1, <3>3, <4>2, <4>3
    <3>4. QED
      BY <3>2, <3>3
  <2>2. QED
    BY <2>1
<1>6. ContentLength' = ContentLength
  BY SameLength
<1>7. CASE n > 0 /\ n < call.left
  <2>1. /\ call' = [call EXCEPT !.left = @ - n, !.total = @ + n, !.bytes = <<>>]
        /\ post_read' = post_read /\ pc' = "read"
    BY <1>7 DEF ReadReturns
  <2>2. call = [block |-> call.block, left |-> call.left, bytes |-> call.bytes,
                total |-> call.total]
    BY DEF Calls
  <2>3. call' = [block |-> call.block, left |-> call.left - n, bytes |-> <<>>,
                 total |-> call.total + n]
    BY <2>1, <2>2
  <2> DEFINE l == call.left  m == call.total  b == Len(body)
  <2>4. /\ l - n \in Nat /\ m + n \in Nat /\ 0 < l - n
        /\ (m + n) + (l - n) = m + l /\ (b + n) + (l - n) = b + l
        /\ b + n <= b + l
    <3>1. l \in Nat /\ m \in Nat /\ b \in Nat /\ n < l
      BY <1>1, <1>7
    <3> HIDE DEF l, m, b
    <3>2. QED
      BY <3>1
  <2>5. /\ call'.left = l - n /\ call'.total = m + n
        /\ call'.bytes = <<>> /\ call'.block = call.block
    BY <2>3
  <2>6. call' \in [block : Nat, left : Nat, bytes : Seq(Nat), total : Nat]
    BY <1>1, <2>3, <2>4
  <2>7. Len(<<>>) = 0
    OBVIOUS
  <2>8. Calls'
    BY <1>1, <1>4, <1>6, <2>1, <2>4, <2>5, <2>6, <2>7 DEF Calls
  <2>9. Ordered'
    <3>1. 1 .. Len(call'.bytes) = {}
      BY <2>5, <2>7
    <3>2. QED
      BY <1>4, <1>5, <3>1 DEF Ordered
  <2>10. Len(body') <= ContentLength
    BY <1>1, <1>4, <2>4
  <2>11. ~post_read' /\ post_read' \in BOOLEAN /\ n # 0
    BY <1>1, <1>7, <2>1
  <2>12. QED
    BY <1>4, <2>1, <2>5, <2>8, <2>9, <2>10, <2>11
<1>8. CASE ~(n > 0 /\ n < call.left)
  <2>1. /\ post_read' = (call.total + n < call.block)
        /\ call' = NoCall /\ pc' = "script"
    BY <1>8 DEF ReadReturns
  <2>2. n = 0 \/ n = call.left
    BY <1>1, <1>8
  <2>3. Calls' /\ call'.bytes = <<>>
    BY <2>1 DEF Calls, NoCall
  <2>4. Ordered'
    BY <1>4, <1>5, <2>3 DEF Ordered
  <2>5. n = 0 => call.total + n < call.block
    BY <1>1
  <2>6. n = call.left /\ call.total + n < call.block => Len(body) + n = ContentLength
    BY <1>1
  <2>7. Len(body') <= ContentLength
    BY <1>1, <1>4, <2>2
  <2>8. post_read' \in BOOLEAN
    BY <2>1
  <2>9. n = 0 => post_read'
    BY <2>1, <2>5
  <2>10. post_read' => call.total + n < call.block
    BY <2>1
  <2>11. n # 0 /\ post_read' => Len(body') = ContentLength
    BY <1>4, <2>2, <2>6, <2>10
  <2>12. pc' \in {"script", "read"}
    BY <2>1
  <2>13. QED
    BY <1>4, <2>3, <2>4, <2>7, <2>8, <2>9, <2>11, <2>12
<1>9. QED
  BY <1>7, <1>8

(* A step of the script that leaves the request where it is. *)
LEMMA StillReading ==
  ASSUME NEW e, Border(recs, e), Typed, Calls, Ordered, Reading(e), UNCHANGED inVars,
         pc' = pc \/ (pc = "script" /\ pc' = "closed")
  PROVE  ReadInv'
<1>1. recs' = recs /\ ContentLength' = ContentLength
  BY SameRequest, SameLength DEF inVars
<1>2. /\ UNCHANGED <<arrived, rd, env, in_len, in_pad, call, body, request_body,
                     post_read>>
  BY DEF inVars
<1>3. Typed'
  BY <1>1, <1>2 DEF Typed
<1>4. Calls'
  BY <1>1, <1>2 DEF Calls
<1>5. Ordered'
  BY <1>2 DEF Ordered
<1>6. Reading(e)'
  <2>1. Taken' = Taken
    BY <1>2 DEF Taken
  <2>2. Whereabouts(e) => Whereabouts(e)'
    BY <1>1, <1>2, <2>1 DEF Whereabouts, HeaderAt, InsideOf, CutOff
  <2>3. QED
    BY <1>1, <1>2, <2>2 DEF Reading
<1>7. Border(recs, e)'
  BY <1>1
<1>8. QED
  BY <1>3, <1>4, <1>5, <1>6, <1>7 DEF ReadInv

(* Reading the beginning of the request keeps the reader's invariant. *)
LEMMA StartRead ==
  ASSUME NEW e, Border(recs, e), Typed, Calls, Ordered, Reading(e), ReadRequest
  PROVE  ReadInv'
<1>1. /\ pc = "begin" /\ rd = 0 /\ env = 0 /\ body = <<>> /\ ~post_read /\ in_len = 0
      /\ call = NoCall
  BY DEF ReadRequest, Reading, Calls
<1>2. /\ UNCHANGED <<request, arrived, env, in_len, in_pad, call, body, request_body,
                     post_read>>
      /\ rd' = Smaller(RecSize(recs[1]), arrived)
      /\ \/ arrived >= RecSize(recs[1]) /\ pc' = "params"
         \/ ~(arrived >= RecSize(recs[1])) /\ pc' = "script"
  BY <1>1 DEF ReadRequest, Available, Typed
<1>3. recs' = recs /\ ContentLength' = ContentLength /\ ContentLength \in Nat
  BY <1>2, SameRequest, SameLength, LengthFacts
<1>4. /\ recs \in Seq(Record) /\ Len(recs) \in Nat /\ e \in Nat
      /\ 2 <= e /\ e + 1 <= Len(recs) /\ recs[1] \in Record
  BY BorderFacts
<1>5. /\ RecSize(recs[1]) \in Nat /\ RecSize(recs[1]) >= HeaderSize
      /\ At(recs, 1) = 0 /\ At(recs, 1 + 1) = At(recs, 1) + RecSize(recs[1])
      /\ At(recs, 2) \in Nat
  <2>1. RecSize(recs[1]) \in Nat /\ RecSize(recs[1]) >= HeaderSize
    BY <1>4, RecordFacts
  <2>2. 1 \in 1 .. Len(recs) /\ 2 \in 1 .. Len(recs) + 1
    BY <1>4
  <2>3. /\ At(recs, 1) = 0 /\ At(recs, 1 + 1) = At(recs, 1) + RecSize(recs[1])
        /\ At(recs, 2) \in Nat
    BY <1>4, <2>2, AtFacts
  <2>4. QED
    BY <2>1, <2>3
<1>6. At(recs, 2) = RecSize(recs[1])
  BY <1>5
<1>7. At(recs, 2) <= Bytes(recs) /\ Bytes(recs) \in Nat
  <2> DEFINE n == Len(recs) + 1
  <2>1. n \in 1 .. Len(recs) + 1 /\ 1 < n /\ 1 \in 1 .. Len(recs)
    BY <1>4
  <2>2. At(recs, n) = Bytes(recs) /\ At(recs, n) \in Nat
    BY <1>4, <2>1, AtFacts
  <2> HIDE DEF n
  <2>3. At(recs, 1) + RecSize(recs[1]) <= At(recs, n)
    BY <1>4, <2>1, Apart
  <2>4. QED
    BY <1>5, <1>6, <2>2, <2>3
<1>8. Typed'
  <2>1. rd' \in Nat /\ rd' <= arrived
    BY <1>2, <1>5 DEF Typed, Smaller
  <2>2. QED
    BY <1>2, <1>3, <2>1 DEF Typed
<1>9. Calls' /\ Ordered'
  BY <1>1, <1>2, <1>3 DEF Calls, Ordered
<1>10. Reading(e)'
  <2>1. CASE arrived >= RecSize(recs[1]) /\ pc' = "params"
    <3>1. rd' = At(recs, 2) /\ env' + 2 = 2
      BY <1>1, <1>2, <1>5, <1>6, <2>1 DEF Smaller, Typed
    <3>2. QED
      BY <1>1, <1>2, <1>3, <1>4, <2>1, <3>1 DEF Reading
  <2>2. CASE ~(arrived >= RecSize(recs[1])) /\ pc' = "script"
    <3>1. rd' = arrived /\ arrived # Bytes(recs)
      BY <1>2, <1>5, <1>6, <1>7, <2>2 DEF Smaller, Typed
    <3>2. CutOff'
      BY <1>1, <1>2, <1>3, <3>1 DEF CutOff, NoCall
    <3>3. Len(body') = 0
      BY <1>1, <1>2
    <3>4. QED
      BY <1>1, <1>2, <1>3, <2>2, <3>1, <3>2, <3>3 DEF Reading, Whereabouts
  <2>3. QED
    BY <1>2, <2>1, <2>2
<1>11. QED
  BY <1>3, <1>8, <1>9, <1>10 DEF ReadInv

(* A record lies within the request. *)
LEMMA BeforeEnd ==
  ASSUME NEW rs \in Seq(Record), NEW i \in 1 .. Len(rs)
  PROVE  /\ At(rs, i) \in Nat /\ RecSize(rs[i]) \in Nat /\ Bytes(rs) \in Nat
         /\ At(rs, i) + RecSize(rs[i]) <= Bytes(rs)
         /\ At(rs, i + 1) = At(rs, i) + RecSize(rs[i])
<1> DEFINE n == Len(rs) + 1
<1>1. Len(rs) \in Nat /\ rs[i] \in Record
  BY LenProperties, ElementOfSeq
<1>2. n \in 1 .. Len(rs) + 1 /\ i < n /\ i \in 1 .. Len(rs) + 1
  BY <1>1
<1>3. At(rs, n) = Bytes(rs) /\ At(rs, n) \in Nat
  BY <1>2, AtFacts
<1> HIDE DEF n
<1>4. At(rs, i) + RecSize(rs[i]) <= At(rs, n)
  BY <1>2, Apart
<1>5. At(rs, i) \in Nat /\ RecSize(rs[i]) \in Nat
  BY <1>1, <1>2, AtFacts, RecordFacts
<1>6. QED
  BY <1>3, <1>4, <1>5, AtFacts

(* Reading parameters keeps the reader's invariant. *)
LEMMA ParamsRead ==
  ASSUME NEW e, Border(recs, e), Typed, Calls, Ordered, Reading(e), ReadParams
  PROVE  ReadInv'
<1> DEFINE i == env + 2
           r == recs[i]
           size == RecSize(recs[i])
<1>1. /\ pc = "params" /\ rd = At(recs, i) /\ i <= e /\ env \in Nat
      /\ body = <<>> /\ ~post_read /\ in_len = 0 /\ call = NoCall
  BY DEF ReadParams, Reading, Calls, Typed
<1>2. /\ recs \in Seq(Record) /\ Len(recs) \in Nat /\ e \in Nat
      /\ 2 <= e /\ e + 1 <= Len(recs)
  BY BorderFacts
<1>3. i \in 1 .. Len(recs) /\ i \in 2 .. e
  BY <1>1, <1>2
<1>4. r \in Record /\ r.type = "params" /\ (r.len = 0 <=> i = e)
  <2>1. r.type = "params" /\ (r.len = 0 <=> i = e \/ i = Len(recs)) /\ r \in Record
    BY <1>3, BorderFacts
  <2>2. i # Len(recs)
    BY <1>1, <1>2, <1>3
  <2>3. QED
    BY <2>1, <2>2
<1>5. RecordAt(rd) = i
  BY <1>1, <1>2, <1>3, RecordAtFacts
<1>6. /\ size = HeaderSize + r.len + r.pad /\ r.len \in Nat /\ r.pad \in Nat
      /\ size \in Nat /\ size >= HeaderSize
  BY <1>4, RecordFacts
<1>7. /\ rd \in Nat /\ rd + size <= Bytes(recs) /\ Bytes(recs) \in Nat
      /\ At(recs, i + 1) = rd + size
  BY <1>1, <1>2, <1>3, BeforeEnd
<1>8. UNCHANGED <<request, arrived, in_len, in_pad, call, body, request_body, post_read>>
  BY DEF ReadParams
<1>9. recs' = recs
  BY <1>8, SameRequest
<1>10. /\ arrived \in Nat /\ rd <= arrived /\ arrived <= Bytes(recs)
  BY DEF Typed
<1>11. \/ /\ arrived - rd < HeaderSize
          /\ rd' = arrived /\ pc' = "script" /\ env' = env
       \/ /\ arrived - rd >= HeaderSize /\ r.len > 0
          /\ rd' = rd + Smaller(size, arrived - rd)
          /\ \/ arrived - rd >= size /\ env' = env + 1 /\ pc' = pc
             \/ ~(arrived - rd >= size) /\ pc' = "script" /\ env' = env
       \/ /\ arrived - rd >= HeaderSize /\ ~(r.len > 0)
          /\ rd' = rd + HeaderSize /\ pc' = "script" /\ env' = env
  BY <1>4, <1>5 DEF ReadParams, Available
<1> HIDE DEF r, size
<1>12. Calls' /\ Ordered'
  <2>1. pc' # "read"
    BY <1>1, <1>11
  <2>2. QED
    BY <1>1, <1>8, <2>1 DEF Calls, Ordered
<1>13. Len(body') = 0 /\ Taken' = 0 /\ body' = <<>> /\ call'.bytes = <<>>
  BY <1>1, <1>8 DEF Taken, NoCall
<1>14. ContentLength' \in Nat
  <2>1. Border(recs, e)'
    BY <1>9
  <2>2. BodyLength(recs) \in Nat
    BY BodyBetween
  <2>3. QED
    BY <1>9, <2>2 DEF ContentLength
<1>15. ASSUME rd' = arrived, arrived # Bytes(recs), pc' = "script"
       PROVE  Reading(e)'
  <2>1. CutOff'
    BY <1>1, <1>8, <1>9, <1>13, <1>15 DEF CutOff
  <2>2. QED
    BY <1>8, <1>9, <1>13, <1>14, <1>15, <2>1 DEF Reading, Whereabouts
<1>16. CASE /\ arrived - rd < HeaderSize
            /\ rd' = arrived /\ pc' = "script" /\ env' = env
  <2>1. arrived # Bytes(recs)
    BY <1>6, <1>7, <1>10, <1>16 DEF HeaderSize
  <2>2. Typed'
    BY <1>8, <1>9, <1>16 DEF Typed
  <2>3. QED
    BY <1>9, <1>12, <1>15, <1>16, <2>1, <2>2 DEF ReadInv
<1>17. CASE /\ arrived - rd >= HeaderSize /\ r.len > 0
            /\ rd' = rd + Smaller(size, arrived - rd)
            /\ \/ arrived - rd >= size /\ env' = env + 1 /\ pc' = pc
               \/ ~(arrived - rd >= size) /\ pc' = "script" /\ env' = env
  <2>1. CASE arrived - rd >= size /\ env' = env + 1 /\ pc' = pc
    <3>1. rd' = rd + size /\ rd' <= arrived /\ rd' \in Nat
      BY <1>6, <1>7, <1>10, <1>17, <2>1 DEF Smaller
    <3>2. env' + 2 = i + 1 /\ env' \in Nat /\ env' + 2 <= e
      <4>1. i # e
        BY <1>4, <1>6, <1>17
      <4>2. QED
        BY <1>1, <1>2, <2>1, <4>1
    <3>3. rd' = At(recs, env' + 2)
      BY <1>7, <3>1, <3>2
    <3>4. Typed'
      BY <1>8, <1>9, <2>1, <3>1, <3>2 DEF Typed
    <3>5. Reading(e)'
      BY <1>1, <1>8, <1>9, <2>1, <3>2, <3>3 DEF Reading
    <3>6. QED
      BY <1>9, <1>12, <3>4, <3>5 DEF ReadInv
  <2>2. CASE ~(arrived - rd >= size) /\ pc' = "script" /\ env' = env
    <3>1. rd' = arrived /\ arrived # Bytes(recs)
      BY <1>6, <1>7, <1>10, <1>17, <2>2 DEF Smaller
    <3>2. Typed'
      BY <1>8, <1>9, <2>2, <3>1 DEF Typed
    <3>3. QED
      BY <1>9, <1>12, <1>15, <2>2, <3>1, <3>2 DEF ReadInv
  <2>3. QED
    BY <1>17, <2>1, <2>2
<1>18. CASE /\ arrived - rd >= HeaderSize /\ ~(r.len > 0)
            /\ rd' = rd + HeaderSize /\ pc' = "script" /\ env' = env
  <2>1. i = e
    BY <1>4, <1>6, <1>18
  <2>2. size = HeaderSize
    <3>1. r.len = 0 /\ r.pad = 0
      BY <1>4, <2>1, BorderFacts DEF r
    <3>2. QED
      BY <1>6, <3>1 DEF HeaderSize
  <2>3. rd' = At(recs, e + 1) /\ rd' \in Nat /\ rd' <= arrived
    BY <1>7, <1>10, <1>18, <2>1, <2>2 DEF HeaderSize
  <2>4. HeaderAt(e + 1)'
    BY <1>1, <1>8, <1>9, <1>13, <2>3, BodyBetween DEF HeaderAt
  <2>5. Whereabouts(e)'
    <3>1. e + 1 \in e + 1 .. Len(recs) + 1
      BY <1>2
    <3>2. QED
      BY <1>9, <2>4, <3>1 DEF Whereabouts
  <2>6. env' = e - 2
    BY <1>1, <1>2, <1>18, <2>1
  <2>7. Reading(e)'
    BY <1>1, <1>8, <1>9, <1>13, <1>14, <1>18, <2>5, <2>6 DEF Reading
  <2>8. Typed'
    BY <1>8, <1>9, <1>18, <2>3 DEF Typed
  <2>9. QED
    BY <1>9, <1>12, <2>7, <2>8 DEF ReadInv
<1>19. QED
  BY <1>11, <1>16, <1>17, <1>18

(* Asking for a block of the body keeps the reader's invariant. *)
LEMMA PostRead ==
  ASSUME NEW e, Border(recs, e), Typed, Calls, Ordered, Reading(e),
         NEW block \in Blocks, ReadPost(block)
  PROVE  ReadInv'
<1> DEFINE count == Smaller(block, ContentLength - Len(body))
<1>1. /\ pc = "script" /\ ~post_read /\ call = NoCall /\ request_body' = TRUE
      /\ Whereabouts(e) /\ Len(body) <= ContentLength
      /\ arrived = Bytes(recs) => env = e - 2
      /\ body \in Seq(Nat)
  BY DEF ReadPost, Reading, Calls, Ordered
<1>2. /\ UNCHANGED <<request, arrived, rd, env, in_len, in_pad, body>>
      /\ IF count = 0
         THEN post_read' = TRUE /\ UNCHANGED <<call, pc>>
         ELSE /\ call' = [block |-> block, left |-> count, bytes |-> <<>>, total |-> 0]
              /\ pc' = "read" /\ post_read' = post_read
  BY DEF ReadPost
<1>3. recs' = recs /\ ContentLength' = ContentLength /\ ContentLength \in Nat
  BY <1>2, SameRequest, SameLength, LengthFacts
<1>4. block \in Nat /\ block # 0 /\ Len(body) \in Nat
  BY <1>1, RequestAssumption, LenProperties
<1>5. /\ count \in Nat /\ count <= block /\ Len(body) + count <= ContentLength
      /\ count < block => Len(body) + count = ContentLength
      /\ count = 0 => Len(body) = ContentLength
  BY <1>1, <1>3, <1>4 DEF Smaller
<1> HIDE DEF count
<1>6. Typed'
  BY <1>1, <1>2, <1>3 DEF Typed
<1>7. CASE count = 0
  <2>1. post_read' = TRUE /\ UNCHANGED <<call, pc>>
    BY <1>2, <1>7
  <2>2. Calls' /\ Ordered'
    BY <1>1, <1>2, <2>1 DEF Calls, Ordered
  <2>3. Reading(e)'
    BY <1>1, <1>2, <1>3, <1>5, <1>7, <2>1 DEF Reading
  <2>4. QED
    BY <1>3, <1>6, <2>2, <2>3 DEF ReadInv
<1>8. CASE count # 0
  <2>1. /\ call' = [block |-> block, left |-> count, bytes |-> <<>>, total |-> 0]
        /\ pc' = "read" /\ post_read' = post_read
    BY <1>2, <1>8
  <2>2. /\ call'.bytes = <<>> /\ call'.left = count /\ call'.block = block
        /\ call'.total = 0 /\ Len(<<>>) = 0
        /\ call' \in [block : Nat, left : Nat, bytes : Seq(Nat), total : Nat]
    BY <1>4, <1>5, <2>1
  <2>3. Calls'
    BY <1>1, <1>2, <1>3, <1>5, <1>8, <2>1, <2>2 DEF Calls
  <2>4. Ordered'
    <3>1. 1 .. Len(call'.bytes) = {}
      BY <2>2
    <3>2. QED
      BY <1>2, <3>1 DEF Ordered
  <2>5. Taken' = Taken /\ call'.bytes = call.bytes
    BY <1>1, <1>2, <2>2 DEF Taken, NoCall
  <2>6. Whereabouts(e)'
    BY <1>1, <1>2, <1>3, <2>5 DEF Whereabouts, HeaderAt, InsideOf, CutOff
  <2>7. Reading(e)'
    BY <1>1, <1>2, <1>3, <2>1, <2>6 DEF Reading
  <2>8. QED
    BY <1>3, <1>6, <2>3, <2>4, <2>7 DEF ReadInv
<1>9. QED
  BY <1>7, <1>8

(* A read stands in front of the last record of the body: what it is asked *)
(* for is there.                                                           *)
LEMMA NotAtTheEnd ==
  ASSUME NEW e, Border(recs, e), Calls, Ordered, pc = "read",
         NEW i \in e + 1 .. Len(recs) + 1, Taken = BodyAt(recs, i)
  PROVE  i \in e + 1 .. Len(recs) - 1
<1>1. /\ recs \in Seq(Record) /\ Len(recs) \in Nat /\ e \in Nat
      /\ 2 <= e /\ e + 1 <= Len(recs)
  BY BorderFacts
<1>2. Len(body) \in Nat /\ Len(call.bytes) \in Nat /\ call.left \in Nat
  BY LenProperties DEF Calls, Ordered
<1>3. Len(call.bytes) < call.left /\ Len(body) + call.left <= ContentLength
  BY DEF Calls
<1>4. /\ ContentLength \in Nat /\ ContentLength <= BodyLength(recs)
      /\ BodyLength(recs) \in Nat
  BY LengthFacts, BodyBetween
<1>5. BodyAt(recs, i) < BodyLength(recs)
  BY <1>2, <1>3, <1>4 DEF Taken
<1>6. i # Len(recs)
  BY <1>4, <1>5, BodyBetween
<1>7. i # Len(recs) + 1
  BY <1>1, <1>4, <1>5, AtFacts
<1>8. QED
  BY <1>1, <1>6, <1>7

(* Reading the header of a record of the body keeps the reader's invariant. *)
LEMMA HeaderRead ==
  ASSUME NEW e, Border(recs, e), Typed, Calls, Ordered, Reading(e), ReadBodyHeader
  PROVE  ReadInv'
<1> DEFINE found == /\ arrived - rd >= HeaderSize /\ RecordAt(rd) # 0
                    /\ recs[RecordAt(rd)].type = "stdin"
<1>1. /\ pc = "read" /\ in_len = 0 /\ ~post_read /\ Whereabouts(e)
      /\ Len(body) <= ContentLength
      /\ arrived = Bytes(recs) => env = e - 2
      /\ call \in [block : Nat, left : Nat, bytes : Seq(Nat), total : Nat]
      /\ Len(call.bytes) < call.left /\ Len(call.bytes) \in Nat
  BY LenProperties DEF ReadBodyHeader, Reading, Calls
<1>2. UNCHANGED <<request, arrived, env, request_body>>
  BY DEF ReadBodyHeader
<1>3. recs' = recs /\ ContentLength' = ContentLength /\ ContentLength \in Nat
  BY <1>2, SameRequest, SameLength, LengthFacts
<1>4. /\ arrived \in Nat /\ rd \in Nat /\ rd <= arrived /\ arrived <= Bytes(recs)
  BY DEF Typed
<1>5. rd' = rd + Smaller(HeaderSize, arrived - rd)
  BY DEF ReadBodyHeader, Available
<1>6. /\ recs \in Seq(Record) /\ Len(recs) \in Nat /\ e \in Nat
      /\ 2 <= e /\ e + 1 <= Len(recs)
  BY BorderFacts
<1>7. CASE ~found
  <2>1. ReadReturns(0, call.bytes) /\ UNCHANGED <<in_len, in_pad>>
    BY <1>7 DEF ReadBodyHeader
  <2>2. /\ Calls' /\ Ordered' /\ Len(body') <= ContentLength
        /\ pc' \in {"script", "read"} /\ post_read' \in BOOLEAN /\ post_read'
    <3>1. /\ call.bytes \in Seq(Nat) /\ 0 <= Len(call.bytes)
          /\ Len(call.bytes) <= call.left /\ post_read \in BOOLEAN
          /\ \A k \in 1 .. Len(call.bytes) : call.bytes[k] = Len(body) + k
      BY <1>1 DEF Ordered, Typed
    <3>2. QED
      BY <1>1, <1>2, <1>3, <2>1, <3>1, Returned
  <2>3. arrived # Bytes(recs)
    <3>1. CASE CutOff
      BY <3>1 DEF CutOff
    <3>2. CASE \E i \in e + 1 .. Len(recs) + 1 : HeaderAt(i)
      <4>1. PICK i \in e + 1 .. Len(recs) + 1 : HeaderAt(i)
        BY <3>2
      <4>2. i \in e + 1 .. Len(recs) - 1
        BY <1>1, <4>1, NotAtTheEnd DEF HeaderAt
      <4>3. i \in 1 .. Len(recs) /\ i \in e + 1 .. Len(recs) /\ i # 0
        BY <1>6, <4>2
      <4>4. RecordAt(rd) = i /\ recs[i].type = "stdin"
        BY <1>6, <4>1, <4>3, RecordAtFacts, BorderFacts DEF HeaderAt
      <4>5. arrived - rd < HeaderSize
        BY <1>4, <1>7, <4>3, <4>4 DEF HeaderSize
      <4>6. rd + RecSize(recs[i]) <= Bytes(recs) /\ RecSize(recs[i]) \in Nat
            /\ RecSize(recs[i]) >= HeaderSize /\ Bytes(recs) \in Nat
        BY <1>6, <4>1, <4>3, BeforeEnd, BorderFacts, RecordFacts DEF HeaderAt
      <4>7. QED
        BY <1>4, <4>5, <4>6 DEF HeaderSize
    <3>3. QED
      BY <1>1, <3>1, <3>2 DEF Whereabouts, InsideOf
  <2>4. rd' \in Nat /\ rd' <= arrived
    BY <1>4, <1>5 DEF Smaller, HeaderSize
  <2>5. Typed'
    BY <1>2, <1>3, <2>1, <2>2, <2>4 DEF Typed
  <2>6. Reading(e)'
    BY <1>1, <1>2, <1>3, <2>2, <2>3 DEF Reading
  <2>7. QED
    BY <1>3, <2>2, <2>5, <2>6 DEF ReadInv
<1>8. CASE found
  <2>1. PICK i \in e + 1 .. Len(recs) + 1 : HeaderAt(i)
    <3>1. ~CutOff
      BY <1>4, <1>8 DEF CutOff, HeaderSize
    <3>2. QED
      BY <1>1, <3>1 DEF Whereabouts, InsideOf
  <2>2. i \in e + 1 .. Len(recs) - 1
    BY <1>1, <2>1, NotAtTheEnd DEF HeaderAt
  <2>3. i \in 1 .. Len(recs) /\ i # e /\ i # Len(recs)
    BY <1>6, <2>2
  <2>4. RecordAt(rd) = i /\ recs[i] \in Record /\ recs[i].len # 0
    BY <1>6, <2>1, <2>3, RecordAtFacts, BorderFacts DEF HeaderAt
  <2>5. /\ in_len' = recs[i].len /\ in_pad' = recs[i].pad
        /\ ReadGoesOn(call.bytes)
    BY <1>8, <2>4 DEF ReadBodyHeader
  <2>6. UNCHANGED <<body, post_read, pc>> /\ call' = call
    BY <1>1, <2>5 DEF ReadGoesOn
  <2>7. Calls' /\ Ordered'
    BY <1>3, <2>6 DEF Calls, Ordered
  <2>8. rd' = rd + HeaderSize
    BY <1>4, <1>5, <1>8 DEF Smaller, HeaderSize
  <2>9. /\ recs[i].len \in Nat /\ recs[i].len <= MaxContent
        /\ recs[i].pad \in Nat /\ recs[i].pad <= 255
    BY <2>4, RecordBounds
  <2>10. Typed'
    BY <1>2, <1>3, <1>4, <1>8, <2>5, <2>6, <2>8, <2>9 DEF Typed, HeaderSize
  <2>11. Taken' = Taken
    BY <2>6 DEF Taken
  <2>12. InsideOf(i)'
    <3>1. rd = At(recs, i) /\ Taken = BodyAt(recs, i)
      BY <2>1 DEF HeaderAt
    <3>2. 1 <= recs[i].len
      BY <2>4, <2>9
    <3>3. rd' + in_len' = At(recs, i) + HeaderSize + recs[i].len
      BY <1>4, <2>5, <2>8, <2>9, <3>1 DEF HeaderSize
    <3>4. Taken' + in_len' = BodyAt(recs, i) + recs[i].len
      BY <2>5, <2>11, <3>1
    <3>5. /\ 1 <= in_len' /\ in_len' <= recs'[i].len /\ in_pad' = recs'[i].pad
          /\ rd' + in_len' = At(recs', i) + HeaderSize + recs'[i].len
          /\ Taken' + in_len' = BodyAt(recs', i) + recs'[i].len
      BY <1>3, <2>5, <2>9, <3>2, <3>3, <3>4
    <3>6. QED
      BY <3>5 DEF InsideOf
  <2>13. Reading(e)'
    BY <1>1, <1>2, <1>3, <2>2, <2>6, <2>12 DEF Reading, Whereabouts
  <2>14. QED
    BY <1>3, <2>7, <2>10, <2>13 DEF ReadInv
<1>9. QED
  BY <1>7, <1>8

(* What is left of a record of the body. *)
LEMMA InsideFacts ==
  ASSUME NEW e, Border(recs, e), NEW i \in e + 1 .. Len(recs) - 1, InsideOf(i),
         rd \in Nat, in_len \in Nat, Taken \in Nat
  PROVE  /\ rd + in_len + in_pad = At(recs, i + 1)
         /\ rd + in_len + in_pad <= Bytes(recs) /\ Bytes(recs) \in Nat
         /\ Taken + in_len = BodyAt(recs, i + 1)
         /\ recs[i].len \in Nat /\ in_len <= recs[i].len
         /\ \A k \in Nat : 1 <= k /\ k <= in_len => Place(rd + k - 1) = Taken + k
<1>1. /\ recs \in Seq(Record) /\ Len(recs) \in Nat /\ e \in Nat
      /\ 2 <= e /\ e + 1 <= Len(recs)
  BY BorderFacts
<1> DEFINE r == recs[i]
           at == At(recs, i)
           from == BodyAt(recs, i)
<1>2. /\ in_len <= r.len /\ in_pad = r.pad
      /\ rd + in_len = at + HeaderSize + r.len
      /\ Taken + in_len = from + r.len
  BY DEF InsideOf
<1>3. i \in 1 .. Len(recs) /\ i \in 1 .. Len(recs) + 1 /\ i \in e + 1 .. Len(recs)
  BY <1>1
<1>4. r \in Record /\ r.type = "stdin"
  BY <1>3, BorderFacts
<1>5. at \in Nat /\ from \in Nat
  BY <1>1, <1>3, AtFacts
<1>6. /\ r.len \in Nat /\ r.pad \in Nat
      /\ RecSize(r) = HeaderSize + r.len + r.pad
      /\ BodyBytes(r) = r.len
  BY <1>4, RecordFacts
<1>7. at + RecSize(r) <= Bytes(recs) /\ Bytes(recs) \in Nat
  BY <1>1, <1>3, BeforeEnd
<1>8. At(recs, i + 1) = at + RecSize(r)
  BY <1>1, <1>3, BeforeEnd
<1>9. BodyAt(recs, i + 1) = from + BodyBytes(r)
  BY <1>1, <1>3, AtFacts
<1>10. ASSUME NEW m \in Nat, m < r.len
       PROVE  Place(at + HeaderSize + m) = from + m + 1
  BY <1>1, <1>3, <1>4, <1>10, PlaceFacts
<1> DEFINE len == r.len  size == RecSize(r)  taken == Taken
<1>a. /\ in_len <= len /\ rd + in_len = at + HeaderSize + len
      /\ taken + in_len = from + len /\ size = HeaderSize + len + in_pad
      /\ at + size <= Bytes(recs) /\ At(recs, i + 1) = at + size
      /\ BodyAt(recs, i + 1) = from + len
  BY <1>2, <1>6, <1>7, <1>8, <1>9
<1>b. /\ len \in Nat /\ at \in Nat /\ from \in Nat /\ taken \in Nat
      /\ HeaderSize \in Nat /\ in_pad \in Nat
  BY <1>2, <1>5, <1>6 DEF HeaderSize
<1>c. ASSUME NEW m \in Nat, m < len PROVE Place(at + HeaderSize + m) = from + m + 1
  BY <1>10, <1>c
<1> HIDE DEF r, at, from, len, size, taken
<1>11. /\ rd + in_len + in_pad = at + size
       /\ taken + in_len = from + len
  BY <1>a, <1>b
<1>12. ASSUME NEW k \in Nat, 1 <= k, k <= in_len
       PROVE  Place(rd + k - 1) = taken + k
  <2> DEFINE m == len - in_len + k - 1
  <2>1. m \in Nat /\ m < len
    BY <1>a, <1>b, <1>12
  <2>2. rd + k - 1 = at + HeaderSize + m
    BY <1>a, <1>b
  <2>3. from + m + 1 = taken + k
    BY <1>a, <1>b
  <2> HIDE DEF m
  <2>4. Place(at + HeaderSize + m) = from + m + 1
    BY <1>c, <2>1
  <2>5. QED
    BY <2>2, <2>3, <2>4
<1>13. in_len <= recs[i].len /\ recs[i].len \in Nat
  BY <1>a, <1>b DEF r, len
<1>14. QED
  BY <1>7, <1>11, <1>12, <1>13, <1>a DEF taken

(* With content left to read, the reader is inside a record. *)
LEMMA IsInside ==
  ASSUME NEW e, Whereabouts(e), in_len # 0
  PROVE  \E i \in e + 1 .. Len(recs) - 1 : InsideOf(i)
BY DEF Whereabouts, HeaderAt, CutOff

(* Reading content of the body keeps the reader's invariant. *)
LEMMA ContentRead ==
  ASSUME NEW e, Border(recs, e), Typed, Calls, Ordered, Reading(e), ReadBodyContent
  PROVE  ReadInv'
<1> DEFINE rest  == call.left - Len(call.bytes)
           ret   == Available(Smaller(rest, in_len))
           bytes == call.bytes \o [k \in 1 .. ret |-> Place(rd + k - 1)]
           pad   == Smaller(PadRead, arrived - rd - ret)
<1>1. /\ pc = "read" /\ in_len > 0 /\ ~post_read /\ post_read \in BOOLEAN
      /\ Whereabouts(e)
      /\ arrived = Bytes(recs) => env = e - 2
      /\ call \in [block : Nat, left : Nat, bytes : Seq(Nat), total : Nat]
      /\ call.left \in Nat /\ call.bytes \in Seq(Nat)
      /\ Len(call.bytes) < call.left /\ Len(call.bytes) \in Nat
      /\ Len(body) \in Nat /\ Len(body) <= ContentLength
  BY LenProperties DEF ReadBodyContent, Reading, Calls, Typed, Ordered
<1>2. UNCHANGED <<request, arrived, env, in_pad, request_body>>
  BY DEF ReadBodyContent
<1>3. recs' = recs /\ ContentLength' = ContentLength /\ ContentLength \in Nat
  BY <1>2, SameRequest, SameLength, LengthFacts
<1>4. /\ arrived \in Nat /\ rd \in Nat /\ rd <= arrived /\ arrived <= Bytes(recs)
      /\ in_len \in Nat /\ in_len <= MaxContent /\ in_pad \in Nat /\ in_pad <= 255
  BY DEF Typed
<1>5. /\ recs \in Seq(Record) /\ Len(recs) \in Nat /\ e \in Nat
      /\ 2 <= e /\ e + 1 <= Len(recs)
  BY BorderFacts
<1>6. PICK i \in e + 1 .. Len(recs) - 1 : InsideOf(i)
  <2>1. in_len # 0
    BY <1>1, <1>4
  <2>2. QED
    BY <1>1, <2>1, IsInside
<1>7. Taken = Len(body) + Len(call.bytes) /\ Taken \in Nat
  BY <1>1 DEF Taken
<1>11. /\ rd + in_len + in_pad = At(recs, i + 1)
       /\ rd + in_len + in_pad <= Bytes(recs) /\ Bytes(recs) \in Nat
       /\ Taken + in_len = BodyAt(recs, i + 1)
       /\ recs[i].len \in Nat /\ in_len <= recs[i].len
  BY <1>4, <1>6, <1>7, InsideFacts
<1>12. \A k \in Nat : 1 <= k /\ k <= in_len => Place(rd + k - 1) = Taken + k
  BY <1>4, <1>6, <1>7, InsideFacts
<1>13. rest \in Nat /\ rest >= 1 /\ Len(call.bytes) + rest = call.left
  BY <1>1
<1>14. /\ ret \in Nat /\ ret <= rest /\ ret <= in_len /\ rd + ret <= arrived
       /\ ret = rest \/ ret = in_len \/ rd + ret = arrived
  <2> HIDE DEF rest
  <2>1. QED
    BY <1>4, <1>13 DEF Available, Smaller
<1>15. arrived = Bytes(recs) => ret # 0 /\ (ret = rest \/ ret = in_len)
  <2> HIDE DEF rest
  <2>1. ASSUME arrived = Bytes(recs) PROVE in_len <= arrived - rd
    BY <1>4, <1>11, <2>1
  <2>2. ASSUME in_len <= arrived - rd PROVE ret = Smaller(rest, in_len)
    BY <1>1, <1>4, <1>13, <2>2 DEF Available, Smaller
  <2>3. ASSUME ret = Smaller(rest, in_len)
        PROVE  ret # 0 /\ (ret = rest \/ ret = in_len)
    BY <1>1, <1>4, <1>13, <2>3 DEF Smaller
  <2>4. QED
    BY <2>1, <2>2, <2>3
<1>16. /\ \/ /\ ret = 0 \/ ret < in_len
             /\ rd' = rd + ret
             /\ ReadReturns(Len(bytes), bytes)
          \/ /\ ret = in_len
             /\ rd' = rd + ret + pad
             /\ IF pad < PadRead
                THEN ReadReturns(ret, bytes)
                ELSE IF ret = rest THEN ReadReturns(Len(bytes), bytes)
                     ELSE ReadGoesOn(bytes)
       /\ in_len' = in_len - ret
  BY DEF ReadBodyContent
<1>17. /\ bytes \in Seq(Nat) /\ Len(bytes) = Len(call.bytes) + ret
       /\ \A k \in 1 .. Len(bytes) : bytes[k] = Len(body) + k
  <2> HIDE DEF ret, rest
  <2> DEFINE x == [k \in 1 .. ret |-> Place(rd + k - 1)]
  <2>1. \A k \in 1 .. ret : x[k] = Len(body) + Len(call.bytes) + k
    <3>1. ASSUME NEW k \in 1 .. ret PROVE x[k] = Len(body) + Len(call.bytes) + k
      <4>1. k \in Nat /\ 1 <= k /\ k <= in_len
        BY <1>4, <1>14
      <4>2. Place(rd + k - 1) = Len(body) + Len(call.bytes) + k
        BY <1>7, <1>12, <4>1
      <4>3. QED
        BY <4>2
    <3>2. QED
      BY <3>1
  <2>2. x \in Seq(Nat) /\ Len(x) = ret
    <3>1. \A k \in 1 .. ret : Place(rd + k - 1) \in Nat
      BY <1>1, <1>14, <2>1
    <3>2. x \in [1 .. ret -> Nat]
      BY <3>1
    <3>3. DOMAIN x = 1 .. ret
      OBVIOUS
    <3> HIDE DEF x
    <3>4. x \in Seq(Nat)
      BY <1>14, <3>2, SeqDef
    <3>5. Len(x) = ret
      BY <1>14, <3>3, <3>4, LenProperties
    <3>6. QED
      BY <3>4, <3>5
  <2> HIDE DEF x
  <2>3. bytes = call.bytes \o x
    BY DEF x
  <2> HIDE DEF bytes
  <2>4. /\ bytes \in Seq(Nat) /\ Len(bytes) = Len(call.bytes) + ret
        /\ \A k \in 1 .. Len(bytes) :
             bytes[k] = IF k <= Len(call.bytes) THEN call.bytes[k]
                        ELSE x[k - Len(call.bytes)]
    <3>1. call.bytes \in Seq(Nat)
      BY <1>1
    <3>2. x \in Seq(Nat) /\ Len(x) = ret
      BY <2>2
    <3>3. /\ call.bytes \o x \in Seq(Nat)
          /\ Len(call.bytes \o x) = Len(call.bytes) + Len(x)
          /\ \A k \in 1 .. Len(call.bytes) + Len(x) :
               (call.bytes \o x)[k] = IF k <= Len(call.bytes) THEN call.bytes[k]
                                      ELSE x[k - Len(call.bytes)]
      BY <3>1, <3>2, ConcatProperties
    <3>4. Len(bytes) = Len(call.bytes) + Len(x)
      BY <2>3, <3>3
    <3>5. QED
      BY <2>3, <3>2, <3>3, <3>4
  <2>5. ASSUME NEW k \in 1 .. Len(bytes) PROVE bytes[k] = Len(body) + k
    <3>1. CASE k <= Len(call.bytes)
      <4>1. k \in 1 .. Len(call.bytes)
        BY <1>1, <3>1
      <4>2. QED
        BY <2>4, <3>1, <4>1 DEF Ordered
    <3>2. CASE ~(k <= Len(call.bytes))
      <4>1. k - Len(call.bytes) \in 1 .. ret
        BY <1>1, <1>14, <2>4, <3>2
      <4>2. x[k - Len(call.bytes)] = Len(body) + Len(call.bytes) + (k - Len(call.bytes))
        BY <2>1, <4>1
      <4>3. Len(body) + Len(call.bytes) + (k - Len(call.bytes)) = Len(body) + k
        BY <1>1
      <4>4. QED
        BY <2>4, <3>2, <4>2, <4>3
    <3>3. QED
      BY <3>1, <3>2
  <2>6. QED
    BY <2>4, <2>5
<1>18. pad = Smaller(in_pad, arrived - rd - ret) /\ PadRead = in_pad
  BY DEF PadRead
<1> HIDE DEF ret, rest, bytes, pad
<1>19. Len(bytes) \in Nat /\ Len(bytes) <= call.left /\ in_len' \in Nat /\ in_len' <= MaxContent
  <2>1. MaxContent \in Nat
    BY DEF MaxContent
  <2>2. in_len - ret \in Nat /\ in_len - ret <= in_len
    BY <1>4, <1>14
  <2>3. QED
    BY <1>1, <1>4, <1>13, <1>14, <1>16, <1>17, <2>1, <2>2
<1>20. /\ pad \in Nat /\ pad <= in_pad /\ rd + ret + pad <= arrived
       /\ pad = in_pad \/ rd + ret + pad = arrived
  BY <1>4, <1>14, <1>18 DEF Smaller
<1>21. ASSUME NEW n \in Nat, n <= Len(bytes), ReadReturns(n, bytes)
       PROVE  /\ Calls' /\ Ordered' /\ call'.bytes = <<>>
              /\ Len(body') = Len(body) + n /\ Len(body') <= ContentLength
              /\ pc' \in {"script", "read"} /\ post_read' \in BOOLEAN
              /\ n = 0 => post_read'
              /\ n # 0 /\ post_read' => Len(body') = ContentLength
              /\ Taken' = Len(body) + n
  <2>1. /\ Calls' /\ Ordered' /\ call'.bytes = <<>>
        /\ Len(body') = Len(body) + n /\ Len(body') <= ContentLength
        /\ pc' \in {"script", "read"} /\ post_read' \in BOOLEAN
        /\ n = 0 => post_read'
        /\ n # 0 /\ post_read' => Len(body') = ContentLength
    BY <1>1, <1>2, <1>3, <1>17, <1>19, <1>21, Returned
  <2>2. Taken' = Len(body) + n
    BY <1>1, <2>1 DEF Taken
  <2>3. QED
    BY <2>1, <2>2
<1>22. ASSUME rd' \in Nat, rd' <= arrived, post_read' \in BOOLEAN, pc' \in {"script", "read"}
       PROVE  Typed'
  BY <1>2, <1>3, <1>4, <1>19, <1>22 DEF Typed
<1>23. CASE /\ ret = 0 \/ ret < in_len
            /\ rd' = rd + ret
            /\ ReadReturns(Len(bytes), bytes)
  <2>1. /\ Calls' /\ Ordered' /\ Len(body') <= ContentLength
        /\ pc' \in {"script", "read"} /\ post_read' \in BOOLEAN
        /\ Len(bytes) # 0 /\ post_read' => Len(body') = ContentLength
        /\ Taken' = Len(body) + (Len(call.bytes) + ret)
    BY <1>17, <1>19, <1>21, <1>23
  <2>2. InsideOf(i)'
    <3>1. 1 <= in_len' /\ in_len' <= in_len
      BY <1>1, <1>4, <1>14, <1>16, <1>23
    <3>2. rd' + in_len' = rd + in_len /\ Taken' + in_len' = Taken + in_len
      BY <1>1, <1>4, <1>7, <1>14, <1>16, <1>23, <2>1
    <3>3. /\ in_len <= recs[i].len /\ in_pad = recs[i].pad
          /\ rd + in_len = At(recs, i) + HeaderSize + recs[i].len
          /\ Taken + in_len = BodyAt(recs, i) + recs[i].len
      BY <1>6 DEF InsideOf
    <3>4. in_len' <= recs[i].len
      BY <1>4, <1>11, <1>19, <3>1
    <3>5. QED
      BY <1>2, <1>3, <3>1, <3>2, <3>3, <3>4 DEF InsideOf
  <2>3. arrived = Bytes(recs) => Len(bytes) # 0
    BY <1>1, <1>14, <1>15, <1>17
  <2>4. Typed'
    BY <1>4, <1>14, <1>22, <1>23, <2>1
  <2>5. Reading(e)'
    BY <1>1, <1>2, <1>3, <1>6, <2>1, <2>2, <2>3 DEF Reading, Whereabouts
  <2>6. QED
    BY <1>3, <2>1, <2>4, <2>5 DEF ReadInv
<1>24. CASE /\ ret = in_len /\ rd' = rd + ret + pad /\ pad < in_pad
            /\ ReadReturns(ret, bytes)
  <2>1. in_len' = 0 /\ rd' = arrived /\ ret <= Len(bytes) /\ rd' \in Nat
    BY <1>1, <1>4, <1>14, <1>16, <1>17, <1>20, <1>24
  <2>2. /\ Calls' /\ Ordered' /\ call'.bytes = <<>> /\ Len(body') <= ContentLength
        /\ pc' \in {"script", "read"} /\ post_read' \in BOOLEAN
    BY <1>14, <1>21, <1>24, <2>1
  <2>3. arrived # Bytes(recs)
    BY <1>4, <1>11, <1>20, <1>24, <2>1
  <2>4. CutOff'
    BY <1>2, <1>3, <2>1, <2>2, <2>3 DEF CutOff
  <2>5. Typed'
    BY <1>4, <1>22, <2>1, <2>2
  <2>6. Reading(e)'
    BY <1>2, <1>3, <2>2, <2>3, <2>4 DEF Reading, Whereabouts
  <2>7. QED
    BY <1>3, <2>2, <2>5, <2>6 DEF ReadInv
<1>25. CASE /\ ret = in_len /\ rd' = rd + ret + pad /\ ~(pad < in_pad)
            /\ \/ ReadReturns(Len(bytes), bytes)
               \/ ret # rest /\ ReadGoesOn(bytes)
  <2>1. in_len' = 0 /\ rd' = At(recs, i + 1) /\ rd' \in Nat /\ rd' <= arrived
    BY <1>4, <1>11, <1>14, <1>16, <1>20, <1>25
  <2>2. Len(body) + Len(bytes) = BodyAt(recs, i + 1) /\ Len(bytes) # 0
    <3>1. Len(bytes) = Len(call.bytes) + in_len /\ Taken + in_len = BodyAt(recs, i + 1)
      BY <1>11, <1>17, <1>25
    <3>2. Len(body) + (Len(call.bytes) + in_len) = Taken + in_len
      BY <1>1, <1>4, <1>7
    <3>3. Len(call.bytes) + in_len # 0
      BY <1>1, <1>4
    <3>4. QED
      BY <3>1, <3>2, <3>3
  <2>3. ASSUME Taken' = Len(body) + Len(bytes) PROVE Whereabouts(e)'
    <3>1. HeaderAt(i + 1)'
      BY <1>3, <2>1, <2>2, <2>3 DEF HeaderAt
    <3>2. i + 1 \in e + 1 .. Len(recs) + 1
      BY <1>5, <1>6
    <3>3. QED
      BY <1>3, <3>1, <3>2 DEF Whereabouts
  <2>4. CASE ReadReturns(Len(bytes), bytes)
    <3>1. /\ Calls' /\ Ordered' /\ Len(body') <= ContentLength
          /\ pc' \in {"script", "read"} /\ post_read' \in BOOLEAN
          /\ Len(bytes) # 0 /\ post_read' => Len(body') = ContentLength
          /\ Taken' = Len(body) + Len(bytes)
      BY <1>19, <1>21, <2>4
    <3>2. Typed'
      BY <1>22, <2>1, <3>1
    <3>3. Reading(e)'
      BY <1>1, <1>2, <1>3, <2>2, <2>3, <3>1 DEF Reading
    <3>4. QED
      BY <1>3, <3>1, <3>2, <3>3 DEF ReadInv
  <2>5. CASE ret # rest /\ ReadGoesOn(bytes)
    <3>1. /\ UNCHANGED <<body, post_read, pc>>
          /\ call' = [call EXCEPT !.bytes = bytes]
      BY <2>5 DEF ReadGoesOn
    <3>2. call = [block |-> call.block, left |-> call.left, bytes |-> call.bytes,
                  total |-> call.total]
      BY <1>1
    <3>3. call' = [block |-> call.block, left |-> call.left, bytes |-> bytes,
                   total |-> call.total]
      BY <3>1, <3>2
    <3>4. /\ call'.bytes = bytes /\ call'.left = call.left /\ call'.block = call.block
          /\ call'.total = call.total
          /\ call' \in [block : Nat, left : Nat, bytes : Seq(Nat), total : Nat]
      BY <1>1, <1>17, <3>3
    <3>5. Len(bytes) < call.left
      BY <1>1, <1>13, <1>14, <1>17, <2>5
    <3>6. Calls'
      BY <1>1, <1>3, <3>1, <3>4, <3>5 DEF Calls
    <3>7. Ordered'
      BY <1>17, <3>1, <3>4 DEF Ordered
    <3>8. Taken' = Len(body) + Len(bytes)
      BY <3>1, <3>4 DEF Taken
    <3>9. Typed'
      BY <1>1, <1>22, <2>1, <3>1
    <3>10. Reading(e)'
      BY <1>1, <1>2, <1>3, <2>3, <3>1, <3>8 DEF Reading
    <3>11. QED
      BY <1>3, <3>6, <3>7, <3>9, <3>10 DEF ReadInv
  <2>6. QED
    BY <1>25, <2>4, <2>5
<1>26. QED
  BY <1>16, <1>18, <1>23, <1>24, <1>25

(* The reader's invariant holds at first. *)
LEMMA ReadStart ==
  ASSUME Init
  PROVE  ReadInv /\ Flags
<1>1. /\ request \in Requests /\ WellFormed(request)
      /\ rd = 0 /\ env = 0 /\ in_len = 0 /\ in_pad = 0 /\ call = NoCall /\ body = <<>>
      /\ request_body = FALSE /\ post_read = FALSE /\ pc = "begin"
  BY RequestAssumption DEF Init
<1>2. PICK e : Border(recs, e) /\ request.keep \in BOOLEAN
  BY <1>1, BorderExists
<1>3. recs \in Seq(Record) /\ Bytes(recs) \in Nat
  <2>1. recs \in Seq(Record) /\ 1 \in 1 .. Len(recs)
    BY <1>2, BorderFacts
  <2>2. QED
    BY <2>1, BeforeEnd
<1>4. arrived \in Nat /\ arrived <= Bytes(recs)
  BY <1>3 DEF Init
<1>5. Typed
  <2>1. 0 <= MaxContent
    BY DEF MaxContent
  <2>2. /\ rd \in Nat /\ rd <= arrived /\ env \in Nat /\ in_len \in Nat
        /\ in_len <= MaxContent /\ in_pad \in Nat /\ in_pad <= 255
    BY <1>1, <1>4, <2>1
  <2>3. /\ request_body \in BOOLEAN /\ post_read \in BOOLEAN
        /\ pc \in {"begin", "params", "script", "read", "closed"}
    BY <1>1
  <2>4. QED
    BY <1>4, <2>2, <2>3 DEF Typed
<1>6. Calls /\ Ordered
  BY <1>1 DEF Calls, Ordered, NoCall
<1>7. Reading(e)
  BY <1>1 DEF Reading
<1>8. Flags
  BY <1>2 DEF Flags, Init
<1>9. QED
  BY <1>2, <1>5, <1>6, <1>7, <1>8 DEF ReadInv

(* Every step keeps the reader's invariant. *)
LEMMA ReadStep ==
  ASSUME ReadInv, [Next]_vars
  PROVE  ReadInv'
<1>1. PICK e : Border(recs, e) /\ Typed /\ Calls /\ Ordered /\ Reading(e)
  BY DEF ReadInv
<1>2. CASE ReadRequest
  BY <1>1, <1>2, StartRead
<1>3. CASE ReadParams
  BY <1>1, <1>3, ParamsRead
<1>4. CASE \E block \in Blocks : ReadPost(block)
  BY <1>1, <1>4, PostRead
<1>5. CASE ReadBodyHeader
  BY <1>1, <1>5, HeaderRead
<1>6. CASE ReadBodyContent
  BY <1>1, <1>6, ContentRead
<1>7. CASE \/ \E t \in Stream, len \in Lens : Write(t, len)
           \/ Flush \/ FinishEarly \/ EndRequest
  <2>1. UNCHANGED inVars /\ (pc' = pc \/ (pc = "script" /\ pc' = "closed"))
    BY <1>7 DEF Write, Flush, FinishEarly, EndRequest
  <2>2. QED
    BY <1>1, <2>1, StillReading
<1>8. CASE UNCHANGED vars
  <2>1. UNCHANGED inVars /\ pc' = pc
    BY <1>8 DEF vars
  <2>2. QED
    BY <1>1, <2>1, StillReading
<1>9. QED
  BY <1>2, <1>3, <1>4, <1>5, <1>6, <1>7, <1>8 DEF Next

(* Every step keeps the types of the flags. *)
LEMMA FlagsStep ==
  ASSUME Flags, [Next]_vars
  PROVE  Flags'
<1> USE DEF Flags
<1>1. ASSUME NEW segs, NEW next, Emit(segs, next)
      PROVE  keep' \in BOOLEAN /\ failed' \in BOOLEAN
  BY <1>1 DEF Emit, Sent, NotSent
<1>2. ASSUME End PROVE keep' \in BOOLEAN /\ failed' \in BOOLEAN /\ ended' \in BOOLEAN
  BY <1>1, <1>2 DEF End
<1>3. CASE ReadRequest
  BY <1>3 DEF ReadRequest, outVars
<1>4. CASE ReadParams
  <2>1. UNCHANGED <<request, ended, failed, writes>>
    BY <1>4 DEF ReadParams, outVars
  <2>2. keep' = keep \/ keep' = FALSE \/ keep' = (keep /\ env = 0)
    BY <1>4 DEF ReadParams
  <2>3. keep' \in BOOLEAN
    BY <2>2
  <2>4. QED
    BY <2>1, <2>3
<1>5. CASE \E block \in Blocks : ReadPost(block)
  BY <1>5 DEF ReadPost, outVars
<1>6. CASE ReadBodyHeader
  BY <1>6 DEF ReadBodyHeader, outVars
<1>7. CASE ReadBodyContent
  BY <1>7 DEF ReadBodyContent, outVars
<1>8. CASE \E t \in Stream, len \in Lens : Write(t, len)
  <2>1. PICK t \in Stream, len \in Lens : Write(t, len)
    BY <1>8
  <2>2. keep' \in BOOLEAN /\ failed' \in BOOLEAN
    BY <1>1, <2>1 DEF Write
  <2>3. QED
    BY <2>1, <2>2 DEF Write, inVars
<1>9. CASE Flush
  <2>1. keep' \in BOOLEAN /\ failed' \in BOOLEAN
    BY <1>1, <1>9 DEF Flush
  <2>2. QED
    BY <1>9, <2>1 DEF Flush, inVars
<1>10. CASE FinishEarly
  BY <1>2, <1>10 DEF FinishEarly, inVars
<1>11. CASE EndRequest
  BY <1>2, <1>11 DEF EndRequest, inVars
<1>12. CASE UNCHANGED vars
  BY <1>12 DEF vars, inVars, outVars
<1>13. QED
  BY <1>3, <1>4, <1>5, <1>6, <1>7, <1>8, <1>9, <1>10, <1>11, <1>12 DEF Next

(* The reader's invariant always holds. *)
LEMMA ReadAlways == Spec => [](ReadInv /\ Flags)
<1>1. Init => ReadInv /\ Flags
  BY ReadStart
<1>2. (ReadInv /\ Flags) /\ [Next]_vars => (ReadInv /\ Flags)'
  BY ReadStep, FlagsStep
<1>3. QED
  BY <1>1, <1>2, PTL DEF Spec

(* What the script reads is the body from its start, in order, whatever of *)
(* the request has arrived when its callback is made, and all of it when   *)
(* all has, for requests of any number of records and blocks of any size   *)
(* (fcgi_read, sapi_cgi_read_post, sapi_read_post_block).                  *)
THEOREM BodyArrivesInOrder == Spec => []BodyInOrder
<1>1. ReadInv => BodyInOrder
  <2> SUFFICES ASSUME ReadInv PROVE BodyInOrder
    OBVIOUS
  <2>1. PICK e : Typed /\ Ordered /\ Reading(e)
    BY DEF ReadInv
  <2>2. \A k \in DOMAIN body : body[k] = k
    BY <2>1, LenProperties DEF Ordered
  <2>3. arrived = Bytes(recs) /\ post_read => Len(body) = ContentLength
    BY <2>1 DEF Typed, Reading
  <2>4. QED
    BY <2>2, <2>3 DEF BodyInOrder
<1>2. QED
  BY <1>1, ReadAlways, PTL

(* The types of the request's state, the reader's offset within what has   *)
(* arrived and the buffer's within out_buf among them.                     *)
THEOREM TypesAreKept == Spec => []TypeOK
<1>1. ReadInv /\ Flags /\ StreamInv => TypeOK
  <2> SUFFICES ASSUME ReadInv, Flags, StreamInv PROVE TypeOK
    OBVIOUS
  <2>1. Typed /\ body \in Seq(Nat)
    BY DEF ReadInv, Ordered
  <2>2. MaxContent \in Nat
    BY DEF MaxContent
  <2>3. /\ rd \in 0 .. arrived /\ in_len \in 0 .. MaxContent /\ in_pad \in 0 .. 255
    BY <2>1, <2>2 DEF Typed
  <2>4. buf.pos \in 0 .. BufSize /\ buf.hdr \in {NoHdr} \cup 0 .. BufSize
    BY BufferAssumption DEF StreamInv, Within, Sound, HeaderSize
  <2>5. written \in [Stream -> Nat] /\ fd \in {"open", "closed"}
    BY DEF StreamInv, Received, EndedFirst, Counts
  <2>6. QED
    BY <2>1, <2>3, <2>4, <2>5 DEF TypeOK, Typed, Flags
<1>2. QED
  BY <1>1, ReadAlways, StreamAlways, PTL
================================================================================
