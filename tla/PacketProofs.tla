----------------------------- MODULE PacketProofs -----------------------------
(***************************************************************************)
(* What the packing of two streams into records does to the buffer and to  *)
(* the client that receives the records.                                   *)
(***************************************************************************)
EXTENDS FcgiPackets, SequenceTheorems, TLAPS

(* A buffer as the operations make it. *)
Shaped(b) ==
  b = [pos |-> b.pos, hdr |-> b.hdr, stream |-> b.stream, body |-> b.body,
       done |-> b.done, top |-> b.top]

(* An open packet starts at a multiple of eight and leaves room behind its *)
(* content; without one the buffer is filled to a multiple of eight.       *)
Sound(b) ==
  /\ Shaped(b)
  /\ b.pos \in Nat /\ b.hdr \in Int /\ b.top \in Nat
  /\ IF b.hdr = NoHdr
     THEN b.pos <= BufSize /\ b.pos % 8 = 0
     ELSE /\ b.hdr >= 0 /\ b.hdr % 8 = 0
          /\ b.hdr + HeaderSize <= b.pos /\ b.pos < BufSize

(* A buffer without an open packet, ready to be written. *)
Closed(b) ==
  /\ Shaped(b)
  /\ b.hdr = NoHdr
  /\ b.pos \in Nat /\ b.pos % 8 = 0 /\ b.top \in Nat

(* The padding that close_packet adds is less than eight and aligns a record. *)
LEMMA PadFacts ==
  ASSUME NEW len \in Nat
  PROVE  /\ Pad(len) \in 0 .. 7
         /\ (len + Pad(len)) % 8 = 0
BY DEF Pad

(* Behind a header at a multiple of eight, content and buffer are aligned  *)
(* together.                                                               *)
LEMMA AlignedTogether ==
  ASSUME NEW p \in Nat, NEW h \in Nat, h % 8 = 0, h + 8 <= p
  PROVE  p + (8 * ((p - (h + 8) + 7) \div 8) - (p - (h + 8)))
           = 8 * ((p + 7) \div 8)
OBVIOUS

(* Closing a packet aligns the position to eight. *)
LEMMA CloseFacts ==
  ASSUME NEW b, Shaped(b), b.pos \in Nat, b.hdr \in Int, b.top \in Nat,
         b.hdr # NoHdr,
         b.hdr >= 0, b.hdr % 8 = 0, b.hdr + HeaderSize <= b.pos
  PROVE  LET c == ClosePacket(b)
         IN /\ Closed(c)
            /\ c.pos = 8 * ((b.pos + 7) \div 8)
            /\ c.top = Larger(b.top, c.pos)
<1> DEFINE len == b.pos - (b.hdr + HeaderSize)
<1>1. len \in Nat
  BY DEF HeaderSize
<1>2. Pad(len) \in 0 .. 7 /\ (len + Pad(len)) % 8 = 0
  BY <1>1, PadFacts
<1>3. b.pos + Pad(len) = 8 * ((b.pos + 7) \div 8)
  <2>1. b.hdr \in Nat /\ b.hdr + 8 <= b.pos
    BY DEF HeaderSize
  <2>2. Pad(len) = 8 * ((b.pos - (b.hdr + 8) + 7) \div 8) - (b.pos - (b.hdr + 8))
    BY DEF HeaderSize, Pad
  <2> HIDE DEF len
  <2>3. QED
    BY <2>1, <2>2, AlignedTogether
<1> DEFINE c == ClosePacket(b)
<1>4. c = [b EXCEPT !.hdr = NoHdr, !.body = <<>>, !.pos = b.pos + Pad(len),
                    !.top = Larger(b.top, b.pos + Pad(len)),
                    !.done = b.done \o <<Header(b.stream, len)>> \o b.body
                               \o Padding(Pad(len))]
  BY DEF ClosePacket
<1>5. /\ Shaped(c) /\ c.hdr = NoHdr /\ c.pos = b.pos + Pad(len)
      /\ c.top = Larger(b.top, b.pos + Pad(len))
  BY <1>4 DEF Shaped
<1>6. QED
  BY <1>2, <1>3, <1>5 DEF Closed, Larger

(* Opening a packet takes the eight bytes of a header. *)
LEMMA OpenFacts ==
  ASSUME NEW b, NEW t, Closed(b)
  PROVE  LET o == OpenPacket(b, t)
         IN /\ Shaped(o) /\ o.hdr = b.pos /\ o.pos = b.pos + HeaderSize
            /\ o.top = Larger(b.top, b.pos + HeaderSize) /\ o.top \in Nat
<1> DEFINE o == OpenPacket(b, t)
<1>1. o = [b EXCEPT !.hdr = b.pos, !.stream = t, !.pos = b.pos + HeaderSize,
                    !.top = Larger(b.top, b.pos + HeaderSize)]
  BY DEF OpenPacket
<1>2. /\ Shaped(o) /\ o.hdr = b.pos /\ o.pos = b.pos + HeaderSize
      /\ o.top = Larger(b.top, b.pos + HeaderSize)
  BY <1>1 DEF Closed, Shaped
<1>3. o.top \in Nat
  BY <1>2 DEF Closed, Larger, HeaderSize
<1>4. QED
  BY <1>2, <1>3

(* Copying bytes into the packet moves the position by their number. *)
LEMMA PutFacts ==
  ASSUME NEW b, NEW t, NEW from, NEW n \in Nat,
         Shaped(b), b.pos \in Nat, b.top \in Nat
  PROVE  LET p == Put(b, t, from, n)
         IN /\ Shaped(p) /\ p.hdr = b.hdr /\ p.pos = b.pos + n
            /\ p.top \in Nat /\ p.top <= Larger(b.top, b.pos + n)
<1>1. CASE n = 0
  BY <1>1 DEF Put, Larger
<1>2. CASE n # 0
  <2> DEFINE p == Put(b, t, from, n)
  <2>1. p = [b EXCEPT !.pos = b.pos + n, !.top = Larger(b.top, b.pos + n),
                      !.body = Append(b.body, Data(t, from, n))]
    BY <1>2 DEF Put
  <2>2. /\ Shaped(p) /\ p.hdr = b.hdr /\ p.pos = b.pos + n
        /\ p.top = Larger(b.top, b.pos + n)
    BY <2>1 DEF Shaped
  <2>3. QED
    BY <2>2 DEF Larger
<1>3. QED
  BY <1>1, <1>2

(* A buffer that was emptied is sound. *)
LEMMA EmptyFacts ==
  /\ Shaped(Empty) /\ Empty.pos = 0 /\ Empty.hdr = NoHdr /\ Empty.top = 0
  /\ Closed(Empty) /\ Sound(Empty)
<1>1. /\ Shaped(Empty) /\ Empty.pos = 0 /\ Empty.hdr = NoHdr /\ Empty.top = 0
  BY DEF Empty, Shaped
<1>2. NoHdr \in Int
  BY DEF NoHdr
<1>3. QED
  BY <1>1, <1>2, BufferAssumption DEF Closed, Sound

(* A sound buffer, closed, ends within out_buf. *)
LEMMA CloseSound ==
  ASSUME NEW b, Sound(b), b.top <= b.pos
  PROVE  LET c == ClosePacket(b)
         IN Closed(c) /\ c.pos <= BufSize /\ c.top <= c.pos
<1>1. CASE b.hdr = NoHdr
  BY <1>1 DEF Sound, Closed, ClosePacket
<1>2. CASE b.hdr # NoHdr
  <2>1. LET c == ClosePacket(b)
        IN /\ Closed(c) /\ c.pos = 8 * ((b.pos + 7) \div 8)
           /\ c.top = Larger(b.top, c.pos)
    BY <1>2, CloseFacts DEF Sound
  <2>2. b.pos \in Nat /\ b.pos < BufSize
    BY <1>2 DEF Sound
  <2>3. /\ b.pos <= 8 * ((b.pos + 7) \div 8)
        /\ 8 * ((b.pos + 7) \div 8) <= BufSize
    BY <2>2, BufferAssumption
  <2>4. QED
    BY <2>1, <2>2, <2>3 DEF Larger, Sound
<1>3. QED
  BY <1>1, <1>2

(* What the highest offset was set to changes nothing else. *)
LEMMA TopFacts ==
  ASSUME NEW b, NEW n \in Nat, Sound(b)
  PROVE  LET m == [b EXCEPT !.top = n]
         IN /\ Sound(m) /\ m.top = n /\ m.pos = b.pos /\ m.hdr = b.hdr
<1> DEFINE m == [b EXCEPT !.top = n]
<1>1. Shaped(m) /\ m.top = n /\ m.pos = b.pos /\ m.hdr = b.hdr
  BY DEF Sound, Shaped
<1>2. QED
  BY <1>1 DEF Sound

(* Changing to another stream closes the packet and keeps the buffer sound. *)
LEMMA SwitchFacts ==
  ASSUME NEW b, NEW t, Sound(b)
  PROVE  LET s == Switched(b, t) IN Sound(s) /\ s.top <= s.pos
<1> DEFINE fresh == [b EXCEPT !.top = b.pos]
<1>1. Sound(fresh) /\ fresh.top <= fresh.pos
  BY TopFacts DEF Sound
<1> HIDE DEF fresh
<1>2. LET c == ClosePacket(fresh) IN Sound(c) /\ c.top <= c.pos
  <2>1. LET c == ClosePacket(fresh)
        IN Closed(c) /\ c.pos <= BufSize /\ c.top <= c.pos
    BY <1>1, CloseSound
  <2>2. QED
    BY <2>1 DEF Sound, Closed, NoHdr
<1>3. Switched(b, t) \in {fresh, ClosePacket(fresh)}
  BY DEF Switched, fresh
<1>4. QED
  BY <1>1, <1>2, <1>3

(* Between two multiples of eight that differ by less than sixteen there   *)
(* is at most one more.                                                    *)
LEMMA LastPlaces ==
  ASSUME NEW size \in Nat, NEW p \in Nat, size % 8 = 0, p % 8 = 0, p <= size,
         p + 8 >= size
  PROVE  p + 8 = size \/ p = size
OBVIOUS

(* The packet a write goes into, and the end of what fits behind it. *)
LEMMA OpenedFacts ==
  ASSUME NEW b, NEW t, Sound(b), b.top <= b.pos
  PROVE  LET o == Opened(b, t)
         IN /\ Room(b) \in Nat
            /\ Shaped(o) /\ o.pos \in Nat /\ o.top \in Nat /\ o.top <= o.pos
            /\ o.hdr \in Nat /\ o.hdr % 8 = 0 /\ o.hdr + HeaderSize <= o.pos
            /\ o.pos + Room(b) <= BufSize + HeaderSize
            /\ (o.pos + Room(b)) % 8 = 0
            /\ Room(b) > 0 => o.pos + Room(b) = BufSize
<1>1. CASE b.hdr = NoHdr
  <2>1. LET o == OpenPacket(b, t)
        IN /\ Shaped(o) /\ o.hdr = b.pos /\ o.pos = b.pos + HeaderSize
           /\ o.top = Larger(b.top, b.pos + HeaderSize) /\ o.top \in Nat
    BY <1>1, OpenFacts DEF Sound, Closed
  <2>2. Opened(b, t) = OpenPacket(b, t)
    BY <1>1 DEF Opened
  <2>3. Room(b) = Larger(BufSize - b.pos - HeaderSize, 0)
    BY <1>1 DEF Room
  <2>4. b.pos \in Nat /\ b.pos <= BufSize /\ b.pos % 8 = 0 /\ b.top \in Nat
    BY <1>1 DEF Sound
  <2>5. BufSize \in Nat /\ BufSize % 8 = 0
    BY BufferAssumption
  <2>6. /\ Room(b) \in Nat
        /\ Room(b) = 0 =>
             b.pos + HeaderSize = BufSize \/ b.pos + HeaderSize = BufSize + 8
        /\ Room(b) > 0 => b.pos + HeaderSize + Room(b) = BufSize
    <3>1. CASE BufSize - b.pos - HeaderSize > 0
      BY <2>3, <2>4, <2>5, <3>1 DEF Larger, HeaderSize
    <3>2. CASE ~(BufSize - b.pos - HeaderSize > 0)
      <4>1. Room(b) = 0
        BY <2>3, <3>2 DEF Larger
      <4>2. b.pos + 8 >= BufSize
        BY <2>4, <2>5, <3>2 DEF HeaderSize
      <4>3. b.pos + 8 = BufSize \/ b.pos = BufSize
        BY <2>4, <2>5, <4>2, LastPlaces
      <4>4. QED
        BY <2>4, <2>5, <4>1, <4>3 DEF HeaderSize
    <3>3. QED
      BY <3>1, <3>2
  <2> HIDE DEF Opened, Room
  <2>7. /\ b.pos + HeaderSize + Room(b) <= BufSize + HeaderSize
        /\ (b.pos + HeaderSize + Room(b)) % 8 = 0
    BY <2>4, <2>5, <2>6 DEF HeaderSize
  <2> DEFINE o == OpenPacket(b, t)
  <2>8. /\ Shaped(o) /\ o.hdr = b.pos /\ o.pos = b.pos + HeaderSize
        /\ o.top \in Nat /\ o.top <= o.pos
    BY <2>1, <2>4 DEF Larger, HeaderSize
  <2> HIDE DEF o
  <2>9. /\ o.pos \in Nat /\ o.hdr \in Nat /\ o.hdr % 8 = 0
        /\ o.hdr + HeaderSize <= o.pos
    BY <2>4, <2>8 DEF HeaderSize
  <2>10. QED
    BY <2>2, <2>6, <2>7, <2>8, <2>9 DEF o
<1>2. CASE b.hdr # NoHdr
  <2>1. Opened(b, t) = b /\ Room(b) = BufSize - b.pos
    BY <1>2 DEF Opened, Room
  <2>2. /\ Shaped(b) /\ b.pos \in Nat /\ b.top \in Nat /\ b.hdr \in Nat
        /\ b.hdr % 8 = 0 /\ b.hdr + HeaderSize <= b.pos /\ b.pos < BufSize
    BY <1>2 DEF Sound
  <2>3. BufSize \in Nat /\ BufSize % 8 = 0
    BY BufferAssumption
  <2>4. Room(b) \in Nat /\ b.pos + Room(b) = BufSize
    BY <2>1, <2>2, <2>3
  <2> HIDE DEF Opened
  <2>5. QED
    BY <2>1, <2>2, <2>3, <2>4 DEF HeaderSize
<1>3. QED
  BY <1>1, <1>2

(* A flush, also that which ends the request, needs at most the reserve. *)
LEMMA FlushedFacts ==
  ASSUME NEW b, NEW end \in BOOLEAN, Sound(b)
  PROVE  LET p == Flushed(b, end)
         IN p.top \in Nat /\ p.top <= BufSize + Reserved
<1> DEFINE fresh == [b EXCEPT !.top = b.pos]
<1>1. Sound(fresh) /\ fresh.top <= fresh.pos
  BY TopFacts DEF Sound
<1> DEFINE c == ClosePacket(fresh)
<1>2. Flushed(b, end).top = IF end THEN c.pos + EndSize ELSE c.top
  BY DEF Flushed
<1> HIDE DEF fresh
<1>3. Closed(c) /\ c.pos <= BufSize /\ c.top <= c.pos
  BY <1>1, CloseSound
<1> HIDE DEF c
<1>4. QED
  BY <1>2, <1>3, BufferAssumption DEF Closed, EndSize, Reserved

(* What is left of a write after the buffer went out starts a new packet. *)
LEMMA FreshFacts ==
  ASSUME NEW t, NEW from, NEW n \in Nat, n + HeaderSize < BufSize
  PROVE  LET m == Put(OpenPacket(Empty, t), t, from, n)
         IN /\ Sound(m) /\ m.pos = HeaderSize + n
            /\ m.top \in Nat /\ m.top <= m.pos
<1> DEFINE o == OpenPacket(Empty, t)
<1>1. /\ Shaped(o) /\ o.hdr = 0 /\ o.pos = HeaderSize /\ o.top = HeaderSize
  BY EmptyFacts, OpenFacts DEF Larger, HeaderSize
<1> DEFINE m == Put(o, t, from, n)
<1> HIDE DEF o
<1>2. /\ Shaped(m) /\ m.hdr = 0 /\ m.pos = HeaderSize + n /\ m.top \in Nat
      /\ m.top <= Larger(HeaderSize, HeaderSize + n)
  BY <1>1, PutFacts DEF HeaderSize
<1> HIDE DEF m
<1>3. Sound(m) /\ m.pos = HeaderSize + n /\ m.top \in Nat /\ m.top <= m.pos
  BY <1>2, BufferAssumption DEF Sound, HeaderSize, Larger, NoHdr
<1>4. QED
  BY <1>3 DEF m, o

(* A sound buffer, or a full one that starts at a multiple of eight. *)
LEMMA FullFacts ==
  ASSUME NEW b, Shaped(b), b.pos \in Nat, b.hdr \in Nat, b.top \in Nat,
         b.hdr % 8 = 0, b.hdr + HeaderSize <= b.pos,
         b.pos % 8 = 0, b.pos <= BufSize + HeaderSize, b.top <= b.pos
  PROVE  LET c == ClosePacket(b)
         IN c.top \in Nat /\ c.top <= BufSize + HeaderSize
<1>1. b.hdr # NoHdr /\ b.hdr \in Int /\ b.hdr >= 0
  BY DEF NoHdr
<1> DEFINE c == ClosePacket(b)
<1>2. /\ Closed(c)
      /\ c.pos = 8 * ((b.pos + 7) \div 8)
      /\ c.top = Larger(b.top, c.pos)
  BY <1>1, CloseFacts
<1>3. 8 * ((b.pos + 7) \div 8) = b.pos
  OBVIOUS
<1> HIDE DEF c
<1>4. c.top \in Nat /\ c.top <= BufSize + HeaderSize
  BY <1>2, <1>3, BufferAssumption DEF Larger, Closed
<1>5. QED
  BY <1>4 DEF c

(* Writing past the buffer leaves a sound buffer. *)
LEMMA LargeFacts ==
  ASSUME NEW b, NEW t, NEW base, NEW len \in Nat, Sound(b), b.top <= b.pos
  PROVE  LET n == Large(b, t, base, len).buf
         IN Sound(n) /\ n.top <= BufSize + HeaderSize
<1> DEFINE c    == ClosePacket(b)
           left == len - Chunks(len) * Chunk
           rest == left % 8
           small == Put(OpenPacket(Empty, t), t, base + len - rest, rest)
           top  == Larger(c.top, c.pos + HeaderSize)
<1>1. Large(b, t, base, len).buf
        = [(IF rest = 0 THEN Empty ELSE small) EXCEPT !.top = top]
  BY DEF Large
<1>2. rest \in 0 .. 7
  <2>1. left \in Int
    <3>1. Chunks(len) \in Int
      BY DEF Chunks, MaxContent, Chunk
    <3>2. QED
      BY <3>1 DEF Chunk
  <2> HIDE DEF left
  <2>2. QED
    BY <2>1
<1>3. top \in Nat /\ top <= BufSize + HeaderSize
  <2>1. Closed(c) /\ c.pos <= BufSize /\ c.top <= c.pos
    BY CloseSound
  <2> HIDE DEF c
  <2>2. QED
    BY <2>1, BufferAssumption DEF Larger, Closed, HeaderSize
<1> HIDE DEF c, left, rest, top
<1>4. Sound(small)
  <2>1. rest \in Nat /\ rest + HeaderSize < BufSize
    BY <1>2, BufferAssumption DEF HeaderSize
  <2>2. QED
    BY <2>1, FreshFacts
<1> DEFINE next == IF rest = 0 THEN Empty ELSE small
<1>5. Sound(next)
  BY <1>4, EmptyFacts
<1> HIDE DEF next
<1>6. LET m == [next EXCEPT !.top = top]
      IN Sound(m) /\ m.top = top
  BY <1>3, <1>5, TopFacts
<1>7. QED
  BY <1>1, <1>3, <1>6 DEF next

(* Each branch of fcgi_write leaves a sound buffer. *)
LEMMA PackedFacts ==
  ASSUME NEW b, NEW t, NEW base, NEW len \in Nat, Sound(b)
  PROVE  LET n == Packed(b, t, base, len).buf
         IN Sound(n) /\ n.top <= BufSize + HeaderSize
<1> DEFINE b0   == Switched(b, t)
           room == Room(b0)
           o    == Opened(b0, t)
           full == Put(o, t, base, room)
           more == Put(OpenPacket(Empty, t), t, base + room, len - room)
           out  == ClosePacket(full)
           n    == Packed(b, t, base, len).buf
<1>1. Sound(b0) /\ b0.top <= b0.pos
  BY SwitchFacts
<1>2. /\ len < room => n = Put(o, t, base, len)
      /\ ~(len < room) /\ len - room < BufSize - HeaderSize =>
           n = IF len > room THEN [more EXCEPT !.top = Larger(out.top, more.pos)]
               ELSE [Empty EXCEPT !.top = out.top]
      /\ ~(len < room) /\ ~(len - room < BufSize - HeaderSize) =>
           n = Large(b0, t, base, len).buf
  BY DEF Packed
<1> HIDE DEF b0
<1>3. /\ room \in Nat
      /\ Shaped(o) /\ o.pos \in Nat /\ o.top \in Nat /\ o.top <= o.pos
      /\ o.hdr \in Nat /\ o.hdr % 8 = 0 /\ o.hdr + HeaderSize <= o.pos
      /\ o.pos + room <= BufSize + HeaderSize
      /\ (o.pos + room) % 8 = 0
      /\ room > 0 => o.pos + room = BufSize
  BY <1>1, OpenedFacts
<1> HIDE DEF room, o, n
<1> SUFFICES Sound(n) /\ n.top <= BufSize + HeaderSize
  BY DEF n
<1>s. BufSize \in Nat /\ BufSize >= 24
  BY BufferAssumption
<1>o. /\ o.pos \in Nat /\ o.top \in Nat /\ o.hdr \in Nat /\ room \in Nat
      /\ o.top <= o.pos
  BY <1>3
<1>4. CASE len < room
  <2> DEFINE p == Put(o, t, base, len)
  <2>1. /\ Shaped(p) /\ p.hdr = o.hdr /\ p.pos = o.pos + len
        /\ p.top \in Nat /\ p.top <= Larger(o.top, o.pos + len)
    BY <1>3, PutFacts
  <2> HIDE DEF p
  <2>2. o.pos + len < BufSize
    BY <1>s, <1>3, <1>4
  <2>3. Sound(p)
    <3>1. p.pos \in Nat /\ p.hdr \in Nat /\ p.hdr # NoHdr
      BY <1>o, <2>1 DEF NoHdr
    <3>2. p.hdr + HeaderSize <= p.pos /\ p.pos < BufSize
      BY <1>s, <1>3, <2>1, <2>2 DEF HeaderSize
    <3>3. QED
      BY <1>3, <2>1, <3>1, <3>2 DEF Sound
  <2>4. p.top <= BufSize + HeaderSize
    <3>1. Larger(o.top, o.pos + len) <= BufSize
      BY <1>s, <1>o, <2>2 DEF Larger
    <3>2. Larger(o.top, o.pos + len) \in Nat
      BY <1>o DEF Larger
    <3>3. QED
      BY <1>s, <2>1, <3>1, <3>2 DEF HeaderSize
  <2>5. QED
    BY <1>2, <1>4, <2>3, <2>4 DEF p
<1>5. CASE ~(len < room) /\ len - room < BufSize - HeaderSize
  <2>1. /\ Shaped(full) /\ full.hdr = o.hdr /\ full.pos = o.pos + room
        /\ full.top \in Nat /\ full.top <= Larger(o.top, o.pos + room)
    BY <1>3, PutFacts
  <2> HIDE DEF full
  <2>2. /\ full.pos \in Nat /\ full.hdr \in Nat /\ full.hdr % 8 = 0
        /\ full.hdr + HeaderSize <= full.pos /\ full.pos % 8 = 0
        /\ full.pos <= BufSize + HeaderSize /\ full.top <= full.pos
    <3>1. /\ full.pos \in Nat /\ full.hdr \in Nat /\ full.hdr % 8 = 0
          /\ full.pos % 8 = 0 /\ full.pos <= BufSize + HeaderSize
      BY <1>3, <2>1
    <3>2. full.hdr + HeaderSize <= full.pos
      BY <1>3, <2>1 DEF HeaderSize
    <3>3. Larger(o.top, o.pos + room) = o.pos + room
      BY <1>o DEF Larger
    <3>4. QED
      BY <2>1, <3>1, <3>2, <3>3
  <2>3. out.top \in Nat /\ out.top <= BufSize + HeaderSize
    BY <2>1, <2>2, FullFacts
  <2> HIDE DEF out
  <2>4. len - room \in Nat /\ (len - room) + HeaderSize < BufSize
    BY <1>3, <1>5, BufferAssumption DEF HeaderSize
  <2>5. /\ Sound(more) /\ more.pos = HeaderSize + (len - room)
    BY <2>4, FreshFacts
  <2> HIDE DEF more
  <2>6. CASE len > room
    <3> DEFINE k == Larger(out.top, more.pos)
    <3>1. k \in Nat /\ k <= BufSize + HeaderSize
      BY <2>3, <2>4, <2>5, BufferAssumption DEF Larger, HeaderSize
    <3> HIDE DEF k
    <3>2. LET m == [more EXCEPT !.top = k]
          IN Sound(m) /\ m.top = k
      BY <2>5, <3>1, TopFacts
    <3>3. QED
      BY <1>2, <1>5, <2>6, <3>1, <3>2 DEF k
  <2>7. CASE ~(len > room)
    <3>1. LET m == [Empty EXCEPT !.top = out.top]
          IN Sound(m) /\ m.top = out.top
      BY <2>3, EmptyFacts, TopFacts
    <3>2. QED
      BY <1>2, <1>5, <2>3, <2>7, <3>1
  <2>8. QED
    BY <2>6, <2>7
<1>6. CASE ~(len < room) /\ ~(len - room < BufSize - HeaderSize)
  BY <1>1, <1>2, <1>6, LargeFacts
<1>7. QED
  BY <1>4, <1>5, <1>6 DEF n

-----------------------------------------------------------------------------
(* The folds of FcgiPackets, one step at a time.                           *)

Segment == [what : {"header", "data", "padding", "end"}, stream : Stream,
            size : Nat, from : Nat, pad : Nat]

Client == [need : Nat, pad : Nat, stream : Stream, got : [Stream -> Nat],
           ended : BOOLEAN, torn : BOOLEAN, astray : BOOLEAN, extra : BOOLEAN]

Reception == INSTANCE FoldTheorems WITH Op <- Receive

AddContent(sum, s) == IF s.what = "data"
                      THEN [sum EXCEPT ![s.stream] = @ + s.size] ELSE sum
Counting == INSTANCE FoldTheorems WITH Op <- AddContent

Nothing == [t \in Stream |-> 0]

(* What a client has received is a fold. *)
LEMMA ReceptionIsFold ==
  ASSUME NEW c, NEW segs
  PROVE  ReceiveAll(c, segs) = Reception!Fold(c, segs)
BY DEF ReceiveAll, Reception!Fold, Reception!FoldLeft, FoldLeft,
       Reception!MapThenFoldSet, MapThenFoldSet, Reception!Max, Max

(* What segments hold of each stream is a fold. *)
LEMMA ContentsIsFold ==
  ASSUME NEW segs
  PROVE  Contents(segs) = Counting!Fold(Nothing, segs)
BY DEF Contents, AddContent, Nothing, Counting!Fold, Counting!FoldLeft, FoldLeft,
       Counting!MapThenFoldSet, MapThenFoldSet, Counting!Max, Max

(* Nothing changes nothing. *)
LEMMA ReceiveNone ==
  ASSUME NEW c
  PROVE  ReceiveAll(c, <<>>) = c
BY ReceptionIsFold, Reception!FoldOfEmpty

(* One segment is received by one step. *)
LEMMA ReceiveOne ==
  ASSUME NEW c, NEW s
  PROVE  ReceiveAll(c, <<s>>) = Receive(c, s)
BY ReceptionIsFold, Reception!FoldOfOne

(* A segment behind others is received after them. *)
LEMMA ReceiveAppend ==
  ASSUME NEW c, NEW segs \in Seq(Segment), NEW s \in Segment
  PROVE  ReceiveAll(c, Append(segs, s)) = Receive(ReceiveAll(c, segs), s)
BY ReceptionIsFold, Reception!FoldOfAppend

(* Segments behind others are received after them. *)
LEMMA ReceiveConcat ==
  ASSUME NEW c, NEW x \in Seq(Segment), NEW y \in Seq(Segment)
  PROVE  ReceiveAll(c, x \o y) = ReceiveAll(ReceiveAll(c, x), y)
BY ReceptionIsFold, Reception!FoldOfConcat

(* What a client makes of a piece of content it expects. *)
LEMMA ReceiveContent ==
  ASSUME NEW c \in Client, NEW s \in Segment, s.what = "data",
         ~c.ended, ~c.torn, ~c.astray, Expects(c, s)
  PROVE  Receive(c, s) =
           [need |-> c.need - s.size, pad |-> c.pad, stream |-> c.stream,
            got |-> [c.got EXCEPT ![s.stream] = @ + s.size],
            ended |-> c.ended, torn |-> c.torn, astray |-> c.astray,
            extra |-> c.extra]
<1>1. Receive(c, s) = [c EXCEPT !.need = @ - s.size, !.got[s.stream] = @ + s.size]
  BY DEF Receive
<1>2. c = [need |-> c.need, pad |-> c.pad, stream |-> c.stream, got |-> c.got,
           ended |-> c.ended, torn |-> c.torn, astray |-> c.astray,
           extra |-> c.extra]
  BY DEF Client
<1>3. QED
  BY <1>1, <1>2 DEF Client

(* A step keeps the client's type. *)
LEMMA ReceiveTyped ==
  ASSUME NEW c \in Client, NEW s \in Segment
  PROVE  Receive(c, s) \in Client
<1>1. CASE c.ended
  BY <1>1 DEF Receive, Client
<1>2. CASE ~c.ended /\ (c.torn \/ c.astray \/ ~Expects(c, s))
  BY <1>2 DEF Receive, Client
<1>3. CASE ~c.ended /\ ~c.torn /\ ~c.astray /\ Expects(c, s)
  <2>1. CASE s.what = "header"
    BY <1>3, <2>1 DEF Receive, Client, Segment
  <2>2. CASE s.what = "data"
    <3>1. s.size \in Nat /\ s.stream \in Stream /\ s.size <= c.need
      BY <1>3, <2>2 DEF Segment, Expects
    <3>2. c.need - s.size \in Nat
      BY <3>1 DEF Client
    <3>3. [c.got EXCEPT ![s.stream] = @ + s.size] \in [Stream -> Nat]
      BY <3>1 DEF Client
    <3>4. QED
      BY <1>3, <2>2, <3>2, <3>3, ReceiveContent DEF Client
  <2>3. CASE s.what = "padding"
    BY <1>3, <2>3 DEF Receive, Client, Segment, Expects
  <2>4. CASE s.what = "end"
    BY <1>3, <2>4 DEF Receive, Client, Segment
  <2>5. QED
    BY <2>1, <2>2, <2>3, <2>4 DEF Segment
<1>4. QED
  BY <1>1, <1>2, <1>3

(* A client's type is kept, whatever it receives. *)
LEMMA ReceiveAllTyped ==
  ASSUME NEW c \in Client, NEW segs \in Seq(Segment)
  PROVE  ReceiveAll(c, segs) \in Client
BY ReceptionIsFold, ReceiveTyped, Reception!FoldStays

-----------------------------------------------------------------------------
(* What the client makes of whole records.                                 *)

(* A client in a record of stream t, that has g of the streams and expects *)
(* n more bytes of content and p of padding; and one between two records.  *)
InRecord(g, t, n, p) ==
  [need |-> n, pad |-> p, stream |-> t, got |-> g, ended |-> FALSE,
   torn |-> FALSE, astray |-> FALSE, extra |-> FALSE]

Resting(g, t) == InRecord(g, t, 0, 0)

Counts == [Stream -> Nat]
Above(h, g) == \A t \in Stream : g[t] <= h[t]

(* What may be in front of the end, when h bytes of each stream have been  *)
(* written.                                                                *)
Piece(h) == {s \in Segment : /\ s.what # "end"
                             /\ s.what = "data" => s.from + s.size <= h[s.stream]}

(* segs are whole records that bring a client from g bytes to h bytes.     *)
Carries(segs, g, h) ==
  /\ g \in Counts /\ h \in Counts /\ Above(h, g)
  /\ segs \in Seq(Piece(h))
  /\ \A s \in Stream : \E t \in Stream :
       ReceiveAll(Resting(g, s), segs) = Resting(h, t)

(* body is the content of a record, n bytes of stream t behind the first   *)
(* g[t].                                                                   *)
Plus(g, t, n) == [g EXCEPT ![t] = @ + n]

Runs(body, g, t, n) ==
  /\ g \in Counts /\ t \in Stream /\ n \in Nat
  /\ body \in Seq(Piece(Plus(g, t, n)))
  /\ \A m \in Nat, p \in Nat :
       n <= m => ReceiveAll(InRecord(g, t, m, p), body)
                   = InRecord(Plus(g, t, n), t, m - n, p)

(* Counting bytes of one stream. *)
LEMMA PlusFacts ==
  ASSUME NEW g \in Counts, NEW t \in Stream, NEW n \in Nat
  PROVE  /\ Plus(g, t, n) \in Counts /\ Above(Plus(g, t, n), g)
         /\ Plus(g, t, n)[t] = g[t] + n
         /\ \A s \in Stream : s # t => Plus(g, t, n)[s] = g[s]
         /\ Plus(g, t, 0) = g
         /\ \A k \in Nat : /\ Plus(Plus(g, t, n), t, k) = Plus(g, t, n + k)
                           /\ Above(Plus(g, t, n + k), Plus(g, t, n))
BY DEF Plus, Counts, Above

(* Being above is transitive. *)
LEMMA AboveTogether ==
  ASSUME NEW f \in Counts, NEW g \in Counts, NEW h \in Counts, Above(g, f), Above(h, g)
  PROVE  Above(h, f)
BY DEF Above, Counts

(* The states of a client between and within records are states of a client. *)
LEMMA RestingTyped ==
  ASSUME NEW g \in Counts, NEW t \in Stream, NEW n \in Nat, NEW p \in Nat
  PROVE  InRecord(g, t, n, p) \in Client /\ Resting(g, t) \in Client
BY DEF InRecord, Resting, Client, Counts

(* Where more was written, pieces of what was are still pieces. *)
LEMMA PieceGrows ==
  ASSUME NEW g \in Counts, NEW h \in Counts, Above(h, g)
  PROVE  /\ Piece(g) \subseteq Piece(h)
         /\ \A segs : segs \in Seq(Piece(g)) => segs \in Seq(Piece(h))
<1>1. Piece(g) \subseteq Piece(h)
  <2>1. ASSUME NEW s \in Piece(g) PROVE s \in Piece(h)
    <3>1. /\ s \in Segment /\ s.what # "end"
          /\ s.what = "data" => s.from + s.size <= g[s.stream]
      BY DEF Piece
    <3>2. /\ s.from \in Nat /\ s.size \in Nat /\ s.stream \in Stream
          /\ g[s.stream] <= h[s.stream] /\ g[s.stream] \in Nat /\ h[s.stream] \in Nat
      BY <3>1 DEF Segment, Above, Counts
    <3>3. QED
      BY <3>1, <3>2 DEF Piece
  <2>2. QED
    BY <2>1
<1>2. QED
  BY <1>1, SeqMonotonic

(* Pieces are segments. *)
LEMMA PiecesAreSegments ==
  ASSUME NEW h, NEW segs \in Seq(Piece(h))
  PROVE  segs \in Seq(Segment)
BY SeqMonotonic DEF Piece

(* No segment carries nothing. *)
LEMMA CarriesNothing ==
  ASSUME NEW g \in Counts
  PROVE  Carries(<<>>, g, g)
<1>1. <<>> \in Seq(Piece(g)) /\ Above(g, g)
  BY DEF Above, Counts
<1>2. QED
  BY <1>1, ReceiveNone DEF Carries

(* What carries from g to h, and then what carries from h to k. *)
LEMMA CarriesOn ==
  ASSUME NEW x, NEW y, NEW g, NEW h, NEW k, Carries(x, g, h), Carries(y, h, k)
  PROVE  Carries(x \o y, g, k)
<1>1. g \in Counts /\ h \in Counts /\ k \in Counts /\ Above(k, g)
  BY DEF Carries, Above, Counts
<1>2. x \in Seq(Piece(k)) /\ y \in Seq(Piece(k))
  BY <1>1, PieceGrows DEF Carries
<1>3. x \o y \in Seq(Piece(k))
  BY <1>2
<1>4. ASSUME NEW s \in Stream
      PROVE  \E t \in Stream : ReceiveAll(Resting(g, s), x \o y) = Resting(k, t)
  <2>1. PICK u \in Stream : ReceiveAll(Resting(g, s), x) = Resting(h, u)
    BY DEF Carries
  <2>2. PICK t \in Stream : ReceiveAll(Resting(h, u), y) = Resting(k, t)
    BY DEF Carries
  <2>3. x \in Seq(Segment) /\ y \in Seq(Segment)
    BY <1>2, PiecesAreSegments
  <2>4. QED
    BY <2>1, <2>2, <2>3, ReceiveConcat
<1>5. QED
  BY <1>1, <1>3, <1>4 DEF Carries

(* An open packet without content. *)
LEMMA RunsEmpty ==
  ASSUME NEW g \in Counts, NEW t \in Stream
  PROVE  Runs(<<>>, g, t, 0)
<1>1. Plus(g, t, 0) = g /\ <<>> \in Seq(Piece(Plus(g, t, 0)))
  BY PlusFacts
<1>2. ASSUME NEW m \in Nat, NEW p \in Nat
      PROVE  ReceiveAll(InRecord(g, t, m, p), <<>>)
               = InRecord(Plus(g, t, 0), t, m - 0, p)
  BY <1>1, ReceiveNone
<1>3. QED
  BY <1>1, <1>2 DEF Runs

(* Content of what was written is a piece of it. *)
LEMMA DataFacts ==
  ASSUME NEW t \in Stream, NEW f \in Nat, NEW n \in Nat, NEW h \in Counts,
         f + n <= h[t]
  PROVE  Data(t, f, n) \in Piece(h)
BY DEF Data, Piece, Segment

(* A client takes the content that comes next. *)
LEMMA DataReceived ==
  ASSUME NEW t \in Stream, NEW g \in Counts, NEW n \in Nat,
         NEW m \in Nat, NEW p \in Nat, n <= m
  PROVE  Receive(InRecord(g, t, m, p), Data(t, g[t], n))
           = InRecord(Plus(g, t, n), t, m - n, p)
<1> DEFINE c == InRecord(g, t, m, p)
           s == Data(t, g[t], n)
<1>1. c \in Client
  BY RestingTyped
<1>2. s \in Segment /\ s.what = "data" /\ s.size = n /\ s.stream = t /\ s.from = g[t]
  BY DEF Data, Segment, Counts
<1>3. /\ c.need = m /\ c.pad = p /\ c.stream = t /\ c.got = g
      /\ c.ended = FALSE /\ c.torn = FALSE /\ c.astray = FALSE /\ c.extra = FALSE
  BY DEF InRecord
<1> HIDE DEF c, s
<1>4. Expects(c, s)
  BY <1>2, <1>3 DEF Expects
<1>5. Receive(c, s) = [need |-> m - n, pad |-> p, stream |-> t,
                       got |-> [g EXCEPT ![t] = @ + n],
                       ended |-> FALSE, torn |-> FALSE, astray |-> FALSE,
                       extra |-> FALSE]
  BY <1>1, <1>2, <1>3, <1>4, ReceiveContent
<1>6. QED
  BY <1>5 DEF c, s, InRecord, Plus

(* Content that continues the open packet. *)
LEMMA RunsMore ==
  ASSUME NEW body, NEW g, NEW t, NEW n, Runs(body, g, t, n), NEW k \in Nat
  PROVE  Runs(Append(body, Data(t, g[t] + n, k)), g, t, n + k)
<1> DEFINE h == Plus(g, t, n)
           i == Plus(g, t, n + k)
           s == Data(t, g[t] + n, k)
<1>1. g \in Counts /\ t \in Stream /\ n \in Nat /\ n + k \in Nat
  BY DEF Runs
<1>2. /\ h \in Counts /\ i \in Counts /\ Above(i, h) /\ h[t] = g[t] + n
      /\ i[t] = g[t] + (n + k) /\ Plus(h, t, k) = i
  BY <1>1, PlusFacts
<1>3. g[t] \in Nat /\ g[t] + n \in Nat /\ (g[t] + n) + k <= i[t]
  BY <1>1, <1>2 DEF Counts
<1>4. s \in Piece(i)
  BY <1>1, <1>2, <1>3, DataFacts
<1>5. body \in Seq(Piece(i))
  BY <1>2, PieceGrows DEF Runs
<1>6. Append(body, s) \in Seq(Piece(i))
  BY <1>4, <1>5
<1>7. body \in Seq(Segment) /\ s \in Segment
  BY <1>4, <1>5, PiecesAreSegments DEF Piece
<1>8. ASSUME NEW m \in Nat, NEW p \in Nat, n + k <= m
      PROVE  ReceiveAll(InRecord(g, t, m, p), Append(body, s))
               = InRecord(i, t, m - (n + k), p)
  <2>1. n <= m /\ m - n \in Nat /\ k <= m - n /\ (m - n) - k = m - (n + k)
    BY <1>1, <1>8
  <2>2. ReceiveAll(InRecord(g, t, m, p), body) = InRecord(h, t, m - n, p)
    BY <2>1 DEF Runs
  <2>3. Receive(InRecord(h, t, m - n, p), Data(t, h[t], k))
          = InRecord(Plus(h, t, k), t, (m - n) - k, p)
    BY <1>1, <1>2, <2>1, DataReceived
  <2> HIDE DEF h, i
  <2>4. QED
    BY <1>2, <1>7, <2>1, <2>2, <2>3, ReceiveAppend
<1>9. QED
  BY <1>1, <1>6, <1>8 DEF Runs

(* A client between records takes any header. *)
LEMMA HeaderReceived ==
  ASSUME NEW t \in Stream, NEW g \in Counts, NEW s \in Stream, NEW len \in Nat
  PROVE  /\ \A h : Header(t, len) \in Piece(h)
         /\ Receive(Resting(g, s), Header(t, len)) = InRecord(g, t, len, Pad(len))
<1>1. Pad(len) \in Nat
  BY PadFacts
<1>2. \A h : Header(t, len) \in Piece(h)
  BY <1>1 DEF Header, Piece, Segment, HeaderSize
<1> DEFINE c == Resting(g, s)
           x == Header(t, len)
<1>3. /\ c = [need |-> 0, pad |-> 0, stream |-> s, got |-> g, ended |-> FALSE,
              torn |-> FALSE, astray |-> FALSE, extra |-> FALSE]
  BY DEF Resting, InRecord
<1>4. /\ x.what = "header" /\ x.stream = t /\ x.size = HeaderSize /\ x.from = len
      /\ x.pad = Pad(len)
  BY DEF Header
<1> HIDE DEF c, x
<1>5. Expects(c, x)
  BY <1>3, <1>4 DEF Expects
<1>6. ~(x.size < HeaderSize)
  BY <1>4 DEF HeaderSize
<1>7. Receive(c, x) = [c EXCEPT !.need = x.from, !.pad = x.pad, !.stream = x.stream]
  BY <1>3, <1>4, <1>5, <1>6 DEF Receive
<1>8. Receive(c, x) = InRecord(g, t, len, Pad(len))
  BY <1>3, <1>4, <1>7 DEF InRecord
<1>9. QED
  BY <1>2, <1>8 DEF c, x

(* The padding returns the client to between records. *)
LEMMA PaddingReceived ==
  ASSUME NEW t \in Stream, NEW g \in Counts, NEW p \in Nat
  PROVE  /\ \A h : Padding(p) \in Seq(Piece(h))
         /\ ReceiveAll(InRecord(g, t, 0, p), Padding(p)) = Resting(g, t)
<1>1. CASE p = 0
  <2>1. Padding(p) = <<>>
    BY <1>1 DEF Padding
  <2>2. \A h : Padding(p) \in Seq(Piece(h))
    BY <2>1
  <2>3. ReceiveAll(InRecord(g, t, 0, 0), <<>>) = InRecord(g, t, 0, 0)
    BY ReceiveNone
  <2>4. QED
    BY <1>1, <2>1, <2>2, <2>3 DEF Resting
<1>2. CASE p # 0
  <2> DEFINE x == [what |-> "padding", stream |-> "stdout", size |-> p,
                   from |-> 0, pad |-> 0]
             c == InRecord(g, t, 0, p)
  <2>1. Padding(p) = <<x>>
    BY <1>2 DEF Padding
  <2>2. \A h : x \in Piece(h)
    BY DEF Piece, Segment, Stream
  <2>3. Padding(p) \in Seq(Segment) /\ \A h : Padding(p) \in Seq(Piece(h))
    BY <2>1, <2>2 DEF Piece
  <2>4. c = [need |-> 0, pad |-> p, stream |-> t, got |-> g, ended |-> FALSE,
             torn |-> FALSE, astray |-> FALSE, extra |-> FALSE]
    BY DEF InRecord
  <2>5. x.what = "padding" /\ x.size = p
    OBVIOUS
  <2> HIDE DEF c, x
  <2>6. Expects(c, x)
    BY <2>4, <2>5 DEF Expects
  <2>7. Receive(c, x) = [c EXCEPT !.pad = 0]
    <3>1. Receive(c, x) = [c EXCEPT !.pad = @ - x.size]
      BY <2>4, <2>5, <2>6 DEF Receive
    <3>2. c.pad - x.size = 0
      BY <2>4, <2>5
    <3>3. QED
      BY <2>4, <3>1, <3>2
  <2>8. Receive(c, x) = Resting(g, t)
    BY <2>4, <2>5, <2>7 DEF Resting, InRecord
  <2>9. QED
    BY <2>1, <2>3, <2>8, ReceiveOne DEF c
<1>3. QED
  BY <1>1, <1>2

(* A closed packet carries its content. *)
LEMMA PacketCarries ==
  ASSUME NEW done, NEW body, NEW f, NEW g, NEW t, NEW n,
         Carries(done, f, g), Runs(body, g, t, n)
  PROVE  Carries(done \o <<Header(t, n)>> \o body \o Padding(Pad(n)), f, Plus(g, t, n))
<1> DEFINE h == Plus(g, t, n)
           p == Pad(n)
           head == <<Header(t, n)>>
           pad == Padding(p)
<1>1. f \in Counts /\ g \in Counts /\ t \in Stream /\ n \in Nat /\ p \in Nat
  <2>1. f \in Counts /\ g \in Counts
    BY DEF Carries
  <2>2. t \in Stream /\ n \in Nat
    BY DEF Runs
  <2>3. p \in 0 .. 7
    BY <2>2, PadFacts
  <2> HIDE DEF p
  <2>4. p \in Nat
    BY <2>3
  <2>5. QED
    BY <2>1, <2>2, <2>4
<1>2. h \in Counts /\ Above(h, g) /\ Above(h, f)
  <2>1. h \in Counts /\ Above(h, g)
    BY <1>1, PlusFacts
  <2>2. Above(g, f)
    BY DEF Carries
  <2>3. QED
    BY <1>1, <2>1, <2>2, AboveTogether
<1>3. /\ done \in Seq(Piece(h)) /\ body \in Seq(Piece(h)) /\ pad \in Seq(Piece(h))
      /\ head \in Seq(Piece(h))
  BY <1>1, <1>2, HeaderReceived, PaddingReceived, PieceGrows DEF Runs, Carries
<1> DEFINE two == done \o head
           three == two \o body
           all == three \o pad
<1>4. two \in Seq(Piece(h)) /\ three \in Seq(Piece(h)) /\ all \in Seq(Piece(h))
  BY <1>3
<1>5. /\ done \in Seq(Segment) /\ body \in Seq(Segment) /\ pad \in Seq(Segment)
      /\ head \in Seq(Segment) /\ two \in Seq(Segment) /\ three \in Seq(Segment)
  BY <1>3, <1>4, PiecesAreSegments
<1>6. ASSUME NEW s \in Stream
      PROVE  ReceiveAll(Resting(f, s), all) = Resting(h, t)
  <2>1. PICK u \in Stream : ReceiveAll(Resting(f, s), done) = Resting(g, u)
    BY DEF Carries
  <2>2. ReceiveAll(Resting(g, u), head) = InRecord(g, t, n, p)
    BY <1>1, ReceiveOne, HeaderReceived
  <2>3. ReceiveAll(InRecord(g, t, n, p), body) = InRecord(h, t, 0, p)
    <3>1. n <= n /\ n - n = 0
      BY <1>1
    <3>2. ReceiveAll(InRecord(g, t, n, p), body) = InRecord(h, t, n - n, p)
      BY <1>1, <3>1 DEF Runs
    <3>3. QED
      BY <3>1, <3>2
  <2>4. ReceiveAll(InRecord(h, t, 0, p), pad) = Resting(h, t)
    BY <1>1, <1>2, PaddingReceived
  <2> HIDE DEF head, pad, p, h
  <2>5. ReceiveAll(Resting(f, s), two) = InRecord(g, t, n, p)
    BY <1>5, <2>1, <2>2, ReceiveConcat
  <2> HIDE DEF two
  <2>6. ReceiveAll(Resting(f, s), three) = InRecord(h, t, 0, p)
    BY <1>5, <2>3, <2>5, ReceiveConcat
  <2> HIDE DEF three
  <2>7. QED
    BY <1>5, <2>4, <2>6, ReceiveConcat
<1>7. QED
  BY <1>1, <1>2, <1>4, <1>6 DEF Carries

(* What the buffer holds takes a client from g bytes of the streams to h:  *)
(* whole records and, behind an open packet's header, content.             *)
Held(b) == b.pos - (b.hdr + HeaderSize)

Holds(b, g, h) ==
  \E k : /\ Carries(b.done, g, k)
         /\ IF b.hdr = NoHdr THEN b.body = <<>> /\ h = k
            ELSE Runs(b.body, k, b.stream, Held(b)) /\ h = Plus(k, b.stream, Held(b))

(* What a buffer holds does not depend on the highest byte touched. *)
LEMMA HoldsFields ==
  ASSUME NEW b, NEW c, NEW g, NEW h, Holds(b, g, h),
         c.done = b.done, c.body = b.body, c.hdr = b.hdr, c.stream = b.stream,
         c.pos = b.pos
  PROVE  Holds(c, g, h)
BY DEF Holds, Held

(* The counts between which a buffer holds are counts. *)
LEMMA HoldsTyped ==
  ASSUME NEW b, NEW g, NEW h, Holds(b, g, h)
  PROVE  g \in Counts /\ h \in Counts /\ Above(h, g)
<1>1. PICK k : /\ Carries(b.done, g, k)
              /\ IF b.hdr = NoHdr THEN b.body = <<>> /\ h = k
                 ELSE Runs(b.body, k, b.stream, Held(b)) /\ h = Plus(k, b.stream, Held(b))
  BY DEF Holds
<1>2. g \in Counts /\ k \in Counts /\ Above(k, g)
  BY <1>1 DEF Carries
<1>3. CASE b.hdr = NoHdr
  BY <1>1, <1>2, <1>3
<1>4. CASE b.hdr # NoHdr
  <2>1. b.stream \in Stream /\ Held(b) \in Nat
    BY <1>1, <1>4 DEF Runs
  <2>2. h \in Counts /\ Above(h, k)
    BY <1>1, <1>2, <1>4, <2>1, PlusFacts
  <2>3. QED
    BY <1>2, <2>2 DEF Above, Counts
<1>5. QED
  BY <1>3, <1>4

(* An empty buffer holds nothing. *)
LEMMA EmptyHolds ==
  ASSUME NEW g \in Counts
  PROVE  Holds(Empty, g, g)
BY CarriesNothing DEF Holds, Empty, NoHdr

(* What close_packet makes of an open packet. *)
LEMMA ClosedFields ==
  ASSUME NEW b, Shaped(b), b.hdr # NoHdr
  PROVE  LET c == ClosePacket(b)
         IN /\ c.done = b.done \o <<Header(b.stream, Held(b))>> \o b.body
                          \o Padding(Pad(Held(b)))
            /\ c.body = <<>> /\ c.hdr = NoHdr
BY DEF ClosePacket, Shaped, Held

(* Closing a packet loses nothing of it. *)
LEMMA CloseHolds ==
  ASSUME NEW b, NEW g, NEW h, Shaped(b), Holds(b, g, h)
  PROVE  LET c == ClosePacket(b)
         IN /\ Carries(c.done, g, h)
            /\ c.hdr = NoHdr /\ c.body = <<>> /\ Holds(c, g, h)
<1>1. PICK k : /\ Carries(b.done, g, k)
              /\ IF b.hdr = NoHdr THEN b.body = <<>> /\ h = k
                 ELSE Runs(b.body, k, b.stream, Held(b)) /\ h = Plus(k, b.stream, Held(b))
  BY DEF Holds
<1>2. CASE b.hdr = NoHdr
  <2>1. ClosePacket(b) = b
    BY <1>2 DEF ClosePacket
  <2>2. QED
    BY <1>1, <1>2, <2>1
<1>3. CASE b.hdr # NoHdr
  <2> DEFINE c == ClosePacket(b)
             head == <<Header(b.stream, Held(b))>>
             pad == Padding(Pad(Held(b)))
  <2>1. c.done = b.done \o head \o b.body \o pad /\ c.body = <<>> /\ c.hdr = NoHdr
    BY <1>3, ClosedFields
  <2>2. Runs(b.body, k, b.stream, Held(b)) /\ h = Plus(k, b.stream, Held(b))
    BY <1>1, <1>3
  <2>3. Carries(b.done \o head \o b.body \o pad, g, h)
    BY <1>1, <2>2, PacketCarries
  <2>4. Carries(c.done, g, h)
    BY <2>1, <2>3
  <2> HIDE DEF c
  <2>5. QED
    BY <2>1, <2>4 DEF Holds, c
<1>4. QED
  BY <1>2, <1>3

(* Opening a packet adds nothing. *)
LEMMA OpenHolds ==
  ASSUME NEW b, NEW g, NEW h, NEW t \in Stream, Shaped(b), Holds(b, g, h),
         b.hdr = NoHdr, b.pos \in Nat
  PROVE  LET o == OpenPacket(b, t)
         IN Holds(o, g, h) /\ o.stream = t /\ o.hdr = b.pos
<1> DEFINE o == OpenPacket(b, t)
<1>1. /\ o.done = b.done /\ o.body = b.body /\ o.hdr = b.pos /\ o.stream = t
      /\ o.pos = b.pos + HeaderSize
  BY DEF OpenPacket, Shaped
<1>2. Carries(b.done, g, h) /\ b.body = <<>>
  BY DEF Holds
<1> HIDE DEF o
<1>3. Held(o) = 0 /\ o.hdr # NoHdr
  BY <1>1 DEF Held, HeaderSize, NoHdr
<1>4. h \in Counts
  BY HoldsTyped
<1>5. Runs(<<>>, h, t, 0) /\ Plus(h, t, 0) = h
  BY <1>4, RunsEmpty, PlusFacts
<1>6. QED
  BY <1>1, <1>2, <1>3, <1>5 DEF Holds, o

(* Bytes put in the open packet are held by the buffer. *)
LEMMA PutHolds ==
  ASSUME NEW b, NEW g, NEW h, NEW t \in Stream, NEW n \in Nat, Shaped(b),
         Holds(b, g, h), b.hdr # NoHdr, b.stream = t, b.hdr \in Int, b.pos \in Int
  PROVE  LET p == Put(b, t, h[t], n)
         IN Holds(p, g, Plus(h, t, n)) /\ p.stream = t /\ p.hdr = b.hdr
<1>0. h \in Counts
  BY HoldsTyped
<1>1. CASE n = 0
  <2>1. Put(b, t, h[t], n) = b
    BY <1>1 DEF Put
  <2>2. Plus(h, t, n) = h
    BY <1>0, <1>1, PlusFacts
  <2>3. QED
    BY <2>1, <2>2
<1>2. CASE n # 0
  <2> DEFINE p == Put(b, t, h[t], n)
  <2>1. /\ p.done = b.done /\ p.hdr = b.hdr /\ p.stream = t /\ p.pos = b.pos + n
        /\ p.body = Append(b.body, Data(t, h[t], n))
    BY <1>2 DEF Put, Shaped
  <2> HIDE DEF p
  <2>2. PICK k : /\ Carries(b.done, g, k)
                /\ Runs(b.body, k, t, Held(b)) /\ h = Plus(k, t, Held(b))
    BY DEF Holds
  <2>3. k \in Counts /\ Held(b) \in Nat
    BY <2>2 DEF Runs
  <2>4. Held(p) = Held(b) + n
    BY <2>1 DEF Held, HeaderSize
  <2>5. h[t] = k[t] + Held(b) /\ Plus(h, t, n) = Plus(k, t, Held(b) + n)
    BY <2>2, <2>3, PlusFacts
  <2>6. Runs(p.body, k, t, Held(p))
    BY <2>1, <2>2, <2>4, <2>5, RunsMore
  <2>7. QED
    BY <2>1, <2>2, <2>4, <2>5, <2>6 DEF Holds, p
<1>3. QED
  BY <1>1, <1>2

(* Two sequences of one element. *)
LEMMA OneAndOne ==
  ASSUME NEW S, NEW x \in S, NEW y \in S
  PROVE  <<x>> \o <<y>> = <<x, y>>
<1> DEFINE l == <<x>> \o <<y>>
           r == <<x, y>>
<1>1. <<x>> \in Seq(S) /\ <<y>> \in Seq(S)
  OBVIOUS
<1>2. l \in Seq(S) /\ r \in Seq(S)
  OBVIOUS
<1>3. Len(l) = 2 /\ Len(r) = 2 /\ l[1] = x /\ l[2] = y
  BY <1>1
<1>4. r[1] = x /\ r[2] = y
  OBVIOUS
<1> HIDE DEF l, r
<1>5. Len(l) = Len(r) /\ \A i \in 1 .. Len(l) : l[i] = r[i]
  BY <1>3, <1>4
<1>6. l = r
  BY <1>2, <1>5, SeqEqual
<1>7. QED
  BY <1>6 DEF l, r

(* A record that needs no padding. *)
LEMMA WholeCarries ==
  ASSUME NEW g \in Counts, NEW t \in Stream, NEW n \in Nat, n % 8 = 0
  PROVE  Carries(<<Header(t, n), Data(t, g[t], n)>>, g, Plus(g, t, n))
<1>1. Carries(<<>>, g, g)
  BY CarriesNothing
<1>2. Runs(Append(<<>>, Data(t, g[t], n)), g, t, n)
  <2>1. Runs(<<>>, g, t, 0) /\ g[t] + 0 = g[t] /\ 0 + n = n
    BY RunsEmpty DEF Counts
  <2>2. Runs(Append(<<>>, Data(t, g[t] + 0, n)), g, t, 0 + n)
    BY <2>1, RunsMore
  <2>3. QED
    BY <2>1, <2>2
<1>3. Padding(Pad(n)) = <<>>
  BY DEF Pad, Padding
<1> DEFINE x == Header(t, n)
           y == Data(t, g[t], n)
<1>4. Carries(<<>> \o <<x>> \o Append(<<>>, y) \o <<>>, g, Plus(g, t, n))
  BY <1>1, <1>2, <1>3, PacketCarries
<1> HIDE DEF x, y
<1>5. <<>> \o <<x>> \o Append(<<>>, y) \o <<>> = <<x, y>>
  <2>1. <<>> \o <<x>> = <<x>> /\ Append(<<>>, y) = <<y>>
    OBVIOUS
  <2>2. <<x>> \o <<y>> = <<x, y>>
    <3>1. x \in {x, y} /\ y \in {x, y}
      OBVIOUS
    <3>2. QED
      BY <3>1, OneAndOne
  <2>3. <<x, y>> \o <<>> = <<x, y>>
    OBVIOUS
  <2>4. QED
    BY <2>1, <2>2, <2>3
<1>6. QED
  BY <1>4, <1>5 DEF x, y

(* The records of full size that fcgi_write writes of a large piece. *)
Big(t, from, k) ==
  [i \in 1 .. 2 * k |-> IF i % 2 = 1 THEN Header(t, Chunk)
                        ELSE Data(t, from + (i \div 2 - 1) * Chunk, Chunk)]

(* One more full record written past the buffer. *)
LEMMA BigGrows ==
  ASSUME NEW t, NEW from \in Nat, NEW k \in Nat
  PROVE  Big(t, from, k + 1)
           = Big(t, from, k) \o <<Header(t, Chunk), Data(t, from + k * Chunk, Chunk)>>
<1> DEFINE x == Header(t, Chunk)
           y(j) == Data(t, from + (j - 1) * Chunk, Chunk)
           S == {x} \cup {y(j) : j \in Nat}
           short == [i \in 1 .. 2 * k |-> IF i % 2 = 1 THEN x ELSE y(i \div 2)]
           long == [i \in 1 .. 2 * (k + 1) |-> IF i % 2 = 1 THEN x ELSE y(i \div 2)]
<1>1. short = Big(t, from, k) /\ long = Big(t, from, k + 1)
  BY DEF Big
<1>2. y(k + 1) = Data(t, from + k * Chunk, Chunk)
  <2>1. (k + 1) - 1 = k
    OBVIOUS
  <2>2. QED
    BY <2>1
<1> HIDE DEF x, y
<1>3. short \in Seq(S) /\ Len(short) = 2 * k /\ <<x, y(k + 1)>> \in Seq(S)
  OBVIOUS
<1>4. long \in Seq(S) /\ Len(long) = 2 * k + 2
  OBVIOUS
<1> DEFINE both == short \o <<x, y(k + 1)>>
<1>5. both \in Seq(S) /\ Len(both) = 2 * k + 2
  BY <1>3
<1>6. ASSUME NEW i \in 1 .. 2 * k + 2 PROVE long[i] = both[i]
  <2>1. CASE i <= 2 * k
    BY <1>3, <2>1
  <2>2. CASE i = 2 * k + 1
    BY <1>3, <2>2
  <2>3. CASE i = 2 * k + 2
    BY <1>3, <2>3
  <2>4. QED
    BY <2>1, <2>2, <2>3
<1> HIDE DEF short, long, both
<1>7. long = both
  BY <1>4, <1>5, <1>6, SeqEqual
<1>8. QED
  BY <1>1, <1>2, <1>7 DEF both, x

(* Full records written past the buffer carry their content. *)
LEMMA BigCarries ==
  ASSUME NEW g \in Counts, NEW t \in Stream, NEW k \in Nat
  PROVE  Carries(Big(t, g[t], k), g, Plus(g, t, k * Chunk))
<1> DEFINE T == {j \in Nat : Carries(Big(t, g[t], j), g, Plus(g, t, j * Chunk))}
<1>1. 0 \in T
  <2>1. Big(t, g[t], 0) = <<>>
    BY DEF Big
  <2>2. 0 * Chunk = 0 /\ Plus(g, t, 0) = g
    BY PlusFacts DEF Chunk
  <2>3. QED
    BY <2>1, <2>2, CarriesNothing
<1>2. ASSUME NEW j \in Nat, j \in T PROVE j + 1 \in T
  <2> DEFINE a == j * Chunk
             h == Plus(g, t, a)
             pair == <<Header(t, Chunk), Data(t, g[t] + a, Chunk)>>
  <2>1. /\ g[t] \in Nat /\ a \in Nat /\ Chunk \in Nat /\ Chunk % 8 = 0
        /\ a + Chunk = (j + 1) * Chunk
    BY DEF Counts, Chunk
  <2> HIDE DEF a
  <2>2. /\ h \in Counts /\ h[t] = g[t] + a
        /\ Plus(h, t, Chunk) = Plus(g, t, a + Chunk)
    BY <2>1, PlusFacts
  <2>3. Carries(pair, h, Plus(h, t, Chunk))
    BY <2>1, <2>2, WholeCarries
  <2>4. Carries(Big(t, g[t], j), g, h)
    BY <1>2 DEF a
  <2>5. Big(t, g[t], j + 1) = Big(t, g[t], j) \o pair
    BY <2>1, BigGrows DEF a
  <2> HIDE DEF h, pair
  <2>6. Carries(Big(t, g[t], j + 1), g, Plus(g, t, (j + 1) * Chunk))
    BY <2>1, <2>2, <2>3, <2>4, <2>5, CarriesOn
  <2>7. QED
    BY <2>6
<1> HIDE DEF T
<1>3. Nat \subseteq T
  BY <1>1, <1>2, Reception!InductionOnSet
<1>4. QED
  BY <1>3 DEF T

(* What fcgi_write leaves after the full records fits one more record. *)
LEMMA ChunkCount ==
  ASSUME NEW len \in Nat
  PROVE  /\ Chunks(len) \in Nat /\ len - Chunks(len) * Chunk \in Nat
         /\ len - Chunks(len) * Chunk <= MaxContent
<1>1. CASE len <= MaxContent
  <2>1. Chunks(len) = 0
    BY <1>1 DEF Chunks
  <2>2. QED
    BY <1>1, <2>1 DEF Chunk, MaxContent
<1>2. CASE ~(len <= MaxContent)
  <2> DEFINE m == len - 65536
             q == m \div 65528
  <2>1. m \in Nat /\ len = m + 65536
    BY <1>2 DEF MaxContent
  <2>2. Chunks(len) = 1 + q
    BY <1>2 DEF Chunks, MaxContent, Chunk
  <2> HIDE DEF m
  <2>3. q \in Nat /\ 65528 * q <= m /\ m < 65528 * q + 65528
    BY <2>1
  <2> HIDE DEF q
  <2>4. (1 + q) * Chunk = 65528 + 65528 * q
    BY <2>3 DEF Chunk
  <2> DEFINE a == 65528 * q
  <2>5. a \in Nat /\ a <= m /\ m < a + 65528
    BY <2>3
  <2> HIDE DEF a
  <2>6. len - (65528 + a) \in Nat /\ len - (65528 + a) <= 65535
    BY <2>1, <2>5
  <2>7. Chunks(len) * Chunk = 65528 + a /\ Chunks(len) \in Nat
    BY <2>2, <2>3, <2>4 DEF a
  <2>8. QED
    BY <2>6, <2>7 DEF MaxContent
<1>3. QED
  BY <1>1, <1>2

(* What does not go out of a write starts a new packet. *)
LEMMA FreshHolds ==
  ASSUME NEW g \in Counts, NEW t \in Stream, NEW n \in Nat
  PROVE  Holds(Put(OpenPacket(Empty, t), t, g[t], n), g, Plus(g, t, n))
<1> DEFINE o == OpenPacket(Empty, t)
<1>1. Holds(Empty, g, g) /\ Shaped(Empty) /\ Empty.hdr = NoHdr /\ Empty.pos = 0
  BY EmptyHolds, EmptyFacts
<1>2. Holds(o, g, g) /\ o.stream = t /\ o.hdr = 0
  BY <1>1, OpenHolds
<1>3. Shaped(o) /\ o.pos = HeaderSize
  BY EmptyFacts, OpenFacts DEF HeaderSize
<1> HIDE DEF o
<1>4. o.hdr # NoHdr /\ o.hdr \in Int /\ o.pos \in Int
  BY <1>2, <1>3 DEF NoHdr, HeaderSize
<1>5. QED
  BY <1>2, <1>3, <1>4, PutHolds DEF o

(* The highest byte touched does not matter to what is held. *)
LEMMA TopHolds ==
  ASSUME NEW b, NEW g, NEW h, NEW n, Shaped(b), Holds(b, g, h)
  PROVE  Holds([b EXCEPT !.top = n], g, h)
<1> DEFINE m == [b EXCEPT !.top = n]
<1>1. /\ m.done = b.done /\ m.body = b.body /\ m.hdr = b.hdr /\ m.stream = b.stream
      /\ m.pos = b.pos
  BY DEF Shaped
<1> HIDE DEF m
<1>2. Holds(m, g, h)
  BY <1>1, HoldsFields
<1>3. QED
  BY <1>2 DEF m

(* The third branch of fcgi_write. *)
LEMMA LargeHolds ==
  ASSUME NEW b, NEW g, NEW h, NEW t \in Stream, NEW len \in Nat,
         Shaped(b), Holds(b, g, h)
  PROVE  LET p == Large(b, t, h[t], len)
         IN \E k : Carries(p.segs, g, k) /\ Holds(p.buf, k, Plus(h, t, len))
<1> DEFINE c    == ClosePacket(b)
           k    == Chunks(len)
           a    == k * Chunk
           left == len - a
           rest == left % 8
           out  == left - rest
           i    == Plus(h, t, a)
           j    == Plus(i, t, out)
           base == h[t]
           pair == <<Header(t, out), Data(t, base + a, out)>>
           small == Put(OpenPacket(Empty, t), t, base + len - rest, rest)
           top  == Larger(c.top, c.pos + HeaderSize)
           p    == Large(b, t, base, len)
<1>1. /\ p.segs = c.done \o Big(t, base, k) \o pair
      /\ p.buf = [(IF rest = 0 THEN Empty ELSE small) EXCEPT !.top = top]
  BY DEF Large, Big
<1>2. g \in Counts /\ h \in Counts /\ base \in Nat
  BY HoldsTyped DEF Counts
<1>3. k \in Nat /\ left \in Nat /\ a \in Nat
  BY ChunkCount DEF Chunk
<1>9. Carries(Big(t, base, k), h, i)
  BY <1>2, <1>3, BigCarries
<1> HIDE DEF k, a
<1>4. left + a = len
  BY <1>3
<1> HIDE DEF left
<1>5. rest \in 0 .. 7 /\ out \in Nat /\ out % 8 = 0 /\ out + rest = left
  BY <1>3
<1> HIDE DEF rest, out
<1>6. /\ i \in Counts /\ i[t] = base + a
      /\ j \in Counts /\ j[t] = (base + a) + out
      /\ j = Plus(h, t, a + out)
  <2>0. h \in Counts /\ a \in Nat /\ out \in Nat
    BY <1>2, <1>3, <1>5
  <2>1. i \in Counts /\ i[t] = base + a /\ Plus(i, t, out) = Plus(h, t, a + out)
    BY <2>0, PlusFacts
  <2> HIDE DEF i
  <2>2. j \in Counts /\ j[t] = i[t] + out
    BY <1>5, <2>1, PlusFacts
  <2>3. QED
    BY <2>1, <2>2
<1>7. j[t] = base + len - rest /\ Plus(j, t, rest) = Plus(h, t, len)
  <2>1. a + out \in Nat /\ (a + out) + rest = len
    BY <1>3, <1>4, <1>5
  <2>2. Plus(j, t, rest) = Plus(h, t, (a + out) + rest)
    <3>1. rest \in Nat
      BY <1>5
    <3> HIDE DEF j
    <3>2. QED
      BY <1>2, <1>6, <2>1, <3>1, PlusFacts
  <2>3. (base + a) + out = base + len - rest
    BY <1>2, <1>3, <1>5, <2>1
  <2>4. QED
    BY <1>6, <2>1, <2>2, <2>3
<1>8. Carries(c.done, g, h)
  BY CloseHolds
<1>10. Carries(pair, i, j)
  BY <1>5, <1>6, WholeCarries
<1>11. Holds(small, j, Plus(h, t, len))
  <2>1. Holds(Put(OpenPacket(Empty, t), t, j[t], rest), j, Plus(j, t, rest))
    BY <1>5, <1>6, FreshHolds
  <2>2. QED
    BY <1>7, <2>1
<1>12. Shaped(small) /\ Shaped(Empty)
  <2>1. /\ Shaped(OpenPacket(Empty, t)) /\ OpenPacket(Empty, t).pos = HeaderSize
        /\ OpenPacket(Empty, t).top \in Nat
    BY EmptyFacts, OpenFacts DEF HeaderSize
  <2>2. rest \in Nat /\ HeaderSize \in Nat
    BY <1>5 DEF HeaderSize
  <2>3. QED
    BY <2>1, <2>2, PutFacts, EmptyFacts
<1> HIDE DEF small, c, pair, i, j, p, top
<1>13. Carries(p.segs, g, j)
  BY <1>1, <1>8, <1>9, <1>10, CarriesOn
<1> DEFINE next == IF rest = 0 THEN Empty ELSE small
<1>14. Holds(next, j, Plus(h, t, len)) /\ Shaped(next)
  <2>1. CASE rest = 0
    <3>1. j = Plus(h, t, len)
      BY <1>6, <1>7, <2>1, PlusFacts
    <3>2. Holds(Empty, j, j)
      BY <1>6, EmptyHolds
    <3>3. QED
      BY <1>12, <2>1, <3>1, <3>2
  <2>2. CASE rest # 0
    BY <1>11, <1>12, <2>2
  <2>3. QED
    BY <2>1, <2>2
<1> HIDE DEF next
<1>15. Holds([next EXCEPT !.top = top], j, Plus(h, t, len))
  BY <1>14, TopHolds
<1>16. p.buf = [next EXCEPT !.top = top]
  BY <1>1 DEF next
<1>17. Holds(p.buf, j, Plus(h, t, len))
  BY <1>15, <1>16
<1>18. QED
  BY <1>13, <1>17 DEF p

(* Changing to another stream loses nothing. *)
LEMMA SwitchHolds ==
  ASSUME NEW b, NEW g, NEW h, NEW t, Sound(b), Holds(b, g, h)
  PROVE  LET s == Switched(b, t)
         IN Holds(s, g, h) /\ (s.hdr # NoHdr => s.stream = t)
<1> DEFINE fresh == [b EXCEPT !.top = b.pos]
<1>1. Shaped(fresh) /\ fresh.hdr = b.hdr /\ fresh.stream = b.stream
  BY DEF Sound, Shaped
<1>2. Holds(fresh, g, h)
  BY TopHolds DEF Sound
<1>3. Switched(b, t) = IF b.hdr # NoHdr /\ b.stream # t THEN ClosePacket(fresh) ELSE fresh
  BY DEF Switched
<1> HIDE DEF fresh
<1>4. LET c == ClosePacket(fresh) IN c.hdr = NoHdr /\ Holds(c, g, h)
  BY <1>1, <1>2, CloseHolds
<1>5. QED
  BY <1>1, <1>2, <1>3, <1>4

(* fcgi_write keeps the streams together: what it writes and what it      *)
(* buffers take a client from the bytes it has to those written.           *)
LEMMA PackedHolds ==
  ASSUME NEW b, NEW g, NEW h, NEW t \in Stream, NEW len \in Nat,
         Sound(b), Holds(b, g, h)
  PROVE  LET p == Packed(b, t, h[t], len)
         IN \E k : Carries(p.segs, g, k) /\ Holds(p.buf, k, Plus(h, t, len))
<1> DEFINE base == h[t]
           b0   == Switched(b, t)
           room == Room(b0)
           o    == Opened(b0, t)
           full == Put(o, t, base, room)
           more == Put(OpenPacket(Empty, t), t, base + room, len - room)
           out  == ClosePacket(full)
           p    == Packed(b, t, base, len)
           next == IF len > room THEN [more EXCEPT !.top = Larger(out.top, more.pos)]
                   ELSE [Empty EXCEPT !.top = out.top]
<1>1. /\ len < room => p = [segs |-> <<>>, buf |-> Put(o, t, base, len)]
      /\ ~(len < room) /\ len - room < BufSize - HeaderSize =>
           p = [segs |-> out.done, buf |-> next]
      /\ ~(len < room) /\ ~(len - room < BufSize - HeaderSize) =>
           p = Large(b0, t, base, len)
  BY DEF Packed
<1>2. Sound(b0) /\ b0.top <= b0.pos /\ Shaped(b0)
  BY SwitchFacts DEF Sound
<1>3. Holds(b0, g, h) /\ (b0.hdr # NoHdr => b0.stream = t)
  BY SwitchHolds
<1>4. g \in Counts /\ h \in Counts /\ base \in Nat
  BY HoldsTyped DEF Counts
<1> HIDE DEF b0, p
<1>5. /\ room \in Nat /\ Shaped(o) /\ o.pos \in Nat /\ o.hdr \in Nat /\ o.top \in Nat
  BY <1>2, OpenedFacts
<1>6. o.hdr # NoHdr /\ o.hdr \in Int /\ o.pos \in Int
  BY <1>5 DEF NoHdr
<1>7. Holds(o, g, h) /\ o.stream = t
  <2>1. CASE b0.hdr = NoHdr
    <3>1. o = OpenPacket(b0, t) /\ b0.pos \in Nat
      BY <1>2, <2>1 DEF Opened, Sound
    <3> HIDE DEF o
    <3>2. QED
      BY <1>2, <1>3, <2>1, <3>1, OpenHolds
  <2>2. CASE b0.hdr # NoHdr
    <3>1. o = b0
      BY <2>2 DEF Opened
    <3> HIDE DEF o
    <3>2. QED
      BY <1>3, <2>2, <3>1
  <2>3. QED
    BY <2>1, <2>2
<1> HIDE DEF o, room
<1>8. CASE len < room
  <2>1. Holds(Put(o, t, base, len), g, Plus(h, t, len))
    BY <1>5, <1>6, <1>7, PutHolds
  <2>2. p.segs = <<>> /\ p.buf = Put(o, t, base, len)
    BY <1>1, <1>8
  <2>3. Carries(<<>>, g, g)
    BY <1>4, CarriesNothing
  <2>4. QED
    BY <2>1, <2>2, <2>3 DEF p
<1>9. CASE ~(len < room) /\ len - room < BufSize - HeaderSize
  <2> DEFINE i == Plus(h, t, room)
  <2>1. Holds(full, g, i)
    BY <1>5, <1>6, <1>7, PutHolds
  <2>2. Shaped(full)
    BY <1>5, PutFacts
  <2> HIDE DEF full
  <2>3. Carries(out.done, g, i)
    BY <2>1, <2>2, CloseHolds
  <2> HIDE DEF out
  <2>4. len - room \in Nat /\ room + (len - room) = len
    BY <1>5, <1>9
  <2>5. i \in Counts /\ i[t] = base + room /\ Plus(i, t, len - room) = Plus(h, t, len)
    <3> DEFINE rest == len - room
    <3>1. h \in Counts /\ room \in Nat /\ rest \in Nat /\ room + rest = len
      BY <1>4, <1>5, <2>4
    <3> HIDE DEF rest
    <3>2. i \in Counts /\ i[t] = base + room /\ Plus(i, t, rest) = Plus(h, t, room + rest)
      BY <3>1, PlusFacts
    <3>3. QED
      BY <3>1, <3>2 DEF rest
  <2> HIDE DEF i
  <2>6. Holds(next, i, Plus(h, t, len))
    <3>1. CASE len > room
      <4>1. Holds(more, i, Plus(h, t, len))
        <5>1. Holds(Put(OpenPacket(Empty, t), t, i[t], len - room), i, Plus(i, t, len - room))
          BY <2>4, <2>5, FreshHolds
        <5>2. QED
          BY <2>5, <5>1
      <4>2. Shaped(more)
        <5>1. /\ Shaped(OpenPacket(Empty, t)) /\ OpenPacket(Empty, t).pos = HeaderSize
              /\ OpenPacket(Empty, t).top \in Nat
          BY EmptyFacts, OpenFacts DEF HeaderSize
        <5>2. HeaderSize \in Nat
          BY DEF HeaderSize
        <5>3. QED
          BY <2>4, <5>1, <5>2, PutFacts
      <4> HIDE DEF more
      <4>3. QED
        BY <3>1, <4>1, <4>2, TopHolds
    <3>2. CASE ~(len > room)
      <4>1. len - room = 0 /\ i = Plus(h, t, len)
        BY <1>5, <1>9, <2>5, <3>2, PlusFacts
      <4>2. Holds(Empty, i, i) /\ Shaped(Empty)
        BY <2>5, EmptyHolds, EmptyFacts
      <4>3. Holds([Empty EXCEPT !.top = out.top], i, i)
        BY <4>2, TopHolds
      <4>4. QED
        BY <3>2, <4>1, <4>3
    <3>3. QED
      BY <3>1, <3>2
  <2> HIDE DEF next
  <2>7. p.segs = out.done /\ p.buf = next
    BY <1>1, <1>9
  <2>8. QED
    BY <2>3, <2>6, <2>7 DEF p
<1>10. CASE ~(len < room) /\ ~(len - room < BufSize - HeaderSize)
  <2>1. p = Large(b0, t, base, len)
    BY <1>1, <1>10
  <2>2. QED
    BY <1>2, <1>3, <2>1, LargeHolds DEF p
<1>11. QED
  BY <1>8, <1>9, <1>10

(* fcgi_flush leaves nothing behind. *)
LEMMA FlushedHolds ==
  ASSUME NEW b, NEW g, NEW h, Sound(b), Holds(b, g, h)
  PROVE  \E segs : /\ Carries(segs, g, h)
                   /\ Flushed(b, FALSE).segs = segs
                   /\ Flushed(b, TRUE).segs = Append(segs, EndRecord)
<1> DEFINE fresh == [b EXCEPT !.top = b.pos]
           c == ClosePacket(fresh)
<1>1. Shaped(fresh) /\ Holds(fresh, g, h)
  <2>1. Shaped(b) /\ Shaped(fresh)
    BY DEF Sound, Shaped
  <2>2. QED
    BY <2>1, TopHolds
<1>2. /\ Flushed(b, FALSE).segs = c.done \o <<>>
      /\ Flushed(b, TRUE).segs = c.done \o <<EndRecord>>
  BY DEF Flushed
<1> HIDE DEF fresh
<1>3. Carries(c.done, g, h)
  BY <1>1, CloseHolds
<1> HIDE DEF c
<1>4. c.done \in Seq(Segment) /\ EndRecord \in Segment
  BY <1>3, PiecesAreSegments DEF Carries, EndRecord, Segment, Stream, EndSize
<1>5. c.done \o <<>> = c.done /\ c.done \o <<EndRecord>> = Append(c.done, EndRecord)
  BY <1>4, ConcatEmptySeq, AppendIsConcat
<1>6. QED
  BY <1>2, <1>3, <1>5

-----------------------------------------------------------------------------
(* Writes that are cut.                                                    *)

(* What a client may receive when w bytes of each stream have been written. *)
Bit(w) == {s \in Segment : s.what = "data" => s.from + s.size <= w[s.stream]}

CutStep(acc, s) ==
  LET k == Smaller(acc.left, s.size)
  IN IF k = 0 THEN acc
     ELSE [left |-> acc.left - k, got |-> Append(acc.got, [s EXCEPT !.size = k])]
Cutting == INSTANCE FoldTheorems WITH Op <- CutStep

(* What of segments goes out before a write is cut is a fold. *)
LEMMA CutIsFold ==
  ASSUME NEW segs, NEW n
  PROVE  Cut(segs, n) = Cutting!Fold([left |-> n, got |-> <<>>], segs).got
BY DEF Cut, CutStep, Cutting!Fold, Cutting!FoldLeft, FoldLeft,
       Cutting!MapThenFoldSet, MapThenFoldSet, Cutting!Max, Max

(* A segment cut short is still a bit of the response. *)
LEMMA CutOfOne ==
  ASSUME NEW w \in Counts, NEW s \in Bit(w), NEW k \in Nat, k <= s.size
  PROVE  /\ [s EXCEPT !.size = k] \in Bit(w)
         /\ s \in Piece(w) => [s EXCEPT !.size = k] \in Piece(w)
         /\ s.what = "end" => [s EXCEPT !.size = k].what = "end"
<1> DEFINE c == [s EXCEPT !.size = k]
<1>1. s \in Segment /\ (s.what = "data" => s.from + s.size <= w[s.stream])
  BY DEF Bit
<1>2. /\ c.what = s.what /\ c.stream = s.stream /\ c.from = s.from /\ c.size = k
      /\ c \in Segment
  BY <1>1 DEF Segment
<1>3. s.from \in Nat /\ s.size \in Nat
  BY <1>1 DEF Segment
<1> HIDE DEF c
<1>4. s.what = "data" => c.from + c.size <= w[c.stream]
  <2>1. ASSUME s.what = "data" PROVE c.from + c.size <= w[c.stream]
    <3>1. s.from + s.size <= w[s.stream]
      BY <1>1, <2>1
    <3>2. s.from + k <= s.from + s.size
      BY <1>3
    <3>3. w[s.stream] \in Nat /\ c.from = s.from /\ c.size = k /\ c.stream = s.stream
      BY <1>1, <1>2 DEF Segment, Counts
    <3>4. QED
      BY <1>3, <3>1, <3>2, <3>3
  <2>2. QED
    BY <2>1
<1>5. QED
  BY <1>2, <1>4 DEF c, Bit, Piece

(* Pieces and the end of the request are bits of the response. *)
LEMMA PiecesAreBits ==
  ASSUME NEW w
  PROVE  /\ Piece(w) \subseteq Bit(w) /\ EndRecord \in Bit(w)
         /\ \A segs : segs \in Seq(Piece(w)) => segs \in Seq(Bit(w))
<1>1. Piece(w) \subseteq Bit(w)
  BY DEF Piece, Bit
<1>2. EndRecord \in Bit(w)
  BY DEF Bit, EndRecord, Segment, Stream, EndSize
<1>3. QED
  BY <1>1, <1>2, SeqMonotonic

(* A cut write is made of the same pieces, the last of them shortened. *)
LEMMA CutTyped ==
  ASSUME NEW w \in Counts, NEW segs \in Seq(Piece(w)), NEW n \in Nat
  PROVE  Cut(segs, n) \in Seq(Piece(w))
<1> DEFINE T == [left : Nat, got : Seq(Piece(w))]
<1>1. [left |-> n, got |-> <<>>] \in T
  OBVIOUS
<1>2. ASSUME NEW acc \in T, NEW s \in Piece(w) PROVE CutStep(acc, s) \in T
  <2> DEFINE k == Smaller(acc.left, s.size)
  <2>1. acc.left \in Nat /\ s.size \in Nat /\ s \in Bit(w)
    BY PiecesAreBits DEF Piece, Segment
  <2>2. k \in Nat /\ k <= s.size /\ acc.left - k \in Nat
    BY <2>1 DEF Smaller
  <2>3. CutStep(acc, s) = IF k = 0 THEN acc
          ELSE [left |-> acc.left - k, got |-> Append(acc.got, [s EXCEPT !.size = k])]
    BY DEF CutStep
  <2> HIDE DEF k
  <2>4. [s EXCEPT !.size = k] \in Piece(w)
    BY <2>1, <2>2, CutOfOne
  <2>5. Append(acc.got, [s EXCEPT !.size = k]) \in Seq(Piece(w))
    BY <2>4
  <2>6. QED
    BY <2>2, <2>3, <2>5
<1> HIDE DEF T
<1>3. Cutting!Fold([left |-> n, got |-> <<>>], segs) \in T
  BY <1>1, <1>2, Cutting!FoldStays
<1>4. QED
  BY <1>3, CutIsFold DEF T

(* Cutting a flush that ends the request leaves at most the end of the end. *)
LEMMA CutOfAppend ==
  ASSUME NEW w \in Counts, NEW segs \in Seq(Piece(w)), NEW n \in Nat
  PROVE  \/ Cut(Append(segs, EndRecord), n) = Cut(segs, n)
         \/ \E e \in Bit(w) : /\ e.what = "end"
                              /\ Cut(Append(segs, EndRecord), n) = Append(Cut(segs, n), e)
<1> DEFINE base == [left |-> n, got |-> <<>>]
           T == [left : Nat, got : Seq(Piece(w))]
           acc == Cutting!Fold(base, segs)
           k == Smaller(acc.left, EndRecord.size)
           e == [EndRecord EXCEPT !.size = k]
<1>1. segs \in Seq(Segment) /\ EndRecord \in Segment /\ EndRecord \in Bit(w)
  BY PiecesAreSegments, PiecesAreBits DEF Bit
<1>2. Cutting!Fold(base, Append(segs, EndRecord)) = CutStep(acc, EndRecord)
  BY <1>1, Cutting!FoldOfAppend
<1>3. acc.left \in Nat
  <2>1. base \in [left : Nat, got : Seq(Segment)]
    OBVIOUS
  <2>2. ASSUME NEW a \in [left : Nat, got : Seq(Segment)], NEW s \in Segment
        PROVE  CutStep(a, s) \in [left : Nat, got : Seq(Segment)]
    <3>1. a.left \in Nat /\ s.size \in Nat
      BY DEF Segment
    <3>2. Smaller(a.left, s.size) \in Nat /\ a.left - Smaller(a.left, s.size) \in Nat
      BY <3>1 DEF Smaller
    <3>3. [s EXCEPT !.size = Smaller(a.left, s.size)] \in Segment
      BY <3>2 DEF Segment
    <3>4. QED
      BY <3>2, <3>3 DEF CutStep
  <2>3. acc \in [left : Nat, got : Seq(Segment)]
    BY <1>1, <2>1, <2>2, Cutting!FoldStays
  <2>4. QED
    BY <2>3
<1>4. Cut(segs, n) = acc.got
  BY CutIsFold
<1>5. Cut(Append(segs, EndRecord), n) = CutStep(acc, EndRecord).got
  BY <1>2, CutIsFold
<1> HIDE DEF acc
<1>6. k \in Nat /\ k <= EndRecord.size
  BY <1>3 DEF Smaller, EndRecord, EndSize
<1>7. e \in Bit(w) /\ e.what = "end"
  BY <1>1, <1>6, CutOfOne DEF EndRecord
<1>8. CutStep(acc, EndRecord) = IF k = 0 THEN acc
        ELSE [left |-> acc.left - k, got |-> Append(acc.got, e)]
  BY DEF CutStep
<1> HIDE DEF k, e
<1>9. QED
  BY <1>4, <1>5, <1>7, <1>8

(* The client only ever gets what has been written. *)
LEMMA ReceiveBetween ==
  ASSUME NEW w \in Counts, NEW c \in Client, NEW s \in Bit(w), Above(w, c.got)
  PROVE  LET d == Receive(c, s)
         IN d \in Client /\ Above(d.got, c.got) /\ Above(w, d.got)
<1> DEFINE d == Receive(c, s)
<1>1. s \in Segment /\ d \in Client /\ c.got \in Counts
  BY ReceiveTyped DEF Bit, Client, Counts
<1>2. CASE /\ ~c.ended /\ ~c.torn /\ ~c.astray /\ Expects(c, s)
           /\ s.what = "data"
  <2>1. d.got = [c.got EXCEPT ![s.stream] = @ + s.size]
    BY <1>1, <1>2, ReceiveContent
  <2>2. /\ s.stream \in Stream /\ s.size \in Nat /\ s.from = c.got[s.stream]
        /\ s.from + s.size <= w[s.stream]
    BY <1>1, <1>2 DEF Segment, Expects, Bit
  <2>3. QED
    BY <1>1, <2>1, <2>2 DEF Above, Counts
<1>3. CASE ~(/\ ~c.ended /\ ~c.torn /\ ~c.astray /\ Expects(c, s)
             /\ s.what = "data")
  <2>1. d.got = c.got
    <3>1. CASE c.ended \/ c.torn \/ c.astray \/ ~Expects(c, s)
      BY <3>1 DEF Receive, Client
    <3>2. CASE ~(c.ended \/ c.torn \/ c.astray \/ ~Expects(c, s))
      <4>1. s.what \in {"header", "padding", "end"}
        BY <1>1, <1>3, <3>2 DEF Segment
      <4>2. QED
        BY <3>2, <4>1 DEF Receive, Client
    <3>3. QED
      BY <3>1, <3>2
  <2> HIDE DEF d
  <2>2. QED
    BY <1>1, <2>1 DEF Above, Counts, d
<1>4. QED
  BY <1>2, <1>3

(* A client gets more, but not more than was written, of whatever bits it gets. *)
LEMMA ReceiveAllBetween ==
  ASSUME NEW w \in Counts, NEW c \in Client, NEW segs \in Seq(Bit(w)), Above(w, c.got)
  PROVE  LET d == ReceiveAll(c, segs)
         IN d \in Client /\ Above(d.got, c.got) /\ Above(w, d.got)
<1> DEFINE T == {d \in Client : Above(d.got, c.got) /\ Above(w, d.got)}
<1>1. c \in T
  BY DEF Above, Client
<1>2. ASSUME NEW d \in T, NEW s \in Bit(w) PROVE Receive(d, s) \in T
  <2>1. /\ Receive(d, s) \in Client /\ Above(Receive(d, s).got, d.got)
        /\ Above(w, Receive(d, s).got)
    BY ReceiveBetween
  <2>2. /\ d.got \in Counts /\ c.got \in Counts /\ Receive(d, s).got \in Counts
        /\ Above(d.got, c.got)
    BY <2>1 DEF Client, Counts
  <2>3. Above(Receive(d, s).got, c.got)
    BY <2>1, <2>2, AboveTogether
  <2>4. QED
    BY <2>1, <2>3
<1> HIDE DEF T
<1>3. Reception!Fold(c, segs) \in T
  BY <1>1, <1>2, Reception!FoldStays
<1>4. QED
  BY <1>3, ReceptionIsFold DEF T

(* Without the end of the request there is nothing behind it. *)
LEMMA ReceiveOpen ==
  ASSUME NEW w, NEW c \in Client, NEW segs \in Seq(Piece(w)), ~c.ended, ~c.extra
  PROVE  LET d == ReceiveAll(c, segs) IN d \in Client /\ ~d.ended /\ ~d.extra
<1> DEFINE T == {d \in Client : ~d.ended /\ ~d.extra}
<1>1. c \in T
  OBVIOUS
<1>2. ASSUME NEW d \in T, NEW s \in Piece(w) PROVE Receive(d, s) \in T
  <2>1. s \in Segment /\ s.what # "end" /\ Receive(d, s) \in Client
    BY ReceiveTyped DEF Piece
  <2>2. ~Receive(d, s).ended /\ ~Receive(d, s).extra
    <3>1. CASE d.torn \/ d.astray \/ ~Expects(d, s)
      BY <3>1 DEF Receive, Client
    <3>2. CASE ~(d.torn \/ d.astray \/ ~Expects(d, s))
      <4>1. CASE s.what = "data"
        BY <2>1, <3>2, <4>1, ReceiveContent
      <4>2. CASE s.what # "data"
        <5>1. s.what \in {"header", "padding"}
          BY <2>1, <4>2 DEF Segment
        <5>2. QED
          BY <3>2, <5>1 DEF Receive, Client
      <4>3. QED
        BY <4>1, <4>2
    <3>3. QED
      BY <3>1, <3>2
  <2>3. QED
    BY <2>1, <2>2
<1> HIDE DEF T
<1>3. Reception!Fold(c, segs) \in T
  BY <1>1, <1>2, Reception!FoldStays
<1>4. QED
  BY <1>3, ReceptionIsFold DEF T

(* The first end of a request is not one too many. *)
LEMMA ReceiveEnd ==
  ASSUME NEW c \in Client, NEW e \in Segment, e.what = "end", ~c.ended, ~c.extra
  PROVE  ~Receive(c, e).extra
BY DEF Receive, Client

(* After an uncut flush of the end the client has it all. *)
LEMMA EndReceived ==
  ASSUME NEW segs, NEW g, NEW h, NEW s \in Stream, Carries(segs, g, h)
  PROVE  LET d == ReceiveAll(Resting(g, s), Append(segs, EndRecord))
         IN /\ d.ended /\ d.got = h /\ ~d.torn /\ ~d.astray /\ ~d.extra
            /\ d.need = 0 /\ d.pad = 0
<1>1. PICK t \in Stream : ReceiveAll(Resting(g, s), segs) = Resting(h, t)
  BY DEF Carries
<1>2. segs \in Seq(Segment) /\ EndRecord \in Segment
  BY PiecesAreSegments DEF Carries, EndRecord, Segment, Stream, EndSize
<1> DEFINE c == Resting(h, t)
<1>3. c = [need |-> 0, pad |-> 0, stream |-> t, got |-> h, ended |-> FALSE,
           torn |-> FALSE, astray |-> FALSE, extra |-> FALSE]
  BY DEF Resting, InRecord
<1>4. EndRecord.what = "end" /\ ~(EndRecord.size < EndSize)
  BY DEF EndRecord, EndSize
<1> HIDE DEF c
<1>5. Receive(c, EndRecord) = [c EXCEPT !.ended = TRUE]
  BY <1>3, <1>4 DEF Receive, Expects
<1> DEFINE d == Receive(c, EndRecord)
<1>6. /\ d.ended /\ d.got = h /\ ~d.torn /\ ~d.astray /\ ~d.extra
      /\ d.need = 0 /\ d.pad = 0
  BY <1>3, <1>5
<1> DEFINE r == Resting(g, s)
<1>7. ReceiveAll(r, segs) = c
  BY <1>1 DEF c
<1> HIDE DEF r
<1>8. ReceiveAll(r, Append(segs, EndRecord)) = Receive(ReceiveAll(r, segs), EndRecord)
  BY <1>2, ReceiveAppend
<1>9. ReceiveAll(r, Append(segs, EndRecord)) = d
  BY <1>7, <1>8
<1> HIDE DEF d
<1>10. QED
  BY <1>6, <1>9 DEF r

-----------------------------------------------------------------------------
(* What a buffer holds, counted.                                           *)

(* What one segment adds to the count of a stream. *)
LEMMA AddTyped ==
  ASSUME NEW v \in Counts, NEW s \in Segment
  PROVE  /\ AddContent(v, s) \in Counts
         /\ s.what # "data" => AddContent(v, s) = v
         /\ s.what = "data" => AddContent(v, s) = Plus(v, s.stream, s.size)
BY DEF AddContent, Counts, Segment, Plus

(* From g to h as many bytes as from v to w. *)
AsMany(h, v, g, w) == \A t \in Stream : h[t] + v[t] = g[t] + w[t]

(* As many from x to y as from p to q, and so on from there. *)
LEMMA Chained ==
  ASSUME NEW x \in Counts, NEW y \in Counts, NEW z \in Counts,
         NEW p \in Counts, NEW q \in Counts, NEW r \in Counts,
         AsMany(q, x, p, y), AsMany(r, y, q, z)
  PROVE  AsMany(r, x, p, z)
<1>1. ASSUME NEW t \in Stream PROVE r[t] + x[t] = p[t] + z[t]
  <2>1. /\ x[t] \in Nat /\ y[t] \in Nat /\ z[t] \in Nat
        /\ p[t] \in Nat /\ q[t] \in Nat /\ r[t] \in Nat
    BY DEF Counts
  <2>2. q[t] + x[t] = p[t] + y[t] /\ r[t] + y[t] = q[t] + z[t]
    BY DEF AsMany
  <2> DEFINE x1 == x[t]  y1 == y[t]  z1 == z[t]  p1 == p[t]  q1 == q[t]  r1 == r[t]
  <2>3. /\ x1 \in Nat /\ y1 \in Nat /\ z1 \in Nat
        /\ p1 \in Nat /\ q1 \in Nat /\ r1 \in Nat
    BY <2>1
  <2>4. q1 + x1 = p1 + y1 /\ r1 + y1 = q1 + z1
    BY <2>2
  <2> HIDE DEF x1, y1, z1, p1, q1, r1
  <2>5. r1 + x1 = p1 + z1
    BY <2>3, <2>4
  <2>6. QED
    BY <2>5 DEF x1, z1, p1, r1
<1>2. QED
  BY <1>1 DEF AsMany

(* A client that is still in step has got what the segments carry.         *)
InStep(d) == ~d.torn /\ ~d.astray /\ ~d.ended

(* A client in step after a segment got as many bytes as the segment holds. *)
LEMMA OneFollowed ==
  ASSUME NEW c \in Client, NEW v \in Counts, NEW s \in Segment, InStep(Receive(c, s))
  PROVE  /\ InStep(c)
         /\ AsMany(Receive(c, s).got, v, c.got, AddContent(v, s))
<1>1. ~c.ended /\ ~c.torn /\ ~c.astray /\ Expects(c, s)
  BY DEF Receive, InStep, Client
<1>2. InStep(c) /\ c.got \in Counts
  BY <1>1 DEF InStep, Client, Counts
<1>3. CASE s.what = "data"
  <2>1. Receive(c, s).got = Plus(c.got, s.stream, s.size)
    BY <1>1, <1>3, ReceiveContent DEF Plus
  <2>2. AddContent(v, s) = Plus(v, s.stream, s.size)
    BY <1>3, AddTyped
  <2>3. s.stream \in Stream /\ s.size \in Nat
    BY DEF Segment
  <2>4. \A t \in Stream : /\ Plus(v, s.stream, s.size)[t]
                             = v[t] + (IF t = s.stream THEN s.size ELSE 0)
                          /\ Plus(c.got, s.stream, s.size)[t]
                             = c.got[t] + (IF t = s.stream THEN s.size ELSE 0)
    BY <1>2, <2>3 DEF Plus, Counts
  <2>5. \A t \in Stream : v[t] \in Nat /\ c.got[t] \in Nat
    BY <1>2 DEF Counts
  <2>6. QED
    BY <1>2, <2>1, <2>2, <2>3, <2>4, <2>5 DEF AsMany
<1>4. CASE s.what # "data"
  <2>1. s.what \in {"header", "padding", "end"}
    BY <1>4 DEF Segment
  <2>2. Receive(c, s).got = c.got
    BY <1>1, <2>1 DEF Receive, Client
  <2>3. AddContent(v, s) = v
    BY <1>4, AddTyped
  <2>4. QED
    BY <1>2, <2>2, <2>3 DEF Counts, AsMany
<1>5. QED
  BY <1>3, <1>4

Follows(segs, c, v) ==
  LET d == ReceiveAll(c, segs)
      u == Counting!Fold(v, segs)
  IN InStep(d) => AsMany(d.got, v, c.got, u)

(* Counts stay counts. *)
LEMMA CountTyped ==
  ASSUME NEW v \in Counts, NEW segs \in Seq(Segment)
  PROVE  Counting!Fold(v, segs) \in Counts
BY AddTyped, Counting!FoldStays

(* A client that is in step after some segments got all they hold. *)
LEMMA ContentsFollow ==
  ASSUME NEW segs \in Seq(Segment)
  PROVE  \A c \in Client, v \in Counts : Follows(segs, c, v)
<1> DEFINE T == {x \in Seq(Segment) : \A c \in Client, v \in Counts : Follows(x, c, v)}
<1>1. <<>> \in T
  <2>1. ASSUME NEW c \in Client, NEW v \in Counts PROVE Follows(<<>>, c, v)
    <3>1. ReceiveAll(c, <<>>) = c /\ Counting!Fold(v, <<>>) = v
      BY ReceiveNone, Counting!FoldOfEmpty
    <3>2. QED
      BY <3>1 DEF Follows, AsMany
  <2>2. QED
    BY <2>1
<1>2. ASSUME NEW x \in Seq(Segment), NEW s \in Segment, x \in T
      PROVE  Append(x, s) \in T
  <2>1. ASSUME NEW c \in Client, NEW v \in Counts PROVE Follows(Append(x, s), c, v)
    <3> DEFINE d == ReceiveAll(c, x)
               u == Counting!Fold(v, x)
               e == Receive(d, s)
               w == AddContent(u, s)
    <3>1. ReceiveAll(c, Append(x, s)) = e
      BY ReceiveAppend
    <3>2. Counting!Fold(v, Append(x, s)) = w
      BY Counting!FoldOfAppend
    <3>3. d \in Client /\ u \in Counts
      BY ReceiveAllTyped, CountTyped
    <3>4. InStep(d) => AsMany(d.got, v, c.got, u)
      BY <1>2 DEF Follows
    <3> HIDE DEF d, u
    <3>5. InStep(e) => InStep(d) /\ AsMany(e.got, u, d.got, w)
      BY <3>3, OneFollowed
    <3>6. e \in Client /\ w \in Counts
      BY <3>3, ReceiveTyped, AddTyped
    <3> HIDE DEF e, w
    <3>7. e.got \in Counts /\ d.got \in Counts /\ c.got \in Counts
      BY <3>3, <3>6 DEF Client, Counts
    <3>8. InStep(e) => AsMany(e.got, v, c.got, w)
      BY <3>3, <3>4, <3>5, <3>6, <3>7, Chained
    <3>9. QED
      BY <3>1, <3>2, <3>8 DEF Follows
  <2>2. QED
    BY <2>1
<1> HIDE DEF T
<1>3. Seq(Segment) \subseteq T
  BY <1>1, <1>2, Reception!InductionOnSequences
<1>4. QED
  BY <1>3 DEF T

(* A client that has all but the open packet: the rest of what is buffered *)
(* is what it lacks.                                                       *)
LEMMA BufferedFacts ==
  ASSUME NEW b, NEW g, NEW h, Holds(b, g, h)
  PROVE  \A t \in Stream : g[t] + Buffered(b, t) = h[t]
<1>1. PICK k : /\ Carries(b.done, g, k)
              /\ IF b.hdr = NoHdr THEN b.body = <<>> /\ h = k
                 ELSE Runs(b.body, k, b.stream, Held(b)) /\ h = Plus(k, b.stream, Held(b))
  BY DEF Holds
<1>2. /\ g \in Counts /\ k \in Counts /\ b.done \in Seq(Segment)
      /\ Nothing \in Counts /\ "stdout" \in Stream
  BY <1>1, PiecesAreSegments DEF Carries, Nothing, Counts, Stream
<1> DEFINE u == Counting!Fold(Nothing, b.done)
           c == Resting(g, "stdout")
<1>3. PICK s \in Stream : ReceiveAll(c, b.done) = Resting(k, s)
  BY <1>1, <1>2 DEF Carries
<1>4. c \in Client /\ c.got = g /\ Resting(k, s).got = k /\ InStep(Resting(k, s))
  BY <1>2, RestingTyped DEF Resting, InRecord, InStep
<1>5. Follows(b.done, c, Nothing)
  BY <1>2, <1>4, ContentsFollow
<1> HIDE DEF c
<1>6. \A t \in Stream : k[t] + Nothing[t] = g[t] + u[t]
  BY <1>3, <1>4, <1>5 DEF Follows, AsMany
<1>7. u \in Counts
  BY <1>2, CountTyped
<1> HIDE DEF u
<1>8. ASSUME NEW t \in Stream PROVE k[t] = g[t] + u[t]
  <2>1. k[t] \in Nat /\ g[t] \in Nat /\ u[t] \in Nat /\ Nothing[t] = 0
    BY <1>2, <1>7 DEF Counts, Nothing
  <2>2. QED
    BY <1>6, <2>1
<1>9. CASE b.hdr = NoHdr
  <2>1. b.done \o b.body = b.done
    BY <1>1, <1>2, <1>9, ConcatEmptySeq
  <2>2. Contents(b.done \o b.body) = u
    BY <2>1, ContentsIsFold DEF u
  <2>3. QED
    BY <1>1, <1>8, <1>9, <2>2 DEF Buffered
<1>10. CASE b.hdr # NoHdr
  <2> DEFINE n == Held(b)
             e == InRecord(k, b.stream, n, 0)
             w == Counting!Fold(u, b.body)
  <2>1. Runs(b.body, k, b.stream, n) /\ h = Plus(k, b.stream, n)
    BY <1>1, <1>10
  <2>2. /\ n \in Nat /\ b.stream \in Stream /\ b.body \in Seq(Segment)
        /\ ReceiveAll(e, b.body) = InRecord(h, b.stream, n - n, 0)
    BY <2>1, PiecesAreSegments DEF Runs
  <2>3. /\ e \in Client /\ e.got = k /\ InRecord(h, b.stream, n - n, 0).got = h
        /\ InStep(InRecord(h, b.stream, n - n, 0))
    BY <1>2, <2>2, RestingTyped DEF InRecord, InStep
  <2>4. Follows(b.body, e, u)
    BY <1>7, <2>2, <2>3, ContentsFollow
  <2> HIDE DEF n, e
  <2>5. \A t \in Stream : h[t] + u[t] = k[t] + w[t]
    BY <2>2, <2>3, <2>4 DEF Follows, AsMany
  <2>6. Contents(b.done \o b.body) = w
    BY <1>2, <2>2, ContentsIsFold, Counting!FoldOfConcat DEF u
  <2>7. w \in Counts /\ h \in Counts
    BY <1>2, <1>7, <2>1, <2>2, CountTyped, PlusFacts
  <2> HIDE DEF w
  <2>8. \A t \in Stream : /\ u[t] \in Nat /\ w[t] \in Nat /\ h[t] \in Nat
                          /\ k[t] \in Nat /\ g[t] \in Nat
    BY <1>2, <1>7, <2>7 DEF Counts
  <2>9. ASSUME NEW t \in Stream PROVE g[t] + w[t] = h[t]
    <3>1. k[t] = g[t] + u[t] /\ h[t] + u[t] = k[t] + w[t]
      BY <1>8, <2>5
    <3>2. QED
      BY <2>8, <3>1
  <2>10. QED
    BY <2>6, <2>9 DEF Buffered
<1>11. QED
  BY <1>9, <1>10
===============================================================================
