-------------------------- MODULE VideoStreamProofs --------------------------
(***************************************************************************)
(* For every size of a JPEG, every set of frame ids, any number of frames  *)
(* and of faults: what the receiver of VideoStream decodes has its parts   *)
(* in a row, it finds back into the stream with one complete frame, and    *)
(* until a second fault what it decodes is one frame, complete.  What an   *)
(* id that is taken for a marker spoils is excepted, and nothing else.     *)
(***************************************************************************)
EXTENDS VideoStream, TLAPS

\* The counter of a datagram survives the cast to a byte and back.
LEMMA SerialIsIndex ==
    ASSUME NEW p \in Packet PROVE Serial(p) = p.index /\ Serial(p) \in 0..127
<1>1. p.index \in 0..127
  BY DEF Packet
<1>. QED  BY <1>1 DEF Serial

\* The datagrams of a frame are numbered below 128.
LEMMA CountType == \A len \in Lengths : Count(len) \in 0..128
<1>. TAKE len \in Lengths
<1>1. len \in Nat /\ Count(len) <= 128 /\ Chunk \in Nat /\ Chunk > 2
  BY LengthsAssumption, ChunkAssumption
<1>2. len \div Chunk \in Nat
  BY <1>1, SMT
<1>. QED  BY <1>1, <1>2 DEF Count

LEMMA EndMarkerType == ASSUME NEW p \in Packet PROVE EndMarker(p) \in Int
<1>1. p.size \in Lengths /\ p.index \in Int
  BY DEF Packet
<1>2. Lengths \subseteq Nat
  BY LengthsAssumption, Zenon
<1>3. Lengths \subseteq Int /\ Chunk \in Int
  BY <1>2, ChunkAssumption
<1>4. p.size \in Int /\ Chunk \in Int
  BY <1>1, <1>3, Zenon
<1>5. \A a, b, c \in Int : a - 2 - b * c \in Int
  OBVIOUS
<1>6. p.size - 2 - p.index * Chunk \in Int
  BY <1>1, <1>4, <1>5, Zenon
<1>7. Chunk - 1 \in Int
  BY <1>4
<1>. QED  BY <1>6, <1>7 DEF EndMarker

\* The first datagram of a frame never holds its end: a JPEG is longer than it.
LEMMA FirstHasNoEnd ==
    ASSUME NEW p \in Packet, p.index = 0, ~Misleads(p)
    PROVE  EndMarker(p) <= 0
<1>1. p.size \in Nat /\ p.size > Chunk /\ Chunk \in Nat /\ Chunk > 2
  BY LengthsAssumption, ChunkAssumption DEF Packet
<1>2. p.size - 2 - p.index * Chunk = p.size - 2
  BY <1>1
<1>3. ~(p.size - 2 <= Chunk - 2)
  BY <1>1
<1>. QED  BY <1>2, <1>3 DEF EndMarker, Misleads

-----------------------------------------------------------------------------
\* The part of the type invariant the argument needs: what is on its way and what
\* was kept are datagrams, numbered within their frame.
Typed ==
    /\ frame \in 0..MaxFrames
    /\ size \in Lengths
    /\ marker \in Markers
    /\ next \in Nat
    /\ net \in Seq(Packet)
    /\ buffer \in Seq(Packet)
    /\ oldSerial \in Int
    /\ shown \in Seq(Packet)

\* The place of a datagram is a number.
LEMMA IndexType == \A p \in Packet : p.index \in 0..127 /\ p.index \in Int
BY DEF Packet

LEMMA InitTyped == Init => Typed
<1>. SUFFICES ASSUME Init PROVE Typed
  OBVIOUS
<1>1. size \in Lengths
  BY DEF Init
<1>2. Count(size) \in Nat
  BY <1>1, CountType
<1>. QED  BY <1>1, <1>2, BoundsAssumption DEF Init, Typed, Markers

LEMMA StepTyped == Typed /\ [Next]_vars => Typed'
<1>. SUFFICES ASSUME Typed, [Next]_vars PROVE Typed'
  OBVIOUS
<1>. USE DEF Typed, sender, receiver, history, vars
<1>1. ASSUME NEW len \in Lengths, NEW i, NEW m, NextFrame(len, i, m) PROVE Typed'
  BY <1>1, BoundsAssumption DEF NextFrame, Markers
<1>2. CASE SendPacket
  <2>1. PICK count \in 0..128 : next < count
    BY <1>2, CountType, Zenon DEF SendPacket, MoreToSend
  <2>2. next \in 0..127
    BY <2>1
  <2>3. Datagram(next) \in Packet
    <3>1. frame \in 1..MaxFrames
      BY <1>2, BoundsAssumption DEF SendPacket
    <3>. QED  BY <2>2, <3>1 DEF Packet, Datagram, Markers
  <2>. QED  BY <1>2, <2>3 DEF SendPacket
<1>3. ASSUME NEW k \in DOMAIN net, Lose(k) PROVE Typed'
  <2>1. RemoveAt(net, k) \in Seq(Packet)
    BY DEF RemoveAt
  <2>. QED  BY <1>3, <2>1 DEF Lose
<1>4. ASSUME NEW k \in DOMAIN net, Duplicate(k) PROVE Typed'
  <2>1. InsertAt(net, k, net[k]) \in Seq(Packet)
    BY DEF InsertAt
  <2>. QED  BY <1>4, <2>1 DEF Duplicate
<1>5. ASSUME NEW k \in DOMAIN net, Swap(k) PROVE Typed'
  <2>1. k + 1 \in DOMAIN net /\ net[k] \in Packet /\ net[k + 1] \in Packet
    BY <1>5 DEF Swap
  <2>2. [net EXCEPT ![k] = net[k + 1], ![k + 1] = net[k]] \in Seq(Packet)
    BY <2>1
  <2>. QED  BY <1>5, <2>2 DEF Swap
<1>6. CASE Receive
  <2>. DEFINE p == Head(net)
  <2>1. p \in Packet /\ Tail(net) \in Seq(Packet)
    BY <1>6 DEF Receive
  <2>2. Serial(p) \in 0..127
    BY <2>1, SerialIsIndex, Zenon
  <2>3. Append(buffer, p) \in Seq(Packet) /\ <<>> \in Seq(Packet) /\ <<p>> \in Seq(Packet)
    BY <2>1
  <2>. HIDE DEF p
  <2>7. frame' = frame /\ size' = size /\ marker' = marker /\ next' = next /\ net' \in Seq(Packet)
    BY <1>6, <2>1 DEF Receive, p
  <2>4. CASE EndImage(p)
    BY <2>3, <2>4, <2>7 DEF EndImage
  <2>5. CASE Collect(p)
    BY <2>2, <2>3, <2>5, <2>7 DEF Collect
  <2>. QED  BY <1>6, <2>4, <2>5 DEF Receive, p
<1>7. CASE Restart
  BY <1>7 DEF Restart
<1>8. CASE UNCHANGED vars
  BY <1>8
<1>. QED  BY <1>1, <1>2, <1>3, <1>4, <1>5, <1>6, <1>7, <1>8 DEF Next

-----------------------------------------------------------------------------
\* Unless a gap was seen, the buffer holds parts in a row and the serial number that
\* is accepted next is the one behind them; and unless a frame id was taken for a
\* marker, they are the beginning of an image.
InStep ==
    ~ifDropFrame =>
        /\ InARow(buffer)
        /\ buffer # <<>> => oldSerial = buffer[1].index + Len(buffer) - 1
        /\ ~misread => InPlace(buffer) /\ oldSerial = Len(buffer) - 1
Inv == Typed /\ InStep /\ ShownInPlace

\* A datagram that shows no gap goes behind those that came, which in an image that
\* was not misread is the place its number says.
LEMMA NextPlace ==
    ASSUME Inv, NEW p \in Packet, ~Drops(p)
    PROVE  /\ InARow(Append(buffer, p))
           /\ p.index = Append(buffer, p)[1].index + Len(Append(buffer, p)) - 1
           /\ ~misread => InPlace(Append(buffer, p)) /\ p.index = Len(buffer)
<1>1. InStep /\ ~ifDropFrame /\ Serial(p) - oldSerial = 1 /\ buffer \in Seq(Packet) /\ oldSerial \in Int
  BY DEF Inv, Typed, Drops
<1>2. p.index \in 0..127 /\ p.index - oldSerial = 1
  BY <1>1, SerialIsIndex, Zenon
<1>3. Len(buffer) \in Nat /\ \A k \in DOMAIN buffer : buffer[k] \in Packet /\ buffer[k].index \in Int
  <2>1. Len(buffer) \in Nat /\ \A k \in DOMAIN buffer : buffer[k] \in Packet
    BY <1>1
  <2>. QED  BY <2>1, IndexType
<1>. DEFINE b == Append(buffer, p)
<1>4. /\ DOMAIN b = 1..(Len(buffer) + 1) /\ Len(b) = Len(buffer) + 1 /\ b[Len(buffer) + 1] = p
      /\ \A k \in 1..Len(buffer) : b[k] = buffer[k]
  BY <1>1
<1>. HIDE DEF b
<1>5. CASE buffer = <<>>
  <2>1. Len(buffer) = 0
    BY <1>5
  <2>2. Len(b) = 1 /\ DOMAIN b = 1..1 /\ b[1] = p
    BY <1>4, <2>1
  <2>3. \A k \in 1..1 : k = 1
    OBVIOUS
  <2>4. InARow(b) /\ p.index = b[1].index + Len(b) - 1
    BY <1>2, <2>2, <2>3 DEF InARow
  <2>5. ~misread => p.index = 0
    BY <1>1, <1>2, <2>1 DEF InStep
  <2>6. ~misread => InPlace(b) /\ p.index = Len(buffer)
    BY <2>1, <2>2, <2>3, <2>5 DEF InPlace
  <2>. QED  BY <2>4, <2>6 DEF b
<1>6. CASE buffer # <<>>
  <2>1. Len(buffer) >= 1 /\ 1 \in 1..Len(buffer) /\ DOMAIN buffer = 1..Len(buffer)
    BY <1>1, <1>6
  <2>2. b[1] = buffer[1] /\ buffer[1].index \in Int
    BY <1>3, <1>4, <2>1
  <2>3. p.index = b[1].index + Len(buffer)
    <3>1. oldSerial = buffer[1].index + Len(buffer) - 1
      BY <1>1, <1>6 DEF InStep
    <3>2. \A x, y \in Int, n \in Nat : \A z \in Int : x = y + n - 1 /\ z - x = 1 => z = y + n
      OBVIOUS
    <3>3. p.index \in Int
      BY <1>2
    <3>4. p.index = buffer[1].index + Len(buffer)
      BY <1>1, <1>2, <1>3, <2>2, <3>1, <3>2, <3>3
    <3>. QED  BY <2>2, <3>4
  <2>4. p.index = b[1].index + Len(b) - 1
    BY <1>3, <1>4, <2>2, <2>3
  <2>5. InARow(b)
    <3>1. ASSUME NEW k \in 1..(Len(buffer) + 1) PROVE b[k].index = b[1].index + k - 1
      <4>1. CASE k \in 1..Len(buffer)
        BY <1>1, <1>4, <2>1, <2>2, <4>1 DEF InStep, InARow
      <4>2. CASE k = Len(buffer) + 1
        BY <1>3, <1>4, <2>2, <2>3, <4>2
      <4>. QED  BY <1>3, <4>1, <4>2
    <3>. QED  BY <1>4, <3>1 DEF InARow
  <2>6. ASSUME ~misread PROVE InPlace(b) /\ p.index = Len(buffer)
    <3>1. InPlace(buffer) /\ oldSerial = Len(buffer) - 1
      BY <1>1, <2>6 DEF InStep
    <3>2. p.index = Len(buffer)
      <4>1. \A z \in 0..127, n \in Nat : z - (n - 1) = 1 => z = n
        OBVIOUS
      <4>. QED  BY <1>2, <1>3, <3>1, <4>1, Zenon
    <3>3. ASSUME NEW k \in 1..(Len(buffer) + 1) PROVE b[k].index = k - 1
      <4>1. CASE k \in 1..Len(buffer)
        BY <1>4, <2>1, <3>1, <4>1 DEF InPlace
      <4>2. CASE k = Len(buffer) + 1
        BY <1>3, <1>4, <3>2, <4>2
      <4>. QED  BY <1>3, <4>1, <4>2
    <3>. QED  BY <1>4, <3>2, <3>3 DEF InPlace
  <2>. QED  BY <2>4, <2>5, <2>6 DEF b
<1>. QED  BY <1>5, <1>6

\* The places in the empty sequence and in one datagram.
LEMMA ShortRows ==
    /\ InARow(<<>>) /\ InPlace(<<>>) /\ Len(<<>>) = 0
    /\ \A p \in Packet : InARow(<<p>>) /\ <<p>> # <<>> /\ p.index = <<p>>[1].index + Len(<<p>>) - 1
<1>1. \A p \in Packet : p.index \in Int
  BY DEF Packet
<1>2. ASSUME NEW p \in Packet
      PROVE  InARow(<<p>>) /\ <<p>> # <<>> /\ p.index = <<p>>[1].index + Len(<<p>>) - 1
  <2>1. Len(<<p>>) = 1 /\ <<p>>[1] = p /\ DOMAIN <<p>> = 1..1 /\ p.index \in Int
    BY <1>1
  <2>2. \A k \in 1..1 : k = 1
    OBVIOUS
  <2>. QED  BY <2>1, <2>2 DEF InARow
<1>. QED  BY <1>2 DEF InARow, InPlace

LEMMA ReceiveStep ==
    ASSUME Inv, Receive
    PROVE  InStep' /\ ShownInPlace'
<1>. DEFINE p == Head(net)
<1>1. p \in Packet /\ buffer \in Seq(Packet) /\ p.index \in 0..127
  <2>1. p \in Packet /\ buffer \in Seq(Packet)
    BY DEF Receive, Inv, Typed
  <2>. QED  BY <2>1, IndexType
<1>2. /\ EndImage(p) \/ Collect(p)
      /\ misread' = (~(EndsImage(p) /\ IsLast(p)) /\ (misread \/ Misleads(p)))
      /\ shownMisread' = IF EndsImage(p) /\ ~Drops(p) THEN misread \/ Misleads(p) ELSE shownMisread
  BY DEF Receive, Note
<1>. HIDE DEF p
<1>4. CASE EndImage(p)
  <2>1. buffer' = <<>> /\ oldSerial' = -1 /\ EndsImage(p)
    BY <1>4 DEF EndImage
  <2>2. InStep'
    <3>1. -1 = 0 - 1
      OBVIOUS
    <3>2. InARow(buffer') /\ InPlace(buffer') /\ oldSerial' = Len(buffer') - 1
      BY <2>1, <3>1, ShortRows
    <3>. QED  BY <2>1, <3>2 DEF InStep, InARow, InPlace
  <2>3. CASE Drops(p)
    <3>1. shown' = shown /\ shownMisread' = shownMisread
      BY <1>2, <1>4, <2>3 DEF EndImage
    <3>. QED  BY <2>2, <3>1 DEF Inv, ShownInPlace, InARow, InPlace
  <2>4. CASE ~Drops(p)
    <3>1. shown' = Append(buffer, p) /\ (~shownMisread' => ~misread)
      BY <1>2, <1>4, <2>1, <2>4 DEF EndImage
    <3>2. InARow(Append(buffer, p)) /\ (~misread => InPlace(Append(buffer, p)))
      BY <1>1, <2>4, NextPlace
    <3>3. InARow(shown)' = InARow(Append(buffer, p)) /\ InPlace(shown)' = InPlace(Append(buffer, p))
      BY <3>1 DEF InARow, InPlace
    <3>. QED  BY <2>2, <3>1, <3>2, <3>3 DEF ShownInPlace
  <2>. QED  BY <2>3, <2>4
<1>5. CASE Collect(p)
  <2>1. ShownInPlace'
    <3>1. shown' = shown /\ shownMisread' = shownMisread
      BY <1>2, <1>5 DEF Collect
    <3>. QED  BY <3>1 DEF Inv, ShownInPlace, InARow, InPlace
  <2>2. CASE Drops(p)
    BY <1>5, <2>1, <2>2 DEF Collect, InStep
  <2>3. CASE ~Drops(p)
    <3>1. /\ oldSerial' = p.index /\ ~EndsImage(p)
          /\ misread' = (misread \/ Misleads(p))
          /\ buffer' = IF StartsOver(p) THEN <<p>>
                       ELSE IF EndMarker(p) > 0 THEN buffer ELSE Append(buffer, p)
      BY <1>1, <1>2, <1>5, SerialIsIndex DEF Collect
    <3>2. CASE StartsOver(p)
      <4>1. misread' /\ buffer' = <<p>>
        BY <3>1, <3>2 DEF Misleads
      <4>2. InARow(buffer') /\ oldSerial' = buffer'[1].index + Len(buffer') - 1
        BY <1>1, <3>1, <4>1, ShortRows
      <4>. QED  BY <2>1, <4>1, <4>2 DEF InStep, InARow
    <3>3. CASE ~StartsOver(p) /\ EndMarker(p) > 0
      <4>1. buffer' = buffer /\ buffer = <<>>
        BY <3>1, <3>3 DEF EndsImage
      <4>2. misread'
        <5>. SUFFICES ASSUME ~misread, ~Misleads(p) PROVE FALSE
          BY <3>1
        <5>1. p.index = Len(buffer)
          BY <1>1, <2>3, NextPlace
        <5>2. p.index = 0
          BY <4>1, <5>1, ShortRows
        <5>3. EndMarker(p) <= 0 /\ EndMarker(p) \in Int
          BY <1>1, <5>2, FirstHasNoEnd, EndMarkerType
        <5>. QED  BY <3>3, <5>3
      <4>3. InARow(buffer') /\ buffer' = <<>>
        BY <4>1, ShortRows
      <4>. QED  BY <2>1, <4>2, <4>3 DEF InStep, InARow
    <3>4. CASE ~StartsOver(p) /\ ~(EndMarker(p) > 0)
      <4>1. buffer' = Append(buffer, p)
        BY <3>1, <3>4
      <4>2. /\ InARow(buffer') /\ oldSerial' = buffer'[1].index + Len(buffer') - 1
            /\ ~misread => InPlace(buffer') /\ p.index = Len(buffer)
        BY <1>1, <2>3, <3>1, <4>1, NextPlace
      <4>3. Len(buffer') - 1 = Len(buffer)
        BY <1>1, <4>1
      <4>5. ~misread' => ~misread
        BY <3>1
      <4>4. ~misread' => InPlace(buffer') /\ oldSerial' = Len(buffer') - 1
        BY <3>1, <4>2, <4>3, <4>5
      <4>. QED  BY <2>1, <4>2, <4>4 DEF InStep, InARow, InPlace
    <3>. QED  BY <3>2, <3>3, <3>4
  <2>. QED  BY <2>2, <2>3
<1>. QED  BY <1>2, <1>4, <1>5

LEMMA InitInStep == Init => InStep /\ ShownInPlace
<1>. SUFFICES ASSUME Init PROVE InStep /\ ShownInPlace
  OBVIOUS
<1>1. buffer = <<>> /\ oldSerial = -1 /\ shown = <<>> /\ -1 = 0 - 1
  BY DEF Init
<1>. QED  BY <1>1, ShortRows DEF InStep, ShownInPlace

LEMMA StepInv == Inv /\ [Next]_vars => Inv'
<1>. SUFFICES ASSUME Inv, [Next]_vars PROVE InStep' /\ ShownInPlace'
  BY StepTyped DEF Inv
<1>. USE DEF Inv
<1>1. CASE UNCHANGED <<receiver, history>>
  BY <1>1 DEF receiver, history, InStep, ShownInPlace, InPlace, InARow
<1>2. CASE Receive
  BY <1>2, ReceiveStep
<1>3. CASE Restart
  <2>1. buffer' = <<>> /\ oldSerial' = -1 /\ shown' = shown /\ shownMisread' = shownMisread
    BY <1>3 DEF Restart
  <2>2. -1 = 0 - 1
    OBVIOUS
  <2>3. InARow(buffer') /\ InPlace(buffer') /\ oldSerial' = Len(buffer') - 1
    BY <2>1, <2>2, ShortRows
  <2>. QED  BY <2>1, <2>3 DEF InStep, ShownInPlace, InARow, InPlace
<1>. QED
  BY <1>1, <1>2, <1>3
  DEF Next, NextFrame, SendPacket, Lose, Duplicate, Swap, vars

\* Client.java 301-304: whatever the network does, the parts of what is decoded follow
\* each other without a gap, and each is at its place unless a frame id was taken for
\* a marker.
THEOREM ImagesInPlace == Spec => []ShownInPlace
<1>1. Init => Inv
  <2>. SUFFICES ASSUME Init PROVE Inv
    OBVIOUS
  <2>1. InStep /\ ShownInPlace
    BY InitInStep
  <2>. QED  BY <2>1, InitTyped DEF Inv
<1>2. Inv => ShownInPlace
  BY DEF Inv
<1>. QED  BY <1>1, <1>2, StepInv, PTL DEF Spec

-----------------------------------------------------------------------------
(* Where the end of an image is.                                           *)

\* The datagrams the sender makes: a frame has one for every place below Count, and
\* the last is filled up with zeros.
Parts == {p \in Packet : p.index < Count(p.size) /\ (IsLast(p) => p.mark = "none")}

LEMMA LastIsPlain == ASSUME NEW p \in Parts, IsLast(p) PROVE ~Misleads(p)
<1>1. p.mark = "none"
  BY DEF Parts
<1>. QED  BY <1>1 DEF Misleads, StartsOver, StartMarker

\* A frame that is sent is q full datagrams and r bytes in one more.
LEMMA PartsOfFrame ==
    ASSUME NEW p \in Parts
    PROVE  \E q \in Nat, r \in Nat :
               /\ r > 0 /\ r < Chunk /\ q > 0 /\ q <= 127
               /\ p.size = q * Chunk + r /\ p.size % Chunk = r
               /\ p.index \in 0..q /\ (IsLast(p) <=> p.index = q)
<1>1. p.size \in Nat /\ p.size > Chunk /\ Chunk \in Nat /\ Chunk > 2 /\ Count(p.size) <= 128
  BY LengthsAssumption, ChunkAssumption DEF Packet, Parts
<1>2. p.index \in 0..127 /\ p.index < Count(p.size)
  BY DEF Packet, Parts
<1>. DEFINE q == p.size \div Chunk
            r == p.size % Chunk
<1>3. q \in Nat /\ r \in 0..(Chunk - 1) /\ p.size = q * Chunk + r
  BY <1>1
<1>4. r # 0 /\ Count(p.size) = q + 1
  <2>1. CASE r = 0
    BY <1>2, <2>1 DEF Count
  <2>2. CASE r # 0
    BY <2>2 DEF Count
  <2>. QED  BY <2>1, <2>2
<1>. HIDE DEF q, r
<1>5. q > 0
  <2>1. CASE q = 0
    <3>1. \A c \in Nat : 0 * c = 0
      OBVIOUS
    <3>2. q * Chunk = 0
      BY <1>1, <2>1, <3>1, Zenon
    <3>3. p.size = r
      BY <1>1, <1>3, <3>2
    <3>. QED  BY <1>1, <1>3, <3>3
  <2>. QED  BY <1>3, <2>1
<1>6. IsLast(p) <=> p.index = q
  BY <1>2, <1>3, <1>4 DEF IsLast
<1>7. p.index \in 0..q /\ q <= 127
  BY <1>1, <1>2, <1>3, <1>4
<1>8. r > 0 /\ r < Chunk /\ r \in Nat
  BY <1>1, <1>3, <1>4
<1>9. p.size % Chunk = r
  BY DEF r
<1>. QED  BY <1>9, <1>3, <1>5, <1>6, <1>7, <1>8

\* Only the last datagram of a frame can hold its true end marker.
LEMMA MiddleHasNoEnd ==
    ASSUME NEW p \in Parts, ~IsLast(p)
    PROVE  EndMarker(p) = (IF p.mark = "EOI" THEN Chunk - 1 ELSE -1) /\ p.index + 1 \in 0..127
<1>1. PICK q \in Nat, r \in Nat :
          /\ r > 0 /\ q <= 127 /\ p.size = q * Chunk + r
          /\ p.index \in 0..q /\ p.index # q
  BY PartsOfFrame
<1>2. Chunk \in Nat /\ Chunk > 2 /\ p.index \in Nat
  BY <1>1, ChunkAssumption
<1>. DEFINE d == q - p.index
<1>3. d \in Nat /\ d >= 1 /\ q = p.index + d
  BY <1>1, <1>2
<1>. HIDE DEF d
<1>4. \A a, b, c \in Nat : (a + b) * c - a * c = b * c
  OBVIOUS
<1>5. \A b, c \in Nat : b >= 1 => b * c >= c /\ b * c \in Nat
  OBVIOUS
<1>6. q * Chunk - p.index * Chunk = d * Chunk
  BY <1>2, <1>3, <1>4
<1>7. d * Chunk >= Chunk /\ d * Chunk \in Nat
  BY <1>2, <1>3, <1>5
<1>8. p.index * Chunk \in Nat /\ q * Chunk \in Nat
  BY <1>1, <1>2
<1>9. p.size - 2 - p.index * Chunk > Chunk - 2
  BY <1>1, <1>2, <1>6, <1>7, <1>8
<1>10. p.size - 2 - p.index * Chunk \in Int
  BY <1>1, <1>2, <1>8
<1>. QED  BY <1>1, <1>2, <1>9, <1>10 DEF EndMarker

\* The last datagram of a readable frame holds it, not at its beginning.
LEMMA LastHasEnd ==
    ASSUME NEW p \in Parts, IsLast(p), Readable(p.size)
    PROVE  EndMarker(p) > 0
<1>1. PICK q \in Nat, r \in Nat :
          /\ r < Chunk /\ p.size = q * Chunk + r /\ p.size % Chunk = r /\ p.index = q
  BY PartsOfFrame
<1>2. Chunk \in Nat /\ Chunk > 2 /\ r > 2
  BY <1>1, ChunkAssumption DEF Readable
<1>3. q * Chunk \in Nat
  BY <1>1, <1>2
<1>4. p.size - 2 - p.index * Chunk = r - 2
  BY <1>1, <1>2, <1>3
<1>. QED  BY <1>1, <1>2, <1>4 DEF EndMarker

LEMMA FirstIsNotLast ==
    ASSUME NEW p \in Parts, p.index = 0
    PROVE  ~IsLast(p)
BY PartsOfFrame

-----------------------------------------------------------------------------
(* Finding back.                                                           *)

\* The variables Typed leaves out, and that only parts of frames are on their way.
TypedRest ==
    /\ marked \subseteq 0..(Count(size) - 2)
    /\ next \in 0..Count(size)
    /\ net \in Seq(Parts)
    /\ faults \in 0..MaxFaults
    /\ oldSerial \in -1..127
    /\ ifDropFrame \in BOOLEAN
    /\ expected \in 0..127
    /\ current \in 0..MaxFrames
    /\ intact \in 0..2
    /\ misread \in BOOLEAN
    /\ shownMisread \in BOOLEAN

\* Once one readable frame came complete and was not misread, the receiver collects
\* the next: the buffer holds what came of it.  While a frame comes at all, something
\* is kept.
Synchronised ==
    /\ expected >= 1 => buffer # <<>>
    /\ intact >= 1 =>
           /\ ~ifDropFrame /\ ~misread /\ oldSerial = expected - 1 /\ Len(buffer) = expected
           /\ \A k \in DOMAIN buffer : buffer[k].frame = current
    /\ ResyncAfterOneFrame

IInv == Inv /\ TypedRest /\ Synchronised

\* A middle part is kept.
LEMMA MiddleKept ==
    ASSUME NEW p \in Parts, ~IsLast(p), ~Misleads(p), EndImage(p) \/ Collect(p)
    PROVE  /\ buffer' = Append(buffer, p)
           /\ oldSerial' = Serial(p)
           /\ ifDropFrame' = Drops(p)
           /\ shown' = shown
<1>1. EndMarker(p) = -1 /\ ~StartsOver(p)
  BY MiddleHasNoEnd DEF Misleads
<1>. QED  BY <1>1 DEF EndImage, Collect, EndsImage

LEMMA ReceiveTyped ==
    ASSUME IInv, Receive
    PROVE  TypedRest'
<1>. DEFINE p == Head(net)
<1>1. p \in Parts /\ p \in Packet /\ Tail(net) \in Seq(Parts)
  BY DEF Receive, IInv, TypedRest, Parts
<1>2. net' = Tail(net) /\ UNCHANGED <<sender, faults>> /\ (EndImage(p) \/ Collect(p)) /\ Note(p)
  BY DEF Receive
<1>. HIDE DEF p
<1>3. oldSerial' \in -1..127
  <2>1. Serial(p) \in -1..127
    BY <1>1, SerialIsIndex
  <2>. QED  BY <1>2, <2>1 DEF EndImage, Collect
<1>4. ifDropFrame' \in BOOLEAN
  <2>1. Drops(p) \in BOOLEAN
    BY DEF Drops, IInv, TypedRest
  <2>. QED  BY <1>2, <2>1, Zenon DEF EndImage, Collect
<1>5. current' \in 0..MaxFrames
  BY <1>1, <1>2, BoundsAssumption DEF Note, Packet
<1>6. expected' \in 0..127
  <2>1. p.index \in 0..127
    BY <1>1 DEF Packet
  <2>2. ~IsLast(p) => p.index + 1 \in 0..127
    BY <1>1, MiddleHasNoEnd
  <2>3. expected' = (IF InOrder(p) /\ IsLast(p) THEN 0
                     ELSE IF InOrder(p) \/ (p.index = 0 /\ ~Misleads(p)) THEN p.index + 1 ELSE 0)
    BY <1>2 DEF Note
  <2>4. p.index = 0 => ~IsLast(p)
    BY <1>1, FirstIsNotLast
  <2>. QED  BY <2>1, <2>2, <2>3, <2>4
<1>7. intact' \in 0..2
  <2>1. intact' \in {0, intact, 2} \/ (intact # 2 /\ intact' = intact + 1)
    BY <1>2 DEF Note
  <2>. QED  BY <2>1 DEF IInv, TypedRest
<1>8. misread' \in BOOLEAN
  <2>1. misread' = (~(EndsImage(p) /\ IsLast(p)) /\ (misread \/ Misleads(p)))
    BY <1>2, Zenon DEF Note
  <2>. QED  BY <2>1, Zenon
<1>9. shownMisread' \in BOOLEAN
  <2>1. (misread \/ Misleads(p)) \in BOOLEAN /\ shownMisread \in BOOLEAN
    BY Zenon DEF IInv, TypedRest
  <2>2. shownMisread' = IF EndsImage(p) /\ ~Drops(p) THEN misread \/ Misleads(p) ELSE shownMisread
    BY <1>2, Zenon DEF Note
  <2>. QED  BY <2>1, <2>2, Zenon
<1>. QED
  BY <1>1, <1>2, <1>3, <1>4, <1>5, <1>6, <1>7, <1>8, <1>9 DEF IInv, TypedRest, sender

\* The loop at 337 stays below the number of datagrams.
LEMMA LoopBounds ==
    \A c \in 0..128 :
        /\ 0 \in 0..c
        /\ \A n \in 0..c : n < c => n \in 0..127 /\ n + 1 \in 0..c
OBVIOUS

\* What the bytes of a frame can make with its id is in its full datagrams.
LEMMA MarkedType == ASSUME NEW len, NEW i, NEW m \in MarkedParts(len, i) PROVE m \subseteq 0..(Count(len) - 2)
<1>1. CASE i \notin {SOI, EOI}
  BY <1>1 DEF MarkedParts
<1>2. CASE i \in {SOI, EOI}
  BY <1>2 DEF MarkedParts
<1>. QED  BY <1>1, <1>2

LEMMA StepTypedRest ==
    ASSUME IInv, [Next]_vars
    PROVE  TypedRest'
<1>. USE DEF IInv, TypedRest, Inv, Typed, sender, receiver, history, vars
<1>1. ASSUME NEW len \in Lengths, NEW i \in Ids, NEW m \in MarkedParts(len, i), NextFrame(len, i, m)
      PROVE  TypedRest'
  <2>1. PICK count \in 0..128 : count = Count(len)
    BY CountType, Zenon
  <2>2. 0 \in 0..count
    BY <2>1, LoopBounds, Zenon
  <2>3. marked' \subseteq 0..(Count(size') - 2)
    BY <1>1, MarkedType DEF NextFrame
  <2>. QED  BY <1>1, <2>1, <2>2, <2>3 DEF NextFrame
<1>2. CASE SendPacket
  <2>. DEFINE m == Datagram(next)
  <2>1. PICK count \in 0..128 : count = Count(size) /\ next < count
    BY <1>2, CountType, Zenon DEF SendPacket, MoreToSend
  <2>2. next \in 0..127 /\ next + 1 \in 0..Count(size) /\ frame \in 1..MaxFrames
    <3>1. next \in 0..count
      BY <2>1
    <3>2. next \in 0..127 /\ next + 1 \in 0..count
      BY <2>1, <3>1, LoopBounds, Zenon
    <3>3. frame \in 1..MaxFrames
      BY <1>2, BoundsAssumption DEF SendPacket
    <3>. QED  BY <2>1, <3>2, <3>3
  <2>3. m \in Packet /\ m.index < Count(m.size)
    BY <2>1, <2>2 DEF Packet, Datagram, Markers
  <2>7. IsLast(m) => m.mark = "none"
    <3>1. IsLast(m) => next = count - 1
      BY <2>1 DEF IsLast, Datagram
    <3>2. next = count - 1 => next \notin marked
      BY <2>1
    <3>. QED  BY <3>1, <3>2 DEF Datagram
  <2>4. m \in Parts
    BY <2>3, <2>7 DEF Parts
  <2>5. net' = Append(net, m)
    BY <1>2 DEF SendPacket
  <2>6. net' \in Seq(Parts)
    BY <2>4, <2>5
  <2>. QED  BY <1>2, <2>2, <2>6 DEF SendPacket
<1>3. Fault => faults' \in 0..MaxFaults
  BY BoundsAssumption DEF Fault
<1>4. ASSUME NEW k \in DOMAIN net, Lose(k) PROVE TypedRest'
  <2>1. RemoveAt(net, k) \in Seq(Parts)
    BY DEF RemoveAt
  <2>. QED  BY <1>3, <1>4, <2>1 DEF Lose
<1>5. ASSUME NEW k \in DOMAIN net, Duplicate(k) PROVE TypedRest'
  <2>1. InsertAt(net, k, net[k]) \in Seq(Parts)
    BY DEF InsertAt
  <2>. QED  BY <1>3, <1>5, <2>1 DEF Duplicate
<1>6. ASSUME NEW k \in DOMAIN net, Swap(k) PROVE TypedRest'
  <2>1. k + 1 \in DOMAIN net /\ net[k] \in Parts /\ net[k + 1] \in Parts
    BY <1>6 DEF Swap
  <2>2. [net EXCEPT ![k] = net[k + 1], ![k + 1] = net[k]] \in Seq(Parts)
    BY <2>1
  <2>. QED  BY <1>3, <1>6, <2>2 DEF Swap
<1>7. CASE Receive
  BY <1>7, ReceiveTyped
<1>8. CASE Restart
  <2>1. /\ faults' \in 0..MaxFaults /\ expected' = 0 /\ intact' = 0
        /\ oldSerial' = -1 /\ ifDropFrame' = FALSE /\ misread' = FALSE
        /\ UNCHANGED <<size, marked, marker, next, net, current, shownMisread>>
    BY <1>3, <1>8 DEF Restart
  <2>2. -1 \in -1..127 /\ 0 \in 0..127 /\ 0 \in 0..2
    OBVIOUS
  <2>. QED  BY <2>1, <2>2
<1>9. CASE UNCHANGED vars
  BY <1>9
<1>. QED  BY <1>1, <1>2, <1>4, <1>5, <1>6, <1>7, <1>8, <1>9 DEF Next

\* While the frame that came complete goes on, the next part shows no gap.
LEMMA NoGap ==
    ASSUME IInv, NEW p \in Packet, InOrder(p), intact >= 1
    PROVE  ~Drops(p) /\ Serial(p) = expected
<1>1. Serial(p) = p.index /\ p.index = expected /\ expected \in Int
  BY SerialIsIndex DEF InOrder, IInv, TypedRest
<1>2. ~ifDropFrame /\ oldSerial = expected - 1
  BY DEF IInv, Synchronised
<1>. QED  BY <1>1, <1>2 DEF Drops

LEMMA ReceiveSynchronised ==
    ASSUME IInv, Receive
    PROVE  Synchronised'
<1>. DEFINE p == Head(net)
<1>1. p \in Parts /\ p \in Packet
  BY DEF Receive, IInv, TypedRest, Parts
<1>2. (EndImage(p) \/ Collect(p)) /\ Note(p)
  BY DEF Receive
<1>. HIDE DEF p
<1>3. /\ buffer \in Seq(Packet) /\ shown \in Seq(Packet)
      /\ p.index \in 0..127 /\ expected \in 0..127 /\ intact \in 0..2
  BY <1>1 DEF IInv, Inv, Typed, TypedRest, Packet
<1>7. CASE Misleads(p)
  <2>1. ~InOrder(p)
    BY <1>7 DEF InOrder
  <2>2. expected' = 0 /\ intact' = 0
    BY <1>2, <1>7, <2>1 DEF Note
  <2>. QED  BY <2>2 DEF Synchronised, ResyncAfterOneFrame
<1>4. CASE ~IsLast(p) /\ ~Misleads(p)
  <2>1. /\ buffer' = Append(buffer, p) /\ buffer' # <<>> /\ Len(buffer') = Len(buffer) + 1
        /\ oldSerial' = Serial(p) /\ ifDropFrame' = Drops(p) /\ shown' = shown
    BY <1>1, <1>2, <1>3, <1>4, MiddleKept
  <2>2. CASE ~InOrder(p)
    <3>1. intact' = 0
      BY <1>2, <2>2 DEF Note
    <3>. QED  BY <2>1, <3>1 DEF Synchronised, ResyncAfterOneFrame
  <2>3. CASE InOrder(p)
    <3>1. /\ intact' = intact /\ expected' = p.index + 1 /\ p.index = expected
          /\ current' = p.frame
      BY <1>2, <1>4, <2>3 DEF Note, InOrder
    <3>2. ResyncAfterOneFrame'
      BY <1>3, <3>1 DEF ResyncAfterOneFrame
    <3>3. ASSUME intact >= 1
          PROVE  /\ ~ifDropFrame' /\ ~misread'
                 /\ oldSerial' = expected' - 1 /\ Len(buffer') = expected'
                 /\ \A k \in DOMAIN buffer' : buffer'[k].frame = current'
      <4>1. ~Drops(p) /\ Serial(p) = expected
        BY <1>1, <2>3, <3>3, NoGap
      <4>2. Len(buffer) = expected /\ \A k \in DOMAIN buffer : buffer[k].frame = current
        BY <3>3 DEF IInv, Synchronised
      <4>3. expected = 0 \/ p.frame = current
        BY <2>3 DEF InOrder
      <4>4. \A k \in DOMAIN buffer : buffer[k].frame = p.frame
        BY <1>3, <4>2, <4>3
      <4>5. \A k \in DOMAIN buffer' : buffer'[k].frame = p.frame
        BY <1>3, <2>1, <4>4
      <4>6. ~misread'
        BY <1>2, <1>4, <3>3 DEF Note, IInv, Synchronised
      <4>. QED  BY <1>3, <2>1, <3>1, <4>1, <4>2, <4>5, <4>6
    <3>. QED  BY <2>1, <3>1, <3>2, <3>3 DEF Synchronised
  <2>. QED  BY <2>2, <2>3
<1>5. CASE IsLast(p) /\ ~(InOrder(p) /\ Readable(p.size))
  <2>1. p.index # 0
    BY <1>1, <1>5, FirstIsNotLast
  <2>2. expected' = 0 /\ intact' = 0
    BY <1>2, <1>5, <2>1 DEF Note
  <2>. QED  BY <2>2 DEF Synchronised, ResyncAfterOneFrame
<1>6. CASE IsLast(p) /\ InOrder(p) /\ Readable(p.size)
  <2>1. p.index = expected /\ expected >= 1 /\ p.frame = current
    BY <1>1, <1>3, <1>6, FirstIsNotLast DEF InOrder
  <2>2. EndsImage(p)
    BY <1>1, <1>6, <2>1, LastHasEnd DEF EndsImage, IInv, Synchronised
  <2>3. /\ buffer' = <<>> /\ oldSerial' = -1 /\ ifDropFrame' = FALSE
        /\ shown' = IF Drops(p) THEN shown ELSE Append(buffer, p)
    BY <1>2, <2>2 DEF EndImage, Collect
  <2>4. /\ expected' = 0 /\ current' = current
        /\ intact' = IF intact = 2 THEN 2 ELSE intact + 1
        /\ ~misread'
    BY <1>2, <1>6, <2>1, <2>2 DEF Note
  <2>5. ResyncAfterOneFrame'
    <3>. SUFFICES ASSUME intact' = 2
                  PROVE  shown' # <<>> /\ InPlace(shown') /\ IsWhole(shown') /\ shown'[1].frame = current'
      BY DEF ResyncAfterOneFrame, IsWhole, OfOneFrame, InPlace
    <3>1. intact >= 1
      BY <1>3, <2>4
    <3>2. ~Drops(p)
      BY <1>1, <1>6, <3>1, NoGap
    <3>3. shown' = Append(buffer, p) /\ InPlace(Append(buffer, p))
      BY <1>1, <2>3, <3>1, <3>2, NextPlace DEF IInv, Synchronised
    <3>4. \A k \in DOMAIN buffer : buffer[k].frame = current
      BY <3>1 DEF IInv, Synchronised
    <3>5. /\ shown' # <<>> /\ DOMAIN shown' = 1..Len(buffer) + 1 /\ Len(shown') = Len(buffer) + 1
          /\ shown'[Len(buffer) + 1] = p
          /\ \A k \in DOMAIN shown' : shown'[k].frame = current
      BY <1>3, <2>1, <3>3, <3>4
    <3>6. 1 \in DOMAIN shown'
      BY <1>3, <3>5
    <3>. QED  BY <1>6, <2>4, <3>3, <3>5, <3>6 DEF IsWhole, OfOneFrame
  <2>6. -1 = 0 - 1 /\ Len(<<>>) = 0
    OBVIOUS
  <2>. QED  BY <2>3, <2>4, <2>5, <2>6 DEF Synchronised
<1>. QED  BY <1>4, <1>5, <1>6, <1>7

\* What the receiver knows changes with a delivery and with a restart only.
LEMMA StepSynchronised ==
    ASSUME IInv, [Next]_vars
    PROVE  Synchronised'
<1>1. CASE UNCHANGED <<receiver, history>>
  BY <1>1 DEF IInv, Synchronised, ResyncAfterOneFrame, IsWhole, OfOneFrame, InPlace, receiver, history
<1>2. CASE Receive
  BY <1>2, ReceiveSynchronised
<1>3. CASE Restart
  BY <1>3 DEF Restart, Synchronised, ResyncAfterOneFrame
<1>. QED
  BY <1>1, <1>2, <1>3 DEF Next, NextFrame, SendPacket, Lose, Duplicate, Swap, vars

LEMMA InitIInv == Init => IInv
<1>. SUFFICES ASSUME Init PROVE IInv
  OBVIOUS
<1>1. Inv
  <2>1. InStep /\ ShownInPlace
    BY InitInStep
  <2>. QED  BY <2>1, InitTyped DEF Inv
<1>2. TypedRest
  <2>1. PICK count \in 0..128 : count = Count(size)
    BY CountType, Zenon DEF Init
  <2>2. count \in 0..count
    BY <2>1
  <2>3. next \in 0..Count(size)
    BY <2>1, <2>2, Zenon DEF Init
  <2>4. /\ faults \in 0..MaxFaults /\ oldSerial \in -1..127 /\ expected \in 0..127
        /\ current \in 0..MaxFrames /\ intact \in 0..2
        /\ marked \subseteq 0..(Count(size) - 2)
    BY BoundsAssumption DEF Init
  <2>5. net = <<>> /\ ifDropFrame = FALSE /\ misread = FALSE /\ shownMisread = FALSE
    BY DEF Init
  <2>6. net \in Seq(Parts)
    BY <2>5
  <2>7. ifDropFrame \in BOOLEAN /\ misread \in BOOLEAN /\ shownMisread \in BOOLEAN
    BY <2>5, Zenon
  <2>. QED  BY <2>3, <2>4, <2>6, <2>7 DEF TypedRest
<1>3. Synchronised
  BY DEF Init, Synchronised, ResyncAfterOneFrame
<1>. QED  BY <1>1, <1>2, <1>3 DEF IInv

THEOREM Invariant == Spec => []IInv
<1>1. IInv /\ [Next]_vars => IInv'
  <2>. SUFFICES ASSUME IInv, [Next]_vars PROVE IInv'
    OBVIOUS
  <2>1. Inv'
    BY StepInv DEF IInv
  <2>. QED  BY <2>1, StepTypedRest, StepSynchronised DEF IInv
<1>. QED  BY <1>1, InitIInv, PTL DEF Spec

\* Every variable of the sender, the network and the receiver keeps its type.
THEOREM TypeCorrect == Spec => []TypeOK
<1>1. ASSUME IInv PROVE TypeOK
  <2>1. size \in Lengths /\ marked \subseteq 0..(Count(size) - 2)
    BY <1>1 DEF IInv, Inv, Typed, TypedRest
  <2>2. Count(size) \in 0..128
    BY <2>1, CountType
  <2>3. \A c \in 0..128 : 0..(c - 2) \subseteq 0..126
    OBVIOUS
  <2>4. marked \subseteq 0..126
    BY <2>1, <2>2, <2>3, Zenon
  <2>. QED  BY <1>1, <2>4 DEF IInv, Inv, Typed, TypedRest, TypeOK
<1>. QED  BY <1>1, Invariant, PTL

\* Client.java 330-403: whatever was lost, doubled, reordered or restarted before,
\* of two readable frames that come complete and in a row, and in which no frame id is
\* taken for a marker, the second is decoded.
THEOREM ReceiverResyncs == Spec => []ResyncAfterOneFrame
<1>1. IInv => ResyncAfterOneFrame
  BY DEF IInv, Synchronised
<1>. QED  BY <1>1, Invariant, PTL

-----------------------------------------------------------------------------
(* One fault.  As long as nothing happened the datagrams come as they were *)
(* sent.  A single fault then changes the stream at one place, and what it *)
(* makes there never looks like the next part while it is one of another   *)
(* frame; with one exception: the first datagram of a frame that overtakes *)
(* the second of the one before, which the receiver sees the gap before.   *)

\* What the receiver will be given if nothing more goes wrong: the datagrams on
\* their way and the one the sender is at.
Ahead == [i \in 1..(Len(net) + 1) |->
    IF i <= Len(net) THEN net[i] ELSE Datagram(next)]

\* How one datagram comes after another as sent: as the next part of its frame,
\* or as the first of another, a frame having more than one part.
Follows(p, q) ==
    \/ q.frame = p.frame /\ q.size = p.size /\ q.index = p.index + 1
    \/ p.index >= 1 /\ q.index = 0

\* How it must not come, for the receiver would not see it: with the next number,
\* but of another frame.
Torn(p, q) == q.index = p.index + 1 /\ q.frame # p.frame

\* Before the first fault: what is ahead comes in sequence, after what is in the
\* buffer; and no second part comes while the receiver waits for a first.
InSequence ==
    faults = 0 =>
        /\ \A i \in 1..Len(net) : Follows(Ahead[i], Ahead[i + 1])
        /\ ~ifDropFrame /\ buffer # <<>> =>
               \/ Ahead[1].frame = current /\ Ahead[1].index = oldSerial + 1
               \/ oldSerial >= 1 /\ Ahead[1].index = 0
        /\ Ahead[1].index >= 1 /\ Ahead[1].index < Count(Ahead[1].size) =>
               ifDropFrame \/ oldSerial # -1 \/ misread

\* Until a second fault: unless a gap was seen the buffer is of one frame, which
\* the next number continues.  A frame id taken for a marker can make the receiver
\* forget that it saw a gap, and with a fault that is too much.
OneFrame ==
    faults = 0 \/ ~misread =>
        /\ ~ifDropFrame => \A k \in DOMAIN buffer : buffer[k].frame = current
        /\ ~ifDropFrame /\ buffer # <<>> /\ Ahead[1].index = oldSerial + 1 => Ahead[1].frame = current

\* Until a second fault: a tear is behind the first part of a frame only, and the
\* receiver will have seen a gap before that part.
TornAtFirst ==
    \A i \in 1..Len(net) : Torn(Ahead[i], Ahead[i + 1]) =>
        /\ Ahead[i].index = 0
        /\ IF i = 1 THEN ifDropFrame \/ oldSerial # -1 \/ misread ELSE Ahead[i - 1].index = 0

Tolerant == InSequence /\ (faults <= 1 => OneFrame /\ TornAtFirst) /\ SingleFaultTolerated

-----------------------------------------------------------------------------
\* What is ahead are parts of frames, and the one the sender is at.
AheadTyped ==
    /\ Len(net) \in Nat /\ faults \in Nat /\ oldSerial \in Int
    /\ \A i \in 1..Len(net) : Ahead[i] = net[i] /\ net[i] \in Parts
    /\ Ahead[Len(net) + 1] = Datagram(next)
    /\ \A i \in 1..(Len(net) + 1) : Ahead[i].index \in Nat

LEMMA PartIndex == \A p \in Parts : p.index \in Nat /\ p.index < Count(p.size) /\ p \in Packet
BY DEF Parts, Packet

LEMMA AheadType == IInv => AheadTyped
<1>. SUFFICES ASSUME IInv PROVE AheadTyped
  OBVIOUS
<1>1. net \in Seq(Parts) /\ Len(net) \in Nat /\ oldSerial \in Int /\ faults \in Nat /\ next \in Nat
  BY BoundsAssumption DEF IInv, Inv, Typed, TypedRest
<1>2. \A i \in 1..Len(net) : Ahead[i] = net[i] /\ net[i] \in Parts
  BY <1>1 DEF Ahead
<1>3. Ahead[Len(net) + 1] = Datagram(next)
  BY <1>1 DEF Ahead
<1>4. ASSUME NEW i \in 1..(Len(net) + 1) PROVE Ahead[i].index \in Nat
  <2>1. CASE i \in 1..Len(net)
    BY <1>2, <2>1, PartIndex
  <2>2. CASE i = Len(net) + 1
    BY <1>1, <1>3, <2>2 DEF Datagram
  <2>. QED  BY <1>1, <2>1, <2>2
<1>. QED  BY <1>1, <1>2, <1>3, <1>4 DEF AheadTyped

LEMMA AheadTypeNext == IInv' => AheadTyped'
BY AheadType, PTL

\* A frame that is sent has at least two parts.
LEMMA TwoParts == ASSUME NEW len \in Lengths, Count(len) # 0 PROVE Count(len) >= 2
<1>1. len \in Nat /\ len > Chunk /\ Chunk \in Nat /\ Chunk > 2
  BY LengthsAssumption, ChunkAssumption
<1>. DEFINE q == len \div Chunk
            r == len % Chunk
<1>2. q \in Nat /\ r \in 0..(Chunk - 1) /\ len = q * Chunk + r
  BY <1>1
<1>3. Count(len) = q + 1
  BY DEF Count
<1>. HIDE DEF q, r
<1>4. q # 0
  <2>1. \A c \in Nat : 0 * c = 0
    OBVIOUS
  <2>. QED  BY <1>1, <1>2, <2>1
<1>. QED  BY <1>2, <1>3, <1>4

\* In a stream nothing happened to yet no neighbours are torn, nor are they when
\* one datagram between them is missing, or one is there twice.
LEMMA FollowsIsNotTorn ==
    ASSUME NEW p, NEW q, p.index \in Nat, q.index \in Nat, Follows(p, q)
    PROVE  ~Torn(p, q)
BY DEF Follows, Torn

LEMMA OneMissingIsNotTorn ==
    ASSUME NEW p, NEW q, NEW r, p.index \in Nat, q.index \in Nat, r.index \in Nat,
           Follows(p, q), Follows(q, r)
    PROVE  r.index # p.index + 1
BY DEF Follows

\* When two change places, the first of a frame can come before the second of
\* the frame before it.
LEMMA OvertakingIsTorn ==
    ASSUME NEW p, NEW q, p.index \in Nat, q.index \in Nat, Follows(p, q), Torn(q, p)
    PROVE  q.index = 0 /\ p.index = 1
BY DEF Follows, Torn

\* What is in a buffer without a gap has a place.
LEMMA SerialOfBuffer ==
    ASSUME IInv, ~ifDropFrame, buffer # <<>>
    PROVE  oldSerial >= 0
<1>1. buffer \in Seq(Packet) /\ oldSerial = buffer[1].index + Len(buffer) - 1
  BY DEF IInv, Inv, Typed, InStep
<1>2. Len(buffer) \in Nat /\ Len(buffer) >= 1 /\ buffer[1] \in Packet
  BY <1>1
<1>3. buffer[1].index \in 0..127
  BY <1>2, IndexType
<1>4. \A x \in 0..127, n \in Nat : n >= 1 => x + n - 1 >= 0
  OBVIOUS
<1>. QED  BY <1>1, <1>2, <1>3, <1>4

\* Where the receiver is, if the first datagram on its way is taken out.
LEMMA FirstMissing ==
    ASSUME IInv, InSequence, faults = 0, ~ifDropFrame, buffer # <<>>, 1 \in 1..Len(net)
    PROVE  Ahead[2].index # oldSerial + 1
<1>1. AheadTyped
  BY AheadType
<1>2. Ahead[1].index \in Nat /\ Ahead[2].index \in Nat /\ oldSerial \in Int
  BY <1>1 DEF AheadTyped
<1>3. oldSerial >= 0
  BY SerialOfBuffer
<1>4. Follows(Ahead[1], Ahead[2])
  BY DEF InSequence
<1>5. Ahead[1].index = oldSerial + 1 \/ (oldSerial >= 1 /\ Ahead[1].index = 0)
  BY DEF InSequence
<1>. QED  BY <1>2, <1>3, <1>4, <1>5 DEF Follows

-----------------------------------------------------------------------------
(* The sender. *)

LEMMA NextFrameTolerant ==
    ASSUME IInv, IInv', Tolerant, NEW len \in Lengths, NEW id1, NEW m, NextFrame(len, id1, m)
    PROVE  Tolerant'
<1>1. AheadTyped /\ AheadTyped'
  BY AheadType, AheadTypeNext
<1>2. /\ frame' = frame + 1 /\ size' = len /\ next' = 0
      /\ net' = net /\ faults' = faults /\ buffer' = buffer /\ oldSerial' = oldSerial
      /\ ifDropFrame' = ifDropFrame /\ shown' = shown /\ current' = current
      /\ misread' = misread /\ shownMisread' = shownMisread
  BY DEF NextFrame, receiver, history
<1>3. next = Count(size) /\ size \in Lengths
  <2>1. next \in 0..Count(size) /\ ~(next < Count(size)) /\ size \in Lengths
    BY DEF NextFrame, MoreToSend, IInv, Inv, Typed, TypedRest
  <2>2. PICK count \in 0..128 : count = Count(size)
    BY <2>1, CountType, Zenon
  <2>. QED  BY <2>1, <2>2
<1>. DEFINE n == Len(net) + 1
<1>4. /\ \A i \in 1..Len(net) : Ahead'[i] = Ahead[i]
      /\ Ahead'[n].index = 0 /\ Ahead[n].index = Count(size) /\ Ahead[n].size = size
      /\ n \in Nat /\ n >= 1
  BY <1>1, <1>2, <1>3 DEF AheadTyped, Datagram
<1>5. buffer # <<>> /\ ~ifDropFrame => oldSerial >= 0
  BY SerialOfBuffer
<1>6. Count(size) # 0 => Count(size) >= 2
  BY <1>3, TwoParts
<1>7. Count(size) \in Nat
  BY <1>3, CountType
<1>8. InSequence'
  <2>. SUFFICES ASSUME faults = 0
                PROVE  /\ \A i \in 1..Len(net) : Follows(Ahead'[i], Ahead'[i + 1])
                       /\ ~ifDropFrame /\ buffer # <<>> =>
                              \/ Ahead'[1].frame = current /\ Ahead'[1].index = oldSerial + 1
                              \/ oldSerial >= 1 /\ Ahead'[1].index = 0
                       /\ Ahead'[1].index >= 1 /\ Ahead'[1].index < Count(Ahead'[1].size) =>
                              ifDropFrame \/ oldSerial # -1 \/ misread
    BY <1>2 DEF InSequence
  <2>1. ASSUME NEW i \in 1..Len(net) PROVE Follows(Ahead'[i], Ahead'[i + 1])
    <3>1. Follows(Ahead[i], Ahead[i + 1])
      BY DEF Tolerant, InSequence
    <3>2. CASE i < Len(net)
      BY <1>1, <1>4, <3>1, <3>2 DEF AheadTyped
    <3>3. CASE i = Len(net)
      <4>1. Ahead[i] = net[i] /\ net[i] \in Parts
        BY <1>1 DEF AheadTyped
      <4>2. i + 1 = n
        BY <3>3
      <4>. DEFINE p == net[i]
      <4>3. p \in Parts /\ Ahead[i] = p /\ p.index \in Nat
        BY <4>1, PartIndex
      <4>. HIDE DEF p
      <4>4. p.index >= 1
        <5>1. CASE p.index >= 1
          BY <5>1
        <5>2. CASE Count(size) = p.index + 1 /\ size = p.size
          <6>1. IsLast(p)
            BY <1>7, <4>3, <5>2 DEF IsLast
          <6>2. p.index # 0
            BY <4>3, <6>1, FirstIsNotLast
          <6>. QED  BY <4>3, <6>2
        <5>. QED  BY <1>4, <3>1, <4>2, <4>3, <5>1, <5>2 DEF Follows
      <4>. QED  BY <1>4, <4>2, <4>3, <4>4 DEF Follows
    <3>. QED  BY <1>1, <3>2, <3>3 DEF AheadTyped
  <2>2. CASE Len(net) = 0
    <3>1. n = 1
      BY <2>2
    <3>2. ASSUME ~ifDropFrame, buffer # <<>> PROVE oldSerial >= 1
      <4>1. Ahead[1].index = oldSerial + 1 \/ oldSerial >= 1
        BY <3>2 DEF Tolerant, InSequence
      <4>. QED  BY <1>1, <1>4, <1>5, <1>6, <1>7, <3>1, <3>2, <4>1 DEF AheadTyped
    <3>. QED  BY <1>4, <2>1, <3>1, <3>2
  <2>3. CASE Len(net) # 0
    <3>1. Ahead'[1] = Ahead[1]
      BY <1>1, <1>4, <2>3 DEF AheadTyped
    <3>. QED  BY <2>1, <3>1 DEF Tolerant, InSequence
  <2>. QED  BY <2>2, <2>3
<1>9. ASSUME faults <= 1 PROVE OneFrame' /\ TornAtFirst'
  <2>1. OneFrame /\ TornAtFirst
    BY <1>9 DEF Tolerant
  <2>2. OneFrame'
    <3>1. CASE Len(net) = 0
      BY <1>1, <1>2, <1>4, <1>5, <2>1, <3>1 DEF OneFrame, AheadTyped
    <3>2. CASE Len(net) # 0
      <4>1. Ahead'[1] = Ahead[1]
        BY <1>1, <1>4, <3>2 DEF AheadTyped
      <4>. QED  BY <1>2, <2>1, <4>1 DEF OneFrame
    <3>. QED  BY <3>1, <3>2
  <2>3. ASSUME NEW i \in 1..Len(net), Torn(Ahead'[i], Ahead'[i + 1])
        PROVE  /\ Ahead'[i].index = 0
               /\ IF i = 1 THEN ifDropFrame \/ oldSerial # -1 \/ misread ELSE Ahead'[i - 1].index = 0
    <3>1. CASE i = Len(net)
      <4>1. Ahead'[i + 1].index = 0 /\ Ahead'[i].index \in Nat
        BY <1>1, <1>2, <1>4, <3>1 DEF AheadTyped
      <4>. QED  BY <2>3, <4>1 DEF Torn
    <3>2. CASE i < Len(net)
      <4>1. i \in 1..Len(net) /\ i + 1 \in 1..Len(net) /\ (i # 1 => i - 1 \in 1..Len(net))
        BY <1>1, <3>2 DEF AheadTyped
      <4>2. Ahead'[i] = Ahead[i] /\ Ahead'[i + 1] = Ahead[i + 1] /\ (i # 1 => Ahead'[i - 1] = Ahead[i - 1])
        BY <1>4, <4>1
      <4>. QED  BY <2>1, <2>3, <4>2 DEF TornAtFirst
    <3>. QED  BY <1>1, <3>1, <3>2 DEF AheadTyped
  <2>4. TornAtFirst'
    BY <1>2, <2>3 DEF TornAtFirst
  <2>. QED  BY <2>2, <2>4
<1>10. SingleFaultTolerated'
  BY <1>2 DEF Tolerant, SingleFaultTolerated, InPlace, IsWhole, OfOneFrame
<1>. QED  BY <1>2, <1>8, <1>9, <1>10 DEF Tolerant

LEMMA SendPacketTolerant ==
    ASSUME IInv, IInv', Tolerant, SendPacket
    PROVE  Tolerant'
<1>1. AheadTyped /\ AheadTyped'
  BY AheadType, AheadTypeNext
<1>2. /\ frame' = frame /\ size' = size /\ next' = next + 1
      /\ net' = Append(net, Datagram(next)) /\ marked' = marked /\ marker' = marker
      /\ faults' = faults /\ buffer' = buffer /\ oldSerial' = oldSerial
      /\ ifDropFrame' = ifDropFrame /\ shown' = shown /\ current' = current
      /\ misread' = misread /\ shownMisread' = shownMisread
  BY DEF SendPacket, receiver, history
<1>. DEFINE n == Len(net) + 1
<1>3. /\ n \in Nat /\ n >= 1 /\ Len(net') = n
      /\ \A i \in 1..Len(net) : net'[i] = net[i]
      /\ net'[n] = Datagram(next)
  <2>1. net \in Seq(Parts)
    BY DEF IInv, TypedRest
  <2>. QED  BY <1>2, <2>1
<1>4. /\ \A i \in 1..n : Ahead'[i] = Ahead[i]
      /\ Ahead[n] = Datagram(next)
      /\ Ahead'[n + 1] = Datagram(next + 1)
  <2>1. \A i \in 1..Len(net) : Ahead'[i] = Ahead[i]
    BY <1>1, <1>2, <1>3 DEF AheadTyped
  <2>2. Ahead[n] = Datagram(next) /\ Ahead'[n] = net'[n]
    BY <1>1, <1>3 DEF AheadTyped
  <2>3. Ahead'[n + 1] = Datagram(next + 1)
    BY <1>1, <1>2, <1>3 DEF AheadTyped, Datagram
  <2>. QED  BY <1>1, <1>3, <2>1, <2>2, <2>3 DEF AheadTyped
<1>5. Ahead'[1] = Ahead[1]
  BY <1>3, <1>4
<1>6. Follows(Ahead'[n], Ahead'[n + 1]) /\ ~Torn(Ahead'[n], Ahead'[n + 1])
  BY <1>3, <1>4 DEF Follows, Torn, Datagram
<1>7. InSequence'
  <2>1. ASSUME faults = 0, NEW i \in 1..n PROVE Follows(Ahead'[i], Ahead'[i + 1])
    <3>1. CASE i = n
      BY <1>6, <3>1
    <3>2. CASE i # n
      <4>1. i \in 1..Len(net) /\ i \in 1..n /\ i + 1 \in 1..n
        BY <1>1, <3>2 DEF AheadTyped
      <4>2. Ahead'[i] = Ahead[i] /\ Ahead'[i + 1] = Ahead[i + 1]
        BY <1>4, <4>1
      <4>. QED  BY <2>1, <4>1, <4>2 DEF Tolerant, InSequence
    <3>. QED  BY <3>1, <3>2
  <2>. HIDE DEF n
  <2>. QED  BY <1>2, <1>3, <1>5, <2>1 DEF Tolerant, InSequence
<1>8. ASSUME faults <= 1 PROVE OneFrame' /\ TornAtFirst'
  <2>1. OneFrame /\ TornAtFirst
    BY <1>8 DEF Tolerant
  <2>2. OneFrame'
    BY <1>2, <1>5, <2>1 DEF OneFrame
  <2>3. ASSUME NEW i \in 1..n, Torn(Ahead'[i], Ahead'[i + 1])
        PROVE  /\ Ahead'[i].index = 0
               /\ IF i = 1 THEN ifDropFrame \/ oldSerial # -1 \/ misread ELSE Ahead'[i - 1].index = 0
    <3>1. i # n
      BY <1>6, <2>3
    <3>2. i \in 1..Len(net) /\ i \in 1..n /\ i + 1 \in 1..n /\ (i # 1 => i - 1 \in 1..n)
      BY <1>1, <3>1 DEF AheadTyped
    <3>3. Ahead'[i] = Ahead[i] /\ Ahead'[i + 1] = Ahead[i + 1] /\ (i # 1 => Ahead'[i - 1] = Ahead[i - 1])
      BY <1>4, <3>2
    <3>. QED  BY <2>1, <2>3, <3>2, <3>3 DEF TornAtFirst
  <2>. HIDE DEF n
  <2>4. TornAtFirst'
    BY <1>2, <1>3, <2>3 DEF TornAtFirst
  <2>. QED  BY <2>2, <2>4
<1>9. SingleFaultTolerated'
  BY <1>2 DEF Tolerant, SingleFaultTolerated, InPlace, IsWhole, OfOneFrame
<1>. QED  BY <1>2, <1>7, <1>8, <1>9 DEF Tolerant

-----------------------------------------------------------------------------
(* The receiver. *)

\* A datagram that ends an image is the last of its frame, or is misread.
LEMMA EndIsLast ==
    ASSUME NEW p \in Parts, EndMarker(p) > 0, ~Misleads(p)
    PROVE  IsLast(p)
<1>1. CASE ~IsLast(p)
  <2>1. EndMarker(p) = -1
    BY <1>1, MiddleHasNoEnd DEF Misleads
  <2>. QED  BY <2>1
<1>. QED  BY <1>1

\* What is accepted continues the frame in the buffer.
LEMMA AcceptedIsNext ==
    ASSUME IInv, OneFrame, faults = 0 \/ ~misread, Receive, ~Drops(Head(net))
    PROVE  LET p == Head(net)
           IN  /\ p.index = oldSerial + 1 /\ ~ifDropFrame
               /\ \A k \in DOMAIN buffer : buffer[k].frame = p.frame
<1>. DEFINE p == Head(net)
<1>1. AheadTyped /\ p = Ahead[1] /\ p \in Parts
  <2>1. net \in Seq(Parts) /\ net # <<>>
    BY DEF IInv, TypedRest, Receive
  <2>. QED  BY <2>1, AheadType DEF AheadTyped
<1>2. p \in Packet
  BY <1>1, PartIndex
<1>. HIDE DEF p
<1>3. ~ifDropFrame /\ Serial(p) - oldSerial = 1 /\ Serial(p) = p.index
  BY <1>2, SerialIsIndex DEF Drops, p
<1>4. p.index \in Nat /\ oldSerial \in Int
  BY <1>1, PartIndex DEF AheadTyped
<1>5. p.index = oldSerial + 1
  BY <1>3, <1>4
<1>6. \A k \in DOMAIN buffer : buffer[k].frame = current
  BY <1>3 DEF OneFrame
<1>7. buffer # <<>> => p.frame = current
  BY <1>1, <1>3, <1>5 DEF OneFrame
<1>8. buffer = <<>> => DOMAIN buffer = {}
  OBVIOUS
<1>. QED  BY <1>3, <1>5, <1>6, <1>7, <1>8 DEF p

LEMMA ReceiveTolerant ==
    ASSUME IInv, IInv', Tolerant, Receive
    PROVE  Tolerant'
<1>. DEFINE p == Head(net)
<1>1. AheadTyped /\ AheadTyped'
  BY AheadType, AheadTypeNext
<1>2. /\ net \in Seq(Parts) /\ net # <<>> /\ net' = Tail(net)
      /\ frame' = frame /\ size' = size /\ next' = next /\ marked' = marked /\ marker' = marker
      /\ faults' = faults
      /\ (EndImage(p) \/ Collect(p)) /\ current' = p.frame
  BY DEF Receive, Note, sender, IInv, TypedRest
<1>3. /\ p \in Parts /\ p = net[1] /\ Len(net) >= 1 /\ Len(net') = Len(net) - 1 /\ Len(net) \in Nat
      /\ \A i \in 1..Len(net') : net'[i] = net[i + 1]
  BY <1>2
<1>4. ASSUME NEW i \in 1..(Len(net') + 1) PROVE Ahead'[i] = Ahead[i + 1]
  <2>1. CASE i \in 1..Len(net')
    <3>1. i + 1 \in 1..Len(net)
      BY <1>3, <2>1
    <3>. QED  BY <1>1, <1>3, <2>1, <3>1 DEF AheadTyped
  <2>2. CASE i = Len(net') + 1
    <3>1. i + 1 = Len(net) + 1
      BY <1>3, <2>2
    <3>. QED  BY <1>1, <1>2, <2>2, <3>1 DEF AheadTyped, Datagram
  <2>. QED  BY <1>3, <2>1, <2>2
<1>5. Ahead[1] = p /\ p.index \in Nat /\ p \in Packet /\ p.index < Count(p.size)
  BY <1>1, <1>3, PartIndex DEF AheadTyped
<1>6. Ahead'[1] = Ahead[2] /\ Ahead[2].index \in Nat
  BY <1>1, <1>3, <1>4 DEF AheadTyped
<1>7. Serial(p) = p.index
  BY <1>5, SerialIsIndex
<1>8. /\ Collect(p) => oldSerial' = p.index /\ ifDropFrame' = Drops(p) /\ shown' = shown
      /\ EndImage(p) => buffer' = <<>>
      /\ EndImage(p) => IsLast(p) \/ misread'
      /\ misread /\ ~misread' => buffer' = <<>> /\ p.index # 0
      /\ p.index = 0 => Collect(p) \/ misread'
      /\ ~misread /\ ~misread' => ~Misleads(p)
  <2>1. Collect(p) => oldSerial' = p.index /\ ifDropFrame' = Drops(p) /\ shown' = shown
    BY <1>7 DEF Collect
  <2>2. (EndImage(p) => EndMarker(p) > 0 /\ buffer' = <<>> /\ EndsImage(p)) /\ (Collect(p) => ~EndsImage(p))
    BY DEF EndImage, EndsImage, Collect
  <2>3. EndMarker(p) > 0 => IsLast(p) \/ Misleads(p)
    BY <1>3, EndIsLast
  <2>4. (p.index = 0 => ~IsLast(p)) /\ (IsLast(p) => ~Misleads(p))
    BY <1>3, FirstIsNotLast, LastIsPlain
  <2>5. misread' = (~(EndsImage(p) /\ IsLast(p)) /\ (misread \/ Misleads(p)))
    BY DEF Receive, Note
  <2>. HIDE DEF p
  <2>. QED  BY <1>2, <2>1, <2>2, <2>3, <2>4, <2>5, Zenon
<1>9. ASSUME ~Drops(p) PROVE ~ifDropFrame /\ p.index = oldSerial + 1
  <2>1. ~ifDropFrame /\ p.index - oldSerial = 1
    BY <1>7, <1>9 DEF Drops
  <2>. QED  BY <1>1, <1>5, <2>1 DEF AheadTyped
<1>. HIDE DEF p
<1>10. InSequence'
  <2>. SUFFICES ASSUME faults = 0
                PROVE  /\ \A i \in 1..Len(net') : Follows(Ahead'[i], Ahead'[i + 1])
                       /\ ~ifDropFrame' /\ buffer' # <<>> =>
                              \/ Ahead'[1].frame = current' /\ Ahead'[1].index = oldSerial' + 1
                              \/ oldSerial' >= 1 /\ Ahead'[1].index = 0
                       /\ Ahead'[1].index >= 1 /\ Ahead'[1].index < Count(Ahead'[1].size) =>
                              ifDropFrame' \/ oldSerial' # -1 \/ misread'
    BY <1>2 DEF InSequence
  <2>1. \A i \in 1..Len(net) : Follows(Ahead[i], Ahead[i + 1])
    BY DEF Tolerant, InSequence
  <2>2. Follows(p, Ahead[2])
    BY <1>3, <1>5, <2>1
  <2>3. ASSUME NEW i \in 1..Len(net') PROVE Follows(Ahead'[i], Ahead'[i + 1])
    <3>1. i + 1 \in 1..Len(net) /\ i \in 1..(Len(net') + 1) /\ i + 1 \in 1..(Len(net') + 1)
      BY <1>3
    <3>. QED  BY <1>4, <2>1, <3>1
  <2>4. ASSUME ~ifDropFrame', buffer' # <<>>
        PROVE  \/ Ahead'[1].frame = current' /\ Ahead'[1].index = oldSerial' + 1
               \/ oldSerial' >= 1 /\ Ahead'[1].index = 0
    <3>1. oldSerial' = p.index
      BY <1>2, <1>8, <2>4
    <3>. QED  BY <1>2, <1>6, <2>2, <3>1 DEF Follows
  <2>5. ASSUME Ahead'[1].index >= 1, Ahead'[1].index < Count(Ahead'[1].size)
        PROVE  ifDropFrame' \/ oldSerial' # -1 \/ misread'
    <3>1. CASE Collect(p)
      <4>1. p.index # -1
        BY <1>5
      <4>. QED  BY <1>8, <3>1, <4>1
    <3>2. CASE EndImage(p) /\ ~misread'
      <4>1. p.index = Count(p.size) - 1
        BY <1>8, <3>2 DEF IsLast
      <4>2. Ahead[2].size = p.size /\ Ahead[2].index = p.index + 1
        BY <1>6, <2>2, <2>5 DEF Follows
      <4>3. Count(p.size) \in Int
        <5>1. p.size \in Lengths
          BY <1>5 DEF Packet
        <5>. QED  BY <5>1, CountType
      <4>. QED  BY <1>5, <1>6, <2>5, <4>1, <4>2, <4>3
    <3>. QED  BY <1>2, <3>1, <3>2
  <2>. QED  BY <2>3, <2>4, <2>5
<1>11. ASSUME faults <= 1 PROVE OneFrame' /\ TornAtFirst'
  <2>1. OneFrame /\ TornAtFirst
    BY <1>11 DEF Tolerant
  <2>2. ASSUME faults = 0 \/ ~misread', ~ifDropFrame', buffer' # <<>>
        PROVE  /\ Collect(p) /\ ~Drops(p) /\ oldSerial' = p.index
               /\ ~ifDropFrame /\ p.index = oldSerial + 1
               /\ faults = 0 \/ ~misread
               /\ \A k \in DOMAIN buffer : buffer[k].frame = p.frame
    <3>1. Collect(p) /\ ~Drops(p) /\ oldSerial' = p.index
      BY <1>2, <1>8, <2>2
    <3>2. faults = 0 \/ ~misread
      BY <1>8, <2>2
    <3>3. \A k \in DOMAIN buffer : buffer[k].frame = p.frame
      BY <2>1, <3>1, <3>2, AcceptedIsNext DEF p
    <3>. QED  BY <1>9, <3>1, <3>2, <3>3
  <2>3. ASSUME faults = 0 \/ ~misread', ~ifDropFrame', NEW k \in DOMAIN buffer' PROVE buffer'[k].frame = current'
    <3>1. buffer' # <<>>
      BY <2>3
    <3>2. Collect(p) /\ \A j \in DOMAIN buffer : buffer[j].frame = p.frame
      BY <2>2, <2>3, <3>1
    <3>3. buffer' = buffer \/ buffer' = Append(buffer, p) \/ buffer' = <<p>>
      BY <3>2 DEF Collect
    <3>4. buffer \in Seq(Packet)
      BY DEF IInv, Inv, Typed
    <3>5. CASE buffer' = <<p>>
      <4>1. k = 1
        BY <2>3, <3>5
      <4>. QED  BY <1>2, <3>5, <4>1
    <3>6. CASE buffer' = buffer \/ buffer' = Append(buffer, p)
      BY <1>2, <1>5, <2>3, <3>2, <3>4, <3>6
    <3>. QED  BY <3>3, <3>5, <3>6
  <2>7. ASSUME faults = 0 \/ ~misread', ~ifDropFrame', buffer' # <<>>, Ahead'[1].index = oldSerial' + 1
        PROVE  Ahead'[1].frame = current'
    <3>1. /\ oldSerial' = p.index /\ ~ifDropFrame /\ p.index = oldSerial + 1
          /\ faults = 0 \/ ~misread
      BY <2>2, <2>7
    <3>2. p.index = 0 => oldSerial = -1
      BY <1>1, <3>1 DEF AheadTyped
    <3>3. ~Torn(Ahead[1], Ahead[2])
      <4>1. CASE faults = 0
        <5>1. Follows(Ahead[1], Ahead[2])
          BY <1>3, <4>1 DEF Tolerant, InSequence
        <5>. QED  BY <1>5, <1>6, <5>1, FollowsIsNotTorn
      <4>2. CASE ~misread
        BY <1>3, <1>5, <2>1, <3>1, <3>2, <4>2 DEF TornAtFirst
      <4>. QED  BY <3>1, <4>1, <4>2
    <3>. QED  BY <1>2, <1>5, <1>6, <2>7, <3>1, <3>3 DEF Torn
  <2>4. OneFrame'
    BY <1>2, <2>3, <2>7 DEF OneFrame
  <2>5. ASSUME NEW i \in 1..Len(net'), Torn(Ahead'[i], Ahead'[i + 1])
        PROVE  /\ Ahead'[i].index = 0
               /\ IF i = 1 THEN ifDropFrame' \/ oldSerial' # -1 \/ misread' ELSE Ahead'[i - 1].index = 0
    <3>1. /\ i + 1 \in 1..Len(net) /\ i + 1 # 1 /\ (i + 1) - 1 = i
          /\ i \in 1..(Len(net') + 1) /\ i + 1 \in 1..(Len(net') + 1)
          /\ (i # 1 => i - 1 \in 1..(Len(net') + 1) /\ (i - 1) + 1 = i)
      BY <1>3
    <3>2. /\ Ahead'[i] = Ahead[i + 1] /\ Ahead'[i + 1] = Ahead[(i + 1) + 1]
          /\ (i # 1 => Ahead'[i - 1] = Ahead[(i - 1) + 1])
      BY <1>4, <3>1
    <3>3. Ahead[i + 1].index = 0 /\ Ahead[i].index = 0
      BY <2>1, <2>5, <3>1, <3>2 DEF TornAtFirst
    <3>4. CASE i = 1
      <4>1. oldSerial' = 0 \/ misread'
        BY <1>5, <1>8, <3>3, <3>4
      <4>. QED  BY <3>2, <3>3, <3>4, <4>1
    <3>. QED  BY <3>1, <3>2, <3>3, <3>4
  <2>6. TornAtFirst'
    BY <2>5 DEF TornAtFirst
  <2>. QED  BY <2>4, <2>6
<1>12. SingleFaultTolerated'
  <2>1. shownMisread' = IF EndsImage(p) /\ ~Drops(p) THEN misread \/ Misleads(p) ELSE shownMisread
    BY DEF Receive, Note, p
  <2>2. CASE ~(EndImage(p) /\ ~Drops(p))
    <3>1. shown' = shown /\ shownMisread' = shownMisread
      BY <1>2, <2>1, <2>2 DEF EndImage, Collect
    <3>. QED  BY <1>2, <3>1 DEF Tolerant, SingleFaultTolerated, InPlace, IsWhole, OfOneFrame
  <2>3. CASE EndImage(p) /\ ~Drops(p)
    <3>. SUFFICES ASSUME faults <= 1, faults = 0 \/ ~shownMisread'
                  PROVE  OfOneFrame(shown') /\ (~shownMisread' => InPlace(shown') /\ IsLast(p))
                         /\ shown'[Len(shown')] = p
      <4>1. faults = 0 => faults <= 1
        OBVIOUS
      <4>. QED  BY <1>2, <4>1 DEF SingleFaultTolerated, InPlace, IsWhole, OfOneFrame
    <3>1. shown' = Append(buffer, p) /\ EndMarker(p) > 0 /\ (~shownMisread' => ~misread /\ ~Misleads(p))
      BY <2>1, <2>3 DEF EndImage, EndsImage
    <3>2. \A k \in DOMAIN buffer : buffer[k].frame = p.frame
      BY <2>3, <3>1, AcceptedIsNext DEF p, Tolerant
    <3>3. ~shownMisread' => InPlace(shown')
      BY <1>5, <2>3, <3>1, NextPlace DEF IInv
    <3>4. buffer \in Seq(Packet)
      BY DEF IInv, Inv, Typed
    <3>5. ~shownMisread' => IsLast(p)
      BY <1>3, <3>1, EndIsLast
    <3>6. /\ Len(shown') = Len(buffer) + 1 /\ shown'[Len(shown')] = p /\ 1 \in DOMAIN shown'
          /\ \A k \in DOMAIN shown' : shown'[k].frame = p.frame
      BY <1>5, <3>1, <3>2, <3>4
    <3>. QED  BY <3>3, <3>5, <3>6 DEF OfOneFrame
  <2>. QED  BY <2>2, <2>3
<1>. QED  BY <1>2, <1>10, <1>11, <1>12 DEF Tolerant

\* What is where when a datagram is lost or doubled.
LEMMA RemovedAt ==
    ASSUME NEW S, NEW s \in Seq(S), NEW k \in 1..Len(s), NEW i \in 1..(Len(s) - 1)
    PROVE  RemoveAt(s, k)[i] = IF i < k THEN s[i] ELSE s[i + 1]
<1>. DEFINE before == SubSeq(s, 1, k - 1)
            after == SubSeq(s, k + 1, Len(s))
<1>1. Len(s) \in Nat /\ k \in 1..Len(s) /\ i \in 1..(Len(s) - 1)
  OBVIOUS
<1>2. before \in Seq(S) /\ Len(before) = k - 1 /\ \A j \in 1..(k - 1) : before[j] = s[j]
  BY <1>1
<1>3. after \in Seq(S) /\ Len(after) = Len(s) - k /\ \A j \in 1..(Len(s) - k) : after[j] = s[k + j]
  BY <1>1
<1>. HIDE DEF before, after
<1>4. (before \o after)[i] = IF i <= k - 1 THEN before[i] ELSE after[i - (k - 1)]
  BY <1>1, <1>2, <1>3
<1>5. RemoveAt(s, k) = before \o after
  BY DEF RemoveAt, before, after
<1>6. CASE i < k
  <2>1. (before \o after)[i] = s[i]
    BY <1>1, <1>2, <1>4, <1>6
  <2>. QED  BY <1>5, <1>6, <2>1
<1>7. CASE ~(i < k)
  <2>1. i - (k - 1) \in 1..(Len(s) - k) /\ k + (i - (k - 1)) = i + 1 /\ ~(i <= k - 1)
    BY <1>1, <1>7
  <2>2. (before \o after)[i] = s[i + 1]
    BY <1>3, <1>4, <2>1
  <2>. QED  BY <1>5, <1>7, <2>2
<1>. QED  BY <1>6, <1>7

LEMMA InsertedAt ==
    ASSUME NEW S, NEW s \in Seq(S), NEW k \in 1..Len(s), NEW i \in 1..(Len(s) + 1)
    PROVE  InsertAt(s, k, s[k])[i] = IF i <= k THEN s[i] ELSE s[i - 1]
BY DEF InsertAt

-----------------------------------------------------------------------------
(* The network and the restart. *)

\* The first fault finds the stream as it was sent.
LEMMA FirstFault ==
    ASSUME IInv, IInv', Tolerant, Fault, UNCHANGED <<shown, shownMisread>>,
           faults = 0 => OneFrame' /\ TornAtFirst'
    PROVE  Tolerant'
<1>1. faults' = faults + 1 /\ faults \in Nat
  BY AheadType DEF Fault, AheadTyped
<1>2. InSequence'
  BY <1>1 DEF InSequence
<1>3. faults' <= 1 => OneFrame' /\ TornAtFirst'
  BY <1>1
<1>4. SingleFaultTolerated'
  BY <1>1 DEF Tolerant, SingleFaultTolerated, InPlace, IsWhole, OfOneFrame
<1>. QED  BY <1>2, <1>3, <1>4 DEF Tolerant

\* Until then the buffer is what the datagrams that came say, and stays so if the
\* first on its way is the one it was or is not accepted.
LEMMA OneFrameKept ==
    ASSUME Tolerant, faults = 0, UNCHANGED <<buffer, oldSerial, ifDropFrame, current, misread>>,
           Ahead'[1] = Ahead[1] \/ (~ifDropFrame /\ buffer # <<>> => Ahead'[1].index # oldSerial + 1)
    PROVE  OneFrame'
<1>1. OneFrame
  BY DEF Tolerant
<1>. QED  BY <1>1 DEF OneFrame

\* A datagram missing, doubled or overtaken.
LEMMA LoseTolerant ==
    ASSUME IInv, IInv', Tolerant, NEW k \in DOMAIN net, Lose(k)
    PROVE  Tolerant'
<1>1. AheadTyped /\ AheadTyped'
  BY AheadType, AheadTypeNext
<1>2. /\ net' = RemoveAt(net, k) /\ frame' = frame /\ size' = size /\ next' = next
      /\ buffer' = buffer /\ oldSerial' = oldSerial /\ ifDropFrame' = ifDropFrame
      /\ shown' = shown /\ current' = current /\ Fault
      /\ misread' = misread /\ shownMisread' = shownMisread /\ marked' = marked /\ marker' = marker
  BY DEF Lose, sender, receiver, history
<1>. SUFFICES ASSUME faults = 0 PROVE OneFrame' /\ TornAtFirst'
  BY <1>2, FirstFault
<1>3. Len(net) \in Nat /\ k \in 1..Len(net) /\ net \in Seq(Parts)
  BY <1>1 DEF AheadTyped, IInv, TypedRest
<1>4. /\ Len(net') = Len(net) - 1
      /\ \A i \in 1..Len(net') : net'[i] = IF i < k THEN net[i] ELSE net[i + 1]
  <2>1. Len(net') = Len(net) - 1
    BY <1>2, <1>3 DEF RemoveAt
  <2>. QED  BY <1>2, <1>3, <2>1, RemovedAt
<1>5. ASSUME NEW i \in 1..Len(net) PROVE Ahead'[i] = IF i < k THEN Ahead[i] ELSE Ahead[i + 1]
  <2>1. CASE i \in 1..Len(net')
    <3>1. i \in 1..Len(net) /\ i + 1 \in 1..Len(net)
      BY <1>3, <1>4, <2>1
    <3>2. Ahead'[i] = net'[i] /\ Ahead[i] = net[i] /\ Ahead[i + 1] = net[i + 1]
      BY <1>1, <2>1, <3>1 DEF AheadTyped
    <3>. QED  BY <1>4, <2>1, <3>2
  <2>2. CASE i = Len(net)
    <3>1. Len(net') + 1 = Len(net) /\ ~(i < k)
      BY <1>3, <1>4, <2>2
    <3>2. Ahead'[i] = Ahead[i + 1]
      BY <1>1, <1>2, <2>2, <3>1 DEF AheadTyped, Datagram
    <3>. QED  BY <3>1, <3>2
  <2>. QED  BY <1>3, <1>4, <2>1, <2>2
<1>6. \A i \in 1..Len(net) : Follows(Ahead[i], Ahead[i + 1])
  BY DEF Tolerant, InSequence
<1>7. \A i \in 1..(Len(net) + 1) : Ahead[i].index \in Nat
  BY <1>1 DEF AheadTyped
<1>8. OneFrame'
  <2>1. CASE k = 1
    <3>1. Ahead'[1] = Ahead[2]
      BY <1>3, <1>5, <2>1
    <3>2. ~ifDropFrame /\ buffer # <<>> => Ahead[2].index # oldSerial + 1
      BY <1>3, FirstMissing DEF Tolerant
    <3>. QED  BY <1>2, <3>1, <3>2, OneFrameKept
  <2>2. CASE k # 1
    <3>1. Ahead'[1] = Ahead[1]
      BY <1>3, <1>5, <2>2
    <3>. QED  BY <1>2, <3>1, OneFrameKept
  <2>. QED  BY <2>1, <2>2
<1>9. ASSUME NEW i \in 1..Len(net') PROVE ~Torn(Ahead'[i], Ahead'[i + 1])
  <2>1. /\ i \in 1..Len(net) /\ i + 1 \in 1..Len(net) /\ (i + 1) + 1 \in 1..(Len(net) + 1)
        /\ i \in 1..(Len(net) + 1) /\ i + 1 \in 1..(Len(net) + 1)
    BY <1>3, <1>4
  <2>2. /\ Ahead'[i] = IF i < k THEN Ahead[i] ELSE Ahead[i + 1]
        /\ Ahead'[i + 1] = IF i + 1 < k THEN Ahead[i + 1] ELSE Ahead[(i + 1) + 1]
    BY <1>5, <2>1
  <2>3. /\ Follows(Ahead[i], Ahead[i + 1]) /\ Follows(Ahead[i + 1], Ahead[(i + 1) + 1])
        /\ Ahead[i].index \in Nat /\ Ahead[i + 1].index \in Nat /\ Ahead[(i + 1) + 1].index \in Nat
    BY <1>6, <1>7, <2>1
  <2>4. /\ ~Torn(Ahead[i], Ahead[i + 1]) /\ ~Torn(Ahead[i + 1], Ahead[(i + 1) + 1])
        /\ ~Torn(Ahead[i], Ahead[(i + 1) + 1])
    BY <2>3, FollowsIsNotTorn, OneMissingIsNotTorn DEF Torn
  <2>5. i + 1 < k => i < k
    BY <1>3, <2>1
  <2>. QED  BY <2>2, <2>4, <2>5
<1>10. TornAtFirst'
  BY <1>9 DEF TornAtFirst
<1>. QED  BY <1>8, <1>10

LEMMA DuplicateTolerant ==
    ASSUME IInv, IInv', Tolerant, NEW k \in DOMAIN net, Duplicate(k)
    PROVE  Tolerant'
<1>1. AheadTyped /\ AheadTyped'
  BY AheadType, AheadTypeNext
<1>2. /\ net' = InsertAt(net, k, net[k]) /\ frame' = frame /\ size' = size /\ next' = next
      /\ buffer' = buffer /\ oldSerial' = oldSerial /\ ifDropFrame' = ifDropFrame
      /\ shown' = shown /\ current' = current /\ Fault
      /\ misread' = misread /\ shownMisread' = shownMisread /\ marked' = marked /\ marker' = marker
  BY DEF Duplicate, sender, receiver, history
<1>. SUFFICES ASSUME faults = 0 PROVE OneFrame' /\ TornAtFirst'
  BY <1>2, FirstFault
<1>3. Len(net) \in Nat /\ k \in 1..Len(net) /\ net \in Seq(Parts)
  BY <1>1 DEF AheadTyped, IInv, TypedRest
<1>4. /\ Len(net') = Len(net) + 1
      /\ \A i \in 1..Len(net') : net'[i] = IF i <= k THEN net[i] ELSE net[i - 1]
  <2>1. Len(net') = Len(net) + 1
    BY <1>2, <1>3 DEF InsertAt
  <2>. QED  BY <1>2, <1>3, <2>1, InsertedAt
<1>5. ASSUME NEW i \in 1..(Len(net) + 2) PROVE Ahead'[i] = IF i <= k THEN Ahead[i] ELSE Ahead[i - 1]
  <2>1. CASE i \in 1..Len(net')
    <3>1. (i <= k => i \in 1..Len(net)) /\ (~(i <= k) => i - 1 \in 1..Len(net))
      BY <1>3, <1>4, <2>1
    <3>2. Ahead'[i] = net'[i] /\ (i <= k => Ahead[i] = net[i]) /\ (~(i <= k) => Ahead[i - 1] = net[i - 1])
      BY <1>1, <2>1, <3>1 DEF AheadTyped
    <3>. QED  BY <1>4, <2>1, <3>2
  <2>2. CASE i = Len(net) + 2
    <3>1. Len(net') + 1 = Len(net) + 2 /\ ~(i <= k) /\ i - 1 = Len(net) + 1
      BY <1>3, <1>4, <2>2
    <3>2. Ahead'[i] = Ahead[i - 1]
      BY <1>1, <1>2, <2>2, <3>1 DEF AheadTyped, Datagram
    <3>. QED  BY <3>1, <3>2
  <2>3. i \in 1..Len(net') \/ i = Len(net) + 2
    <3>1. Len(net') = Len(net) + 1
      BY <1>4
    <3>. QED  BY <1>3, <3>1
  <2>. QED  BY <2>1, <2>2, <2>3
<1>6. \A i \in 1..Len(net) : Follows(Ahead[i], Ahead[i + 1])
  BY DEF Tolerant, InSequence
<1>7. \A i \in 1..(Len(net) + 1) : Ahead[i].index \in Nat
  BY <1>1 DEF AheadTyped
<1>8. OneFrame'
  <2>1. Ahead'[1] = Ahead[1]
    BY <1>3, <1>5
  <2>. QED  BY <1>2, <2>1, OneFrameKept
<1>9. ASSUME NEW i \in 1..Len(net') PROVE ~Torn(Ahead'[i], Ahead'[i + 1])
  <2>1. /\ i \in 1..(Len(net) + 2) /\ i + 1 \in 1..(Len(net) + 2) /\ (i + 1) - 1 = i
        /\ i \in 1..(Len(net) + 1)
    BY <1>3, <1>4
  <2>2. /\ Ahead'[i] = IF i <= k THEN Ahead[i] ELSE Ahead[i - 1]
        /\ Ahead'[i + 1] = IF i + 1 <= k THEN Ahead[i + 1] ELSE Ahead[i]
    BY <1>5, <2>1
  <2>3. CASE i + 1 <= k
    <3>1. i \in 1..Len(net) /\ i + 1 \in 1..(Len(net) + 1) /\ i <= k
      BY <1>3, <2>1, <2>3
    <3>2. ~Torn(Ahead[i], Ahead[i + 1])
      BY <1>6, <1>7, <2>1, <3>1, FollowsIsNotTorn
    <3>. QED  BY <2>2, <2>3, <3>1, <3>2
  <2>4. CASE i = k
    <3>1. Ahead'[i] = Ahead[i] /\ Ahead'[i + 1] = Ahead[i]
      BY <1>3, <2>2, <2>4
    <3>2. Ahead[i].index \in Nat
      BY <1>7, <2>1
    <3>. QED  BY <3>1, <3>2 DEF Torn
  <2>5. CASE i > k
    <3>1. i - 1 \in 1..Len(net) /\ i - 1 \in 1..(Len(net) + 1) /\ (i - 1) + 1 = i /\ ~(i <= k) /\ ~(i + 1 <= k)
      BY <1>3, <2>1, <2>5
    <3>2. Follows(Ahead[i - 1], Ahead[i])
      BY <1>6, <3>1
    <3>3. ~Torn(Ahead[i - 1], Ahead[i])
      BY <1>7, <2>1, <3>1, <3>2, FollowsIsNotTorn
    <3>. QED  BY <2>2, <3>1, <3>3
  <2>. QED  BY <1>3, <2>1, <2>3, <2>4, <2>5
<1>10. TornAtFirst'
  BY <1>9 DEF TornAtFirst
<1>. QED  BY <1>8, <1>10

LEMMA SwapTolerant ==
    ASSUME IInv, IInv', Tolerant, NEW k \in DOMAIN net, Swap(k)
    PROVE  Tolerant'
<1>1. AheadTyped /\ AheadTyped'
  BY AheadType, AheadTypeNext
<1>2. /\ net' = [net EXCEPT ![k] = net[k + 1], ![k + 1] = net[k]] /\ k < Len(net)
      /\ frame' = frame /\ size' = size /\ next' = next
      /\ buffer' = buffer /\ oldSerial' = oldSerial /\ ifDropFrame' = ifDropFrame
      /\ shown' = shown /\ current' = current /\ Fault
      /\ misread' = misread /\ shownMisread' = shownMisread /\ marked' = marked /\ marker' = marker
  BY DEF Swap, sender, receiver, history
<1>. SUFFICES ASSUME faults = 0 PROVE OneFrame' /\ TornAtFirst'
  BY <1>2, FirstFault
<1>3. Len(net) \in Nat /\ k \in 1..Len(net) /\ k + 1 \in 1..Len(net) /\ net \in Seq(Parts)
  BY <1>1, <1>2 DEF AheadTyped, IInv, TypedRest
<1>4. /\ Len(net') = Len(net) /\ net'[k] = net[k + 1] /\ net'[k + 1] = net[k]
      /\ \A i \in 1..Len(net) : i # k /\ i # k + 1 => net'[i] = net[i]
  BY <1>2, <1>3
<1>5. /\ Ahead'[k] = Ahead[k + 1] /\ Ahead'[k + 1] = Ahead[k]
      /\ \A i \in 1..(Len(net) + 1) : i # k /\ i # k + 1 => Ahead'[i] = Ahead[i]
  <2>1. Ahead'[k] = Ahead[k + 1] /\ Ahead'[k + 1] = Ahead[k]
    BY <1>1, <1>3, <1>4 DEF AheadTyped
  <2>2. ASSUME NEW i \in 1..(Len(net) + 1), i # k, i # k + 1 PROVE Ahead'[i] = Ahead[i]
    <3>1. CASE i \in 1..Len(net)
      BY <1>1, <1>4, <2>2, <3>1 DEF AheadTyped
    <3>2. CASE i = Len(net) + 1
      BY <1>1, <1>2, <1>4, <3>2 DEF AheadTyped, Datagram
    <3>. QED  BY <1>3, <3>1, <3>2
  <2>. QED  BY <2>1, <2>2
<1>6. \A i \in 1..Len(net) : Follows(Ahead[i], Ahead[i + 1])
  BY DEF Tolerant, InSequence
<1>7. \A i \in 1..(Len(net) + 1) : Ahead[i].index \in Nat
  BY <1>1 DEF AheadTyped
<1>8. OneFrame'
  <2>1. CASE k = 1
    <3>1. Ahead'[1] = Ahead[2]
      BY <1>5, <2>1
    <3>2. ~ifDropFrame /\ buffer # <<>> => Ahead[2].index # oldSerial + 1
      BY <1>3, FirstMissing DEF Tolerant
    <3>. QED  BY <1>2, <3>1, <3>2, OneFrameKept
  <2>2. CASE k # 1
    <3>1. Ahead'[1] = Ahead[1]
      BY <1>3, <1>5, <2>2
    <3>. QED  BY <1>2, <3>1, OneFrameKept
  <2>. QED  BY <2>1, <2>2
<1>9. ASSUME NEW i \in 1..Len(net), Torn(Ahead'[i], Ahead'[i + 1])
      PROVE  /\ Ahead'[i].index = 0
             /\ IF i = 1 THEN ifDropFrame \/ oldSerial # -1 \/ misread ELSE Ahead'[i - 1].index = 0
  <2>1. i \in 1..(Len(net) + 1) /\ i + 1 \in 1..(Len(net) + 1)
    BY <1>3
  <2>2. CASE i = k
    <3>1. Ahead'[i] = Ahead[k + 1] /\ Ahead'[i + 1] = Ahead[k]
      BY <1>5, <2>2
    <3>2. Follows(Ahead[k], Ahead[k + 1]) /\ Ahead[k].index \in Nat /\ Ahead[k + 1].index \in Nat
      BY <1>3, <1>6, <1>7, <2>1, <2>2
    <3>3. Ahead[k + 1].index = 0 /\ Ahead[k].index = 1
      BY <1>9, <3>1, <3>2, OvertakingIsTorn
    <3>4. CASE i = 1
      <4>1. Ahead[1].index = 1 /\ Ahead[1].index < Count(Ahead[1].size)
        <5>1. Ahead[1] = net[1] /\ net[1] \in Parts
          BY <1>1, <1>3, <2>2, <3>4 DEF AheadTyped
        <5>. QED  BY <2>2, <3>3, <3>4, <5>1, PartIndex
      <4>2. 1 >= 1
        OBVIOUS
      <4>3. ifDropFrame \/ oldSerial # -1 \/ misread
        BY <4>1, <4>2 DEF Tolerant, InSequence
      <4>. QED  BY <3>1, <3>3, <3>4, <4>3
    <3>5. CASE i # 1
      <4>1. i - 1 \in 1..Len(net) /\ i - 1 \in 1..(Len(net) + 1) /\ i - 1 # k /\ i - 1 # k + 1
            /\ (i - 1) + 1 = k
        BY <1>3, <2>2, <3>5
      <4>2. Ahead'[i - 1] = Ahead[i - 1] /\ Follows(Ahead[i - 1], Ahead[k])
        BY <1>5, <1>6, <4>1
      <4>3. Ahead[i - 1].index \in Nat
        BY <1>7, <4>1
      <4>4. Ahead[i - 1].index = 0
        BY <3>3, <4>2, <4>3 DEF Follows
      <4>. QED  BY <3>1, <3>3, <3>5, <4>2, <4>4
    <3>. QED  BY <3>4, <3>5
  <2>3. CASE i + 1 = k
    <3>1. i # k /\ i # k + 1 /\ Ahead'[i] = Ahead[i] /\ Ahead'[i + 1] = Ahead[k + 1]
      BY <1>3, <1>5, <2>1, <2>3
    <3>2. /\ Follows(Ahead[i], Ahead[k]) /\ Follows(Ahead[k], Ahead[k + 1])
          /\ Ahead[i].index \in Nat /\ Ahead[k].index \in Nat /\ Ahead[k + 1].index \in Nat
      <4>1. k \in 1..(Len(net) + 1) /\ k + 1 \in 1..(Len(net) + 1)
        BY <1>3
      <4>. QED  BY <1>3, <1>6, <1>7, <2>1, <2>3, <4>1
    <3>. QED  BY <1>9, <3>1, <3>2, OneMissingIsNotTorn DEF Torn
  <2>4. CASE i = k + 1
    <3>1. i + 1 # k /\ i + 1 # k + 1 /\ Ahead'[i] = Ahead[k] /\ Ahead'[i + 1] = Ahead[i + 1]
      BY <1>3, <1>5, <2>1, <2>4
    <3>2. /\ Follows(Ahead[k], Ahead[i]) /\ Follows(Ahead[i], Ahead[i + 1])
          /\ Ahead[k].index \in Nat /\ Ahead[i].index \in Nat /\ Ahead[i + 1].index \in Nat
      <4>1. k \in 1..(Len(net) + 1)
        BY <1>3
      <4>. QED  BY <1>3, <1>6, <1>7, <2>1, <2>4, <4>1
    <3>. QED  BY <1>9, <3>1, <3>2, OneMissingIsNotTorn DEF Torn
  <2>5. CASE i # k /\ i + 1 # k /\ i # k + 1
    <3>1. i + 1 # k + 1
      BY <1>3, <2>1, <2>5
    <3>2. Ahead'[i] = Ahead[i] /\ Ahead'[i + 1] = Ahead[i + 1]
      BY <1>5, <2>1, <2>5, <3>1
    <3>. QED  BY <1>6, <1>7, <1>9, <2>1, <3>2, FollowsIsNotTorn
  <2>. QED  BY <2>2, <2>3, <2>4, <2>5
<1>10. TornAtFirst'
  BY <1>2, <1>4, <1>9 DEF TornAtFirst
<1>. QED  BY <1>8, <1>10

\* A restart forgets the buffer, and nothing in it can be spoilt.
LEMMA RestartTolerant ==
    ASSUME IInv, IInv', Tolerant, Restart
    PROVE  Tolerant'
<1>1. AheadTyped
  BY AheadType
<1>2. /\ buffer' = <<>> /\ shown' = shown /\ shownMisread' = shownMisread /\ Fault
      /\ net' = net /\ frame' = frame /\ size' = size /\ next' = next /\ marked' = marked /\ marker' = marker
  BY DEF Restart, sender
<1>. SUFFICES ASSUME faults = 0 PROVE OneFrame' /\ TornAtFirst'
  BY <1>2, FirstFault
<1>3. Ahead' = Ahead
  BY <1>2 DEF Ahead, Datagram
<1>4. OneFrame'
  BY <1>2 DEF OneFrame
<1>5. ASSUME NEW i \in 1..Len(net) PROVE ~Torn(Ahead[i], Ahead[i + 1])
  <2>1. Follows(Ahead[i], Ahead[i + 1])
    BY DEF Tolerant, InSequence
  <2>2. i \in 1..(Len(net) + 1) /\ i + 1 \in 1..(Len(net) + 1)
    BY <1>1 DEF AheadTyped
  <2>. QED  BY <1>1, <2>1, <2>2, FollowsIsNotTorn DEF AheadTyped
<1>6. TornAtFirst'
  BY <1>2, <1>3, <1>5 DEF TornAtFirst
<1>. QED  BY <1>4, <1>6

LEMMA InitTolerant == Init => Tolerant
<1>. SUFFICES ASSUME Init PROVE Tolerant
  OBVIOUS
<1>1. /\ net = <<>> /\ faults = 0 /\ buffer = <<>> /\ shown = <<>> /\ size \in Lengths
      /\ frame = 0 /\ next = Count(size)
  BY DEF Init
<1>2. Len(net) = 0 /\ Ahead[1].index = next /\ Ahead[1].size = size
  BY <1>1 DEF Ahead, Datagram
<1>3. Ahead[1].index = Count(size) /\ Ahead[1].size = size /\ Count(size) \in Int
  <2>1. size \in Lengths /\ next = Count(size)
    BY <1>1
  <2>2. Count(size) \in Int
    BY <2>1, CountType
  <2>. QED  BY <1>2, <2>1, <2>2
<1>4. InSequence
  BY <1>1, <1>2, <1>3 DEF InSequence
<1>5. OneFrame /\ TornAtFirst /\ SingleFaultTolerated
  BY <1>1, <1>2 DEF OneFrame, TornAtFirst, SingleFaultTolerated
<1>. QED  BY <1>4, <1>5 DEF Tolerant

\* Client.java 293-421: one datagram lost, doubled or overtaken, or one restart, at
\* any time and with frames of any length, never spoils an image: what is decoded
\* before a second fault is one frame, complete, unless a frame id was taken for a
\* marker while it came; and without a fault it is of one frame even then.
THEOREM SingleFaults == Spec => []SingleFaultTolerated
<1>1. IInv /\ IInv' /\ Tolerant /\ [Next]_vars => Tolerant'
  <2>. SUFFICES ASSUME IInv, IInv', Tolerant, [Next]_vars PROVE Tolerant'
    OBVIOUS
  <2>1. CASE UNCHANGED vars
    <3>1. /\ Ahead' = Ahead /\ Len(net') = Len(net) /\ faults' = faults /\ shown' = shown
          /\ buffer' = buffer /\ oldSerial' = oldSerial /\ ifDropFrame' = ifDropFrame /\ current' = current
          /\ misread' = misread /\ shownMisread' = shownMisread
      BY <2>1 DEF vars, sender, receiver, history, Ahead, Datagram
    <3>2. InSequence' /\ SingleFaultTolerated'
      BY <3>1 DEF Tolerant, InSequence, SingleFaultTolerated, InPlace, IsWhole, OfOneFrame
    <3>3. faults' <= 1 => OneFrame' /\ TornAtFirst'
      BY <3>1 DEF Tolerant, OneFrame, TornAtFirst
    <3>. QED  BY <3>2, <3>3 DEF Tolerant
  <2>. QED
    BY <2>1, NextFrameTolerant, SendPacketTolerant, LoseTolerant, DuplicateTolerant, SwapTolerant,
       ReceiveTolerant, RestartTolerant DEF Next
<1>2. Tolerant => SingleFaultTolerated
  BY DEF Tolerant
<1>. QED  BY <1>1, <1>2, InitTolerant, Invariant, PTL DEF Spec

=============================================================================
