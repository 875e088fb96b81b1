----------------------------- MODULE VideoStream -----------------------------
(***************************************************************************)
(* The video from the car to the controller: sendCameraFrameThread of      *)
(* Commissioner.java cuts every JPEG into datagrams of BUFFER_SIZE bytes   *)
(* and numbers them from 0; receiveCameraFrameRunnable of Client.java      *)
(* glues what arrives together until it meets the end marker of a JPEG and *)
(* shows the result unless the serial numbers had a gap.                   *)
(*                                                                         *)
(* Between them is UDP, which loses, duplicates and reorders.  Nothing is  *)
(* acknowledged, so the receiver has to find back into the stream alone.   *)
(*                                                                         *)
(* Of the bytes of a JPEG only its end marker matters, two bytes at the    *)
(* very end, and the last byte of a full datagram: the receiver searches   *)
(* all of a datagram for markers, and the frame id, which comes behind the *)
(* JPEG's bytes, makes one with it when that byte is 0xFF and the id is    *)
(* 0xD8 or 0xD9.                                                           *)
(***************************************************************************)
EXTENDS Integers, Sequences, SequencesExt

CONSTANTS
    Chunk,        \* Constants.BUFFER_SIZE: bytes of a JPEG in one datagram
    Lengths,      \* the lengths a JPEG can have
    Ids,          \* the frame ids that occur, frameIdentify of CVCameraWrapper.java
    MaxFrames,    \* bound: frames the sender sends
    MaxFaults,    \* bound: datagrams lost, duplicated or swapped, and restarts
    MaxInFlight   \* bound: datagrams on their way

\* sendTotalCount, 326-331: a length that is a multiple of Chunk gives none.
Count(len) == IF len % Chunk # 0 THEN len \div Chunk + 1 ELSE 0

\* A JPEG of the camera is longer than one datagram, and with its 360 x 240
\* pixels shorter than 128 of them.
ASSUME ChunkAssumption == Chunk \in Nat /\ Chunk > 2
ASSUME LengthsAssumption ==
    /\ Lengths \subseteq Nat /\ Lengths # {}
    /\ \A len \in Lengths : len > Chunk /\ Count(len) <= 128
\* CVCameraWrapper.java 848-855.
ASSUME IdsAssumption == Ids \subseteq 0..254 /\ Ids # {}
ASSUME BoundsAssumption == MaxFrames \in Nat /\ MaxFaults \in Nat /\ MaxInFlight \in Nat

VARIABLES
    frame,        \* the frame the sender is at, counted from 1
    size,         \* imageDataArray.length
    marked,       \* the parts whose last byte makes a marker with frameId
    marker,       \* which one, if there are such parts
    next,         \* i of the loop at 337: the next datagram of the frame
    net,          \* the datagrams on their way, oldest first
    faults,       \* what went wrong so far
    buffer,       \* buffer: the datagrams glued together so far
    oldSerial,    \* oldSerialNumber
    ifDropFrame,  \* ifDropFrame
    shown,        \* the datagrams of the image decoded last
    expected,     \* history: datagrams of the current frame that came in order
    current,      \* history: the frame of the datagram that came last
    intact,       \* history: frames that came complete and in a row, up to 2
    misread,      \* history: a frame id was taken for a marker since the last true end
    shownMisread  \* history: and so it was for the image decoded last

sender   == <<frame, size, marked, marker, next>>
receiver == <<buffer, oldSerial, ifDropFrame, shown>>
history  == <<expected, current, intact, misread, shownMisread>>
vars     == <<sender, net, faults, receiver, history>>

\* EOF_MARKER and SOI_MARKER begin with 0xFF and end with these.
EOI == 217
SOI == 216
Markers == {"none", "SOI", "EOI"}

\* A datagram: the frame it belongs to, the length of that frame, which part of the
\* frame it carries, and what its bytes 1023 and 1024 are when read as one.
Packet == [frame : 1..MaxFrames, size : Lengths, index : 0..127, mark : Markers]

\* 340-351: the datagram at place i of the frame the sender is at.
Datagram(i) ==
    [frame |-> frame, size |-> size, index |-> i,
     mark |-> IF i \in marked THEN marker ELSE "none"]

\* The sets of parts that can end in 0xFF, where the id makes that a marker.  Any
\* full datagram can, except that an end marker cut in two has its 0xFF there and
\* that none comes before an end marker; the last one is filled up with zeros.
MarkedParts(len, i) ==
    LET full == 0..(Count(len) - 2)
        last == Count(len) - 2
    IN  IF i \notin {SOI, EOI} THEN {{}}
        ELSE {m \in SUBSET full : /\ len % Chunk = 1 /\ last \in full => last \in m
                                  /\ len % Chunk = 2 => last \notin m}

\* Java's cast of the counter to a byte, and the receiver's back to an int.
Serial(p) == ((p.index + 128) % 256) - 128

\* ffd9, where getByteIndex finds an end marker: the true one when the datagram
\* holds both of its bytes, else the one made by the frame id, else -1.
EndMarker(p) ==
    LET at == p.size - 2 - p.index * Chunk
    IN  IF at >= 0 /\ at <= Chunk - 2 THEN at
        ELSE IF p.mark = "EOI" THEN Chunk - 1 ELSE -1

\* ffd8: a JPEG begins with its start marker, and so does its first datagram.
StartMarker(p) ==
    IF p.index = 0 THEN 0 ELSE IF p.mark = "SOI" THEN Chunk - 1 ELSE -1

IsLast(p) == p.index = Count(p.size) - 1

\* A frame the receiver can tell the end of: it is sent at all, and both bytes of
\* its end marker are in the last datagram and not at its beginning.
Readable(len) == len % Chunk > 2

-----------------------------------------------------------------------------
Init ==
    /\ frame = 0
    /\ size \in Lengths
    /\ marked = {} /\ marker = "none"
    /\ next = Count(size)
    /\ net = <<>>
    /\ faults = 0
    /\ buffer = <<>> /\ oldSerial = -1 /\ ifDropFrame = FALSE
    /\ shown = <<>>
    /\ expected = 0 /\ current = 0 /\ intact = 0
    /\ misread = FALSE /\ shownMisread = FALSE

(* The sender. *)

\* The condition of the loop at 337.
MoreToSend == next < Count(size)

\* 300-331: the loop comes to the next image.  Of its id i we keep what it makes of the
\* parts m that end in 0xFF.
NextFrame(len, i, m) ==
    /\ ~MoreToSend
    /\ frame < MaxFrames
    /\ frame' = frame + 1
    /\ size' = len
    /\ marked' = m
    /\ marker' = IF m = {} THEN "none" ELSE IF i = EOI THEN "EOI" ELSE "SOI"
    /\ next' = 0
    /\ UNCHANGED <<net, faults, receiver, history>>

\* 337-367: one datagram.  One that cannot be sent is logged and skipped (359),
\* which is the same as one lost on the way.
SendPacket ==
    /\ frame > 0
    /\ MoreToSend
    /\ Len(net) < MaxInFlight
    /\ net' = Append(net, Datagram(next))
    /\ next' = next + 1
    /\ UNCHANGED <<frame, size, marked, marker, faults, receiver, history>>

(* The network. *)

Fault == faults < MaxFaults /\ faults' = faults + 1

Lose(k) ==
    /\ Fault
    /\ net' = RemoveAt(net, k)
    /\ UNCHANGED <<sender, receiver, history>>

Duplicate(k) ==
    /\ Fault
    /\ Len(net) < MaxInFlight
    /\ net' = InsertAt(net, k, net[k])
    /\ UNCHANGED <<sender, receiver, history>>

Swap(k) ==
    /\ Fault
    /\ k < Len(net)
    /\ net' = [net EXCEPT ![k] = net[k + 1], ![k + 1] = net[k]]
    /\ UNCHANGED <<sender, receiver, history>>

(* The receiver. *)

\* 301-304: a gap before this datagram, or an earlier one of the same frame.
DropsIfAhead(p) == ifDropFrame \/ Serial(p) - oldSerial > 1
DropsOnThis(p) == Serial(p) - oldSerial # 1
Drops(p) == ifDropFrame \/ Serial(p) - oldSerial # 1

\* 330-403: the datagram ends an image.  The image is decoded unless a gap was
\* seen, and the receiver starts over for the next one.
EndsImage(p) == EndMarker(p) > 0 /\ buffer # <<>>
KeepSerial(p) ==
    /\ EndsImage(p)
    /\ shown' = IF Drops(p) THEN shown ELSE Append(buffer, p)
    /\ buffer' = <<>>
    /\ oldSerial' = Serial(p)
    /\ ifDropFrame' = FALSE
EndImage(p) ==
    /\ EndsImage(p)
    /\ shown' = IF Drops(p) THEN shown ELSE Append(buffer, p)
    /\ buffer' = <<>>
    /\ oldSerial' = -1
    /\ ifDropFrame' = FALSE

\* 405-421: it does not.  A start marker anywhere but at byte 0 begins a new image:
\* what was kept is thrown away, and of this datagram only that 0xFF is kept.  A
\* datagram with an end marker is not kept, but one whose marker is at the very
\* beginning is taken for the middle of an image.
StartsOver(p) == StartMarker(p) > 0 /\ EndMarker(p) < StartMarker(p)
Collect(p) ==
    /\ ~EndsImage(p)
    /\ buffer' = IF StartsOver(p) THEN <<p>>
                 ELSE IF EndMarker(p) > 0 THEN buffer ELSE Append(buffer, p)
    /\ oldSerial' = Serial(p)
    /\ ifDropFrame' = Drops(p)
    /\ UNCHANGED shown

\* The history of a delivery: what came in the order it was sent and was not
\* misread, and whether what the receiver is putting together was.
Misleads(p) == p.mark = "EOI" \/ StartsOver(p)
InOrder(p) == ~Misleads(p) /\ p.index = expected /\ (expected = 0 \/ p.frame = current)
Note(p) ==
    /\ current' = p.frame
    /\ expected' = IF InOrder(p) /\ IsLast(p) THEN 0
                   ELSE IF InOrder(p) \/ (p.index = 0 /\ ~Misleads(p)) THEN p.index + 1 ELSE 0
    /\ intact' = IF ~InOrder(p) THEN 0
                 ELSE IF ~IsLast(p) THEN intact
                 ELSE IF ~Readable(p.size) THEN 0
                 ELSE IF intact = 2 THEN 2 ELSE intact + 1
    /\ misread' = (~(EndsImage(p) /\ IsLast(p)) /\ (misread \/ Misleads(p)))
    /\ shownMisread' = IF EndsImage(p) /\ ~Drops(p) THEN misread \/ Misleads(p) ELSE shownMisread

\* 293-436: one turn of the receive loop.
Receive ==
    /\ net # <<>>
    /\ EndImage(Head(net)) \/ Collect(Head(net))
    /\ Note(Head(net))
    /\ net' = Tail(net)
    /\ UNCHANGED <<sender, faults>>

\* setStartStream(false) and setStartStream(true), 131-153 and 281-289: a new
\* thread starts with an empty buffer, wherever the sender is.
Restart ==
    /\ Fault
    /\ buffer' = <<>> /\ oldSerial' = -1 /\ ifDropFrame' = FALSE
    /\ expected' = 0 /\ intact' = 0 /\ misread' = FALSE
    /\ UNCHANGED <<sender, net, shown, current, shownMisread>>

Next ==
    \/ \E len \in Lengths, i \in Ids : \E m \in MarkedParts(len, i) : NextFrame(len, i, m)
    \/ SendPacket
    \/ \E k \in DOMAIN net : Lose(k) \/ Duplicate(k) \/ Swap(k)
    \/ Receive
    \/ Restart

Spec == Init /\ [][Next]_vars

-----------------------------------------------------------------------------
(* Type invariant. *)
TypeOK ==
    /\ frame \in 0..MaxFrames
    /\ size \in Lengths
    /\ marked \subseteq 0..126
    /\ marker \in Markers
    /\ next \in 0..Count(size)
    /\ net \in Seq(Packet)
    /\ faults \in 0..MaxFaults
    /\ buffer \in Seq(Packet)
    /\ oldSerial \in -1..127
    /\ ifDropFrame \in BOOLEAN
    /\ shown \in Seq(Packet)
    /\ expected \in 0..127
    /\ current \in 0..MaxFrames
    /\ intact \in 0..2
    /\ misread \in BOOLEAN
    /\ shownMisread \in BOOLEAN

\* Whatever is lost, duplicated, reordered or restarted, the parts of an image that
\* is decoded follow each other without a gap, and begin with the first unless a
\* frame id was taken for a marker while they came (the test of the serial numbers,
\* Client.java 301-304).
InARow(image) == \A k \in DOMAIN image : image[k].index = image[1].index + k - 1
InPlace(image) == \A k \in DOMAIN image : image[k].index = k - 1
ShownInPlace == InARow(shown) /\ (~shownMisread => InPlace(shown))

\* One fault never spoils an image: until a second one happened, what is decoded is
\* one frame, complete, unless a frame id was taken for a marker; and without any
\* fault it is of one frame even then.  (With two faults it can be the beginning of
\* a frame and the end of another, because the frame id in byte 1024 is not
\* compared, Client.java 423.)
OfOneFrame(image) == \A k \in DOMAIN image : image[k].frame = image[1].frame
IsWhole(image) == OfOneFrame(image) /\ IsLast(image[Len(image)])
SingleFaultTolerated ==
    shown # <<>> =>
        /\ faults = 0 => OfOneFrame(shown)
        /\ faults <= 1 /\ ~shownMisread => InPlace(shown) /\ IsWhole(shown)

\* The receiver finds back: when two readable frames come complete and in a row and
\* no frame id is taken for a marker in them, the second is decoded, whatever the
\* stream and the buffer were before (Client.java 330-403).
ResyncAfterOneFrame ==
    intact = 2 /\ expected = 0 =>
        shown # <<>> /\ InPlace(shown) /\ IsWhole(shown) /\ shown[1].frame = current

=============================================================================
