--------------------------- MODULE MCVideoStream ---------------------------
(* A small instance of VideoStream, with four bytes in a datagram.           *)
EXTENDS VideoStream

\* Frames of two and of three datagrams (7, 11), and the three lengths that trip
\* the receiver: a multiple of four, an end marker cut in two and an end marker
\* at the beginning of the last datagram.
MCLengths == {7, 11, 8, 5, 6}

\* One of the 253 frame ids that make no marker, and the two that do.
MCIds == {0, SOI, EOI}
=============================================================================
