------------------------------ MODULE UVCStream ------------------------------
(***************************************************************************)
(* One stream of libuvc (stream.c), from uvc_start_streaming_bandwidth to  *)
(* the end of uvc_stop_streaming, and the three threads that share its     *)
(* handle:                                                                 *)
(*                                                                         *)
(*   owner   the thread that starts, stops and frees the stream: the       *)
(*           preview thread of UVCPreview                                  *)
(*   events  libusb's event thread, which calls _uvc_stream_callback with  *)
(*           each transfer that comes back                                 *)
(*   caller  _uvc_user_caller, which hands the pictures to UVCPreview      *)
(*                                                                         *)
(* cb_mutex is never held from one step to the next: what is done under it *)
(* is one step.  running is read and written without it, and so is         *)
(* hold_bfh_err at one place.  The camera sends Packets packets for each   *)
(* picture, the last with EOF, and the frame id is the picture's parity.   *)
(* A transfer brings at most one packet.  Of a buffer we keep the first    *)
(* and the last picture that has data in it: none while got_bytes is 0.    *)
(***************************************************************************)
EXTENDS Integers

CONSTANTS
    Transfers,  \* the LIBUVC_NUM_TRANSFER_BUFS transfers
    Packets,    \* how many packets the camera sends for a picture
    MaxFrames,  \* bound: the pictures the camera takes
    MaxBad,     \* bound: the packets that come damaged
    MaxLost     \* bound: the packets that are lost without one

ASSUME PacketsAssumption == Packets \in Nat \ {0}
ASSUME LimitAssumption == MaxFrames \in Nat /\ MaxBad \in Nat /\ MaxLost \in Nat

VARIABLES
    owner,          \* how far the start and the stop have come
    strmh,          \* the handle: "open" or "freed"
    running,        \* running
    transfers,      \* transfers: where each one is
    outbuf,         \* outbuf
    bfh_err,        \* bfh_err
    fid,            \* fid
    seq,            \* seq
    holdbuf,        \* holdbuf
    hold_bfh_err,   \* hold_bfh_err
    hold_seq,       \* hold_seq
    events,         \* the event thread's place
    transfer,       \* the transfers it is called back with: one or none
    caller,         \* the caller's place
    last_seq,       \* last_seq of _uvc_user_caller
    frame,          \* frame
    sent,           \* the picture the camera sends
    packet,         \* the last packet of it that was sent
    plugged,        \* the camera is plugged in
    bad, lost,      \* the packets that came damaged, or not at all
    given,          \* history: the newest picture the user's callback was called with
    refused         \* history: libusb refused a transfer at the start

own  == <<owner, strmh, refused>>
work == <<outbuf, bfh_err, fid, seq>>
hold == <<holdbuf, hold_bfh_err, hold_seq>>
evt  == <<events, transfer>>
user == <<caller, last_seq, frame, given>>
cam  == <<sent, packet, plugged, bad, lost>>
vars == <<own, running, transfers, work, hold, evt, user, cam>>

\* A buffer without data, and one with the data of the packet that was sent appended.
NoData == [first |-> 0, last |-> 0]
Appended(b) == [first |-> IF b.last = 0 THEN sent ELSE b.first, last |-> sent]

\* pthread_cond_broadcast(&cb_cond), on which the owner and the caller wait.
WakeOwner  == owner' = IF owner = "wait" THEN "woken" ELSE owner
WakeCaller == caller' = IF caller = "waiting" THEN "check" ELSE caller

Init ==
    /\ owner = "open" /\ strmh = "open" /\ refused = FALSE
    /\ running = FALSE
    /\ transfers = [t \in Transfers |-> "null"]
    /\ outbuf = NoData /\ bfh_err = FALSE /\ fid = 0 /\ seq = 0
    /\ holdbuf = NoData /\ hold_bfh_err = FALSE /\ hold_seq = 0
    /\ events = "poll" /\ transfer = {}
    /\ caller = "none" /\ last_seq = 0 /\ frame = NoData /\ given = 0
    /\ sent = 0 /\ packet = Packets /\ plugged = TRUE /\ bad = 0 /\ lost = 0

-----------------------------------------------------------------------------
(* The camera. *)

\* The next packet goes out: of the same picture, or the first of the next.
Send ==
    /\ packet < Packets \/ sent < MaxFrames
    /\ IF packet < Packets
       THEN packet' = packet + 1 /\ UNCHANGED sent
       ELSE packet' = 1 /\ sent' = sent + 1
    /\ UNCHANGED plugged

Unplug ==
    /\ plugged /\ plugged' = FALSE
    /\ UNCHANGED <<own, running, transfers, work, hold, evt, user, sent, packet, bad, lost>>

(* The event thread: a transfer comes back, and _uvc_stream_callback is called. *)

CallBack(t, place) ==
    /\ strmh = "open" /\ events = "poll"
    /\ transfers' = [transfers EXCEPT ![t] = "called"]
    /\ transfer' = {t} /\ events' = place

\* It brings a packet.
Arrive(t) ==
    /\ transfers[t] = "flying"
    /\ CallBack(t, "header")
    /\ Send /\ UNCHANGED <<bad, lost>>
    /\ UNCHANGED <<own, running, work, hold, user>>

\* It brings a packet whose status is bad.
ArriveBad(t) ==
    /\ transfers[t] = "flying" /\ bad < MaxBad
    /\ CallBack(t, "resubmit")
    /\ bfh_err' = TRUE
    /\ Send /\ bad' = bad + 1 /\ UNCHANGED lost
    /\ UNCHANGED <<own, running, outbuf, fid, seq, hold, user>>

\* It brings nothing: the packet was missed, timed out, or has the header's error bit
\* set, for which the picture is not marked.
ArriveLost(t) ==
    /\ transfers[t] = "flying" /\ lost < MaxLost
    /\ CallBack(t, "resubmit")
    /\ Send /\ lost' = lost + 1 /\ UNCHANGED bad
    /\ UNCHANGED <<own, running, work, hold, user>>

\* It brings nothing, and there was nothing to bring.
ArriveEmpty(t) ==
    /\ transfers[t] = "flying"
    /\ CallBack(t, "resubmit")
    /\ UNCHANGED <<own, running, work, hold, user, cam>>

\* It comes back with an error, or cancelled.
ComeBack(t) ==
    /\ transfers[t] \in {"flying", "cancelled"}
    /\ CallBack(t, "delete")
    /\ UNCHANGED <<own, running, work, hold, user, cam>>

\* LIBUSB_TRANSFER_NO_DEVICE ends the stream.
NoDevice(t) ==
    /\ transfers[t] \in {"flying", "cancelled"} /\ ~plugged
    /\ CallBack(t, "delete")
    /\ running' = FALSE
    /\ UNCHANGED <<own, work, hold, user, cam>>

\* _uvc_swap_buffers: the working buffer, now b, becomes the presented one.
SwapBuffers(b) ==
    /\ holdbuf' = b /\ hold_bfh_err' = bfh_err /\ hold_seq' = seq
    /\ outbuf' = NoData /\ bfh_err' = FALSE /\ seq' = seq + 1
    /\ WakeOwner /\ WakeCaller

\* A packet's frame id tells a new picture from the one in the working buffer.
HeaderIgnoresFid ==
    /\ strmh = "open" /\ events = "header"
    /\ events' = "data" /\ fid' = sent % 2
    /\ UNCHANGED <<own, running, transfers, outbuf, bfh_err, seq, hold, transfer, user, cam>>
HeaderUnmasked ==
    /\ strmh = "open" /\ events = "header"
    /\ events' = "data" /\ fid' = sent
    /\ UNCHANGED <<own, running, transfers, outbuf, bfh_err, seq, hold, transfer, user, cam>>
Header ==
    /\ strmh = "open" /\ events = "header"
    /\ events' = "data" /\ fid' = sent % 2
    /\ IF fid # sent % 2 /\ outbuf # NoData
       THEN SwapBuffers(outbuf)
       ELSE UNCHANGED <<outbuf, bfh_err, seq, hold, owner, caller>>
    /\ UNCHANGED <<strmh, refused, running, transfers, transfer, last_seq, frame, given, cam>>

\* Its data is appended, and EOF presents the picture.
Data ==
    /\ strmh = "open" /\ events = "data"
    /\ events' = "resubmit"
    /\ IF packet = Packets
       THEN SwapBuffers(Appended(outbuf))
       ELSE /\ outbuf' = Appended(outbuf)
            /\ UNCHANGED <<bfh_err, seq, hold, owner, caller>>
    /\ UNCHANGED <<strmh, refused, running, transfers, fid, transfer, last_seq, frame, given, cam>>

\* A bogus packet, shorter than its header: it has no data, and the picture is marked.
Bogus ==
    /\ strmh = "open" /\ events = "data" /\ bad < MaxBad
    /\ events' = "resubmit" /\ bfh_err' = TRUE /\ bad' = bad + 1
    /\ UNCHANGED <<own, running, transfers, outbuf, fid, seq, hold, transfer, user, sent, packet,
                   plugged, lost>>

\* While the stream runs the transfer is submitted again, whatever that returns.
Decide ==
    /\ strmh = "open" /\ events = "resubmit"
    /\ events' = IF running THEN "submit" ELSE "delete"
    /\ UNCHANGED <<own, running, transfers, work, hold, transfer, user, cam>>

\* libusb may refuse it, and does when there is no camera.
Resubmit ==
    /\ strmh = "open" /\ events = "submit"
    /\ events' = "poll" /\ transfer' = {}
    /\ \E place \in {"flying", "stuck"} :
        /\ place = "flying" => plugged
        /\ transfers' = [t \in Transfers |-> IF t \in transfer THEN place ELSE transfers[t]]
    /\ UNCHANGED <<own, running, work, hold, user, cam>>

\* _uvc_delete_transfer.
DeleteSilently ==
    /\ strmh = "open" /\ events = "delete"
    /\ events' = "poll" /\ transfer' = {}
    /\ transfers' = [t \in Transfers |-> IF t \in transfer THEN "null" ELSE transfers[t]]
    /\ UNCHANGED <<own, running, work, hold, user, cam>>
DeleteTransfer ==
    /\ strmh = "open" /\ events = "delete"
    /\ events' = "poll" /\ transfer' = {}
    /\ transfers' = [t \in Transfers |-> IF t \in transfer THEN "null" ELSE transfers[t]]
    /\ WakeOwner /\ WakeCaller
    /\ UNCHANGED <<strmh, refused, running, work, hold, last_seq, frame, given, cam>>

(* The caller: _uvc_user_caller. *)

WaitForFrame ==
    /\ strmh = "open" /\ caller = "check"
    /\ running /\ last_seq = hold_seq
    /\ caller' = "waiting"
    /\ UNCHANGED <<own, running, transfers, work, hold, evt, last_seq, frame, given, cam>>

\* _uvc_populate_frame copies the presented picture, unless it is marked.
PopulateForgetsSeq ==
    /\ strmh = "open" /\ caller = "check"
    /\ running /\ last_seq # hold_seq
    /\ caller' = "unlocked" /\ last_seq' = last_seq
    /\ frame' = IF hold_bfh_err THEN frame ELSE holdbuf
    /\ UNCHANGED <<own, running, transfers, work, hold, evt, given, cam>>
PopulateFrame ==
    /\ strmh = "open" /\ caller = "check"
    /\ running /\ last_seq # hold_seq
    /\ caller' = "unlocked" /\ last_seq' = hold_seq
    /\ frame' = IF hold_bfh_err THEN frame ELSE holdbuf
    /\ UNCHANGED <<own, running, transfers, work, hold, evt, given, cam>>

\* hold_bfh_err is read again, after the unlock.
CallUser ==
    /\ strmh = "open" /\ caller = "unlocked"
    /\ caller' = "check"
    /\ given' = IF hold_bfh_err \/ frame = NoData THEN given ELSE frame.last
    /\ UNCHANGED <<own, running, transfers, work, hold, evt, last_seq, frame, cam>>

CallerEnds ==
    /\ strmh = "open" /\ caller = "check" /\ ~running
    /\ caller' = "done"
    /\ UNCHANGED <<own, running, transfers, work, hold, evt, last_seq, frame, given, cam>>

-----------------------------------------------------------------------------
(* The owner: uvc_start_streaming_bandwidth and uvc_stop_streaming. *)

\* uvc_stream_start_bandwidth finds no usable setting.
StartFails ==
    /\ owner = "open"
    /\ owner' = "free"
    /\ UNCHANGED <<strmh, refused, running, transfers, work, hold, evt, user, cam>>

\* The transfers are allocated and the caller is created.
Start ==
    /\ owner = "open"
    /\ owner' = "submit" /\ running' = TRUE
    /\ transfers' = [t \in Transfers |-> "new"] /\ caller' = "check"
    /\ UNCHANGED <<strmh, refused, work, hold, evt, last_seq, frame, given, cam>>

Submit(t) ==
    /\ owner = "submit" /\ transfers[t] = "new" /\ plugged
    /\ transfers' = [transfers EXCEPT ![t] = "flying"]
    /\ UNCHANGED <<own, running, work, hold, evt, user, cam>>

\* libusb refuses one: the start gives up.
SubmitFails ==
    /\ owner = "submit" /\ \E t \in Transfers : transfers[t] = "new"
    /\ owner' = "free" /\ refused' = TRUE /\ running' = FALSE
    /\ UNCHANGED <<strmh, transfers, work, hold, evt, user, cam>>

Started ==
    /\ owner = "submit" /\ \A t \in Transfers : transfers[t] # "new"
    /\ owner' = "started"
    /\ UNCHANGED <<strmh, refused, running, transfers, work, hold, evt, user, cam>>

\* uvc_stream_close stops a stream that runs.
Close ==
    /\ owner = "started"
    /\ owner' = IF running THEN "stop" ELSE "free"
    /\ UNCHANGED <<strmh, refused, running, transfers, work, hold, evt, user, cam>>

\* uvc_stream_stop.
Stop ==
    /\ owner = "stop"
    /\ owner' = IF running THEN "cancel" ELSE "free"
    /\ running' = FALSE
    /\ UNCHANGED <<strmh, refused, transfers, work, hold, evt, user, cam>>

CancelTransfers ==
    /\ owner = "cancel"
    /\ owner' = "woken"
    /\ transfers' = [t \in Transfers |->
                        IF transfers[t] = "flying" THEN "cancelled" ELSE transfers[t]]
    /\ UNCHANGED <<strmh, refused, running, work, hold, evt, user, cam>>

\* It waits until there is no transfer, and wakes the caller.
WaitTransfersNot ==
    /\ owner = "woken"
    /\ owner' = "join" /\ WakeCaller
    /\ UNCHANGED <<strmh, refused, running, transfers, work, hold, evt, last_seq, frame,
                   given, cam>>
WaitTransfers ==
    /\ owner = "woken"
    /\ IF \A t \in Transfers : transfers[t] = "null"
       THEN owner' = "join" /\ WakeCaller
       ELSE owner' = "wait" /\ UNCHANGED caller
    /\ UNCHANGED <<strmh, refused, running, transfers, work, hold, evt, last_seq, frame,
                   given, cam>>

JoinCaller ==
    /\ owner = "join" /\ caller = "done"
    /\ owner' = "free"
    /\ UNCHANGED <<strmh, refused, running, transfers, work, hold, evt, user, cam>>

\* The rest of uvc_stream_close.
Free ==
    /\ owner = "free"
    /\ owner' = "gone" /\ strmh' = "freed"
    /\ UNCHANGED <<refused, running, transfers, work, hold, evt, user, cam>>

-----------------------------------------------------------------------------
Reap ==
    \E t \in Transfers :
        \/ Arrive(t) \/ ArriveBad(t) \/ ArriveLost(t) \/ ArriveEmpty(t)
        \/ ComeBack(t) \/ NoDevice(t)
Events == Reap \/ Header \/ Data \/ Bogus \/ Decide \/ Resubmit \/ DeleteTransfer
Caller == WaitForFrame \/ PopulateFrame \/ CallUser \/ CallerEnds
Opening == StartFails \/ Start \/ (\E t \in Transfers : Submit(t)) \/ SubmitFails \/ Started
Closing == Stop \/ CancelTransfers \/ WaitTransfers \/ JoinCaller \/ Free

\* The threads run; that the preview is stopped, or the camera unplugged, is not promised.
Next == Unplug \/ Close \/ Events \/ Caller \/ Opening \/ Closing
Spec ==
    Init /\ [][Next]_vars
        /\ WF_vars(Events) /\ WF_vars(Caller) /\ WF_vars(Opening) /\ WF_vars(Closing)

-----------------------------------------------------------------------------
(* Properties. *)

OwnerPlaces == {"open", "submit", "started", "stop", "cancel", "woken", "wait", "join",
                "free", "gone"}
EventPlaces == {"poll", "header", "data", "resubmit", "submit", "delete"}
TransferPlaces == {"null", "new", "flying", "cancelled", "called", "stuck"}

Buffers == [first : 0..MaxFrames, last : 0..MaxFrames]

HandleOK ==
    /\ owner \in OwnerPlaces /\ strmh \in {"open", "freed"} /\ refused \in BOOLEAN
    /\ running \in BOOLEAN /\ transfers \in [Transfers -> TransferPlaces]
    /\ events \in EventPlaces /\ transfer \in SUBSET Transfers
    /\ caller \in {"none", "check", "waiting", "unlocked", "done"}
BuffersOK ==
    /\ outbuf \in Buffers /\ holdbuf \in Buffers /\ frame \in Buffers
    /\ bfh_err \in BOOLEAN /\ hold_bfh_err \in BOOLEAN /\ fid \in 0..1
    /\ seq \in Nat /\ hold_seq \in Nat /\ last_seq \in Nat /\ given \in 0..MaxFrames
CameraOK ==
    /\ sent \in 0..MaxFrames /\ packet \in 1..Packets /\ plugged \in BOOLEAN
    /\ bad \in 0..MaxBad /\ lost \in 0..MaxLost

\* The type invariant of the stream's handle and of its threads.
TypeOK == HandleOK /\ BuffersOK /\ CameraOK

\* Nobody is left that uses the handle.
Alone ==
    /\ events = "poll" /\ caller \in {"none", "done"}
    /\ \A t \in Transfers : transfers[t] = "null"

\* Once the handle is freed nobody is left that uses it, if the camera stayed and the
\* start was not refused: the stop outlasts every order of the transfers that come back,
\* are submitted again and are cancelled, and the caller (uvc_stream_stop).
ClosedAlone == strmh = "freed" /\ plugged /\ ~refused => Alone

\* "Closes stream, frees handle and all streaming resources" (stream.c:1858): a handle
\* whose start was not refused is freed only when nobody is left that uses it.
FreedAlone == strmh = "freed" /\ ~refused => Alone

\* A picture handed out holds the data of two of the camera's pictures only if more
\* packets than a picture has went missing: one bit of frame id tells neighbours apart
\* (_uvc_process_payload_iso, hold_bfh_err).
MixedOnlyByLoss == frame.first # frame.last => lost > Packets

\* The step in which the user's callback is called with a picture.
CallsUser == caller = "unlocked" /\ caller' = "check" /\ ~hold_bfh_err /\ frame # NoData

\* Unless a packet came with an error, each call of the user's callback is with a newer
\* picture, whatever swaps come between the copy and the call (_uvc_user_caller).
RepeatsOnlyAfterError == [][CallsUser => given' > given \/ (given' = given /\ bad > 0)]_vars

\* A stop returns unless libusb refused a transfer that was submitted again: every other
\* transfer comes back and is deleted, and the caller ends (uvc_stream_stop).
StopReturns ==
    owner = "stop" ~> (owner = "gone" \/ \E t \in Transfers : transfers[t] = "stuck")
=============================================================================
