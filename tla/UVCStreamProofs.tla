--------------------------- MODULE UVCStreamProofs ---------------------------
(***************************************************************************)
(* Proofs about UVCStream: its type invariant, that a stream which is      *)
(* stopped in good order leaves nobody behind, that pictures are mixed     *)
(* only by loss, that a picture is repeated only after an error, and that  *)
(* neither the owner nor the caller misses what it waits for.              *)
(***************************************************************************)
EXTENDS UVCStream, TLAPS

-----------------------------------------------------------------------------
(* The inductive invariant. *)

\* The event thread is called back with a transfer exactly while it is not polling.
Calls ==
    /\ \A t \in Transfers : transfers[t] = "called" <=> t \in transfer
    /\ transfer = {} <=> events = "poll"

\* The order of the start and the stop, while nothing has gone wrong.
Lifecycle ==
    /\ strmh = "freed" => owner = "gone"
    /\ owner = "open" => Alone
    /\ plugged /\ ~refused =>
        /\ owner # "submit" => \A t \in Transfers : transfers[t] # "new"
        /\ running <=> owner \in {"submit", "started", "stop"}
        /\ owner = "join" => \A t \in Transfers : transfers[t] = "null"
        /\ owner \in {"free", "gone"} => Alone

\* The event thread has a packet in hand.
Received == events \in {"header", "data"}

\* The working buffer is newer than the presented one, and that than the camera's packet.
Content ==
    /\ outbuf # NoData => 1 <= outbuf.first /\ outbuf.first <= outbuf.last
                          /\ fid = outbuf.last % 2 /\ holdbuf.last < outbuf.last
    /\ outbuf.last <= sent /\ holdbuf.last <= sent
    /\ sent = 0 => packet = Packets
    /\ holdbuf.last = sent /\ sent > 0 => packet = Packets /\ ~Received
    /\ Received => sent > 0
    /\ events = "data" => fid = sent % 2
    /\ seq = 0 => holdbuf = NoData /\ hold_seq = 0
    /\ seq > 0 => hold_seq < seq /\ holdbuf.last >= 1

\* The caller's picture is no newer than the presented one.
UserOrder ==
    /\ last_seq <= hold_seq
    /\ given <= frame.last /\ frame.last <= holdbuf.last
    /\ last_seq < hold_seq => frame.last < holdbuf.last
    /\ bad = 0 => ~bfh_err /\ ~hold_bfh_err
    /\ bad = 0 /\ caller = "unlocked" => given < frame.last

\* How many packets went missing since the working buffer's last one.
Gap ==
    /\ outbuf.last = sent /\ packet = Packets /\ ~Received => lost >= 1
    /\ outbuf.last = sent - 1 => lost >= IF Received THEN packet ELSE packet + 1
    /\ outbuf.last < sent - 1 => lost > Packets

Loss ==
    /\ MixedOnlyByLoss
    /\ ~hold_bfh_err /\ holdbuf.first # holdbuf.last => lost > Packets
    /\ ~bfh_err /\ outbuf.first # outbuf.last => lost > Packets
    /\ ~bfh_err /\ outbuf # NoData => Gap

IInv == TypeOK /\ Calls /\ Lifecycle /\ Content /\ UserOrder /\ Loss

-----------------------------------------------------------------------------
\* An empty buffer is a buffer.
LEMMA NoDataType == NoData \in Buffers
BY LimitAssumption DEF NoData, Buffers

LEMMA InitIInv == Init => IInv
<1>. SUFFICES ASSUME Init PROVE IInv
  OBVIOUS
<1>. USE PacketsAssumption, LimitAssumption DEF Init
<1>1. TypeOK
  <2>1. HandleOK
    BY DEF HandleOK, OwnerPlaces, EventPlaces, TransferPlaces
  <2>2. outbuf \in Buffers /\ holdbuf \in Buffers /\ frame \in Buffers
    BY NoDataType
  <2>3. bfh_err \in BOOLEAN /\ hold_bfh_err \in BOOLEAN
    OBVIOUS
  <2>4. /\ fid \in 0..1 /\ seq \in Nat /\ hold_seq \in Nat /\ last_seq \in Nat
        /\ given \in 0..MaxFrames
    OBVIOUS
  <2>5. CameraOK
    BY DEF CameraOK
  <2>. QED
    BY <2>1, <2>2, <2>3, <2>4, <2>5 DEF TypeOK, BuffersOK
<1>2. Calls /\ Lifecycle
  BY DEF Calls, Lifecycle, Alone
<1>3. Content /\ UserOrder
  BY DEF Content, UserOrder, Received, NoData
<1>4. Loss
  BY DEF Loss, MixedOnlyByLoss, NoData
<1>. QED
  BY <1>1, <1>2, <1>3, <1>4 DEF IInv

-----------------------------------------------------------------------------
(* Type correctness. *)

\* What the camera sends next is a packet of one of its pictures.
LEMMA SendType ==
    ASSUME CameraOK, Send
    PROVE  sent' \in 0..MaxFrames /\ packet' \in 1..Packets /\ plugged' \in BOOLEAN
BY PacketsAssumption, LimitAssumption DEF CameraOK, Send

\* Appending keeps a buffer a buffer.
LEMMA AppendedType ==
    ASSUME NEW b \in Buffers, sent \in 0..MaxFrames
    PROVE  Appended(b) \in Buffers
BY DEF Appended, Buffers

\* The type invariant survives each transfer that comes back.
LEMMA ReapType == ASSUME TypeOK, Reap PROVE TypeOK'
<1>1. PICK t \in Transfers :
        \/ Arrive(t) \/ ArriveBad(t) \/ ArriveLost(t) \/ ArriveEmpty(t)
        \/ ComeBack(t) \/ NoDevice(t)
  BY DEF Reap
<1>. USE DEF TypeOK, own, work, hold, evt, user, cam
<1>2. HandleOK'
  BY <1>1 DEF HandleOK, CallBack, Arrive, ArriveBad, ArriveLost, ArriveEmpty, ComeBack,
              NoDevice, EventPlaces, TransferPlaces
<1>3. BuffersOK'
  BY <1>1 DEF BuffersOK, Arrive, ArriveBad, ArriveLost, ArriveEmpty, ComeBack, NoDevice
<1>4. CameraOK'
  <2>1. CASE Arrive(t) \/ ArriveBad(t) \/ ArriveLost(t)
    <3>1. Send
      BY <2>1 DEF Arrive, ArriveBad, ArriveLost
    <3>2. bad' \in 0..MaxBad /\ lost' \in 0..MaxLost
      BY <2>1, LimitAssumption DEF CameraOK, Arrive, ArriveBad, ArriveLost
    <3>. QED
      BY <3>1, <3>2, SendType DEF CameraOK
  <2>2. CASE ArriveEmpty(t) \/ ComeBack(t) \/ NoDevice(t)
    BY <2>2 DEF CameraOK, ArriveEmpty, ComeBack, NoDevice
  <2>. QED
    BY <1>1, <2>1, <2>2
<1>. QED
  BY <1>2, <1>3, <1>4

\* Presenting a buffer keeps the types.
LEMMA SwapType ==
    ASSUME HandleOK, BuffersOK, NEW b \in Buffers, SwapBuffers(b)
    PROVE  /\ outbuf' \in Buffers /\ holdbuf' \in Buffers
           /\ bfh_err' \in BOOLEAN /\ hold_bfh_err' \in BOOLEAN
           /\ seq' \in Nat /\ hold_seq' \in Nat
           /\ owner' \in OwnerPlaces
           /\ caller' \in {"none", "check", "waiting", "unlocked", "done"}
<1>1. outbuf' \in Buffers /\ holdbuf' \in Buffers
  BY NoDataType DEF SwapBuffers
<1>2. bfh_err' \in BOOLEAN /\ hold_bfh_err' \in BOOLEAN
  BY DEF SwapBuffers, BuffersOK
<1>3. seq' \in Nat /\ hold_seq' \in Nat
  BY DEF SwapBuffers, BuffersOK
<1>4. owner' \in OwnerPlaces /\ caller' \in {"none", "check", "waiting", "unlocked", "done"}
  BY DEF SwapBuffers, HandleOK, WakeOwner, WakeCaller, OwnerPlaces
<1>. QED
  BY <1>1, <1>2, <1>3, <1>4

\* The type invariant survives the handling of a packet.
LEMMA PacketType == ASSUME TypeOK, Header \/ Data PROVE TypeOK'
<1>. USE DEF TypeOK
<1>1. /\ outbuf' \in Buffers /\ holdbuf' \in Buffers
      /\ bfh_err' \in BOOLEAN /\ hold_bfh_err' \in BOOLEAN
      /\ seq' \in Nat /\ hold_seq' \in Nat
      /\ owner' \in OwnerPlaces
      /\ caller' \in {"none", "check", "waiting", "unlocked", "done"}
  <2>1. CASE Header /\ SwapBuffers(outbuf)
    BY <2>1, SwapType DEF BuffersOK
  <2>2. CASE Data /\ SwapBuffers(Appended(outbuf))
    BY <2>2, SwapType, AppendedType DEF BuffersOK, CameraOK
  <2>3. CASE Header /\ UNCHANGED <<outbuf, bfh_err, seq, hold, owner, caller>>
    BY <2>3 DEF BuffersOK, HandleOK, hold
  <2>4. CASE Data /\ outbuf' = Appended(outbuf)
             /\ UNCHANGED <<bfh_err, seq, hold, owner, caller>>
    BY <2>4, AppendedType DEF BuffersOK, HandleOK, CameraOK, hold
  <2>. QED
    BY <2>1, <2>2, <2>3, <2>4 DEF Header, Data
<1>2. fid' \in 0..1
  BY DEF Header, Data, BuffersOK, CameraOK
<1>3. UNCHANGED <<strmh, refused, running, transfers, transfer, last_seq, frame, given, cam>>
      /\ events' \in EventPlaces
  BY DEF Header, Data, EventPlaces
<1>. QED
  BY <1>1, <1>2, <1>3 DEF HandleOK, BuffersOK, CameraOK, cam

\* The type invariant survives every other step.
LEMMA OtherType ==
    ASSUME TypeOK,
           \/ Unplug \/ Close \/ Bogus \/ Decide \/ Resubmit \/ DeleteTransfer
           \/ Caller \/ Opening \/ Closing
    PROVE  TypeOK'
<1>. USE DEF TypeOK, own, work, hold, evt, user, cam
<1>1. CASE Unplug \/ Close \/ Bogus \/ Decide \/ Resubmit \/ DeleteTransfer
  <2>1. HandleOK'
    BY <1>1 DEF HandleOK, OwnerPlaces, EventPlaces, TransferPlaces, Unplug, Close, Bogus, Decide,
                Resubmit, DeleteTransfer, WakeOwner, WakeCaller
  <2>2. BuffersOK'
    BY <1>1 DEF BuffersOK, Unplug, Close, Bogus, Decide, Resubmit, DeleteTransfer
  <2>3. CameraOK'
    <3>1. CASE Unplug \/ Close \/ Decide \/ Resubmit \/ DeleteTransfer
      BY <3>1 DEF CameraOK, Unplug, Close, Decide, Resubmit, DeleteTransfer
    <3>2. CASE Bogus
      BY <3>2, LimitAssumption DEF CameraOK, Bogus
    <3>. QED
      BY <1>1, <3>1, <3>2
  <2>. QED
    BY <2>1, <2>2, <2>3
<1>2. CASE Caller
  <2>1. frame.last \in 0..MaxFrames
    BY DEF BuffersOK, Buffers
  <2>. QED
    BY <1>2, <2>1 DEF HandleOK, BuffersOK, CameraOK, Caller, WaitForFrame, PopulateFrame,
                      CallUser, CallerEnds
<1>3. CASE Opening
  BY <1>3 DEF HandleOK, BuffersOK, CameraOK, OwnerPlaces, TransferPlaces, Opening,
              StartFails, Start, Submit, SubmitFails, Started
<1>4. CASE Closing
  BY <1>4 DEF HandleOK, BuffersOK, CameraOK, OwnerPlaces, TransferPlaces, Closing, Stop,
              CancelTransfers, WaitTransfers, JoinCaller, Free, WakeCaller
<1>. QED
  BY <1>1, <1>2, <1>3, <1>4

LEMMA NextType == ASSUME TypeOK, Next PROVE TypeOK'
BY ReapType, PacketType, OtherType DEF Next, Events

-----------------------------------------------------------------------------
(* The order of the start and the stop. *)

LEMMA NextCalls == ASSUME HandleOK, Calls, Lifecycle, Next PROVE Calls'
<1>. USE DEF HandleOK, Calls, own, work, hold, evt, user, cam
<1>1. CASE Reap
  <2>1. PICK t \in Transfers :
          \/ Arrive(t) \/ ArriveBad(t) \/ ArriveLost(t) \/ ArriveEmpty(t)
          \/ ComeBack(t) \/ NoDevice(t)
    BY <1>1 DEF Reap
  <2>2. PICK place \in {"header", "resubmit", "delete"} : CallBack(t, place)
    BY <2>1 DEF Arrive, ArriveBad, ArriveLost, ArriveEmpty, ComeBack, NoDevice
  <2>. QED
    BY <2>2 DEF CallBack
<1>2. CASE Unplug \/ Close \/ Caller \/ (Closing /\ ~CancelTransfers)
  BY <1>2 DEF Unplug, Close, Caller, WaitForFrame, PopulateFrame, CallUser, CallerEnds,
              Closing, Stop, WaitTransfers, JoinCaller, Free
<1>5. CASE Header \/ Data \/ Bogus \/ Decide
  <2>1. events # "poll" /\ events' # "poll"
    BY <1>5 DEF Header, Data, Bogus, Decide
  <2>2. UNCHANGED <<transfers, transfer>>
    BY <1>5 DEF Header, Data, Bogus, Decide
  <2>. QED
    BY <2>1, <2>2
<1>6. CASE CancelTransfers
  BY <1>6 DEF CancelTransfers
<1>3. CASE Resubmit \/ DeleteTransfer
  BY <1>3 DEF Resubmit, DeleteTransfer
<1>4. CASE Opening
  <2>1. CASE Start
    BY <2>1 DEF Start, Lifecycle, Alone
  <2>2. CASE Opening /\ ~Start
    BY <2>2 DEF Opening, StartFails, Submit, SubmitFails, Started
  <2>. QED
    BY <1>4, <2>1, <2>2
<1>. QED
  BY <1>1, <1>2, <1>3, <1>4, <1>5, <1>6 DEF Next, Events

LEMMA NextLifecycle == ASSUME HandleOK, Calls, Lifecycle, Next PROVE Lifecycle'
<1>. USE DEF HandleOK, Calls, Lifecycle, Alone, own, work, hold, evt, user, cam
<1>1. CASE Reap
  <2>1. PICK t \in Transfers :
          \/ Arrive(t) \/ ArriveBad(t) \/ ArriveLost(t) \/ ArriveEmpty(t)
          \/ ComeBack(t) \/ NoDevice(t)
    BY <1>1 DEF Reap
  <2>. QED
    BY <2>1 DEF CallBack, Arrive, ArriveBad, ArriveLost, ArriveEmpty, ComeBack, NoDevice, Send
<1>2. CASE Unplug \/ Close \/ Bogus \/ Decide
  BY <1>2 DEF Unplug, Close, Bogus, Decide
<1>3. CASE Header \/ Data
  BY <1>3 DEF Header, Data, SwapBuffers, WakeOwner, WakeCaller
<1>4. CASE Resubmit \/ DeleteTransfer
  BY <1>4 DEF Resubmit, DeleteTransfer, WakeOwner, WakeCaller
<1>5. CASE Caller
  BY <1>5 DEF Caller, WaitForFrame, PopulateFrame, CallUser, CallerEnds
<1>6. CASE Opening
  BY <1>6 DEF Opening, StartFails, Start, Submit, SubmitFails, Started
<1>7. CASE Closing
  BY <1>7 DEF Closing, Stop, CancelTransfers, WaitTransfers, JoinCaller, Free, WakeCaller
<1>. QED
  BY <1>1, <1>2, <1>3, <1>4, <1>5, <1>6, <1>7 DEF Next, Events

-----------------------------------------------------------------------------
(* What the buffers hold. *)

\* The steps that leave the buffers and the camera's packets alone.
Quiet == UNCHANGED <<work, hold, last_seq, frame, given, sent, packet, bad, lost>>

LEMMA QuietSteps ==
    ASSUME \/ Unplug \/ Close \/ Decide \/ Resubmit \/ DeleteTransfer
           \/ WaitForFrame \/ CallerEnds \/ Opening \/ Closing,
           HandleOK, Lifecycle
    PROVE  /\ Quiet
           /\ Received' <=> Received
           /\ events' = "data" <=> events = "data"
           /\ caller' = "unlocked" <=> caller = "unlocked"
<1>. USE DEF Quiet, own, work, hold, evt, user, cam, Received, HandleOK
<1>1. CASE Unplug \/ Close \/ Decide \/ Resubmit \/ DeleteTransfer
  BY <1>1 DEF Unplug, Close, Decide, Resubmit, DeleteTransfer, WakeCaller
<1>2. CASE WaitForFrame \/ CallerEnds
  BY <1>2 DEF WaitForFrame, CallerEnds
<1>3. CASE Opening
  BY <1>3 DEF Opening, StartFails, Start, Submit, SubmitFails, Started, Lifecycle, Alone
<1>4. CASE Closing
  BY <1>4 DEF Closing, Stop, CancelTransfers, WaitTransfers, JoinCaller, Free, WakeCaller
<1>. QED
  BY <1>1, <1>2, <1>3, <1>4

\* What is left to show: the camera's steps, the packet's, and the caller's.
LEMMA StepsSplit ==
    ASSUME Next, HandleOK, Lifecycle
    PROVE  \/ \E t \in Transfers : Arrive(t)
           \/ \E t \in Transfers : ArriveBad(t)
           \/ \E t \in Transfers : ArriveLost(t)
           \/ Quiet /\ (Received' <=> Received) /\ (events' = "data" <=> events = "data")
                    /\ (caller' = "unlocked" <=> caller = "unlocked")
           \/ Header \/ Data \/ Bogus \/ PopulateFrame \/ CallUser
<1>1. CASE \E t \in Transfers : ArriveEmpty(t) \/ ComeBack(t) \/ NoDevice(t)
  <2>1. PICK t \in Transfers : ArriveEmpty(t) \/ ComeBack(t) \/ NoDevice(t)
    BY <1>1
  <2>2. Quiet /\ UNCHANGED caller
    BY <2>1 DEF ArriveEmpty, ComeBack, NoDevice, Quiet, own, work, hold, user, cam
  <2>3. ~Received /\ ~Received'
    BY <2>1 DEF ArriveEmpty, ComeBack, NoDevice, CallBack, Received
  <2>. QED
    BY <2>2, <2>3 DEF Received
<1>2. CASE \/ Unplug \/ Close \/ Decide \/ Resubmit \/ DeleteTransfer
           \/ WaitForFrame \/ CallerEnds \/ Opening \/ Closing
  BY <1>2, QuietSteps
<1>. QED
  BY <1>1, <1>2 DEF Next, Events, Reap, Caller

\* The camera goes on to its next packet.
LEMMA SendGoesOn ==
    ASSUME TypeOK, Send
    PROVE  \/ sent' = sent /\ packet' = packet + 1 /\ packet < Packets
           \/ sent' = sent + 1 /\ packet' = 1 /\ packet = Packets
BY PacketsAssumption DEF Send, TypeOK, CameraOK

\* A packet that is sent: what changes, whatever becomes of it.
LEMMA SentSteps ==
    ASSUME NEW t \in Transfers, Arrive(t) \/ ArriveBad(t) \/ ArriveLost(t)
    PROVE  /\ UNCHANGED <<outbuf, fid, seq, hold, user>>
           /\ ~Received /\ events' \in {"header", "resubmit"} /\ Send
BY DEF Arrive, ArriveBad, ArriveLost, CallBack, Received, work

LEMMA NextContent ==
    ASSUME TypeOK, Lifecycle, Content, Next PROVE Content'
<1>. USE DEF TypeOK, CameraOK, BuffersOK, Buffers, Content
<1>1. CASE \E t \in Transfers : Arrive(t) \/ ArriveBad(t) \/ ArriveLost(t)
  <2>1. PICK t \in Transfers : Arrive(t) \/ ArriveBad(t) \/ ArriveLost(t)
    BY <1>1
  <2>2. /\ UNCHANGED <<outbuf, fid, seq, holdbuf, hold_seq>>
        /\ ~Received /\ events' \in {"header", "resubmit"} /\ Send
    BY <2>1, SentSteps DEF hold
  <2>3. holdbuf.last < sent' /\ sent <= sent' /\ 1 <= sent' /\ sent' \in Nat
    <3>1. CASE sent' = sent /\ packet < Packets
      BY <3>1, PacketsAssumption
    <3>2. CASE sent' = sent + 1
      BY <3>2
    <3>. QED
      BY <2>2, <3>1, <3>2, SendGoesOn
  <2>4. outbuf.last <= sent' /\ holdbuf.last <= sent'
    BY <2>3
  <2>5. /\ outbuf' # NoData => 1 <= outbuf'.first /\ outbuf'.first <= outbuf'.last
                             /\ fid' = outbuf'.last % 2 /\ holdbuf'.last < outbuf'.last
        /\ seq' = 0 => holdbuf' = NoData /\ hold_seq' = 0
        /\ seq' > 0 => hold_seq' < seq' /\ holdbuf'.last >= 1
    BY <2>2
  <2>6. events' # "data" /\ sent' # 0 /\ sent' > 0 /\ holdbuf'.last # sent'
    BY <2>2, <2>3
  <2>. HIDE DEF TypeOK, CameraOK, BuffersOK, Buffers
  <2>. QED
    BY <2>2, <2>3, <2>4, <2>5, <2>6
<1>2. CASE Quiet /\ (Received' <=> Received) /\ (events' = "data" <=> events = "data")
  BY <1>2 DEF Quiet, work, hold
<1>3. CASE Header
  <2>1. /\ Received /\ Received' /\ fid' = sent % 2
        /\ UNCHANGED <<sent, packet>>
    BY <1>3 DEF Header, Received, cam
  <2>2. CASE fid # sent % 2 /\ outbuf # NoData
    <3>1. /\ holdbuf' = outbuf /\ hold_seq' = seq /\ outbuf' = NoData /\ seq' = seq + 1
      BY <1>3, <2>2 DEF Header, SwapBuffers
    <3>2. outbuf.last # sent
      BY <2>2
    <3>. QED
      BY <2>1, <2>2, <3>1, <3>2 DEF NoData
  <2>3. CASE ~(fid # sent % 2 /\ outbuf # NoData)
    <3>1. UNCHANGED <<outbuf, seq, holdbuf, hold_seq>>
      BY <1>3, <2>3 DEF Header, hold
    <3>. QED
      BY <2>1, <2>3, <3>1
  <2>. QED
    BY <2>2, <2>3
<1>4. CASE Data
  <2>1. /\ Received /\ ~Received' /\ events = "data"
        /\ UNCHANGED <<sent, packet, fid>>
        /\ events' # "data"
    BY <1>4 DEF Data, Received, cam
  <2>2. /\ Appended(outbuf).last = sent
        /\ 1 <= Appended(outbuf).first /\ Appended(outbuf).first <= sent
        /\ sent > 0
    BY <2>1 DEF Appended, NoData
  <2>3. CASE packet = Packets
    <3>1. /\ holdbuf' = Appended(outbuf) /\ hold_seq' = seq
          /\ outbuf' = NoData /\ seq' = seq + 1
      BY <1>4, <2>3 DEF Data, SwapBuffers
    <3>. QED
      BY <2>1, <2>2, <2>3, <3>1 DEF NoData
  <2>4. CASE packet # Packets
    <3>1. outbuf' = Appended(outbuf) /\ UNCHANGED <<seq, holdbuf, hold_seq>>
      BY <1>4, <2>4 DEF Data, hold
    <3>2. holdbuf.last < sent
      BY <2>1, <2>2
    <3>. QED
      BY <2>1, <2>2, <3>1, <3>2
  <2>. QED
    BY <2>3, <2>4
<1>5. CASE PopulateFrame \/ CallUser
  BY <1>5 DEF PopulateFrame, CallUser, work, hold, evt, cam, Received
<1>6. CASE Bogus
  BY <1>6 DEF Bogus, hold, Received
<1>. QED
  BY <1>1, <1>2, <1>3, <1>4, <1>5, <1>6, StepsSplit

-----------------------------------------------------------------------------
(* The caller's picture. *)

LEMMA NextUserOrder ==
    ASSUME TypeOK, Lifecycle, Content, UserOrder, Next PROVE UserOrder'
<1>. USE DEF TypeOK, CameraOK, BuffersOK, Buffers, UserOrder
<1>0. HandleOK
  OBVIOUS
<1>1. CASE \E t \in Transfers : Arrive(t) \/ ArriveBad(t) \/ ArriveLost(t)
  <2>1. PICK t \in Transfers : Arrive(t) \/ ArriveBad(t) \/ ArriveLost(t)
    BY <1>1
  <2>2. UNCHANGED <<hold, user>>
    BY <2>1, SentSteps
  <2>3. bad' = 0 => bad = 0 /\ UNCHANGED bfh_err
    BY <2>1 DEF Arrive, ArriveBad, ArriveLost, work
  <2>. QED
    BY <2>2, <2>3 DEF hold, user
<1>2. CASE Quiet /\ (caller' = "unlocked" <=> caller = "unlocked")
  BY <1>2 DEF Quiet, work, hold
<1>3. CASE Header \/ Data
  <2>1. /\ UNCHANGED <<last_seq, frame, given, bad>>
        /\ caller' = "unlocked" => caller = "unlocked"
    BY <1>3 DEF Header, Data, SwapBuffers, WakeCaller, cam
  <2>2. CASE UNCHANGED <<bfh_err, hold>>
    BY <2>1, <2>2 DEF hold
  <2>3. CASE Header /\ outbuf # NoData /\ SwapBuffers(outbuf)
    <3>1. holdbuf' = outbuf /\ hold_seq' = seq /\ hold_bfh_err' = bfh_err /\ bfh_err' = FALSE
      BY <2>3 DEF SwapBuffers
    <3>2. holdbuf.last < outbuf.last /\ hold_seq <= seq
      BY <2>3 DEF Content
    <3>. QED
      BY <2>1, <3>1, <3>2
  <2>4. CASE Data /\ SwapBuffers(Appended(outbuf))
    <3>1. /\ holdbuf' = Appended(outbuf) /\ hold_seq' = seq
          /\ hold_bfh_err' = bfh_err /\ bfh_err' = FALSE
      BY <2>4 DEF SwapBuffers
    <3>2. Appended(outbuf).last = sent
      BY DEF Appended
    <3>3. holdbuf.last < sent /\ hold_seq <= seq
      BY <2>4 DEF Content, Data, Received
    <3>. QED
      BY <2>1, <3>1, <3>2, <3>3
  <2>. QED
    BY <1>3, <2>2, <2>3, <2>4 DEF Header, Data
<1>4. CASE PopulateFrame
  BY <1>4 DEF PopulateFrame, work, hold, cam
<1>5. CASE CallUser
  BY <1>5 DEF CallUser, work, hold, cam
<1>6. CASE Bogus
  BY <1>6 DEF Bogus, hold, user
<1>. QED
  BY <1>0, <1>1, <1>2, <1>3, <1>4, <1>5, <1>6, StepsSplit

-----------------------------------------------------------------------------
(* Mixed pictures. *)

\* The packets that went missing are counted on while the camera sends.
LEMMA SentLoss ==
    ASSUME TypeOK, Content, Loss, NEW t \in Transfers,
           Arrive(t) \/ ArriveBad(t) \/ ArriveLost(t)
    PROVE  Loss'
<1>. USE DEF TypeOK, CameraOK, BuffersOK, Buffers, Loss
<1>1. UNCHANGED <<outbuf, holdbuf, hold_bfh_err, frame>> /\ ~Received
  BY SentSteps DEF hold, user
<1>2. \/ sent' = sent /\ packet' = packet + 1 /\ packet < Packets
      \/ sent' = sent + 1 /\ packet' = 1 /\ packet = Packets
  BY SentSteps, SendGoesOn
<1>3. CASE Arrive(t)
  <2>1. Received' /\ UNCHANGED <<bfh_err, lost>>
    BY <1>3 DEF Arrive, CallBack, Received, work
  <2>2. ~bfh_err /\ outbuf # NoData => Gap'
    BY <1>1, <1>2, <2>1, PacketsAssumption DEF Gap, Content
  <2>. QED
    BY <1>1, <2>1, <2>2 DEF MixedOnlyByLoss
<1>4. CASE ArriveLost(t)
  <2>1. ~Received' /\ UNCHANGED bfh_err /\ lost' = lost + 1
    BY <1>4 DEF ArriveLost, CallBack, Received, work
  <2>2. ~bfh_err /\ outbuf # NoData => Gap'
    BY <1>1, <1>2, <2>1, PacketsAssumption DEF Gap, Content
  <2>. QED
    BY <1>1, <2>1, <2>2, PacketsAssumption DEF MixedOnlyByLoss
<1>5. CASE ArriveBad(t)
  <2>1. bfh_err' /\ UNCHANGED lost
    BY <1>5 DEF ArriveBad
  <2>. QED
    BY <1>1, <2>1 DEF MixedOnlyByLoss
<1>. QED
  BY <1>3, <1>4, <1>5

\* A packet appended to an older picture of the same parity is two pictures late.
LEMMA AppendedLoss ==
    ASSUME TypeOK, Content, Loss, Data, ~bfh_err,
           Appended(outbuf).first # Appended(outbuf).last
    PROVE  lost > Packets
<1>. USE DEF TypeOK, CameraOK, BuffersOK, Buffers, Loss
<1>1. events = "data"
  BY DEF Data
<1>2. outbuf # NoData
  BY DEF Appended, NoData
<1>3. /\ 1 <= outbuf.first /\ outbuf.first <= outbuf.last /\ outbuf.last <= sent
      /\ outbuf.last % 2 = sent % 2
  BY <1>1, <1>2 DEF Content
<1>4. Appended(outbuf).first = outbuf.first /\ Appended(outbuf).last = sent
  BY <1>3 DEF Appended
<1>5. CASE outbuf.last = sent
  BY <1>4, <1>5
<1>6. CASE outbuf.last < sent
  <2>1. outbuf.last # sent - 1
    BY <1>3
  <2>. QED
    BY <1>2, <1>6, <2>1 DEF Gap
<1>. QED
  BY <1>3, <1>5, <1>6

LEMMA NextLoss ==
    ASSUME TypeOK, Lifecycle, Content, Loss, Next PROVE Loss'
<1>. USE DEF TypeOK, CameraOK, BuffersOK, Buffers, Loss
<1>0. HandleOK
  OBVIOUS
<1>1. CASE \E t \in Transfers : Arrive(t) \/ ArriveBad(t) \/ ArriveLost(t)
  BY <1>1, SentLoss
<1>2. CASE Quiet /\ (Received' <=> Received)
  BY <1>2 DEF Quiet, work, hold, MixedOnlyByLoss, Gap
<1>3. CASE Header
  <2>1. /\ UNCHANGED <<frame, sent, packet, lost>>
        /\ Received /\ Received'
    BY <1>3 DEF Header, Received, cam
  <2>2. CASE SwapBuffers(outbuf)
    <3>1. holdbuf' = outbuf /\ hold_bfh_err' = bfh_err /\ outbuf' = NoData
      BY <2>2 DEF SwapBuffers
    <3>. QED
      BY <2>1, <3>1 DEF MixedOnlyByLoss, NoData
  <2>3. CASE UNCHANGED <<outbuf, bfh_err, hold>>
    BY <2>1, <2>3 DEF MixedOnlyByLoss, Gap, hold
  <2>. QED
    BY <1>3, <2>2, <2>3 DEF Header
<1>4. CASE Data
  <2>1. UNCHANGED <<frame, sent, packet, lost>>
    BY <1>4 DEF Data, cam
  <2>2. CASE packet = Packets
    <3>1. holdbuf' = Appended(outbuf) /\ hold_bfh_err' = bfh_err /\ outbuf' = NoData
      BY <1>4, <2>2 DEF Data, SwapBuffers
    <3>. QED
      BY <1>4, <2>1, <3>1, AppendedLoss DEF MixedOnlyByLoss, NoData
  <2>3. CASE packet # Packets
    <3>1. outbuf' = Appended(outbuf) /\ UNCHANGED <<bfh_err, holdbuf, hold_bfh_err>>
      BY <1>4, <2>3 DEF Data, hold
    <3>2. outbuf'.last = sent
      BY <3>1 DEF Appended
    <3>3. Gap'
      BY <2>1, <2>3, <3>2 DEF Gap
    <3>. QED
      BY <1>4, <2>1, <3>1, <3>3, AppendedLoss DEF MixedOnlyByLoss
  <2>. QED
    BY <2>2, <2>3
<1>5. CASE PopulateFrame \/ CallUser
  BY <1>5 DEF PopulateFrame, CallUser, work, hold, evt, cam, MixedOnlyByLoss, Gap, Received
<1>6. CASE Bogus
  BY <1>6 DEF Bogus, hold, user, MixedOnlyByLoss
<1>. QED
  BY <1>0, <1>1, <1>2, <1>3, <1>4, <1>5, <1>6, StepsSplit

-----------------------------------------------------------------------------
(* The theorems. *)

\* Nothing changes in a stuttering step.
LEMMA Stutter == ASSUME IInv, UNCHANGED vars PROVE IInv'
<1>. USE DEF IInv, vars, own, work, hold, evt, user, cam
<1>1. TypeOK'
  BY DEF TypeOK, HandleOK, BuffersOK, CameraOK
<1>2. Calls' /\ Lifecycle'
  BY DEF Calls, Lifecycle, Alone
<1>3. Content' /\ UserOrder'
  BY DEF Content, UserOrder, Received
<1>4. Loss'
  BY DEF Loss, MixedOnlyByLoss, Gap, Received
<1>. QED
  BY <1>1, <1>2, <1>3, <1>4

LEMMA NextIInv == ASSUME IInv, [Next]_vars PROVE IInv'
<1>1. CASE Next
  BY <1>1, NextType, NextCalls, NextLifecycle, NextContent, NextUserOrder, NextLoss
     DEF IInv, TypeOK
<1>. QED
  BY <1>1, Stutter

\* The inductive invariant holds in every behaviour.
LEMMA Invariant == Spec => []IInv
BY InitIInv, NextIInv, PTL DEF Spec

\* The handle, the buffers and the threads' places keep their types for every number of
\* transfers, packets and pictures (stream.c: uvc_stream_handle).
THEOREM TypeCorrect == Spec => []TypeOK
<1>1. IInv => TypeOK
  BY DEF IInv
<1>. QED
  BY Invariant, <1>1, PTL

\* A stream that was not unplugged and whose start was not refused is freed only when no
\* transfer, no callback and no caller is left, however many transfers there are
\* (uvc_stream_stop, uvc_stream_close).
THEOREM CloseSafe == Spec => []ClosedAlone
<1>1. IInv => ClosedAlone
  BY DEF IInv, Lifecycle, ClosedAlone, Alone
<1>. QED
  BY Invariant, <1>1, PTL

\* A picture handed out is mixed of two of the camera's only if more packets than a
\* picture has were lost, whatever the size of a picture (_uvc_process_payload_iso).
THEOREM LossSafe == Spec => []MixedOnlyByLoss
<1>1. IInv => MixedOnlyByLoss
  BY DEF IInv, Loss
<1>. QED
  BY Invariant, <1>1, PTL

\* Only the caller's own step leaves the place between the copy and the call.
LEMMA UserCalled ==
    ASSUME HandleOK, Lifecycle, [Next]_vars, caller = "unlocked", caller' = "check"
    PROVE  CallUser
<1>. USE DEF HandleOK, user
<1>1. CASE Reap
  <2>1. PICK t \in Transfers :
          \/ Arrive(t) \/ ArriveBad(t) \/ ArriveLost(t) \/ ArriveEmpty(t)
          \/ ComeBack(t) \/ NoDevice(t)
    BY <1>1 DEF Reap
  <2>. QED
    BY <2>1 DEF Arrive, ArriveBad, ArriveLost, ArriveEmpty, ComeBack, NoDevice
<1>2. CASE \/ Unplug \/ Close \/ Bogus \/ Decide \/ Resubmit \/ DeleteTransfer
           \/ Header \/ Data
  BY <1>2 DEF Unplug, Close, Bogus, Decide, Resubmit, DeleteTransfer, Header, Data, SwapBuffers,
              WakeCaller
<1>3. CASE Caller
  BY <1>3 DEF Caller, WaitForFrame, PopulateFrame, CallerEnds
<1>4. CASE Opening
  BY <1>4 DEF Opening, StartFails, Start, Submit, SubmitFails, Started, Lifecycle, Alone
<1>5. CASE Closing
  BY <1>5 DEF Closing, Stop, CancelTransfers, WaitTransfers, JoinCaller, Free, WakeCaller
<1>6. CASE UNCHANGED vars
  BY <1>6 DEF vars
<1>. QED
  BY <1>1, <1>2, <1>3, <1>4, <1>5, <1>6 DEF Next, Events

\* The caller repeats a picture only after a packet that came with an error, and never
\* goes back to an older one (_uvc_user_caller).
THEOREM RepeatSafe == Spec => RepeatsOnlyAfterError
<1>1. ASSUME IInv, [Next]_vars, CallsUser
      PROVE  given' > given \/ (given' = given /\ bad > 0)
  <2>1. CallUser
    BY <1>1, UserCalled DEF CallsUser, IInv, TypeOK
  <2>2. given' = frame.last
    BY <1>1, <2>1 DEF CallUser, CallsUser
  <2>. QED
    BY <1>1, <2>1, <2>2 DEF IInv, UserOrder, CallsUser, CallUser, TypeOK, BuffersOK, CameraOK,
                            Buffers
<1>2. IInv /\ [Next]_vars => (CallsUser => given' > given \/ (given' = given /\ bad > 0))
  BY <1>1
<1>. QED
  BY Invariant, <1>2, PTL DEF Spec, RepeatsOnlyAfterError

-----------------------------------------------------------------------------
(* No wake-up is lost. *)

\* A stream that does not run wakes the caller once more, unless its start was refused:
\* at the end of the stop, or with the transfer that told of the missing device.
WakesCallerYet == running \/ refused \/ events = "delete" \/ owner \in {"cancel", "woken", "wait"}

\* What the caller waits for has not happened, or the stream will still wake it; and the
\* stop waits for a transfer, and joins a caller that is awake.
NoLostWakeUp ==
    /\ caller = "waiting" => last_seq = hold_seq /\ WakesCallerYet
    /\ owner = "wait" => \E t \in Transfers : transfers[t] # "null"
    /\ owner = "join" => caller # "waiting"

\* The stream runs only before the stop has cleared the flag, and has no transfer left
\* when it joins the caller.
Cleared ==
    /\ running => owner \in {"submit", "started", "stop"}
    /\ owner = "join" => \A t \in Transfers : transfers[t] = "null"

WakeInv == Cleared /\ NoLostWakeUp

LEMMA InitWakeUp == Init => WakeInv
BY DEF Init, WakeInv, Cleared, NoLostWakeUp

LEMMA NextWakeUp == ASSUME IInv, WakeInv, [Next]_vars PROVE WakeInv'
<1>. USE DEF WakeInv, Cleared, NoLostWakeUp, WakesCallerYet, own, work, hold, evt, user, cam
<1>1. CASE Reap
  <2>1. PICK t \in Transfers :
          \/ Arrive(t) \/ ArriveBad(t) \/ ArriveLost(t) \/ ArriveEmpty(t)
          \/ ComeBack(t) \/ NoDevice(t)
    BY <1>1 DEF Reap
  <2>2. PICK place \in {"header", "resubmit", "delete"} : CallBack(t, place)
    BY <2>1 DEF Arrive, ArriveBad, ArriveLost, ArriveEmpty, ComeBack, NoDevice
  <2>3. /\ transfers[t] # "null" /\ events # "delete"
        /\ UNCHANGED <<owner, refused, caller, last_seq, hold_seq>>
        /\ running' = running \/ (~running' /\ events' = "delete")
    BY <2>1 DEF Arrive, ArriveBad, ArriveLost, ArriveEmpty, ComeBack, NoDevice, CallBack
  <2>4. transfers'[t] = "called"
    BY <2>2 DEF CallBack, IInv, TypeOK, HandleOK
  <2>. QED
    BY <2>3, <2>4
<1>2. CASE Header \/ Data
  BY <1>2 DEF Header, Data, SwapBuffers, WakeOwner, WakeCaller
<1>3. CASE Unplug \/ Close \/ Bogus \/ Decide
  BY <1>3 DEF Unplug, Close, Bogus, Decide
<1>4. CASE Resubmit
  <2>1. /\ events = "submit"
        /\ UNCHANGED <<running, owner, refused, caller, last_seq, hold_seq>>
        /\ \A t \in Transfers : transfers'[t] # transfers[t] => transfers'[t] # "null"
    BY <1>4 DEF Resubmit
  <2>2. PICK t : t \in transfer
    BY <2>1 DEF IInv, Calls
  <2>3. t \in Transfers /\ transfers[t] = "called"
    BY <2>2 DEF IInv, Calls, TypeOK, HandleOK
  <2>. QED
    BY <2>1, <2>3
\* Whoever deletes a transfer wakes both.
<1>5. CASE DeleteTransfer
  <2>1. owner' # "wait" /\ caller' # "waiting"
    BY <1>5 DEF DeleteTransfer, WakeOwner, WakeCaller
  <2>2. UNCHANGED running /\ owner' \in {owner, "woken"}
    BY <1>5 DEF DeleteTransfer, WakeOwner
  <2>3. owner' = "woken" => owner \in {"wait", "woken"}
    BY <1>5 DEF DeleteTransfer, WakeOwner
  <2>4. ASSUME NEW t \in Transfers, transfers[t] = "null" PROVE transfers'[t] = "null"
    BY <1>5, <2>4 DEF DeleteTransfer
  <2>5. ~running \/ owner \in {"submit", "started", "stop"}
    OBVIOUS
  <2>6. Cleared'
    BY <2>2, <2>3, <2>4, <2>5
  <2>. QED
    BY <2>1, <2>2, <2>6
\* The caller tests both before it waits.
<1>6. CASE Caller
  BY <1>6 DEF Caller, WaitForFrame, PopulateFrame, CallUser, CallerEnds
<1>7. CASE Opening
  BY <1>7 DEF Opening, StartFails, Start, Submit, SubmitFails, Started, IInv, Lifecycle, Alone
<1>8. CASE Closing
  BY <1>8 DEF Closing, Stop, CancelTransfers, WaitTransfers, JoinCaller, Free, WakeCaller
<1>9. CASE UNCHANGED vars
  BY <1>9 DEF vars
<1>. QED
  BY <1>1, <1>2, <1>3, <1>4, <1>5, <1>6, <1>7, <1>8, <1>9 DEF Next, Events

\* No broadcast of cb_cond is lost: the caller waits only while no newer picture is
\* presented, and not for ever in a stream that no longer runs, unless its start was
\* refused; and the stop waits only while a transfer is left (_uvc_user_caller,
\* _uvc_swap_buffers, _uvc_delete_transfer, uvc_stream_stop).
THEOREM WakeUpsArrive == Spec => []NoLostWakeUp
<1>1. IInv /\ WakeInv /\ [Next]_vars => WakeInv'
  BY NextWakeUp
<1>2. WakeInv => NoLostWakeUp
  BY DEF WakeInv
<1>. QED
  BY InitWakeUp, Invariant, <1>1, <1>2, PTL DEF Spec
=============================================================================
