-------------------------- MODULE UVCPreviewProofs --------------------------
(***************************************************************************)
(* What UVCPreview keeps for every length of its queue, every number of    *)
(* pictures and every number of changes of the callback.                   *)
(*                                                                         *)
(* The inductive invariant has four parts: the types; Lifecycle, which     *)
(* relates how far the stop has come to what the threads can still do;     *)
(* Accounted, that a buffer is lost only by a preview thread which then    *)
(* leaves its loop; and Order, that a picture further down the line is     *)
(* older than the ones behind it.  That no thread waits for a picture      *)
(* which is already there is inductive by itself.                          *)
(***************************************************************************)
EXTENDS UVCPreview, SequenceTheorems, TLAPS

Lifecycle ==
    /\ preview \in {"none", "prepare", "clear", "spawn"} => capture = "none"
    /\ preview \in {"none", "prepare", "done"} => ~streaming /\ uvc = "idle"
    /\ api \in {"fresh", "refuse"} => preview = "none"
    /\ api \in {"wakePreview", "wakeCapture", "joinCapture", "joinPreview", "empty", "stopped"}
           => ~mIsRunning
    /\ api \in {"joinPreview", "empty", "stopped"} => unjoined \/ capture = "done"
    /\ api \in {"empty", "stopped"} => preview = "done"
    /\ unjoined => /\ api \in {"joinPreview", "empty", "stopped"}
                   /\ capture \in {"none", "begin", "outer", "done"}

Accounted ==
    /\ Lost \in {0, 1}
    /\ Lost = 1 => ~mIsRunning /\ preview \in {"loop", "leave", "close", "done"}

\* All that was passed on is older than picture p.
Older(p) == delivered < p /\ captureFrame < p /\ captureQueu < p

Order ==
    /\ captureFrame # 0 => IF capture = "inside" THEN delivered = captureFrame
                                                 ELSE delivered < captureFrame
    /\ captureQueu # 0 => delivered < captureQueu /\ captureFrame < captureQueu
    /\ previewFrame # 0 => Older(previewFrame)
    /\ \A i \in 1..Len(previewFrames) :
           /\ Older(previewFrames[i]) /\ previewFrame < previewFrames[i]
           /\ previewFrames[i] <= shot
           /\ \A j \in 1..Len(previewFrames) : i < j => previewFrames[i] < previewFrames[j]
    /\ delivered <= shot /\ captureFrame <= shot /\ captureQueu <= shot /\ previewFrame <= shot
    /\ uvc = "copy" =>
           /\ Older(shot) /\ previewFrame < shot
           /\ \A i \in 1..Len(previewFrames) : previewFrames[i] < shot

-----------------------------------------------------------------------------
(* Lemmas about the operators. *)

LEMMA WakesSetter ==
    ASSUME PlacesOK, NEW S
    PROVE  SetterAfter(S) \in [Callers -> {"free", "holding", "waiting", "woken"}]
BY DEF PlacesOK, SetterAfter

LEMMA WakesCapture ==
    ASSUME NEW S
    PROVE  CaptureAfter(S) \in {capture, "woken"}
BY DEF CaptureAfter

LEMMA WakesFromWait ==
    ASSUME NEW S \in Signalled \cup {Waiting}
    PROVE  CaptureAfter(S) # capture => capture = "waiting"
BY DEF CaptureAfter, Signalled, Waiting, Callers

LEMMA EmptyIsSeq == <<>> \in Seq(Nat \ {0}) /\ Len(<<>>) = 0
OBVIOUS

LEMMA AppendIsSeq ==
    ASSUME NEW s \in Seq(Nat \ {0}), NEW x \in Nat \ {0}
    PROVE  /\ Append(s, x) \in Seq(Nat \ {0}) /\ Len(Append(s, x)) = Len(s) + 1
           /\ \A i \in 1..Len(s) : Append(s, x)[i] = s[i]
           /\ Append(s, x)[Len(s) + 1] = x
OBVIOUS

LEMMA TailIsSeq ==
    ASSUME NEW s \in Seq(Nat \ {0}), s # <<>>
    PROVE  /\ Tail(s) \in Seq(Nat \ {0}) /\ Len(Tail(s)) = Len(s) - 1
           /\ Len(s) \in Nat \ {0}
           /\ Head(s) \in Nat \ {0} /\ Head(s) = s[1]
           /\ \A i \in 1..Len(Tail(s)) : Tail(s)[i] = s[i + 1]
OBVIOUS

PoolOK == mFramePool \in 0..FramePoolSize /\ live \in Int

LEMMA GetsOne ==
    ASSUME PoolOK, GetFrame
    PROVE  PoolOK' /\ live' - mFramePool' = live - mFramePool + 1
BY FrameAssumption DEF PoolOK, GetFrame, FramePoolSize, FrameAssumption

LEMMA RecyclesAll ==
    ASSUME PoolOK, NEW n \in Nat, Recycle(n)
    PROVE  PoolOK' /\ live' - mFramePool' = live - mFramePool - n
BY FrameAssumption DEF PoolOK, Recycle, FramePoolSize, FrameAssumption

LEMMA InUseIsInt ==
    TypeOK => InQueues \in Int /\ InUvc \in Int /\ InPreview \in Int /\ InCapture \in Int
BY DEF TypeOK, PicturesOK, InQueues, InUvc, InPreview, InCapture

LEMMA PoolIsInt == TypeOK => PoolOK /\ live \in Int /\ mFramePool \in Int
BY FrameAssumption DEF TypeOK, PoolOK, FramePoolSize, FrameAssumption

\* Who gets a buffer has one more, who recycles n has n less: none is lost.
LEMMA Got ==
    ASSUME TypeOK, GetFrame, InUse' = InUse + 1
    PROVE  Lost' = Lost
<1>1. InUse \in Int BY InUseIsInt DEF InUse
<1>2. PoolOK /\ live \in Int /\ mFramePool \in Int BY PoolIsInt
<1>3. PoolOK' /\ live' - mFramePool' = live - mFramePool + 1 BY <1>2, GetsOne
<1>4. live' \in Int /\ mFramePool' \in Int
  BY <1>3, FrameAssumption DEF PoolOK, FramePoolSize, FrameAssumption
<1>5. Lost = (live - mFramePool) - InUse /\ Lost' = (live' - mFramePool') - InUse'
  BY DEF Lost
<1>6. live - mFramePool \in Int /\ live' - mFramePool' \in Int BY <1>2, <1>4
<1> QED BY <1>1, <1>3, <1>5, <1>6

LEMMA Recycled ==
    ASSUME TypeOK, NEW n \in Nat, Recycle(n), InUse' = InUse - n
    PROVE  Lost' = Lost
<1>1. InUse \in Int BY InUseIsInt DEF InUse
<1>2. PoolOK /\ live \in Int /\ mFramePool \in Int BY PoolIsInt
<1>3. PoolOK' /\ live' - mFramePool' = live - mFramePool - n BY <1>2, RecyclesAll
<1>4. live' \in Int /\ mFramePool' \in Int
  BY <1>3, FrameAssumption DEF PoolOK, FramePoolSize, FrameAssumption
<1>5. Lost = (live - mFramePool) - InUse /\ Lost' = (live' - mFramePool') - InUse'
  BY DEF Lost
<1>6. live - mFramePool \in Int /\ live' - mFramePool' \in Int BY <1>2, <1>4
<1> QED BY <1>1, <1>3, <1>5, <1>6

LEMMA Kept ==
    ASSUME UNCHANGED buffers, InUse' = InUse
    PROVE  Lost' = Lost
BY DEF buffers, Lost

-----------------------------------------------------------------------------
(* The types. *)

\* Passing a picture into and out of the queue keeps the type of the queue.
LEMMA AddKeepsPictures ==
    ASSUME TypeOK, AddPreviewFrame
    PROVE  PicturesOK'
<1>1. CASE mIsRunning /\ Len(previewFrames) < MaxFrame
  <2>1. previewFrames' = Append(previewFrames, shot) /\ shot \in Nat \ {0}
    BY <1>1, BoundAssumption DEF AddPreviewFrame, TypeOK, PicturesOK, BoundAssumption
  <2>2. previewFrames' \in Seq(Nat \ {0}) /\ Len(previewFrames') <= MaxFrame
    BY <1>1, <2>1, AppendIsSeq, FrameAssumption DEF TypeOK, PicturesOK, FrameAssumption
  <2> QED
    BY <1>1, <2>2 DEF AddPreviewFrame, TypeOK, PicturesOK, PlacesOK, flags, queues, calling
<1>2. CASE ~(mIsRunning /\ Len(previewFrames) < MaxFrame)
  BY <1>2 DEF AddPreviewFrame, TypeOK, PicturesOK, PlacesOK, flags, queues, calling
<1> QED BY <1>1, <1>2

LEMMA TakeKeepsPictures ==
    ASSUME TypeOK, TakePreviewFrame
    PROVE  PicturesOK'
<1>1. CASE mIsRunning /\ previewFrames # <<>>
  <2>1. previewFrames' = Tail(previewFrames) /\ previewFrame' = Head(previewFrames)
    BY <1>1 DEF TakePreviewFrame
  <2>2. /\ previewFrames' \in Seq(Nat \ {0}) /\ Len(previewFrames') <= MaxFrame
        /\ previewFrame' \in Nat \ {0}
    BY <1>1, <2>1, TailIsSeq, FrameAssumption DEF TypeOK, PicturesOK, FrameAssumption
  <2> QED
    BY <1>1, <2>2 DEF TakePreviewFrame, TypeOK, PicturesOK, PlacesOK, flags, camera, calling
<1>2. CASE ~(mIsRunning /\ previewFrames # <<>>)
  BY <1>2 DEF TakePreviewFrame, TypeOK, PicturesOK, PlacesOK, flags, camera, calling
<1> QED BY <1>1, <1>2

LEMMA ClearKeepsPictures ==
    ASSUME TypeOK, ClearPreviewFrame \/ EmptyQueues
    PROVE  PicturesOK'
<1>1. previewFrames' = <<>> BY DEF ClearPreviewFrame, EmptyQueues
<1>2. previewFrames' \in Seq(Nat \ {0}) /\ Len(previewFrames') <= MaxFrame
  BY <1>1, EmptyIsSeq, FrameAssumption DEF FrameAssumption
<1>3. CASE ClearPreviewFrame
  BY <1>2, <1>3 DEF ClearPreviewFrame, TypeOK, PicturesOK, PlacesOK, flags, camera, calling
<1>4. CASE EmptyQueues
  BY <1>2, <1>4 DEF EmptyQueues, TypeOK, PicturesOK, PlacesOK, camera, drawing, calling
<1> QED BY <1>3, <1>4

LEMMA FlagsStep ==
    ASSUME FlagsOK, [Next]_vars
    PROVE  FlagsOK'
<1>1. CASE Uvc
  BY <1>1 DEF FlagsOK, Callers, Uvc, FrameArrives, GetFrame, DuplicateFails, Recycle,
      AddPreviewFrame, flags, queues, buffers, camera, drawing, calling, control
<1>2. CASE Preview
  BY <1>2 DEF FlagsOK, Callers, Preview, PreviewFails, StartStreaming, ClearPreviewFrame,
      Recycle, CreateCaptureThread, PreviewLoop, WaitPreviewFrame, TakePreviewFrame, GetFrame,
      Decode, Draw, Drawn, AddCaptureFrame, SetterAfter, CaptureAfter, LeavePreview, Signal,
      StopStreaming, flags, queues, buffers, camera, drawing, calling, control
<1>3. CASE Capture
  BY <1>3 DEF FlagsOK, Callers, Capture, BeginCapture, Recycle, OuterLoop, Arm, InnerLoop,
      SetterAfter, CaptureAfter, WaitCaptureFrame, TakeCaptureFrame, TestCallback, GetFrame,
      Convert, CallBack, Return, flags, queues, buffers, camera, drawing, calling, control
<1>4. CASE Calls
  BY <1>4 DEF FlagsOK, Callers, Calls, SetPreviewDisplay, StartPreview, StopBegins,
      SetCallbackSignals, MaySet, Public, SwapsAfter, SetCallbackAtOnce, Wanted, AfterSet,
      flags, queues, buffers, camera, drawing, calling, control
<1>5. CASE Stop
  BY <1>5 DEF FlagsOK, Callers, Stop, RefuseStart, StopRunning, WakePreview, WakeCapture,
      Signal, JoinCapture, JoinPreview, EmptyQueues, Recycle, flags, queues, buffers, camera,
      drawing, calling, control
<1>6. ASSUME NEW t \in Callers, Set(t) PROVE FlagsOK'
  BY <1>6 DEF FlagsOK, Callers, Set, SetCallbackWaits, ReplaceCallback, Wanted, AfterSet,
      flags, queues, buffers, camera, drawing, calling, control
<1>7. CASE UNCHANGED vars
  BY <1>7 DEF FlagsOK, vars, flags, queues, buffers, camera, drawing, calling, control
<1> QED BY <1>1, <1>2, <1>3, <1>4, <1>5, <1>6, <1>7 DEF Next

LEMMA PlacesStep ==
    ASSUME PlacesOK, [Next]_vars
    PROVE  PlacesOK'
<1>1. CASE Uvc
  BY <1>1, WakesSetter, WakesCapture DEF PlacesOK, Callers, Uvc, FrameArrives, GetFrame,
      DuplicateFails, Recycle, AddPreviewFrame, flags, queues, buffers, camera, drawing,
      calling, control
<1>2. CASE Preview
  BY <1>2, WakesSetter, WakesCapture DEF PlacesOK, Callers, Preview, PreviewFails,
      StartStreaming, ClearPreviewFrame, Recycle, CreateCaptureThread, PreviewLoop,
      WaitPreviewFrame, TakePreviewFrame, GetFrame, Decode, Draw, Drawn, AddCaptureFrame,
      SetterAfter, CaptureAfter, LeavePreview, Signal, StopStreaming, flags, queues, buffers,
      camera, drawing, calling, control
<1>3. CASE Capture
  BY <1>3, WakesSetter, WakesCapture DEF PlacesOK, Callers, Capture, BeginCapture, Recycle,
      OuterLoop, Arm, InnerLoop, SetterAfter, CaptureAfter, WaitCaptureFrame,
      TakeCaptureFrame, TestCallback, GetFrame, Convert, CallBack, Return, flags, queues,
      buffers, camera, drawing, calling, control
<1>4. CASE Calls
  BY <1>4, WakesSetter, WakesCapture DEF PlacesOK, Callers, Calls, SetPreviewDisplay,
      StartPreview, StopBegins, SetCallbackSignals, MaySet, Public, SwapsAfter,
      SetCallbackAtOnce, Wanted, AfterSet, flags, queues, buffers, camera, drawing, calling,
      control
<1>5. CASE Stop
  BY <1>5, WakesSetter, WakesCapture DEF PlacesOK, Callers, Stop, RefuseStart, StopRunning,
      WakePreview, WakeCapture, Signal, JoinCapture, JoinPreview, EmptyQueues, Recycle, flags,
      queues, buffers, camera, drawing, calling, control
<1>6. ASSUME NEW t \in Callers, Set(t) PROVE PlacesOK'
  BY <1>6, WakesSetter, WakesCapture DEF PlacesOK, Callers, Set, SetCallbackWaits,
      ReplaceCallback, Wanted, AfterSet, flags, queues, buffers, camera, drawing, calling,
      control
<1>7. CASE UNCHANGED vars
  BY <1>7 DEF PlacesOK, vars, flags, queues, buffers, camera, drawing, calling, control
<1> QED BY <1>1, <1>2, <1>3, <1>4, <1>5, <1>6, <1>7 DEF Next

LEMMA PicturesStep ==
    ASSUME TypeOK, Lifecycle, [Next]_vars
    PROVE  PicturesOK'
<1>1. CASE Uvc
  <2>1. CASE AddPreviewFrame
    BY <2>1, AddKeepsPictures, TakeKeepsPictures, ClearKeepsPictures
  <2>2. CASE FrameArrives \/ DuplicateFails
    BY <2>2, WakesCapture, WakesFromWait, BoundAssumption DEF BoundAssumption, TypeOK,
        PicturesOK, PlacesOK, Lifecycle, FrameArrives, DuplicateFails, flags, queues, buffers,
        camera, drawing, calling, control
  <2> QED BY <1>1, <2>1, <2>2 DEF Uvc
<1>2. CASE Preview
  <2>1. CASE ClearPreviewFrame \/ TakePreviewFrame
    BY <2>1, AddKeepsPictures, TakeKeepsPictures, ClearKeepsPictures
  <2>2. CASE PreviewFails \/ StartStreaming \/ CreateCaptureThread \/ PreviewLoop \/
            WaitPreviewFrame \/ Decode \/ Draw \/ Drawn \/ AddCaptureFrame \/ LeavePreview \/
            StopStreaming
    BY <2>2, WakesCapture, WakesFromWait, BoundAssumption DEF BoundAssumption, TypeOK,
        PicturesOK, PlacesOK, Lifecycle, PreviewFails, StartStreaming, CreateCaptureThread,
        PreviewLoop, WaitPreviewFrame, Decode, Draw, Drawn, AddCaptureFrame, SetterAfter,
        CaptureAfter, LeavePreview, Signal, StopStreaming, flags, queues, buffers, camera,
        drawing, calling, control
  <2> QED BY <1>2, <2>1, <2>2 DEF Preview
<1>3. CASE Capture
  BY <1>3, WakesCapture, WakesFromWait, BoundAssumption DEF BoundAssumption, TypeOK,
      PicturesOK, PlacesOK, Lifecycle, Capture, BeginCapture, Recycle, OuterLoop, Arm,
      InnerLoop, SetterAfter, CaptureAfter, WaitCaptureFrame, TakeCaptureFrame, TestCallback,
      GetFrame, Convert, CallBack, Return, flags, queues, buffers, camera, drawing, calling,
      control
<1>4. CASE Calls
  BY <1>4, WakesCapture, WakesFromWait, BoundAssumption DEF BoundAssumption, TypeOK,
      PicturesOK, PlacesOK, Lifecycle, Calls, SetPreviewDisplay, StartPreview, StopBegins,
      SetCallbackSignals, MaySet, Public, SwapsAfter, SetCallbackAtOnce, Wanted, AfterSet,
      flags, queues, buffers, camera, drawing, calling, control
<1>5. CASE Stop
  <2>1. CASE EmptyQueues
    BY <2>1, AddKeepsPictures, TakeKeepsPictures, ClearKeepsPictures
  <2>2. CASE RefuseStart \/ StopRunning \/ WakePreview \/ WakeCapture \/ JoinCapture \/
            JoinPreview
    BY <2>2, WakesCapture, WakesFromWait, BoundAssumption DEF BoundAssumption, TypeOK,
        PicturesOK, PlacesOK, Lifecycle, RefuseStart, StopRunning, WakePreview, WakeCapture,
        Signal, JoinCapture, JoinPreview, flags, queues, buffers, camera, drawing, calling,
        control
  <2> QED BY <1>5, <2>1, <2>2 DEF Stop
<1>6. ASSUME NEW t \in Callers, Set(t) PROVE PicturesOK'
  BY <1>6, WakesCapture, WakesFromWait, BoundAssumption DEF BoundAssumption, TypeOK,
      PicturesOK, PlacesOK, Lifecycle, Set, SetCallbackWaits, ReplaceCallback, Wanted,
      AfterSet, flags, queues, buffers, camera, drawing, calling, control
<1>7. CASE UNCHANGED vars
  BY <1>7 DEF TypeOK, PicturesOK, vars, flags, queues, buffers, camera, drawing, calling,
      control
<1> QED BY <1>1, <1>2, <1>3, <1>4, <1>5, <1>6, <1>7 DEF Next

LEMMA LenIsNat == TypeOK => Len(previewFrames) \in Nat
BY DEF TypeOK, PicturesOK

LEMMA PoolStep ==
    ASSUME TypeOK, [Next]_vars
    PROVE  PoolOK' /\ swaps' \in 0..MaxSwaps
<1>1. CASE Uvc
  BY <1>1, PoolIsInt, GetsOne, RecyclesAll, LenIsNat, BoundAssumption DEF TypeOK, PoolOK,
      PicturesOK, BoundAssumption, Uvc, FrameArrives, DuplicateFails, AddPreviewFrame, flags,
      queues, buffers, camera, drawing, calling, control
<1>2. CASE Preview
  BY <1>2, PoolIsInt, GetsOne, RecyclesAll, LenIsNat, BoundAssumption DEF TypeOK, PoolOK,
      PicturesOK, BoundAssumption, Preview, PreviewFails, StartStreaming, ClearPreviewFrame,
      CreateCaptureThread, PreviewLoop, WaitPreviewFrame, TakePreviewFrame, Decode, Draw,
      Drawn, AddCaptureFrame, SetterAfter, CaptureAfter, LeavePreview, Signal, StopStreaming,
      flags, queues, buffers, camera, drawing, calling, control
<1>3. CASE Capture
  BY <1>3, PoolIsInt, GetsOne, RecyclesAll, LenIsNat, BoundAssumption DEF TypeOK, PoolOK,
      PicturesOK, BoundAssumption, Capture, BeginCapture, OuterLoop, Arm, InnerLoop,
      SetterAfter, CaptureAfter, WaitCaptureFrame, TakeCaptureFrame, TestCallback, Convert,
      CallBack, Return, flags, queues, buffers, camera, drawing, calling, control
<1>4. CASE Calls
  BY <1>4, PoolIsInt, GetsOne, RecyclesAll, LenIsNat, BoundAssumption DEF TypeOK, PoolOK,
      PicturesOK, BoundAssumption, Calls, SetPreviewDisplay, StartPreview, StopBegins,
      SetCallbackSignals, MaySet, Public, SwapsAfter, SetCallbackAtOnce, Wanted, AfterSet,
      flags, queues, buffers, camera, drawing, calling, control
<1>5. CASE Stop
  BY <1>5, PoolIsInt, GetsOne, RecyclesAll, LenIsNat, BoundAssumption DEF TypeOK, PoolOK,
      PicturesOK, BoundAssumption, Stop, RefuseStart, StopRunning, WakePreview, WakeCapture,
      Signal, JoinCapture, JoinPreview, EmptyQueues, flags, queues, buffers, camera, drawing,
      calling, control
<1>6. ASSUME NEW t \in Callers, Set(t) PROVE PoolOK' /\ swaps' \in 0..MaxSwaps
  BY <1>6, PoolIsInt, GetsOne, RecyclesAll, LenIsNat, BoundAssumption DEF TypeOK, PoolOK,
      PicturesOK, BoundAssumption, Set, SetCallbackWaits, ReplaceCallback, Wanted, AfterSet,
      flags, queues, buffers, camera, drawing, calling, control
<1>7. CASE UNCHANGED vars
  BY <1>7 DEF TypeOK, PoolOK, vars, flags, queues, buffers, camera, drawing, calling, control
<1> QED BY <1>1, <1>2, <1>3, <1>4, <1>5, <1>6, <1>7 DEF Next

LEMMA TypeStep == ASSUME TypeOK, Lifecycle, [Next]_vars PROVE TypeOK'
<1>1. FlagsOK' BY FlagsStep DEF TypeOK
<1>2. PlacesOK' BY PlacesStep DEF TypeOK
<1>3. PicturesOK' BY PicturesStep
<1>4. PoolOK' /\ swaps' \in 0..MaxSwaps BY PoolStep
<1> QED BY <1>1, <1>2, <1>3, <1>4 DEF TypeOK, PoolOK

-----------------------------------------------------------------------------
(* How far the stop has come and what the threads can still do. *)

LEMMA LifecycleStep ==
    ASSUME TypeOK, Lifecycle, [Next]_vars
    PROVE  Lifecycle'
<1>1. CASE Uvc
  BY <1>1, WakesCapture, WakesFromWait DEF Lifecycle, PlacesOK, FlagsOK, TypeOK, Uvc,
      FrameArrives, GetFrame, DuplicateFails, Recycle, AddPreviewFrame, flags, queues,
      buffers, camera, drawing, calling, control
<1>2. CASE Preview
  BY <1>2, WakesCapture, WakesFromWait DEF Lifecycle, PlacesOK, FlagsOK, TypeOK, Preview,
      PreviewFails, StartStreaming, ClearPreviewFrame, Recycle, CreateCaptureThread,
      PreviewLoop, WaitPreviewFrame, TakePreviewFrame, GetFrame, Decode, Draw, Drawn,
      AddCaptureFrame, SetterAfter, CaptureAfter, LeavePreview, Signal, StopStreaming, flags,
      queues, buffers, camera, drawing, calling, control
<1>3. CASE Capture
  BY <1>3, WakesCapture, WakesFromWait DEF Lifecycle, PlacesOK, FlagsOK, TypeOK, Capture,
      BeginCapture, Recycle, OuterLoop, Arm, InnerLoop, SetterAfter, CaptureAfter,
      WaitCaptureFrame, TakeCaptureFrame, TestCallback, GetFrame, Convert, CallBack, Return,
      flags, queues, buffers, camera, drawing, calling, control
<1>4. CASE Calls
  BY <1>4, WakesCapture, WakesFromWait DEF Lifecycle, PlacesOK, FlagsOK, TypeOK, Calls,
      SetPreviewDisplay, StartPreview, StopBegins, SetCallbackSignals, MaySet, Public,
      SwapsAfter, SetCallbackAtOnce, Wanted, AfterSet, flags, queues, buffers, camera,
      drawing, calling, control
<1>5. CASE Stop
  <2>1. CASE RefuseStart
    BY <2>1, WakesCapture, WakesFromWait DEF Lifecycle, PlacesOK, FlagsOK, TypeOK,
        RefuseStart, flags, queues, buffers, camera, drawing, calling, control
  <2>2. CASE StopRunning
    BY <2>2, WakesCapture, WakesFromWait DEF Lifecycle, PlacesOK, FlagsOK, TypeOK,
        StopRunning, flags, queues, buffers, camera, drawing, calling, control
  <2>3. CASE WakePreview
    BY <2>3, WakesCapture, WakesFromWait DEF Lifecycle, PlacesOK, FlagsOK, TypeOK,
        WakePreview, flags, queues, buffers, camera, drawing, calling, control
  <2>4. CASE WakeCapture
    BY <2>4, WakesCapture, WakesFromWait DEF Lifecycle, PlacesOK, FlagsOK, TypeOK,
        WakeCapture, Signal, flags, queues, buffers, camera, drawing, calling, control
  <2>5. CASE JoinCapture
    BY <2>5, WakesCapture, WakesFromWait DEF Lifecycle, PlacesOK, FlagsOK, TypeOK,
        JoinCapture, flags, queues, buffers, camera, drawing, calling, control
  <2>6. CASE JoinPreview
    BY <2>6, WakesCapture, WakesFromWait DEF Lifecycle, PlacesOK, FlagsOK, TypeOK,
        JoinPreview, flags, queues, buffers, camera, drawing, calling, control
  <2>7. CASE EmptyQueues
    BY <2>7, WakesCapture, WakesFromWait DEF Lifecycle, PlacesOK, FlagsOK, TypeOK,
        EmptyQueues, Recycle, flags, queues, buffers, camera, drawing, calling, control
  <2> QED BY <1>5, <2>1, <2>2, <2>3, <2>4, <2>5, <2>6, <2>7 DEF Stop
<1>6. ASSUME NEW t \in Callers, Set(t) PROVE Lifecycle'
  BY <1>6, WakesCapture, WakesFromWait DEF Lifecycle, PlacesOK, FlagsOK, TypeOK, Set,
      SetCallbackWaits, ReplaceCallback, Wanted, AfterSet, flags, queues, buffers, camera,
      drawing, calling, control
<1>7. CASE UNCHANGED vars
  BY <1>7 DEF Lifecycle, vars, flags, queues, buffers, camera, drawing, calling, control
<1> QED BY <1>1, <1>2, <1>3, <1>4, <1>5, <1>6, <1>7 DEF Next

-----------------------------------------------------------------------------
(* The buffers. *)

\* The steps of libuvc's thread: a buffer is got, put into the queue or recycled.
LEMMA UvcLosesNothing ==
    ASSUME TypeOK, Uvc
    PROVE  Lost' = Lost
<1>1. CASE FrameArrives
  <2>1. UNCHANGED <<InQueues, InPreview, InCapture>>
    BY <1>1 DEF FrameArrives, InQueues, InPreview, InCapture, flags, queues, drawing, calling
  <2>2. CASE uvc' = "idle" /\ UNCHANGED buffers
    BY <1>1, <2>1, <2>2, Kept DEF FrameArrives, InUse, InUvc
  <2>3. CASE GetFrame /\ uvc' = "copy"
    <3>1. InUvc' = 1 /\ InUvc = 0 BY <1>1, <2>3 DEF FrameArrives, InUvc
    <3> QED BY <2>1, <2>3, <3>1, Got, InUseIsInt DEF InUse
  <2> QED BY <1>1, <2>2, <2>3 DEF FrameArrives
<1>2. CASE DuplicateFails \/ AddPreviewFrame
  <2>1. UNCHANGED <<InPreview, InCapture>> /\ InUvc = 1 /\ InUvc' = 0
    BY <1>2 DEF DuplicateFails, AddPreviewFrame, InUvc, InPreview, InCapture, drawing, calling
  <2>2. CASE Recycle(1) /\ UNCHANGED <<previewFrames, captureQueu>>
    BY <2>1, <2>2, Recycled, InUseIsInt DEF InUse, InQueues
  <2>3. CASE /\ previewFrames' = Append(previewFrames, shot)
             /\ UNCHANGED <<captureQueu, mFramePool, live>>
    <3>1. InQueues' = InQueues + 1
      <4>1. Len(previewFrames') = Len(previewFrames) + 1 BY <2>3 DEF TypeOK, PicturesOK
      <4> QED BY <2>3, <4>1, LenIsNat DEF InQueues
    <3> QED BY <2>1, <2>3, <3>1, Kept, InUseIsInt DEF InUse, buffers
  <2> QED BY <1>2, <2>2, <2>3 DEF DuplicateFails, AddPreviewFrame, flags, queues, buffers
<1> QED BY <1>1, <1>2 DEF Uvc

\* The steps of the preview thread; only addCaptureFrame may lose a buffer.
LEMMA PreviewLosesOne ==
    ASSUME TypeOK, Lifecycle, Preview
    PROVE  Lost' = Lost \/ (AddCaptureFrame /\ ~mIsRunning /\ Lost' = Lost + 1)
<1>1. CASE PreviewFails \/ StartStreaming \/ CreateCaptureThread \/ PreviewLoop \/
          WaitPreviewFrame \/ LeavePreview \/ StopStreaming
  <2>1. UNCHANGED <<buffers, InQueues, InUvc, InPreview, InCapture>>
    BY <1>1, WakesCapture, WakesFromWait DEF InQueues, InUvc, InPreview, InCapture, Lifecycle,
        TypeOK, PlacesOK, PreviewFails, StartStreaming, CreateCaptureThread, PreviewLoop,
        WaitPreviewFrame, LeavePreview, Signal, StopStreaming, flags, queues, buffers, camera,
        drawing, calling, control
  <2> QED BY <2>1, Kept DEF InUse
<1>2. CASE ClearPreviewFrame
  <2>1. UNCHANGED <<InUvc, InPreview, InCapture>>
    BY <1>2 DEF ClearPreviewFrame, InUvc, InPreview, InCapture, camera, calling
  <2>2. InQueues' = InQueues - Len(previewFrames)
    BY <1>2, LenIsNat, EmptyIsSeq DEF ClearPreviewFrame, InQueues
  <2>3. InUse' = InUse - Len(previewFrames)
    BY <2>1, <2>2, InUseIsInt, LenIsNat DEF InUse
  <2> QED BY <1>2, <2>3, Recycled, LenIsNat DEF ClearPreviewFrame
<1>3. CASE TakePreviewFrame
  <2>1. UNCHANGED <<InUvc, InCapture>> /\ InPreview = 0
    BY <1>3 DEF TakePreviewFrame, InUvc, InPreview, InCapture, camera, calling
  <2>2. CASE mIsRunning /\ previewFrames # <<>>
    <3>1. InPreview' = 2 /\ GetFrame BY <1>3, <2>2 DEF TakePreviewFrame, InPreview
    <3>2. Len(previewFrames') = Len(previewFrames) - 1
      BY <1>3, <2>2, TailIsSeq DEF TakePreviewFrame, TypeOK, PicturesOK
    <3>3. InQueues' = InQueues - 1
      BY <1>3, <3>2, LenIsNat DEF TakePreviewFrame, InQueues
    <3>4. InUse' = InUse + 1 BY <2>1, <3>1, <3>3, InUseIsInt DEF InUse
    <3> QED BY <3>1, <3>4, Got
  <2>3. CASE ~(mIsRunning /\ previewFrames # <<>>)
    BY <1>3, <2>1, <2>3, Kept DEF TakePreviewFrame, InUse, InQueues, InPreview
  <2> QED BY <2>2, <2>3
<1>4. CASE Decode
  <2>1. UNCHANGED <<InQueues, InUvc, InCapture>> /\ InPreview = 2
    BY <1>4 DEF Decode, InQueues, InUvc, InPreview, InCapture, queues, camera, calling
  <2>2. CASE preview' = "draw" /\ Recycle(1)
    <3>1. InPreview' = 1 BY <2>2 DEF InPreview
    <3> QED BY <2>1, <2>2, <3>1, Recycled, InUseIsInt DEF InUse
  <2>3. CASE preview' = "loop" /\ Recycle(2)
    <3>1. InPreview' = 0 BY <2>3 DEF InPreview
    <3> QED BY <2>1, <2>3, <3>1, Recycled, InUseIsInt DEF InUse
  <2> QED BY <1>4, <2>2, <2>3 DEF Decode
<1>5. CASE Draw
  <2>1. UNCHANGED <<InQueues, InUvc, InCapture>> /\ InPreview = 1
    BY <1>5 DEF Draw, InQueues, InUvc, InPreview, InCapture, queues, camera, calling
  <2>2. CASE preview' = "drawn" /\ GetFrame
    <3>1. InPreview' = 2 BY <2>2 DEF InPreview
    <3> QED BY <2>1, <2>2, <3>1, Got, InUseIsInt DEF InUse
  <2>3. CASE preview' = "queue" /\ UNCHANGED buffers
    BY <2>1, <2>3, Kept DEF InUse, InPreview
  <2> QED BY <1>5, <2>2, <2>3 DEF Draw
<1>6. CASE Drawn
  <2>1. UNCHANGED <<InQueues, InUvc, InCapture>> /\ InPreview = 2 /\ InPreview' = 1
    BY <1>6 DEF Drawn, InQueues, InUvc, InPreview, InCapture, queues, camera, calling
  <2> QED BY <1>6, <2>1, Recycled, InUseIsInt DEF Drawn, InUse
<1>7. CASE AddCaptureFrame
  <2>1. UNCHANGED <<InUvc, InCapture, previewFrames>> /\ InPreview = 1 /\ InPreview' = 0
    BY <1>7, WakesCapture, WakesFromWait
    DEF AddCaptureFrame, InUvc, InPreview, InCapture, camera, calling
  <2>2. CASE mIsRunning
    <3> DEFINE n == IF captureQueu = 0 THEN 0 ELSE 1
    <3>1. InQueues' = InQueues + 1 - n
      BY <1>7, <2>1, <2>2 DEF AddCaptureFrame, InQueues, TypeOK, PicturesOK
    <3>2. Recycle(n) BY <1>7, <2>2 DEF AddCaptureFrame
    <3>3. InUse' = InUse - n BY <2>1, <3>1, InUseIsInt DEF InUse
    <3> QED BY <3>2, <3>3, Recycled
  <2>3. CASE ~mIsRunning
    <3>1. UNCHANGED <<InQueues, mFramePool, live>>
      BY <1>7, <2>1, <2>3 DEF AddCaptureFrame, InQueues, buffers
    <3> QED BY <1>7, <2>1, <2>3, <3>1, InUseIsInt, PoolIsInt DEF InUse, Lost
  <2> QED BY <2>2, <2>3
<1> QED BY <1>1, <1>2, <1>3, <1>4, <1>5, <1>6, <1>7 DEF Preview

\* The steps of the capture thread.
LEMMA CaptureLosesNothing ==
    ASSUME TypeOK, Capture
    PROVE  Lost' = Lost
<1>1. CASE OuterLoop \/ Arm \/ InnerLoop \/ WaitCaptureFrame \/ CallBack
  <2>1. UNCHANGED <<buffers, InQueues, InUvc, InPreview, InCapture>>
    BY <1>1 DEF InQueues, InUvc, InPreview, InCapture, TypeOK, PlacesOK, OuterLoop, Arm,
        InnerLoop, SetterAfter, CaptureAfter, WaitCaptureFrame, CallBack, flags, queues,
        buffers, camera, drawing, calling, control
  <2> QED BY <2>1, Kept DEF InUse
<1>2. CASE BeginCapture
  <2> DEFINE n == IF captureQueu = 0 THEN 0 ELSE 1
  <2>1. UNCHANGED <<InUvc, InPreview, InCapture>>
    BY <1>2 DEF BeginCapture, InUvc, InPreview, InCapture, camera, drawing
  <2>2. InQueues' = InQueues - n
    BY <1>2, LenIsNat DEF BeginCapture, InQueues, flags
  <2>3. InUse' = InUse - n BY <2>1, <2>2, InUseIsInt DEF InUse
  <2> QED BY <1>2, <2>3, Recycled DEF BeginCapture
<1>3. CASE TakeCaptureFrame
  <2>1. UNCHANGED <<buffers, InUvc, InPreview>> /\ UNCHANGED previewFrames /\ InCapture = 0
    BY <1>3 DEF TakeCaptureFrame, InUvc, InPreview, InCapture, camera, drawing, buffers
  <2>2. CASE mIsRunning /\ captureQueu # 0
    <3>1. InCapture' = 1 BY <1>3, <2>2 DEF TakeCaptureFrame, InCapture
    <3>2. InQueues' = InQueues - 1
      BY <1>3, <2>1, <2>2, LenIsNat DEF TakeCaptureFrame, InQueues
    <3> QED BY <2>1, <3>1, <3>2, Kept, InUseIsInt DEF InUse
  <2>3. CASE ~(mIsRunning /\ captureQueu # 0)
    BY <1>3, <2>1, <2>3, Kept DEF TakeCaptureFrame, InUse, InQueues, InCapture
  <2> QED BY <2>2, <2>3
<1>4. CASE TestCallback
  <2>1. UNCHANGED <<InQueues, InUvc, InPreview>> /\ InCapture = 1
    BY <1>4 DEF TestCallback, InQueues, InUvc, InPreview, InCapture, queues, camera, drawing
  <2>2. CASE capture' = "inner" /\ Recycle(1)
    <3>1. InCapture' = 0 BY <2>2 DEF InCapture
    <3> QED BY <2>1, <2>2, <3>1, Recycled, InUseIsInt DEF InUse
  <2>3. CASE capture' = "convert" /\ GetFrame
    <3>1. InCapture' = 2 BY <2>3 DEF InCapture
    <3> QED BY <2>1, <2>3, <3>1, Got, InUseIsInt DEF InUse
  <2> QED BY <1>4, <2>2, <2>3 DEF TestCallback
<1>5. CASE Convert
  <2>1. UNCHANGED <<InQueues, InUvc, InPreview>> /\ InCapture = 2
    BY <1>5 DEF Convert, InQueues, InUvc, InPreview, InCapture, queues, camera, drawing
  <2>2. CASE capture' = "call" /\ Recycle(1)
    <3>1. InCapture' = 1 BY <2>2 DEF InCapture
    <3> QED BY <2>1, <2>2, <3>1, Recycled, InUseIsInt DEF InUse
  <2>3. CASE capture' = "inner" /\ Recycle(2)
    <3>1. InCapture' = 0 BY <2>3 DEF InCapture
    <3> QED BY <2>1, <2>3, <3>1, Recycled, InUseIsInt DEF InUse
  <2> QED BY <1>5, <2>2, <2>3 DEF Convert
<1>6. CASE Return
  <2>1. UNCHANGED <<InQueues, InUvc, InPreview>> /\ InCapture = 1 /\ InCapture' = 0
    BY <1>6 DEF Return, InQueues, InUvc, InPreview, InCapture, queues, camera, drawing
  <2> QED BY <1>6, <2>1, Recycled, InUseIsInt DEF Return, InUse
<1> QED BY <1>1, <1>2, <1>3, <1>4, <1>5, <1>6 DEF Capture

\* The steps of the Java threads.
LEMMA CallsLoseNothing ==
    ASSUME TypeOK, Lifecycle, Calls \/ Stop \/ \E t \in Callers : Set(t)
    PROVE  Lost' = Lost
<1>1. CASE EmptyQueues
  <2> DEFINE n == Len(previewFrames) + (IF captureQueu = 0 THEN 0 ELSE 1)
  <2>1. UNCHANGED <<InUvc, InPreview, InCapture>>
    BY <1>1 DEF EmptyQueues, InUvc, InPreview, InCapture, camera, drawing, calling
  <2>2. InQueues' = 0 /\ InQueues = n
    BY <1>1, EmptyIsSeq DEF EmptyQueues, InQueues
  <2>3. n \in Nat BY LenIsNat
  <2>4. InUse' = InUse - n BY <2>1, <2>2, <2>3, InUseIsInt DEF InUse
  <2> HIDE DEF n
  <2>5. Recycle(n) BY <1>1 DEF EmptyQueues, n
  <2> QED BY <2>3, <2>4, <2>5, Recycled
<1>2. CASE Calls \/ (Stop /\ ~EmptyQueues) \/ \E t \in Callers : Set(t)
  <2>1. UNCHANGED <<buffers, InQueues, InUvc, InPreview, InCapture>>
    <3>1. CASE Calls
      BY <3>1, WakesCapture, WakesFromWait DEF InQueues, InUvc, InPreview, InCapture, Lifecycle, TypeOK,
          PlacesOK, Calls, SetPreviewDisplay, StartPreview, StopBegins, SetCallbackSignals,
          MaySet, Public, SwapsAfter, SetCallbackAtOnce, Wanted, AfterSet, flags, queues,
          buffers, camera, drawing, calling, control
    <3>2. CASE Stop /\ ~EmptyQueues
      BY <3>2, WakesCapture, WakesFromWait DEF InQueues, InUvc, InPreview, InCapture, TypeOK,
          PlacesOK, Stop, RefuseStart, StopRunning, WakePreview, WakeCapture, Signal,
          JoinCapture, JoinPreview, flags, queues, buffers, camera, drawing, calling, control
    <3>3. CASE \E t \in Callers : Set(t)
      BY <3>3, WakesCapture, WakesFromWait DEF InQueues, InUvc, InPreview, InCapture, TypeOK,
          PlacesOK, Set, SetCallbackWaits, ReplaceCallback, Wanted, AfterSet, flags, queues,
          buffers, camera, drawing, calling, control
    <3> QED BY <1>2, <3>1, <3>2, <3>3
  <2> QED BY <2>1, Kept DEF InUse
<1> QED BY <1>1, <1>2

\* Once the preview no longer runs and the preview thread is on its way out, both
\* stay so.
LEMMA LeavingStep ==
    ASSUME TypeOK, Lifecycle, [Next]_vars,
           ~mIsRunning, preview \in {"loop", "leave", "close", "done"}
    PROVE  ~mIsRunning' /\ preview' \in {"loop", "leave", "close", "done"}
<1>1. CASE Uvc
  BY <1>1 DEF Lifecycle, Uvc, FrameArrives, DuplicateFails, AddPreviewFrame, flags, queues,
      buffers, camera, drawing, calling, control
<1>2. CASE Preview
  BY <1>2 DEF Lifecycle, Preview, PreviewFails, StartStreaming, ClearPreviewFrame,
      CreateCaptureThread, PreviewLoop, WaitPreviewFrame, TakePreviewFrame, Decode, Draw,
      Drawn, AddCaptureFrame, SetterAfter, CaptureAfter, LeavePreview, Signal, StopStreaming,
      flags, queues, buffers, camera, drawing, calling, control
<1>3. CASE Capture
  BY <1>3 DEF Lifecycle, Capture, BeginCapture, OuterLoop, Arm, InnerLoop, SetterAfter,
      CaptureAfter, WaitCaptureFrame, TakeCaptureFrame, TestCallback, Convert, CallBack,
      Return, flags, queues, buffers, camera, drawing, calling, control
<1>4. CASE Calls
  BY <1>4 DEF Lifecycle, Calls, SetPreviewDisplay, StartPreview, StopBegins,
      SetCallbackSignals, MaySet, Public, SwapsAfter, SetCallbackAtOnce, Wanted, AfterSet,
      flags, queues, buffers, camera, drawing, calling, control
<1>5. CASE Stop
  BY <1>5 DEF Lifecycle, Stop, RefuseStart, StopRunning, WakePreview, WakeCapture, Signal,
      JoinCapture, JoinPreview, EmptyQueues, flags, queues, buffers, camera, drawing, calling,
      control
<1>6. ASSUME NEW t \in Callers, Set(t) PROVE UNCHANGED <<mIsRunning, preview>>
  BY <1>6 DEF Lifecycle, Set, SetCallbackWaits, ReplaceCallback, Wanted, AfterSet, flags,
      queues, buffers, camera, drawing, calling, control
<1>7. CASE UNCHANGED vars
  BY <1>7 DEF vars, flags, drawing
<1> QED BY <1>1, <1>2, <1>3, <1>4, <1>5, <1>6, <1>7 DEF Next

LEMMA AccountedStep ==
    ASSUME TypeOK, Lifecycle, Accounted, [Next]_vars
    PROVE  Accounted'
<1>1. Lost' = Lost \/ (AddCaptureFrame /\ ~mIsRunning /\ Lost' = Lost + 1)
  <2>1. CASE UNCHANGED vars
    BY <2>1 DEF vars, buffers, queues, camera, drawing, calling, Lost, InUse, InQueues, InUvc,
                InPreview, InCapture
  <2> QED
    BY <2>1, UvcLosesNothing, PreviewLosesOne, CaptureLosesNothing, CallsLoseNothing DEF Next
<1>2. CASE Lost' = Lost
  BY <1>2, LeavingStep DEF Accounted
<1>3. CASE AddCaptureFrame /\ ~mIsRunning /\ Lost' = Lost + 1
  <2>1. preview = "queue" /\ preview' = "loop" /\ ~mIsRunning'
    BY <1>3 DEF AddCaptureFrame, flags
  <2>2. Lost = 0 BY <2>1 DEF Accounted
  <2> QED BY <1>3, <2>1, <2>2 DEF Accounted
<1> QED BY <1>1, <1>2, <1>3

-----------------------------------------------------------------------------
(* The order of the pictures. *)

LEMMA AddKeepsOrder ==
    ASSUME TypeOK, Order, AddPreviewFrame
    PROVE  Order'
<1>1. CASE mIsRunning /\ Len(previewFrames) < MaxFrame
  <2>1. previewFrames' = Append(previewFrames, shot) /\ shot \in Nat \ {0}
    BY <1>1, BoundAssumption DEF AddPreviewFrame, TypeOK, PicturesOK, BoundAssumption
  <2>2. /\ previewFrames \in Seq(Nat \ {0}) /\ Len(previewFrames) \in Nat
        /\ Len(previewFrames') = Len(previewFrames) + 1
        /\ \A i \in 1..Len(previewFrames) : previewFrames'[i] = previewFrames[i]
        /\ previewFrames'[Len(previewFrames) + 1] = shot
    BY <2>1, AppendIsSeq DEF TypeOK, PicturesOK
  <2>3. UNCHANGED <<captureQueu, shot, previewFrame, capture, captureFrame, delivered>> /\ uvc = "copy" /\ uvc' = "idle"
    BY DEF AddPreviewFrame, calling
  <2>4. \A i \in 1..Len(previewFrames') : i \in 1..Len(previewFrames) \/ i = Len(previewFrames) + 1
    BY <2>2
  <2> QED BY <2>1, <2>2, <2>3, <2>4 DEF Order, Older, TypeOK, PicturesOK
<1>2. CASE ~(mIsRunning /\ Len(previewFrames) < MaxFrame)
  BY <1>2 DEF AddPreviewFrame, Order, Older, flags, queues, calling
<1> QED BY <1>1, <1>2

LEMMA TakeKeepsOrder ==
    ASSUME TypeOK, Order, TakePreviewFrame
    PROVE  Order'
<1>1. CASE mIsRunning /\ previewFrames # <<>>
  <2>1. previewFrames' = Tail(previewFrames) /\ previewFrame' = Head(previewFrames)
    BY <1>1 DEF TakePreviewFrame
  <2>2. /\ previewFrames \in Seq(Nat \ {0}) /\ Len(previewFrames) \in Nat \ {0}
        /\ Len(previewFrames') = Len(previewFrames) - 1
        /\ \A i \in 1..Len(previewFrames') : previewFrames'[i] = previewFrames[i + 1]
        /\ previewFrame' = previewFrames[1]
    BY <1>1, <2>1, TailIsSeq DEF TypeOK, PicturesOK
  <2>3. UNCHANGED <<captureQueu, shot, uvc, capture, captureFrame, delivered>>
    BY DEF TakePreviewFrame, camera, calling
  <2>4. \A i \in 1..Len(previewFrames') : i + 1 \in 1..Len(previewFrames) /\ 1 < i + 1
    BY <2>2
  <2>5. 1 \in 1..Len(previewFrames) BY <2>2
  <2>6. previewFrame' # 0 => Older(previewFrame)'
    BY <2>2, <2>3, <2>5 DEF Order, Older
  <2>7. \A i \in 1..Len(previewFrames') :
           /\ Older(previewFrames[i])' /\ previewFrame' < previewFrames'[i]
           /\ previewFrames'[i] <= shot'
           /\ \A j \in 1..Len(previewFrames') : i < j => previewFrames'[i] < previewFrames'[j]
    <3> SUFFICES ASSUME NEW i \in 1..Len(previewFrames')
                 PROVE  /\ Older(previewFrames[i])' /\ previewFrame' < previewFrames'[i]
                        /\ previewFrames'[i] <= shot'
                        /\ \A j \in 1..Len(previewFrames') :
                               i < j => previewFrames'[i] < previewFrames'[j]
      OBVIOUS
    <3>1. previewFrames'[i] = previewFrames[i + 1] /\ i + 1 \in 1..Len(previewFrames) /\ 1 < i + 1
      BY <2>2, <2>4
    <3>2. Older(previewFrames[i + 1]) /\ previewFrames[i + 1] <= shot
      BY <3>1 DEF Order
    <3>3. previewFrames[1] < previewFrames[i + 1]
      BY <3>1, <2>5 DEF Order
    <3>4. ASSUME NEW j \in 1..Len(previewFrames'), i < j
          PROVE  previewFrames'[i] < previewFrames'[j]
      <4>1. previewFrames'[j] = previewFrames[j + 1] /\ j + 1 \in 1..Len(previewFrames) /\ i + 1 < j + 1
        BY <2>2, <2>4, <3>4
      <4> QED BY <3>1, <4>1 DEF Order
    <3> QED BY <2>2, <2>3, <3>1, <3>2, <3>3, <3>4 DEF Older
  <2>8. uvc' = "copy" => /\ Older(shot)' /\ previewFrame' < shot'
                         /\ \A i \in 1..Len(previewFrames') : previewFrames'[i] < shot'
    BY <2>2, <2>3, <2>4, <2>5 DEF Order, Older
  <2> QED BY <2>2, <2>3, <2>5, <2>6, <2>7, <2>8 DEF Order, Older
<1>2. CASE ~(mIsRunning /\ previewFrames # <<>>)
  BY <1>2 DEF TakePreviewFrame, Order, Older, flags, camera, calling
<1> QED BY <1>1, <1>2

LEMMA OrderStep ==
    ASSUME TypeOK, Lifecycle, Order, [Next]_vars
    PROVE  Order'
<1>1. CASE Uvc
  <2>1. CASE AddPreviewFrame
    BY <2>1, AddKeepsOrder, TakeKeepsOrder
  <2>2. CASE FrameArrives \/ DuplicateFails
    BY <2>2, EmptyIsSeq, WakesCapture, WakesFromWait, BoundAssumption DEF BoundAssumption,
        Older, Order, TypeOK, PicturesOK, PlacesOK, Lifecycle, FrameArrives, DuplicateFails,
        flags, queues, buffers, camera, drawing, calling, control
  <2> QED BY <1>1, <2>1, <2>2 DEF Uvc
<1>2. CASE Preview
  <2>1. CASE TakePreviewFrame
    BY <2>1, AddKeepsOrder, TakeKeepsOrder
  <2>2. CASE PreviewFails \/ StartStreaming \/ CreateCaptureThread \/ PreviewLoop
            \/ WaitPreviewFrame \/ Draw \/ Drawn \/ StopStreaming
    BY <2>2 DEF Older, Order, TypeOK, PicturesOK, PlacesOK, Lifecycle, PreviewFails,
        StartStreaming, CreateCaptureThread, PreviewLoop, WaitPreviewFrame, Draw, Drawn,
        StopStreaming, flags, queues, buffers, camera, drawing, calling, control
  <2>3. CASE ClearPreviewFrame \/ Decode
    BY <2>3, EmptyIsSeq DEF Older, Order, TypeOK, PicturesOK, ClearPreviewFrame, Decode,
        flags, queues, buffers, camera, drawing, calling, control
  <2>4. CASE AddCaptureFrame
    BY <2>4, WakesCapture, WakesFromWait DEF Older, Order, TypeOK, PicturesOK, PlacesOK,
        AddCaptureFrame, flags, queues, buffers, camera, drawing, calling, control
  <2>5. CASE LeavePreview
    BY <2>5, WakesCapture, WakesFromWait DEF Older, Order, TypeOK, PicturesOK, PlacesOK,
        LeavePreview, Signal, flags, queues, buffers, camera, drawing, calling, control
  <2> QED BY <1>2, <2>1, <2>2, <2>3, <2>4, <2>5 DEF Preview
<1>3. CASE Capture
  <2>1. CASE BeginCapture \/ OuterLoop \/ Arm \/ InnerLoop \/ WaitCaptureFrame
    BY <2>1, EmptyIsSeq, WakesCapture, WakesFromWait
    DEF Older, Order, TypeOK, PicturesOK, BeginCapture, OuterLoop, Arm, InnerLoop,
        WaitCaptureFrame, SetterAfter, flags, queues, camera, drawing, control
  <2>2. CASE TakeCaptureFrame
    BY <2>2, EmptyIsSeq DEF Older, Order, TypeOK, PicturesOK, PlacesOK, TakeCaptureFrame,
        flags, camera, drawing, control
  <2>3. CASE TestCallback \/ Convert
    <3>1. /\ captureFrame' \in {0, captureFrame} /\ capture' # "inside" /\ capture # "inside"
          /\ UNCHANGED <<queues, camera, drawing, delivered>>
      BY <2>3 DEF TestCallback, Convert, control
    <3> QED BY <3>1 DEF Older, Order, TypeOK, PicturesOK, queues, camera, drawing
  <2>4. CASE CallBack \/ Return
    BY <2>4, EmptyIsSeq, BoundAssumption DEF BoundAssumption, Older, Order, TypeOK,
        PicturesOK, PlacesOK, CallBack, Return, flags, queues, camera, drawing, control
  <2> QED BY <1>3, <2>1, <2>2, <2>3, <2>4 DEF Capture
<1>4. CASE Calls
  BY <1>4, EmptyIsSeq, WakesCapture, WakesFromWait, BoundAssumption DEF BoundAssumption,
      Older, Order, TypeOK, PicturesOK, PlacesOK, Lifecycle, Calls, SetPreviewDisplay,
      StartPreview, StopBegins, SetCallbackSignals, MaySet, Public, SwapsAfter,
      SetCallbackAtOnce, Wanted, AfterSet, flags, queues, buffers, camera, drawing, calling,
      control
<1>5. CASE Stop
  <2>1. CASE EmptyQueues
    BY <2>1, EmptyIsSeq, BoundAssumption DEF BoundAssumption, Older, Order, TypeOK,
        PicturesOK, PlacesOK, Lifecycle, EmptyQueues, camera, drawing, calling
  <2>2. CASE RefuseStart \/ StopRunning \/ WakePreview \/ WakeCapture \/ JoinCapture
             \/ JoinPreview
    BY <2>2, WakesCapture, WakesFromWait DEF Older, Order, TypeOK, PicturesOK, PlacesOK,
        RefuseStart, StopRunning, WakePreview, WakeCapture, Signal, JoinCapture, JoinPreview,
        flags, queues, camera, drawing, calling
  <2> QED BY <1>5, <2>1, <2>2 DEF Stop
<1>6. ASSUME NEW t \in Callers, Set(t) PROVE Order'
  BY <1>6, EmptyIsSeq, WakesCapture, WakesFromWait, BoundAssumption DEF BoundAssumption,
      Older, Order, TypeOK, PicturesOK, PlacesOK, Lifecycle, Set, SetCallbackWaits,
      ReplaceCallback, Wanted, AfterSet, flags, queues, buffers, camera, drawing, calling,
      control
<1>7. CASE UNCHANGED vars
  BY <1>7 DEF Order, Older, vars, flags, queues, buffers, camera, drawing, calling, control
<1> QED BY <1>1, <1>2, <1>3, <1>4, <1>5, <1>6, <1>7 DEF Next

-----------------------------------------------------------------------------
(* The theorems. *)

IInv == TypeOK /\ Lifecycle /\ Accounted /\ Order

LEMMA InitIInv == Init => IInv
<1> SUFFICES ASSUME Init PROVE IInv OBVIOUS
<1>1. TypeOK
  <2>1. PlacesOK BY DEF Init, PlacesOK
  <2>2. FlagsOK BY DEF Init, FlagsOK
  <2>3. PicturesOK
    BY EmptyIsSeq, FrameAssumption, BoundAssumption
    DEF Init, PicturesOK, FrameAssumption, BoundAssumption
  <2>4. mFramePool \in 0..FramePoolSize /\ live \in Int /\ swaps \in 0..MaxSwaps
    BY FrameAssumption, BoundAssumption DEF Init, FramePoolSize, FrameAssumption, BoundAssumption
  <2> QED BY <2>1, <2>2, <2>3, <2>4 DEF TypeOK
<1>2. Lifecycle BY DEF Init, Lifecycle
<1>3. Accounted
  <2>1. InQueues = 0 BY EmptyIsSeq DEF Init, InQueues
  <2>2. InUvc = 0 /\ InPreview = 0 /\ InCapture = 0
    BY DEF Init, InUvc, InPreview, InCapture
  <2>3. mFramePool = 0 /\ live = 0 BY DEF Init
  <2>4. InUse = 0 BY <2>1, <2>2 DEF InUse
  <2> QED BY <2>3, <2>4 DEF Accounted, Lost
<1>4. Order BY EmptyIsSeq DEF Init, Order, Older
<1> QED BY <1>1, <1>2, <1>3, <1>4 DEF IInv

LEMMA NextIInv == IInv /\ [Next]_vars => IInv'
BY TypeStep, LifecycleStep, AccountedStep, OrderStep DEF IInv

LEMMA Invariance == Spec => []IInv
BY InitIInv, NextIInv, PTL DEF Spec

\* Every variable keeps its type, the queue its bound and the pool its size.
THEOREM TypeCorrect == Spec => []TypeOK
<1>1. IInv => TypeOK BY DEF IInv
<1> QED BY Invariance, <1>1, PTL

\* At most one buffer is lost by a whole preview, and none while it runs; no buffer is
\* ever in two places.
THEOREM BuffersSafe == Spec => []BuffersAccounted
<1>1. IInv => BuffersAccounted
  BY DEF IInv, Accounted, BuffersAccounted
<1> QED BY Invariance, <1>1, PTL

\* stopPreview returns only when the threads have ended, unless it came before the
\* capture thread was created.
THEOREM StopSafe == Spec => []StopEndsThreads
<1>1. IInv => StopEndsThreads
  BY DEF IInv, Lifecycle, StopEndsThreads
<1> QED BY Invariance, <1>1, PTL

\* The preview implements FrameHandoff: every picture at most once, in the order of
\* the camera, none after the stop has returned.
THEOREM HandoffSafe == Spec => HandsOffInOrder
<1>1. Init => Handoff!Init
  BY DEF Init, Handoff!Init
<1>2. IInv /\ [Next]_vars => [Handoff!Next]_<<shot, delivered, calls, api # "stopped">>
  <2> SUFFICES ASSUME IInv, [Next]_vars
               PROVE  Handoff!Next \/ UNCHANGED <<shot, delivered, calls, api # "stopped">>
    OBVIOUS
  <2>1. TypeOK /\ Lifecycle /\ Order BY DEF IInv
  <2>2. delivered \in Nat /\ shot \in Nat /\ captureFrame \in Nat
    BY <2>1, BoundAssumption DEF TypeOK, PicturesOK, BoundAssumption
  <2>3. CASE FrameArrives
    BY <2>1, <2>3 DEF FrameArrives, Lifecycle, Handoff!Next, Handoff!Take, calling, control
  <2>4. CASE CallBack
    <3>1. delivered < captureFrame /\ captureFrame <= shot
      BY <2>1, <2>4 DEF CallBack, Order, TypeOK, PicturesOK
    <3>2. delivered' \in (delivered + 1)..shot BY <2>2, <2>4, <3>1 DEF CallBack
    <3> QED
      BY <2>1, <2>4, <3>2 DEF CallBack, Lifecycle, Handoff!Next, Handoff!Give, camera, control
  <2>5. CASE EmptyQueues
    BY <2>1, <2>5 DEF EmptyQueues, Handoff!Next, Handoff!Close, camera, calling
  <2>6. CASE Next /\ ~FrameArrives /\ ~CallBack /\ ~EmptyQueues
    BY <2>6
    DEF Next, Uvc, Preview, Capture, Calls, Stop, Set, MaySet, AfterSet, DuplicateFails,
        AddPreviewFrame, PreviewFails, StartStreaming, ClearPreviewFrame, CreateCaptureThread,
        PreviewLoop, WaitPreviewFrame, TakePreviewFrame, Decode, Draw, Drawn, AddCaptureFrame,
        LeavePreview, StopStreaming, BeginCapture, OuterLoop, Arm, InnerLoop,
        WaitCaptureFrame, TakeCaptureFrame, TestCallback, Convert, Return, SetPreviewDisplay,
        StartPreview, StopBegins, SetCallbackSignals, SetCallbackAtOnce, RefuseStart,
        StopRunning, WakePreview, WakeCapture, JoinCapture, JoinPreview, SetCallbackWaits,
        ReplaceCallback, Signal, flags, queues, buffers, camera, drawing, calling, control
  <2>7. CASE UNCHANGED vars
    BY <2>7 DEF vars, camera, calling, control
  <2> QED BY <2>3, <2>4, <2>5, <2>6, <2>7
<1> QED BY <1>1, <1>2, Invariance, PTL DEF Spec, HandsOffInOrder, Handoff!Spec

-----------------------------------------------------------------------------
(* No wake-up is lost. *)

\* Whoever adds a picture to a queue wakes the thread that waits for it.
NoLostWakeUp ==
    /\ capture = "waiting" => captureQueu = 0
    /\ preview = "waiting" => previewFrames = <<>>

LEMMA InitWakeUp == Init => NoLostWakeUp
BY DEF Init, NoLostWakeUp

\* A signal or a broadcast lets nobody begin to wait.
LEMMA WakesNoWaiter ==
    ASSUME NEW S
    PROVE  CaptureAfter(S) = "waiting" => capture = "waiting"
BY DEF CaptureAfter

\* A broadcast of addCaptureFrame leaves the capture thread no longer waiting.
LEMMA BroadcastWakes == CaptureAfter(Waiting) # "waiting"
BY DEF CaptureAfter, Waiting, Callers

LEMMA NextWakeUp == ASSUME NoLostWakeUp, [Next]_vars PROVE NoLostWakeUp'
<1> USE DEF NoLostWakeUp, flags, queues, buffers, camera, drawing, calling, control
<1>1. CASE Uvc
  BY <1>1 DEF Uvc, FrameArrives, DuplicateFails, AddPreviewFrame
<1>2. CASE Preview
  <2>1. CASE AddCaptureFrame
    BY <2>1, BroadcastWakes DEF AddCaptureFrame
  <2>2. CASE LeavePreview
    BY <2>2, WakesNoWaiter DEF LeavePreview, Signal
  <2>3. CASE \/ PreviewFails \/ StartStreaming \/ ClearPreviewFrame \/ CreateCaptureThread
             \/ PreviewLoop \/ WaitPreviewFrame \/ TakePreviewFrame \/ Decode \/ Draw \/ Drawn
             \/ StopStreaming
    BY <2>3
    DEF PreviewFails, StartStreaming, ClearPreviewFrame, CreateCaptureThread, PreviewLoop,
        WaitPreviewFrame, TakePreviewFrame, Decode, Draw, Drawn, StopStreaming
  <2> QED BY <1>2, <2>1, <2>2, <2>3 DEF Preview
<1>3. CASE Capture
  BY <1>3
  DEF Capture, BeginCapture, OuterLoop, Arm, InnerLoop, WaitCaptureFrame, TakeCaptureFrame,
      TestCallback, Convert, CallBack, Return
<1>4. CASE Calls
  BY <1>4, WakesNoWaiter
  DEF Calls, SetPreviewDisplay, StartPreview, StopBegins, SetCallbackSignals,
      SetCallbackAtOnce
<1>5. CASE Stop
  BY <1>5, WakesNoWaiter
  DEF Stop, RefuseStart, StopRunning, WakePreview, WakeCapture, Signal, JoinCapture,
      JoinPreview, EmptyQueues
<1>6. ASSUME NEW t \in Callers, Set(t) PROVE NoLostWakeUp'
  BY <1>6 DEF Set, SetCallbackWaits, ReplaceCallback
<1>7. CASE UNCHANGED vars
  BY <1>7 DEF vars
<1> QED BY <1>1, <1>2, <1>3, <1>4, <1>5, <1>6, <1>7 DEF Next

\* Neither queue has a picture while its thread waits for one: no signal of addPreviewFrame
\* and no broadcast of addCaptureFrame comes between a test and its wait, even though
\* setFrameCallback waits on the same condition variable and others signal it without the
\* mutex.  So PictureIsServed rests on nothing but that the threads run.
THEOREM WakeUpsArrive == Spec => []NoLostWakeUp
BY InitWakeUp, NextWakeUp, PTL DEF Spec
=============================================================================
