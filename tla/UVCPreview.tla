----------------------------- MODULE UVCPreview -----------------------------
(***************************************************************************)
(* The preview of the USB camera (UVCPreview.cpp): how a picture gets from *)
(* the callback of libuvc to the Java callback that looks for the lane.    *)
(*                                                                         *)
(*   uvc      libuvc's thread copies the picture into previewFrames        *)
(*   preview  takes it from there, decodes and draws it, and leaves it in  *)
(*            captureQueu, which keeps only the latest                     *)
(*   capture  takes it from there and calls the Java callback with it      *)
(*   api, ui  the two Java threads: api starts and stops the preview (its  *)
(*            Java methods are synchronized), and both may change the      *)
(*            callback (that method is not)                                *)
(*                                                                         *)
(* The two queues have a mutex and a condition variable each; what a       *)
(* thread does under a mutex is one step.  mIsRunning and mIsCapturing are *)
(* read and written without one.  The model is of one UVCPreview object as *)
(* the app uses it: started once, in the MJPEG mode, with a converting     *)
(* callback and without a capture window.  A picture is its number; the    *)
(* buffers it is in are only counted.                                      *)
(***************************************************************************)
EXTENDS Integers, Sequences

CONSTANTS
    MaxFrame,   \* MAX_FRAME: the longest previewFrames
    MaxShots,   \* bound: the pictures the camera takes
    MaxSwaps    \* bound: how often a page changes the callback

ASSUME FrameAssumption == MaxFrame \in Nat \ {0}
ASSUME BoundAssumption == MaxShots \in Nat /\ MaxSwaps \in Nat

FramePoolSize == MaxFrame + 2   \* FRAME_POOL_SZ

VARIABLES
    mIsRunning,         \* mIsRunning
    mIsCapturing,       \* mIsCapturing
    mPreviewWindow,     \* mPreviewWindow is set
    mFrameCallbackObj,  \* whose callback is set, "null" for none
    previewFrames,      \* previewFrames: pictures to draw
    captureQueu,        \* captureQueu: the picture to call back with, 0 for none
    mFramePool,         \* how many free buffers are in mFramePool
    live,               \* how many buffers are allocated
    shot,               \* the pictures the camera has taken
    streaming,          \* libuvc's stream is started
    uvc,                \* uvc's place
    preview,            \* preview's place
    previewFrame,       \* the picture preview has in hand, 0 for none
    capture,            \* capture's place
    captureFrame,       \* the picture capture has in hand, 0 for none
    api,                \* how far start and stop have come
    setter,             \* for api and ui: its place in setFrameCallback
    swaps,              \* the calls of setFrameCallback by ui
    delivered,          \* history: the newest picture the Java callback was called with
    calls,              \* history: how often it was called
    unjoined            \* history: stopPreview joined before capture_thread was created

flags   == <<mIsRunning, mIsCapturing, mPreviewWindow, mFrameCallbackObj>>
queues  == <<previewFrames, captureQueu>>
buffers == <<mFramePool, live>>
camera  == <<shot, streaming, uvc>>
drawing == <<preview, previewFrame>>
calling == <<capture, captureFrame, delivered, calls>>
control == <<api, setter, swaps, unjoined>>
vars == <<flags, queues, buffers, camera, drawing, calling, control>>

Callers == {"api", "ui"}

-----------------------------------------------------------------------------
(* The buffers. *)

\* get_frame: a free buffer from the pool, or a new one.
GetFrame ==
    IF mFramePool > 0
    THEN mFramePool' = mFramePool - 1 /\ UNCHANGED live
    ELSE live' = live + 1 /\ UNCHANGED mFramePool

\* recycle_frame, for n buffers: to the pool as long as there is room, then freed.
RecycleUnbounded(n) == mFramePool' = mFramePool + n /\ UNCHANGED live
Recycle(n) ==
    LET room == FramePoolSize - mFramePool
        kept == IF n <= room THEN n ELSE room
    IN  mFramePool' = mFramePool + kept /\ live' = live - (n - kept)

(* capture_mutex, which only a setter holds for more than one step, and its condition *)
(* variable, which the setters and the capture thread wait on.                         *)

CaptureMutexFree == \A t \in Callers : setter[t] # "holding"

Waiting == {t \in Callers : setter[t] = "waiting"}
               \cup (IF capture = "waiting" THEN {"capture"} ELSE {})

\* The places of those who wait after the threads in S were woken.
SetterAfter(S)  == [t \in Callers |-> IF t \in S THEN "woken" ELSE setter[t]]
CaptureAfter(S) == IF "capture" \in S THEN "woken" ELSE capture

\* pthread_cond_signal wakes one of them if there is one, pthread_cond_broadcast all.
Signalled == IF Waiting = {} THEN {{}} ELSE {{t} : t \in Waiting}
Signal == \E S \in Signalled : setter' = SetterAfter(S) /\ capture' = CaptureAfter(S)

-----------------------------------------------------------------------------
Init ==
    /\ mIsRunning = FALSE /\ mIsCapturing = FALSE
    /\ mPreviewWindow = FALSE /\ mFrameCallbackObj = "null"
    /\ previewFrames = <<>> /\ captureQueu = 0
    /\ mFramePool = 0 /\ live = 0
    /\ shot = 0 /\ streaming = FALSE /\ uvc = "idle"
    /\ preview = "none" /\ previewFrame = 0
    /\ capture = "none" /\ captureFrame = 0
    /\ api = "fresh" /\ setter = [t \in Callers |-> "free"] /\ swaps = 0
    /\ delivered = 0 /\ calls = 0 /\ unjoined = FALSE

(* The callback of libuvc. *)

\* uvc_preview_frame_callback drops a picture that is broken or comes while the
\* preview is not running, and gets a buffer for any other.
FrameArrives ==
    /\ streaming /\ uvc = "idle" /\ shot < MaxShots
    /\ shot' = shot + 1
    /\ \/ uvc' = "idle" /\ UNCHANGED buffers
       \/ mIsRunning /\ uvc' = "copy" /\ GetFrame
    /\ UNCHANGED <<flags, queues, streaming, drawing, calling, control>>

DuplicateFails ==
    /\ uvc = "copy"
    /\ uvc' = "idle" /\ Recycle(1)
    /\ UNCHANGED <<flags, queues, shot, streaming, drawing, calling, control>>

\* addPreviewFrame: the newest picture goes when there are MaxFrame of them.
AddPreviewFrame ==
    /\ uvc = "copy"
    /\ uvc' = "idle"
    /\ IF mIsRunning /\ Len(previewFrames) < MaxFrame
       THEN /\ previewFrames' = Append(previewFrames, shot)
            /\ preview' = IF preview = "waiting" THEN "woken" ELSE preview
            /\ UNCHANGED buffers
       ELSE Recycle(1) /\ UNCHANGED <<previewFrames, preview>>
    /\ UNCHANGED <<flags, captureQueu, shot, streaming, previewFrame, calling, control>>

(* The preview thread. *)

\* The negotiation or the start of the stream fails: the thread ends, and
\* mIsRunning stays set.
PreviewFails ==
    /\ preview = "prepare"
    /\ preview' = "done"
    /\ UNCHANGED <<flags, queues, buffers, camera, previewFrame, calling, control>>

StartStreaming ==
    /\ preview = "prepare"
    /\ preview' = "clear" /\ streaming' = TRUE
    /\ UNCHANGED <<flags, queues, buffers, shot, uvc, previewFrame, calling, control>>

\* clearPreviewFrame, with the stream already delivering.
ClearPreviewFrame ==
    /\ preview = "clear"
    /\ preview' = "spawn"
    /\ Recycle(Len(previewFrames)) /\ previewFrames' = <<>>
    /\ UNCHANGED <<flags, captureQueu, camera, previewFrame, calling, control>>

CreateCaptureThread ==
    /\ preview = "spawn"
    /\ preview' = "loop" /\ capture' = "begin"
    /\ UNCHANGED <<flags, queues, buffers, camera, previewFrame, captureFrame, delivered,
                   calls,
                   control>>

\* The loop of do_preview reads mIsRunning without the mutex.
PreviewLoop ==
    /\ preview = "loop"
    /\ preview' = IF mIsRunning THEN "enter" ELSE "leave"
    /\ UNCHANGED <<flags, queues, buffers, camera, previewFrame, calling, control>>

\* waitPreviewFrame waits at most once, whatever it is woken for.
WaitPreviewFrame ==
    /\ preview = "enter" /\ previewFrames = <<>>
    /\ preview' = "waiting"
    /\ UNCHANGED <<flags, queues, buffers, camera, previewFrame, calling, control>>

\* The oldest picture, if there is one, and a buffer to decode it into.
TakePreviewFrameNewest ==
    /\ preview = "woken" \/ (preview = "enter" /\ previewFrames # <<>>)
    /\ IF mIsRunning /\ previewFrames # <<>>
       THEN /\ previewFrame' = previewFrames[Len(previewFrames)]
            /\ previewFrames' = SubSeq(previewFrames, 1, Len(previewFrames) - 1)
            /\ preview' = "decode" /\ GetFrame
       ELSE preview' = "loop" /\ UNCHANGED <<previewFrames, previewFrame, buffers>>
    /\ UNCHANGED <<flags, captureQueu, camera, calling, control>>
TakePreviewFrame ==
    /\ preview = "woken" \/ (preview = "enter" /\ previewFrames # <<>>)
    /\ IF mIsRunning /\ previewFrames # <<>>
       THEN /\ previewFrame' = Head(previewFrames) /\ previewFrames' = Tail(previewFrames)
            /\ preview' = "decode" /\ GetFrame
       ELSE preview' = "loop" /\ UNCHANGED <<previewFrames, previewFrame, buffers>>
    /\ UNCHANGED <<flags, captureQueu, camera, calling, control>>

\* uvc_mjpeg2yuyv.  A picture that cannot be decoded is dropped.
DecodeKeepsSource ==
    /\ preview = "decode"
    /\ \/ preview' = "draw" /\ UNCHANGED <<previewFrame, buffers>>
       \/ preview' = "loop" /\ previewFrame' = 0 /\ Recycle(2)
    /\ UNCHANGED <<flags, queues, camera, calling, control>>
Decode ==
    /\ preview = "decode"
    /\ \/ preview' = "draw" /\ UNCHANGED previewFrame /\ Recycle(1)
       \/ preview' = "loop" /\ previewFrame' = 0 /\ Recycle(2)
    /\ UNCHANGED <<flags, queues, camera, calling, control>>

\* draw_preview_one gets a second buffer when there is a window, and returns the
\* first one, whether the conversion succeeds or not.
Draw ==
    /\ preview = "draw"
    /\ IF mPreviewWindow THEN preview' = "drawn" /\ GetFrame
                         ELSE preview' = "queue" /\ UNCHANGED buffers
    /\ UNCHANGED <<flags, queues, camera, previewFrame, calling, control>>

Drawn ==
    /\ preview = "drawn"
    /\ preview' = "queue" /\ Recycle(1)
    /\ UNCHANGED <<flags, queues, camera, previewFrame, calling, control>>

\* addCaptureFrame.  When the preview no longer runs, the buffer is neither kept
\* nor recycled.
AddCaptureFrameSilently ==
    /\ preview = "queue" /\ CaptureMutexFree
    /\ preview' = "loop" /\ previewFrame' = 0
    /\ IF mIsRunning
       THEN /\ Recycle(IF captureQueu = 0 THEN 0 ELSE 1)
            /\ captureQueu' = previewFrame
       ELSE UNCHANGED <<buffers, captureQueu>>
    /\ UNCHANGED <<flags, previewFrames, camera, calling, control>>
AddCaptureFrame ==
    /\ preview = "queue" /\ CaptureMutexFree
    /\ preview' = "loop" /\ previewFrame' = 0
    /\ IF mIsRunning
       THEN /\ Recycle(IF captureQueu = 0 THEN 0 ELSE 1)
            /\ captureQueu' = previewFrame
            /\ setter' = SetterAfter(Waiting) /\ capture' = CaptureAfter(Waiting)
       ELSE UNCHANGED <<buffers, captureQueu, setter, capture>>
    /\ UNCHANGED <<flags, previewFrames, camera, captureFrame, delivered, calls, api, swaps,
                   unjoined>>

\* The end of do_preview: a signal to the capture thread, then uvc_stop_streaming,
\* which returns when the callback of libuvc has.
LeavePreview ==
    /\ preview = "leave"
    /\ preview' = "close" /\ Signal
    /\ UNCHANGED <<flags, queues, buffers, camera, previewFrame, captureFrame, delivered,
                   calls,
                   api, swaps, unjoined>>

StopStreaming ==
    /\ preview = "close" /\ uvc = "idle"
    /\ preview' = "done" /\ streaming' = FALSE
    /\ UNCHANGED <<flags, queues, buffers, shot, uvc, previewFrame, calling, control>>

(* The capture thread. *)

\* do_capture first empties the queue.
BeginCapture ==
    /\ capture = "begin" /\ CaptureMutexFree
    /\ capture' = "outer"
    /\ Recycle(IF captureQueu = 0 THEN 0 ELSE 1) /\ captureQueu' = 0
    /\ UNCHANGED <<flags, previewFrames, camera, drawing, captureFrame, delivered, calls,
                   control>>

\* The loop of do_capture.
OuterLoopForever ==
    /\ capture = "outer"
    /\ capture' = "arm"
    /\ UNCHANGED <<flags, queues, buffers, camera, drawing, captureFrame, delivered, calls,
                   control>>
OuterLoop ==
    /\ capture = "outer"
    /\ capture' = IF mIsRunning THEN "arm" ELSE "done"
    /\ UNCHANGED <<flags, queues, buffers, camera, drawing, captureFrame, delivered, calls,
                   control>>

Arm ==
    /\ capture = "arm"
    /\ capture' = "inner" /\ mIsCapturing' = TRUE
    /\ UNCHANGED <<mIsRunning, mPreviewWindow, mFrameCallbackObj, queues, buffers, camera,
                   drawing, captureFrame, delivered, calls, control>>

\* The loop of do_capture_idle_loop; after it do_capture wakes every waiter.
InnerLoop ==
    /\ capture = "inner"
    /\ IF mIsRunning /\ mIsCapturing
       THEN capture' = "enter" /\ UNCHANGED setter
       ELSE capture' = "outer" /\ setter' = SetterAfter(Waiting)
    /\ UNCHANGED <<flags, queues, buffers, camera, drawing, captureFrame, delivered, calls,
                   api,
                   swaps, unjoined>>

WaitCaptureFrame ==
    /\ capture = "enter" /\ captureQueu = 0 /\ CaptureMutexFree
    /\ capture' = "waiting"
    /\ UNCHANGED <<flags, queues, buffers, camera, drawing, captureFrame, delivered, calls,
                   control>>

TakeCaptureFrame ==
    /\ capture = "woken" \/ (capture = "enter" /\ captureQueu # 0)
    /\ CaptureMutexFree
    /\ IF mIsRunning /\ captureQueu # 0
       THEN capture' = "test" /\ captureFrame' = captureQueu /\ captureQueu' = 0
       ELSE capture' = "inner" /\ UNCHANGED <<captureFrame, captureQueu>>
    /\ UNCHANGED <<flags, previewFrames, buffers, camera, drawing, delivered, calls, control>>

\* do_capture_callback: without a callback the buffer goes back at once, with one
\* the picture is converted into a second buffer.
TestCallback ==
    /\ capture = "test"
    /\ IF mFrameCallbackObj = "null"
       THEN capture' = "inner" /\ captureFrame' = 0 /\ Recycle(1)
       ELSE capture' = "convert" /\ UNCHANGED captureFrame /\ GetFrame
    /\ UNCHANGED <<flags, queues, camera, drawing, delivered, calls, control>>

Convert ==
    /\ capture = "convert"
    /\ \/ capture' = "call" /\ UNCHANGED captureFrame /\ Recycle(1)
       \/ capture' = "inner" /\ captureFrame' = 0 /\ Recycle(2)
    /\ UNCHANGED <<flags, queues, camera, drawing, delivered, calls, control>>

\* CallVoidMethod with the callback that is set now, which may be another one.
CallBack ==
    /\ capture = "call"
    /\ capture' = "inside" /\ delivered' = captureFrame /\ calls' = calls + 1
    /\ UNCHANGED <<flags, queues, buffers, camera, drawing, captureFrame, control>>

Return ==
    /\ capture = "inside"
    /\ capture' = "inner" /\ captureFrame' = 0 /\ Recycle(1)
    /\ UNCHANGED <<flags, queues, camera, drawing, delivered, calls, control>>

(* The Java threads. *)

SetPreviewDisplay ==
    /\ api = "fresh" /\ ~mPreviewWindow
    /\ mPreviewWindow' = TRUE
    /\ UNCHANGED <<mIsRunning, mIsCapturing, mFrameCallbackObj, queues, buffers, camera,
                   drawing, calling, control>>

\* startPreview sets mIsRunning first and takes it back when there is no window.
StartPreview ==
    /\ api = "fresh"
    /\ api' = IF mPreviewWindow THEN "started" ELSE "refuse"
    /\ mIsRunning' = TRUE
    /\ preview' = IF mPreviewWindow THEN "prepare" ELSE preview
    /\ UNCHANGED <<mIsCapturing, mPreviewWindow, mFrameCallbackObj, queues, buffers,
                   camera, previewFrame, calling, setter, swaps, unjoined>>

RefuseStart ==
    /\ api = "refuse"
    /\ api' = "fresh" /\ mIsRunning' = FALSE
    /\ UNCHANGED <<mIsCapturing, mPreviewWindow, mFrameCallbackObj, queues, buffers,
                   camera, drawing, calling, setter, swaps, unjoined>>

\* Java's stopPreview calls setFrameCallback(null), then the native one.
StopBegins ==
    /\ api = "public"
    /\ api' = "unset"
    /\ UNCHANGED <<flags, queues, buffers, camera, drawing, calling, setter, swaps,
                   unjoined>>

\* Who may call setFrameCallback, with what, and what the caller does next: the thread
\* that opened the camera sets its callback and then shows the camera to the pages,
\* whose callback replaces it.
Public == api \notin {"fresh", "refuse", "started", "stopped"}
MaySet(t) ==
    /\ setter[t] = "free"
    /\ IF t = "api" THEN api \in {"started", "unset"} ELSE Public /\ swaps < MaxSwaps
Wanted(t) == IF t = "api" /\ api = "unset" THEN "null" ELSE t
AfterSet(t) ==
    CASE t = "api" /\ api = "started" -> "public"
      [] t = "api" /\ api = "unset"   -> "signal"
      [] OTHER                        -> api
SwapsAfter(t) == IF t = "ui" THEN swaps + 1 ELSE swaps

\* setFrameCallback while pictures are called back: capturing is turned off and
\* somebody signalled, and then the caller waits once, without a condition to wait
\* for.  It has the mutex in between, but not all signals are sent with the mutex.
SetCallbackSignals(t) ==
    /\ CaptureMutexFree /\ MaySet(t)
    /\ mIsRunning /\ mIsCapturing /\ mFrameCallbackObj # "null"
    /\ mIsCapturing' = FALSE
    /\ \E S \in Signalled :
           /\ setter' = [SetterAfter(S) EXCEPT ![t] = "holding"]
           /\ capture' = CaptureAfter(S)
    /\ swaps' = SwapsAfter(t)
    /\ UNCHANGED <<mIsRunning, mPreviewWindow, mFrameCallbackObj, queues, buffers, camera,
                   drawing, captureFrame, delivered, calls, api, unjoined>>

SetCallbackWaits(t) ==
    /\ setter[t] = "holding"
    /\ setter' = [setter EXCEPT ![t] = "waiting"]
    /\ UNCHANGED <<flags, queues, buffers, camera, drawing, calling, api, swaps, unjoined>>

SetCallbackAtOnce(t) ==
    /\ CaptureMutexFree /\ MaySet(t)
    /\ ~(mIsRunning /\ mIsCapturing /\ mFrameCallbackObj # "null")
    /\ mIsCapturing' = (mIsCapturing /\ ~mIsRunning)
    /\ mFrameCallbackObj' = Wanted(t)
    /\ api' = AfterSet(t)
    /\ swaps' = SwapsAfter(t)
    /\ UNCHANGED <<mIsRunning, mPreviewWindow, queues, buffers, camera, drawing, calling,
                   setter, unjoined>>

\* The rest of setFrameCallback once the caller was woken.
ReplaceCallback(t) ==
    /\ CaptureMutexFree /\ setter[t] = "woken"
    /\ setter' = [setter EXCEPT ![t] = "free"]
    /\ mFrameCallbackObj' = Wanted(t)
    /\ api' = AfterSet(t)
    /\ UNCHANGED <<mIsRunning, mIsCapturing, mPreviewWindow, queues, buffers, camera,
                   drawing, calling, swaps, unjoined>>

\* stopPreview: the flag and two signals, all without a mutex.
StopRunning ==
    /\ api = "signal"
    /\ api' = "wakePreview" /\ mIsRunning' = FALSE
    /\ UNCHANGED <<mIsCapturing, mPreviewWindow, mFrameCallbackObj, queues, buffers,
                   camera, drawing, calling, setter, swaps, unjoined>>

WakePreview ==
    /\ api = "wakePreview"
    /\ api' = "wakeCapture"
    /\ preview' = IF preview = "waiting" THEN "woken" ELSE preview
    /\ UNCHANGED <<flags, queues, buffers, camera, previewFrame, calling, setter, swaps,
                   unjoined>>

WakeCapture ==
    /\ api = "wakeCapture"
    /\ api' = "joinCapture" /\ Signal
    /\ UNCHANGED <<flags, queues, buffers, camera, drawing, captureFrame, delivered, calls,
                   swaps,
                   unjoined>>

\* The join fails at once when capture_thread was never set.
JoinCapture ==
    /\ api = "joinCapture" /\ capture \in {"none", "done"}
    /\ api' = "joinPreview"
    /\ unjoined' = (capture = "none")
    /\ UNCHANGED <<flags, queues, buffers, camera, drawing, calling, setter, swaps>>

JoinPreviewSkipped ==
    /\ api = "joinPreview"
    /\ api' = "empty"
    /\ UNCHANGED <<flags, queues, buffers, camera, drawing, calling, setter, swaps,
                   unjoined>>
JoinPreview ==
    /\ api = "joinPreview" /\ preview = "done"
    /\ api' = "empty"
    /\ UNCHANGED <<flags, queues, buffers, camera, drawing, calling, setter, swaps,
                   unjoined>>

\* clearPreviewFrame, clearCaptureFrame and the release of the window.
EmptyQueues ==
    /\ api = "empty" /\ CaptureMutexFree
    /\ api' = "stopped"
    /\ Recycle(Len(previewFrames) + (IF captureQueu = 0 THEN 0 ELSE 1))
    /\ previewFrames' = <<>> /\ captureQueu' = 0
    /\ mPreviewWindow' = FALSE
    /\ UNCHANGED <<mIsRunning, mIsCapturing, mFrameCallbackObj, camera, drawing, calling,
                   setter, swaps, unjoined>>

-----------------------------------------------------------------------------
Uvc     == FrameArrives \/ DuplicateFails \/ AddPreviewFrame
Preview == \/ PreviewFails \/ StartStreaming \/ ClearPreviewFrame \/ CreateCaptureThread
           \/ PreviewLoop \/ WaitPreviewFrame \/ TakePreviewFrame \/ Decode \/ Draw \/ Drawn
           \/ AddCaptureFrame \/ LeavePreview \/ StopStreaming
Capture == \/ BeginCapture \/ OuterLoop \/ Arm \/ InnerLoop \/ WaitCaptureFrame
           \/ TakeCaptureFrame \/ TestCallback \/ Convert \/ CallBack \/ Return
Calls   == \/ SetPreviewDisplay \/ StartPreview \/ StopBegins
           \/ \E t \in Callers : SetCallbackSignals(t) \/ SetCallbackAtOnce(t)
Stop    == \/ RefuseStart \/ StopRunning \/ WakePreview \/ WakeCapture \/ JoinCapture
           \/ JoinPreview \/ EmptyQueues
Set(t)  == SetCallbackWaits(t) \/ ReplaceCallback(t)

Next == Uvc \/ Preview \/ Capture \/ Calls \/ Stop \/ \E t \in Callers : Set(t)

\* A thread that can go on does; the camera and the user need not.
Fairness ==
    /\ WF_vars(DuplicateFails \/ AddPreviewFrame)
    /\ WF_vars(Preview)
    /\ WF_vars(Capture)
    /\ WF_vars(Stop)
    /\ \A t \in Callers : WF_vars(Set(t))
Spec == Init /\ [][Next]_vars /\ Fairness
-----------------------------------------------------------------------------
\* The threads are where the code has a place for them.
PlacesOK ==
    /\ uvc \in {"idle", "copy"}
    /\ preview \in {"none", "prepare", "clear", "spawn", "loop", "enter", "waiting", "woken",
                    "decode", "draw", "drawn", "queue", "leave", "close", "done"}
    /\ capture \in {"none", "begin", "outer", "arm", "inner", "enter", "waiting", "woken",
                    "test", "convert", "call", "inside", "done"}
    /\ api \in {"fresh", "refuse", "started", "public", "unset", "signal", "wakePreview",
                "wakeCapture", "joinCapture", "joinPreview", "empty", "stopped"}
    /\ setter \in [Callers -> {"free", "holding", "waiting", "woken"}]

FlagsOK ==
    /\ mIsRunning \in BOOLEAN /\ mIsCapturing \in BOOLEAN /\ mPreviewWindow \in BOOLEAN
    /\ streaming \in BOOLEAN /\ unjoined \in BOOLEAN
    /\ mFrameCallbackObj \in Callers \cup {"null"}

\* Pictures have a number; a thread has one in hand exactly where the code does.
PicturesOK ==
    /\ shot \in 0..MaxShots /\ (uvc = "copy" => shot # 0)
    /\ previewFrames \in Seq(Nat \ {0}) /\ Len(previewFrames) <= MaxFrame
    /\ previewFrame \in Nat
    /\ previewFrame # 0 <=> preview \in {"decode", "draw", "drawn", "queue"}
    /\ captureQueu \in Nat
    /\ captureFrame \in Nat
    /\ captureFrame # 0 <=> capture \in {"test", "convert", "call", "inside"}
    /\ delivered \in Nat /\ calls \in Nat

\* Every variable has its type: the queue is no longer than MAX_FRAME, the pool no
\* larger than FRAME_POOL_SZ.
TypeOK ==
    /\ PlacesOK /\ FlagsOK /\ PicturesOK
    /\ mFramePool \in 0..FramePoolSize /\ live \in Int
    /\ swaps \in 0..MaxSwaps

\* The buffers in the queues and in the hands of the threads.
InQueues  == Len(previewFrames) + (IF captureQueu = 0 THEN 0 ELSE 1)
InUvc     == IF uvc = "copy" THEN 1 ELSE 0
InPreview == IF preview \in {"decode", "drawn"} THEN 2
             ELSE IF preview \in {"draw", "queue"} THEN 1 ELSE 0
InCapture == IF capture = "convert" THEN 2
             ELSE IF capture \in {"test", "call", "inside"} THEN 1 ELSE 0
InUse == InQueues + InUvc + InPreview + InCapture
Lost  == live - mFramePool - InUse

\* No buffer is in two places, and the only one that is ever lost is the one
\* addCaptureFrame drops when the preview was stopped while a picture was drawn: one
\* for a whole preview, however the threads interleave.
BuffersAccounted == Lost \in 0..(IF mIsRunning THEN 0 ELSE 1)

\* When stopPreview has returned, libuvc's callback and both threads have ended, so
\* that the object may be deleted.  The exception is a stop that came before the
\* preview thread had created the capture thread, which it joins with an id that
\* was never set.
StopEndsThreads ==
    api \in {"empty", "stopped"} =>
        /\ preview \in {"none", "done"} /\ ~streaming /\ uvc = "idle"
        /\ unjoined \/ capture = "done"

\* A picture left for the capture thread is taken or replaced by a newer one, unless
\* the preview is stopped: no broadcast of addCaptureFrame comes too early for the
\* thread that tests the queue and then waits.
PictureIsServed ==
    \A s \in 1..MaxShots : captureQueu = s ~> (captureQueu # s \/ ~mIsRunning)

\* Once the flag is cleared, stopPreview returns, unless the preview or the capture
\* thread waits for a picture: a thread that tested the flag before it was cleared
\* and waits after the signal is the only thing the stop can hang on.
StopHangsOnlyOnWait ==
    api = "joinCapture" ~> (api = "stopped" \/ preview = "waiting" \/ capture = "waiting")

\* The receiver of the pictures is served as FrameHandoff says: every picture at most
\* once, in the order of the camera, and none after the stop has returned.
Handoff == INSTANCE FrameHandoff WITH
    taken <- shot, given <- delivered, open <- api # "stopped"
HandsOffInOrder == Handoff!Spec

\* The comment in setFrameCallback says that it waits for "finishing capturing": when
\* the wait is over, no picture is on its way to the callback that is replaced.
FinishedCapturing ==
    \A t \in Callers : setter[t] = "woken" => capture \notin {"convert", "call", "inside"}
=============================================================================
