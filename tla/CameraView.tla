------------------------------ MODULE CameraView ------------------------------
(***************************************************************************)
(* The view of the phone's own camera: CameraBridgeViewBase, the base      *)
(* class that starts and stops with its surface, and CVCameraWrapper, that *)
(* connects the camera and follows the lane.                               *)
(*                                                                         *)
(*   ui      the main thread: enables, disables and resizes the view, and  *)
(*           in doing so connects and disconnects the camera               *)
(*   camera  the callbacks of the camera service, on a thread of each      *)
(*           connection                                                    *)
(*   image   onImageAvailable, on another thread of each connection        *)
(*   worker  CameraWorker, which gives the pictures to onCameraFrame       *)
(*   task    DetectLaneTask, started by onCameraFrame                      *)
(*                                                                         *)
(* Two buffers lie between image and worker: one is written under the      *)
(* wrapper's monitor, the other is read without it.  What a thread does    *)
(* under the monitor is one step.  Neither the camera's callbacks nor the  *)
(* task know that the view was stopped.                                    *)
(***************************************************************************)
EXTENDS Integers

CONSTANTS
    MaxConnects,    \* bound: how often the camera is connected
    MaxShots        \* bound: the pictures of one connection

ASSUME BoundsAssumption == MaxConnects \in Nat /\ MaxShots \in Nat

Cameras == 1..MaxConnects

VARIABLES
    mEnabled,               \* mEnabled
    mSurfaceExist,          \* mSurfaceExist
    mState,                 \* mState
    ui,                     \* the main thread's place in checkCurrentState
    resized,                \* surfaceChanged has stopped the view to start it again
    mCameraFrameReady,      \* mCameraFrameReady
    mStopThread,            \* mStopThread
    mFrameChain,            \* the pictures in the two buffers of mFrameChain
    released,               \* the buffers are released, or not yet allocated
    mChainIdx,              \* mChainIdx: the buffer that is written
    worker,                 \* the worker's place
    hasFrame,               \* hasFrame
    frame,                  \* the picture that was in the buffer when its delivery began
    task,                   \* the task's place
    openCVWrapper,          \* openCVWrapper is not null
    connects,               \* the connections so far
    camera,                 \* what became of the camera of each connection
    mCameraDevice,          \* mCameraDevice: of which connection, 0 for null
    mCameraCaptureSession,  \* mCameraCaptureSession: of which connection, 0 for null
    shots,                  \* the pictures each camera has taken
    image,                  \* the picture each image thread has acquired, 0 for none
    given,                  \* history: the newest picture of each camera the listener got
    calls,                  \* history: how often the listener was given a picture
    early,                  \* history: connections ended before their session was configured
    crash                   \* who ended the process with a null pointer

view   == <<mEnabled, mSurfaceExist, mState, ui, resized>>
flags  == <<mCameraFrameReady, mStopThread>>
chain  == <<mFrameChain, released, mChainIdx>>
work   == <<worker, hasFrame, frame, given, calls>>
detect == <<task, openCVWrapper>>
device == <<connects, camera, mCameraDevice, mCameraCaptureSession, early>>
images == <<shots, image>>
vars   == <<view, flags, chain, work, detect, device, images, crash>>

Picture == [camera : 0..MaxConnects, number : 0..MaxShots]
NoPicture == [camera |-> 0, number |-> 0]

\* A null pointer ends the process, and with it every thread.
Alive == crash = "none"
UiAt(p) == Alive /\ ui = p
WorkerAt(p) == Alive /\ worker = p
TaskAt(p) == Alive /\ task = p

Wake(w) == IF w = "waiting" THEN "enter" ELSE w

\* The constructor has made a wrapper.
Init ==
    /\ mEnabled = FALSE /\ mSurfaceExist = FALSE /\ mState = "STOPPED"
    /\ ui = "idle" /\ resized = FALSE
    /\ mCameraFrameReady = FALSE /\ mStopThread = FALSE
    /\ mFrameChain = [i \in 0..1 |-> NoPicture] /\ released = TRUE /\ mChainIdx = 0
    /\ worker = "none" /\ hasFrame = FALSE /\ frame = NoPicture
    /\ task = "none" /\ openCVWrapper = TRUE
    /\ connects = 0 /\ camera = [c \in Cameras |-> "none"]
    /\ mCameraDevice = 0 /\ mCameraCaptureSession = 0
    /\ shots = [c \in Cameras |-> 0] /\ image = [c \in Cameras |-> 0]
    /\ given = [c \in Cameras |-> 0] /\ calls = 0
    /\ early = {} /\ crash = "none"

-----------------------------------------------------------------------------
(* The main thread: CameraBridgeViewBase. *)

\* checkCurrentState: what is left to do for the state these two ask for.
CheckCurrentState(enabled, exists) ==
    ui' = IF (enabled /\ exists) = (mState = "STARTED") THEN "idle"
          ELSE IF mState = "STARTED" THEN "stop" ELSE "initialize"

EnableView ==
    /\ UiAt("idle") /\ ~mEnabled
    /\ mEnabled' = TRUE
    /\ CheckCurrentState(TRUE, mSurfaceExist)
    /\ UNCHANGED <<mSurfaceExist, mState, resized, flags, chain, work, detect, device,
                   images, crash>>

DisableView ==
    /\ UiAt("idle") /\ mEnabled
    /\ mEnabled' = FALSE
    /\ CheckCurrentState(FALSE, mSurfaceExist)
    /\ UNCHANGED <<mSurfaceExist, mState, resized, flags, chain, work, detect, device,
                   images, crash>>

\* A new surface, or one of another size: the view is stopped and started again.
SurfaceChanged ==
    /\ UiAt("idle")
    /\ mSurfaceExist' = (~mSurfaceExist \/ mState = "STOPPED")
    /\ resized' = ~mSurfaceExist'
    /\ CheckCurrentState(mEnabled, mSurfaceExist')
    /\ UNCHANGED <<mEnabled, mState, flags, chain, work, detect, device, images, crash>>

SurfaceChangedAgain ==
    /\ UiAt("changed")
    /\ mSurfaceExist' = TRUE /\ resized' = FALSE
    /\ CheckCurrentState(mEnabled, TRUE)
    /\ UNCHANGED <<mEnabled, mState, flags, chain, work, detect, device, images, crash>>

SurfaceDestroyed ==
    /\ UiAt("idle") /\ mSurfaceExist
    /\ mSurfaceExist' = FALSE
    /\ CheckCurrentState(mEnabled, FALSE)
    /\ UNCHANGED <<mEnabled, mState, resized, flags, chain, work, detect, device, images,
                   crash>>

(* connectCamera and disconnectCamera. *)

\* initializeCamera, with new buffers; the connection's threads are created here.
InitializeCamera ==
    /\ UiAt("initialize") /\ connects < MaxConnects
    /\ ui' = "reset" /\ mState' = "STARTED"
    /\ connects' = connects + 1
    /\ mFrameChain' = [i \in 0..1 |-> NoPicture] /\ released' = FALSE
    /\ UNCHANGED <<mEnabled, mSurfaceExist, resized, flags, mChainIdx, work, detect, camera,
                   mCameraDevice, mCameraCaptureSession, early, images, crash>>

ResetOnlyStop ==
    /\ UiAt("reset")
    /\ ui' = "start" /\ mStopThread' = FALSE
    /\ UNCHANGED <<mEnabled, mSurfaceExist, mState, resized, mCameraFrameReady, chain, work,
                   detect, device, images, crash>>
ResetFlags ==
    /\ UiAt("reset")
    /\ ui' = "start"
    /\ mCameraFrameReady' = FALSE /\ mStopThread' = FALSE
    /\ UNCHANGED <<mEnabled, mSurfaceExist, mState, resized, chain, work, detect, device,
                   images, crash>>

StartThread ==
    /\ UiAt("start")
    /\ ui' = "tell" /\ worker' = "open"
    /\ UNCHANGED <<mEnabled, mSurfaceExist, mState, resized, flags, chain, hasFrame, frame,
                   given, calls, detect, device, images, crash>>

\* onCameraViewStarted makes a wrapper when there is none.
CameraViewStartedWithout ==
    /\ UiAt("tell")
    /\ ui' = "idle"
    /\ UNCHANGED <<mEnabled, mSurfaceExist, mState, resized, flags, chain, work, detect,
                   device, images, crash>>
CameraViewStarted ==
    /\ UiAt("tell")
    /\ ui' = "idle" /\ openCVWrapper' = TRUE
    /\ UNCHANGED <<mEnabled, mSurfaceExist, mState, resized, flags, chain, work, task,
                   device, images, crash>>

\* disconnectCamera sets the flag without the monitor and notifies with it.
StopThread ==
    /\ UiAt("stop")
    /\ ui' = "notify" /\ mStopThread' = TRUE
    /\ UNCHANGED <<mEnabled, mSurfaceExist, mState, resized, mCameraFrameReady, chain, work,
                   detect, device, images, crash>>

NotifyNobody ==
    /\ UiAt("notify")
    /\ ui' = "join"
    /\ UNCHANGED <<mEnabled, mSurfaceExist, mState, resized, flags, chain, work, detect,
                   device, images, crash>>
Notify ==
    /\ UiAt("notify")
    /\ ui' = "join" /\ worker' = Wake(worker)
    /\ UNCHANGED <<mEnabled, mSurfaceExist, mState, resized, flags, chain, hasFrame, frame,
                   given, calls, detect, device, images, crash>>

Join ==
    /\ UiAt("join") /\ WorkerAt("done")
    /\ ui' = "release"
    /\ UNCHANGED <<mEnabled, mSurfaceExist, mState, resized, flags, chain, work, detect,
                   device, images, crash>>

\* releaseCamera: the session that is set now, with its device, and the buffers.
ReleaseSession ==
    /\ UiAt("release")
    /\ ui' = "clear"
    /\ mCameraCaptureSession' = 0 /\ released' = TRUE
    /\ early' = IF mCameraCaptureSession = 0 THEN early \cup {connects} ELSE early
    /\ UNCHANGED <<mEnabled, mSurfaceExist, mState, resized, flags, mFrameChain, mChainIdx,
                   work, detect, connects, camera, mCameraDevice, images, crash>>
ReleaseCamera ==
    /\ UiAt("release")
    /\ ui' = "clear"
    /\ camera' = [c \in Cameras |->
                     IF c = mCameraCaptureSession THEN "closed" ELSE camera[c]]
    /\ mCameraCaptureSession' = 0
    /\ released' = TRUE
    /\ early' = IF camera[connects] \in {"opening", "opened"} THEN early \cup {connects}
                                                              ELSE early
    /\ UNCHANGED <<mEnabled, mSurfaceExist, mState, resized, flags, mFrameChain, mChainIdx,
                   work, detect, connects, mCameraDevice, images, crash>>

\* The end of disconnectCamera, and onCameraViewStopped.
CameraViewStopped ==
    /\ UiAt("clear")
    /\ ui' = IF resized THEN "changed" ELSE "idle"
    /\ mCameraFrameReady' = FALSE /\ mState' = "STOPPED" /\ openCVWrapper' = FALSE
    /\ UNCHANGED <<mEnabled, mSurfaceExist, resized, mStopThread, chain, work, task, device,
                   images, crash>>

\* setDetectParams and getOpenCVWrapper, called by the pages, make a wrapper too.
SetDetectParams ==
    /\ UiAt("idle") /\ ~openCVWrapper
    /\ openCVWrapper' = TRUE
    /\ UNCHANGED <<view, flags, chain, work, task, device, images, crash>>

-----------------------------------------------------------------------------
(* The camera service. *)

Opened(c) ==
    /\ Alive /\ camera[c] = "opening"
    /\ camera' = [camera EXCEPT ![c] = "opened"]
    /\ mCameraDevice' = c
    /\ UNCHANGED <<view, flags, chain, work, detect, connects, mCameraCaptureSession, early,
                   images, crash>>

Configured(c) ==
    /\ Alive /\ camera[c] = "opened" /\ mCameraDevice # 0
    /\ camera' = [camera EXCEPT ![c] = "streaming"]
    /\ mCameraCaptureSession' = c
    /\ UNCHANGED <<view, flags, chain, work, detect, connects, mCameraDevice, early, images,
                   crash>>

\* Another app takes the camera c away: onDisconnected closes the device that is set.
Disconnected(c) ==
    /\ Alive /\ camera[c] \in {"opened", "streaming"}
    /\ camera' = [d \in Cameras |-> IF d \in {c, mCameraDevice} THEN "closed" ELSE camera[d]]
    /\ mCameraDevice' = 0
    /\ UNCHANGED <<view, flags, chain, work, detect, connects, mCameraCaptureSession, early,
                   images, crash>>

(* The image threads: onImageAvailable. *)

AcquireImage(c) ==
    /\ Alive /\ camera[c] = "streaming" /\ image[c] = 0 /\ shots[c] < MaxShots
    /\ shots' = [shots EXCEPT ![c] = @ + 1]
    /\ image' = [image EXCEPT ![c] = shots[c] + 1]
    /\ UNCHANGED <<view, flags, chain, work, detect, device, crash>>

\* Under the monitor.  A released buffer takes nothing, and is ready none the less.
PutImageSilently(c) ==
    /\ Alive /\ image[c] # 0
    /\ image' = [image EXCEPT ![c] = 0]
    /\ mFrameChain' = IF released THEN mFrameChain
                      ELSE [mFrameChain EXCEPT ![mChainIdx] = [camera |-> c, number |-> image[c]]]
    /\ mCameraFrameReady' = TRUE
    /\ UNCHANGED <<view, mStopThread, released, mChainIdx, work, detect, device, shots, crash>>
PutImage(c) ==
    /\ Alive /\ image[c] # 0
    /\ image' = [image EXCEPT ![c] = 0]
    /\ mFrameChain' = IF released THEN mFrameChain
                      ELSE [mFrameChain EXCEPT ![mChainIdx] = [camera |-> c, number |-> image[c]]]
    /\ mCameraFrameReady' = TRUE
    /\ worker' = Wake(worker)
    /\ UNCHANGED <<view, mStopThread, released, mChainIdx, hasFrame, frame, given, calls, detect,
                   device, shots, crash>>

-----------------------------------------------------------------------------
(* CameraWorker. *)

\* openCamera2, which the camera may refuse.
OpenCamera ==
    /\ WorkerAt("open")
    /\ worker' = "enter"
    /\ \E r \in {"opening", "closed"} : camera' = [camera EXCEPT ![connects] = r]
    /\ UNCHANGED <<view, flags, chain, hasFrame, frame, given, calls, detect, connects,
                   mCameraDevice, mCameraCaptureSession, early, images, crash>>

WaitForFrame ==
    /\ WorkerAt("enter") /\ ~mCameraFrameReady /\ ~mStopThread
    /\ worker' = "waiting"
    /\ UNCHANGED <<view, flags, chain, hasFrame, frame, given, calls, detect, device, images,
                   crash>>

\* The buffers change places when there is a picture.
TakeFrameNext ==
    /\ WorkerAt("enter") /\ (mCameraFrameReady \/ mStopThread)
    /\ worker' = "test"
    /\ hasFrame' = mCameraFrameReady /\ mCameraFrameReady' = FALSE
    /\ mChainIdx' = IF mCameraFrameReady THEN 1 + mChainIdx ELSE mChainIdx
    /\ UNCHANGED <<view, mStopThread, mFrameChain, released, frame, given, calls, detect, device,
                   images, crash>>
TakeFrameAgain ==
    /\ WorkerAt("enter") /\ (mCameraFrameReady \/ mStopThread)
    /\ worker' = "test"
    /\ hasFrame' = mCameraFrameReady
    /\ mChainIdx' = IF mCameraFrameReady THEN 1 - mChainIdx ELSE mChainIdx
    /\ UNCHANGED <<view, flags, mFrameChain, released, frame, given, calls, detect, device,
                   images, crash>>
TakeFrame ==
    /\ WorkerAt("enter") /\ (mCameraFrameReady \/ mStopThread)
    /\ worker' = "test"
    /\ hasFrame' = mCameraFrameReady /\ mCameraFrameReady' = FALSE
    /\ mChainIdx' = IF mCameraFrameReady THEN 1 - mChainIdx ELSE mChainIdx
    /\ UNCHANGED <<view, mStopThread, mFrameChain, released, frame, given, calls, detect, device,
                   images, crash>>

\* deliverAndDrawFrame calls onCameraFrame with the buffer that is not written.
DeliverFrame ==
    /\ WorkerAt("test") /\ hasFrame /\ ~mStopThread /\ ~released
    /\ worker' = "convert"
    /\ frame' = mFrameChain[1 - mChainIdx]
    /\ given' = [c \in Cameras |-> IF c = frame'.camera THEN frame'.number ELSE given[c]]
    /\ calls' = calls + 1
    /\ UNCHANGED <<view, flags, chain, hasFrame, detect, device, images, crash>>

NoFrame ==
    /\ WorkerAt("test") /\ (~hasFrame \/ mStopThread \/ released)
    /\ worker' = "again"
    /\ UNCHANGED <<view, flags, chain, hasFrame, frame, given, calls, detect, device, images,
                   crash>>

\* onCameraFrame copies the picture and starts a task if none runs; the page for the
\* parameters never starts one.
ConvertFrame ==
    /\ WorkerAt("convert")
    /\ worker' = "draw"
    /\ task' \in {task} \cup (IF task = "none" THEN {"detect"} ELSE {})
    /\ UNCHANGED <<view, flags, chain, hasFrame, frame, given, calls, openCVWrapper, device, images,
                   crash>>

\* The rest of it writes to the wrapper.
DrawFrame ==
    /\ WorkerAt("draw")
    /\ worker' = "again"
    /\ crash' = IF openCVWrapper THEN crash ELSE "worker"
    /\ UNCHANGED <<view, flags, chain, hasFrame, frame, given, calls, detect, device, images>>

RepeatOrEnd ==
    /\ WorkerAt("again")
    /\ worker' = IF mStopThread THEN "done" ELSE "enter"
    /\ UNCHANGED <<view, flags, chain, hasFrame, frame, given, calls, detect, device, images,
                   crash>>

(* The task uses the wrapper to detect the lane, and again to show the result. *)

TaskDetects ==
    /\ TaskAt("detect")
    /\ task' = "show"
    /\ crash' = IF openCVWrapper THEN crash ELSE "task"
    /\ UNCHANGED <<view, flags, chain, work, openCVWrapper, device, images>>

TaskShows ==
    /\ TaskAt("show")
    /\ task' = "none"
    /\ crash' = IF openCVWrapper THEN crash ELSE "task"
    /\ UNCHANGED <<view, flags, chain, work, openCVWrapper, device, images>>

-----------------------------------------------------------------------------
UiCalls == EnableView \/ DisableView \/ SurfaceChanged \/ SurfaceDestroyed \/ SetDetectParams
UiWork  == \/ SurfaceChangedAgain \/ InitializeCamera \/ ResetFlags \/ StartThread
           \/ CameraViewStarted \/ StopThread \/ Notify \/ Join \/ ReleaseCamera
           \/ CameraViewStopped
Worker  == \/ OpenCamera \/ WaitForFrame \/ TakeFrame \/ DeliverFrame \/ NoFrame
           \/ ConvertFrame \/ DrawFrame \/ RepeatOrEnd
Camera  == \E c \in Cameras :
               Opened(c) \/ Configured(c) \/ Disconnected(c) \/ AcquireImage(c) \/ PutImage(c)
Task    == TaskDetects \/ TaskShows

Next == UiCalls \/ UiWork \/ Worker \/ Camera \/ Task

\* The main thread ends what it began, and the worker runs; the camera owes nothing.
Spec == Init /\ [][Next]_vars /\ WF_vars(UiWork) /\ WF_vars(Worker)

-----------------------------------------------------------------------------
(* Properties. *)

UiPlaces == {"idle", "initialize", "reset", "start", "tell", "stop", "notify", "join",
             "release", "clear", "changed"}
WorkerPlaces == {"none", "open", "enter", "waiting", "test", "convert", "draw", "again",
                 "done"}

ViewOK ==
    /\ mEnabled \in BOOLEAN /\ mSurfaceExist \in BOOLEAN /\ resized \in BOOLEAN
    /\ mState \in {"STOPPED", "STARTED"} /\ ui \in UiPlaces
FramesOK ==
    /\ mCameraFrameReady \in BOOLEAN /\ mStopThread \in BOOLEAN /\ released \in BOOLEAN
    /\ mFrameChain \in [0..1 -> Picture] /\ mChainIdx \in 0..1
    /\ worker \in WorkerPlaces /\ hasFrame \in BOOLEAN /\ frame \in Picture
    /\ task \in {"none", "detect", "show"} /\ openCVWrapper \in BOOLEAN
    /\ crash \in {"none", "worker", "task"}
DevicesOK ==
    /\ connects \in 0..MaxConnects
    /\ camera \in [Cameras -> {"none", "opening", "opened", "streaming", "closed"}]
    /\ mCameraDevice \in 0..MaxConnects /\ mCameraCaptureSession \in 0..MaxConnects
    /\ shots \in [Cameras -> 0..MaxShots] /\ image \in [Cameras -> 0..MaxShots]
    /\ given \in [Cameras -> 0..MaxShots] /\ calls \in Nat /\ early \in SUBSET Cameras

\* The type invariant of the view, its worker and its cameras.
TypeOK == ViewOK /\ FramesOK /\ DevicesOK

\* While the worker hands a picture to onCameraFrame nobody writes to its buffer or
\* releases it, and it is a picture of a camera and not fresh memory: mChainIdx, which
\* the worker reads again without the monitor, keeps it and the image threads of all
\* connections apart (CameraWorker, onImageAvailable, releaseCamera).
FrameUntouched ==
    worker = "convert" => /\ ~released /\ frame # NoPicture
                          /\ mFrameChain[1 - mChainIdx] = frame

\* Once the listener was told that the view has started, nobody meets a missing wrapper
\* until it was told that the view has stopped: the process ends only by a picture that
\* comes before the one or by a task that outlives the other (onCameraViewStopped).
NoCrashWhileStarted == crash # "none" => mState = "STOPPED" \/ ui \in {"reset", "start", "tell"}

\* The camera of a connection that is over is closed, if each connection lasted until its
\* session was configured (releaseCamera closes the device of the session only).
Over(c) == c < connects \/ (c = connects /\ (mState = "STOPPED" \/ ui = "clear"))
Open(c) == camera[c] \in {"opening", "opened", "streaming"}
ClosedWhenConfigured == early = {} => \A c \in Cameras : Over(c) => ~Open(c)

\* "Stop camera and release it" (CVCameraWrapper.java:190): once disconnectCamera has
\* returned, the camera of its connection is closed.
CameraReleased == \A c \in Cameras : Over(c) => camera[c] \notin {"opened", "streaming"}

\* A picture that is ready is taken, or the worker is told to end: no notification comes
\* between its test and its wait (onImageAvailable).
FrameIsTaken ==
    mCameraFrameReady /\ worker \in {"enter", "waiting"}
        ~> ~mCameraFrameReady \/ mStopThread \/ crash # "none"

\* disconnectCamera returns: the worker is woken and ends wherever the stop meets it.
StopReturns == ui = "stop" ~> ui = "clear" \/ crash # "none"

\* The listener is served as FrameListener says.
Phase == IF mState = "STOPPED" THEN "stopped"
         ELSE IF ui \in {"reset", "start", "tell"} THEN "connecting" ELSE "started"
Listener == INSTANCE FrameListener WITH phase <- Phase, taken <- shots
ServesListener == Listener!Spec
=============================================================================
