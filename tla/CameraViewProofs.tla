-------------------------- MODULE CameraViewProofs --------------------------
(***************************************************************************)
(* Proofs about CameraView, for any number of connections and pictures:    *)
(* its type invariant, that a picture is not touched while it is used,     *)
(* that the process does not end while the view is started, that a camera  *)
(* that came up is closed again, that it implements FrameListener, and     *)
(* that the worker does not miss what it waits for.                        *)
(***************************************************************************)
EXTENDS CameraView, TLAPS

-----------------------------------------------------------------------------
(* The inductive invariant. *)

\* The buffers of a connection are allocated and its flags reset.
Up == \/ ui \in {"start", "tell", "stop", "notify", "join"}
      \/ ui = "idle" /\ mState = "STARTED"

\* The main thread's place tells the state, and both tell when there may be a worker.
Lifecycle ==
    /\ ui \in {"initialize", "changed"} => mState = "STOPPED"
    /\ ui \in UiPlaces \ {"initialize", "changed", "idle"} => mState = "STARTED"
    /\ mState = "STARTED" => connects \in Cameras /\ (ui # "clear" => ~released)
    /\ worker \notin {"none", "done"} => Up /\ ui # "start"

\* From onCameraViewStarted to onCameraViewStopped there is a wrapper.
Wrapper == mState = "STARTED" /\ ui \notin {"reset", "start", "tell"} => openCVWrapper

\* A picture is newer than those its camera's listener was given.
New(p) == p.camera \in Cameras /\ p.number > given[p.camera]

\* A picture that is ready is in the buffer that is written, one that was taken in the
\* other, and of the same camera the taken one is the older.
Buffers ==
    /\ Up /\ mCameraFrameReady => New(mFrameChain[mChainIdx])
    /\ worker = "test" /\ hasFrame => New(mFrameChain[1 - mChainIdx])
    /\ worker = "test" /\ hasFrame /\ mCameraFrameReady
       /\ mFrameChain[mChainIdx].camera = mFrameChain[1 - mChainIdx].camera
           => mFrameChain[mChainIdx].number > mFrameChain[1 - mChainIdx].number
    /\ worker = "convert" => frame # NoPicture /\ mFrameChain[1 - mChainIdx] = frame

\* No picture is older than one further down the line.
Order ==
    \A c \in Cameras :
        /\ given[c] <= shots[c]
        /\ image[c] # 0 => image[c] = shots[c] /\ given[c] < image[c]
        /\ \A i \in 0..1 : mFrameChain[i].camera = c =>
               /\ mFrameChain[i].number <= shots[c]
               /\ image[c] # 0 => mFrameChain[i].number < image[c]

\* While every connection lasted until its session was configured, the session that is
\* set is that of the one open camera.
Sessions ==
    /\ mCameraDevice <= connects /\ mCameraCaptureSession <= connects
    /\ \A c \in Cameras : c > connects => camera[c] = "none"
    /\ early = {} =>
           /\ mCameraCaptureSession \in {0, connects}
           /\ mState = "STOPPED" \/ ui = "clear" => mCameraCaptureSession = 0
           /\ \A c \in Cameras : /\ camera[c] = "streaming" => mCameraCaptureSession = c
                                 /\ Over(c) => ~Open(c)

IInv == /\ TypeOK /\ Lifecycle /\ Wrapper /\ Buffers /\ Order /\ Sessions
        /\ NoCrashWhileStarted

-----------------------------------------------------------------------------
\* A call that only moves the main thread within the view: it decides what to do next.
Asks == EnableView \/ DisableView \/ SurfaceChanged \/ SurfaceChangedAgain \/ SurfaceDestroyed

LEMMA AsksNext ==
    ASSUME ViewOK, Asks
    PROVE  /\ ViewOK' /\ ui \in {"idle", "changed"}
           /\ ui' \in {"idle", "stop", "initialize"}
           /\ ui' = "stop" => mState = "STARTED"
           /\ ui' = "initialize" => mState = "STOPPED"
           /\ UNCHANGED <<mState, flags, chain, work, detect, device, images, crash>>
<1>1. ASSUME NEW e, NEW x, CheckCurrentState(e, x)
      PROVE  /\ ui' \in {"idle", "stop", "initialize"}
             /\ ui' = "stop" => mState = "STARTED"
             /\ ui' = "initialize" => mState = "STOPPED"
  BY <1>1 DEF CheckCurrentState, ViewOK
<1>2. /\ ui \in {"idle", "changed"}
      /\ \E e, x : CheckCurrentState(e, x)
      /\ UNCHANGED <<mState, flags, chain, work, detect, device, images, crash>>
      /\ mEnabled' \in BOOLEAN /\ mSurfaceExist' \in BOOLEAN /\ resized' \in BOOLEAN
  BY DEF Asks, EnableView, DisableView, SurfaceChanged, SurfaceChangedAgain, SurfaceDestroyed,
         UiAt, ViewOK
<1> QED BY <1>1, <1>2 DEF ViewOK, UiPlaces

\* The steps, with those calls taken together.
Step == \/ Asks \/ SetDetectParams \/ InitializeCamera \/ ResetFlags \/ StartThread
        \/ CameraViewStarted \/ StopThread \/ Notify \/ Join \/ ReleaseCamera
        \/ CameraViewStopped \/ Worker \/ Camera \/ Task

LEMMA Steps == [Next]_vars => Step \/ UNCHANGED vars
BY DEF Next, UiCalls, UiWork, Step, Asks

-----------------------------------------------------------------------------
(* Type correctness. *)

LEMMA NoPictureType == NoPicture \in Picture
BY BoundsAssumption DEF NoPicture, Picture, BoundsAssumption

LEMMA InitType == Init => TypeOK
<1> SUFFICES ASSUME Init PROVE TypeOK OBVIOUS
<1>1. ViewOK BY DEF Init, ViewOK, UiPlaces
<1>2. FramesOK
  <2>1. mFrameChain \in [0..1 -> Picture] /\ mChainIdx \in 0..1 /\ frame \in Picture
    BY NoPictureType DEF Init
  <2>2. /\ mCameraFrameReady \in BOOLEAN /\ mStopThread \in BOOLEAN /\ released \in BOOLEAN
        /\ hasFrame \in BOOLEAN /\ openCVWrapper \in BOOLEAN
    BY DEF Init
  <2> QED BY <2>1, <2>2 DEF Init, FramesOK, WorkerPlaces
<1>3. DevicesOK BY BoundsAssumption DEF Init, DevicesOK, BoundsAssumption
<1> QED BY <1>1, <1>2, <1>3 DEF TypeOK

LEMMA UiType ==
    ASSUME TypeOK, Lifecycle,
           \/ SetDetectParams \/ InitializeCamera \/ ResetFlags \/ StartThread
           \/ CameraViewStarted \/ StopThread \/ Notify \/ Join \/ ReleaseCamera
           \/ CameraViewStopped
    PROVE  TypeOK'
<1> USE DEF UiAt, view, flags, chain, work, detect, device, images
<1>1. ViewOK'
  BY DEF TypeOK, ViewOK, UiPlaces, SetDetectParams, InitializeCamera, ResetFlags, StartThread,
         CameraViewStarted, StopThread, Notify, Join, ReleaseCamera, CameraViewStopped
<1>2. FramesOK'
  BY NoPictureType
  DEF TypeOK, FramesOK, WorkerPlaces, Wake, SetDetectParams, InitializeCamera, ResetFlags,
      StartThread, CameraViewStarted, StopThread, Notify, Join, ReleaseCamera,
      CameraViewStopped
<1>3. CASE ReleaseCamera
  <2>1. connects \in Cameras
    BY <1>3 DEF ReleaseCamera, Lifecycle, UiPlaces
  <2>2. early' \in SUBSET Cameras
    BY <1>3, <2>1 DEF ReleaseCamera, TypeOK, DevicesOK
  <2> QED BY <1>1, <1>2, <1>3, <2>2, BoundsAssumption
          DEF ReleaseCamera, TypeOK, DevicesOK, BoundsAssumption
<1>4. CASE InitializeCamera
  BY <1>1, <1>2, <1>4, BoundsAssumption
  DEF InitializeCamera, TypeOK, DevicesOK, BoundsAssumption
<1>5. CASE \/ SetDetectParams \/ ResetFlags \/ StartThread \/ CameraViewStarted \/ StopThread
           \/ Notify \/ Join \/ CameraViewStopped
  BY <1>1, <1>2, <1>5
  DEF TypeOK, DevicesOK, SetDetectParams, ResetFlags, StartThread, CameraViewStarted,
      StopThread, Notify, Join, CameraViewStopped
<1> QED BY <1>3, <1>4, <1>5

LEMMA WorkerType == ASSUME TypeOK, Worker PROVE TypeOK'
<1> USE DEF WorkerAt, view, flags, chain, work, detect, device, images, TypeOK
<1>1. ViewOK'
  BY DEF ViewOK, Worker, OpenCamera, WaitForFrame, TakeFrame, DeliverFrame, NoFrame,
         ConvertFrame, DrawFrame, RepeatOrEnd
<1>2. CASE DeliverFrame
  <2>1. mFrameChain[1 - mChainIdx] \in Picture
    BY DEF FramesOK
  <2>2. frame' \in Picture
    BY <1>2, <2>1 DEF DeliverFrame
  <2>3. frame'.number \in 0..MaxShots
    BY <2>2 DEF Picture
  <2>4. given' \in [Cameras -> 0..MaxShots]
    BY <1>2, <2>3 DEF DeliverFrame, DevicesOK
  <2> QED BY <1>1, <1>2, <2>2, <2>4 DEF DeliverFrame, FramesOK, DevicesOK, WorkerPlaces
<1>3. CASE OpenCamera
  BY <1>1, <1>3 DEF OpenCamera, FramesOK, DevicesOK, WorkerPlaces
<1>4. CASE WaitForFrame \/ TakeFrame \/ NoFrame \/ ConvertFrame \/ DrawFrame \/ RepeatOrEnd
  <2>1. DevicesOK'
    BY <1>4 DEF WaitForFrame, TakeFrame, NoFrame, ConvertFrame, DrawFrame, RepeatOrEnd,
                DevicesOK
  <2>2. CASE TakeFrame
    <3>1. mChainIdx' \in 0..1
      BY <2>2 DEF TakeFrame, FramesOK
    <3> QED BY <1>1, <2>1, <2>2, <3>1 DEF TakeFrame, FramesOK, WorkerPlaces
  <2>3. CASE WaitForFrame \/ NoFrame \/ ConvertFrame \/ DrawFrame \/ RepeatOrEnd
    BY <1>1, <2>1, <2>3
    DEF WaitForFrame, NoFrame, ConvertFrame, DrawFrame, RepeatOrEnd, FramesOK, WorkerPlaces
  <2> QED BY <1>4, <2>2, <2>3
<1> QED BY <1>2, <1>3, <1>4 DEF Worker

LEMMA CameraType == ASSUME TypeOK, Camera PROVE TypeOK'
<1> USE DEF view, flags, chain, work, detect, device, images, TypeOK
<1>1. PICK c \in Cameras :
        Opened(c) \/ Configured(c) \/ Disconnected(c) \/ AcquireImage(c) \/ PutImage(c)
  BY DEF Camera
<1>2. ViewOK'
  BY <1>1 DEF ViewOK, Opened, Configured, Disconnected, AcquireImage, PutImage
<1>3. CASE PutImage(c)
  <2>1. [camera |-> c, number |-> image[c]] \in Picture
    BY DEF DevicesOK, Picture, Cameras
  <2>2. mFrameChain' \in [0..1 -> Picture]
    BY <1>3, <2>1 DEF PutImage, FramesOK
  <2>3. image' \in [Cameras -> 0..MaxShots]
    BY <1>3, BoundsAssumption DEF PutImage, DevicesOK, BoundsAssumption
  <2> QED BY <1>2, <1>3, <2>2, <2>3 DEF PutImage, Wake, FramesOK, DevicesOK, WorkerPlaces
<1>4. CASE AcquireImage(c)
  BY <1>2, <1>4, BoundsAssumption DEF AcquireImage, FramesOK, DevicesOK, BoundsAssumption
<1>5. CASE Opened(c) \/ Configured(c) \/ Disconnected(c)
  <2>1. FramesOK'
    BY <1>5 DEF Opened, Configured, Disconnected, FramesOK
  <2>2. c \in 0..MaxConnects /\ 0 \in 0..MaxConnects
    BY BoundsAssumption DEF BoundsAssumption, Cameras
  <2>3. DevicesOK'
    BY <1>5, <2>2 DEF Opened, Configured, Disconnected, DevicesOK
  <2> QED BY <1>2, <2>1, <2>3
<1> QED BY <1>1, <1>3, <1>4, <1>5

LEMMA TypeStep == ASSUME TypeOK, Lifecycle, [Next]_vars PROVE TypeOK'
<1>1. CASE Asks
  BY <1>1, AsksNext DEF TypeOK, FramesOK, DevicesOK, flags, chain, work, detect, device, images
<1>2. CASE Task
  BY <1>2 DEF Task, TaskDetects, TaskShows, TaskAt, TypeOK, ViewOK, FramesOK, DevicesOK, view,
              flags, chain, work, device, images
<1>3. CASE UNCHANGED vars
  BY <1>3 DEF TypeOK, ViewOK, FramesOK, DevicesOK, vars, view, flags, chain, work, detect,
              device, images
<1> QED BY <1>1, <1>2, <1>3, UiType, WorkerType, CameraType, Steps DEF Step

-----------------------------------------------------------------------------
(* The other parts of the invariant. *)

LEMMA LifecycleStep == ASSUME TypeOK, Lifecycle, [Next]_vars PROVE Lifecycle'
<1> USE DEF Lifecycle, Up, UiPlaces, view, flags, chain, work, detect, device, images
<1>1. CASE Asks
  BY <1>1, AsksNext DEF TypeOK, ViewOK
<1>2. CASE SetDetectParams \/ ResetFlags \/ StartThread \/ CameraViewStarted \/ StopThread
  BY <1>2 DEF SetDetectParams, ResetFlags, StartThread, CameraViewStarted, StopThread, UiAt
<1>3. CASE InitializeCamera
  <2>1. connects' \in Cameras
    BY <1>3, BoundsAssumption
    DEF InitializeCamera, Cameras, BoundsAssumption, TypeOK, DevicesOK
  <2> QED BY <1>3, <2>1 DEF InitializeCamera, UiAt
<1>4. CASE Notify
  BY <1>4 DEF Notify, Wake, UiAt
<1>5. CASE Join \/ ReleaseCamera \/ CameraViewStopped
  BY <1>5 DEF Join, ReleaseCamera, CameraViewStopped, UiAt, WorkerAt
<1>6. CASE Worker
  BY <1>6
  DEF Worker, WorkerAt, OpenCamera, WaitForFrame, TakeFrame, DeliverFrame, NoFrame,
      ConvertFrame, DrawFrame, RepeatOrEnd
<1>7. CASE Camera
  BY <1>7
  DEF Camera, Opened, Configured, Disconnected, AcquireImage, PutImage, Wake
<1>8. CASE Task \/ UNCHANGED vars
  BY <1>8 DEF Task, TaskDetects, TaskShows, vars
<1> QED BY <1>1, <1>2, <1>3, <1>4, <1>5, <1>6, <1>7, <1>8, Steps DEF Step

LEMMA WrapperStep == ASSUME TypeOK, Lifecycle, Wrapper, [Next]_vars PROVE Wrapper'
<1> USE DEF Wrapper, view, flags, chain, work, detect, device, images
<1>1. CASE Asks
  BY <1>1, AsksNext DEF TypeOK
<1>2. CASE Worker
  BY <1>2
  DEF Worker, OpenCamera, WaitForFrame, TakeFrame, DeliverFrame, NoFrame, ConvertFrame,
      DrawFrame, RepeatOrEnd
<1>3. CASE Camera
  BY <1>3 DEF Camera, Opened, Configured, Disconnected, AcquireImage, PutImage
<1>4. CASE Task \/ UNCHANGED vars
  BY <1>4 DEF Task, TaskDetects, TaskShows, vars
<1>5. CASE \/ SetDetectParams \/ InitializeCamera \/ ResetFlags \/ StartThread
           \/ CameraViewStarted \/ StopThread \/ Notify \/ Join \/ ReleaseCamera
           \/ CameraViewStopped
  BY <1>5
  DEF Lifecycle, UiPlaces, UiAt, SetDetectParams, InitializeCamera, ResetFlags, StartThread,
      CameraViewStarted, StopThread, Notify, Join, ReleaseCamera, CameraViewStopped
<1> QED BY <1>1, <1>2, <1>3, <1>4, <1>5, Steps DEF Step

LEMMA CrashStep ==
    ASSUME TypeOK, Lifecycle, Wrapper, NoCrashWhileStarted, [Next]_vars
    PROVE  NoCrashWhileStarted'
<1> USE DEF NoCrashWhileStarted, Alive
<1>1. CASE Alive /\ crash' = "none"
  BY <1>1
<1>2. CASE Alive /\ crash' # "none"
  <2>1. (DrawFrame \/ Task) /\ ~openCVWrapper /\ UNCHANGED <<mState, ui>>
    <3>1. ~Asks
      BY <1>2, AsksNext DEF TypeOK
    <3>2. ~(\/ SetDetectParams \/ InitializeCamera \/ ResetFlags \/ StartThread
            \/ CameraViewStarted \/ StopThread \/ Notify \/ Join \/ ReleaseCamera
            \/ CameraViewStopped)
      BY <1>2
      DEF SetDetectParams, InitializeCamera, ResetFlags, StartThread, CameraViewStarted,
          StopThread, Notify, Join, ReleaseCamera, CameraViewStopped
    <3>3. ~Camera
      BY <1>2 DEF Camera, Opened, Configured, Disconnected, AcquireImage, PutImage
    <3>4. Worker => DrawFrame
      BY <1>2
      DEF Worker, OpenCamera, WaitForFrame, TakeFrame, DeliverFrame, NoFrame, ConvertFrame,
          RepeatOrEnd
    <3>5. DrawFrame \/ Task
      BY <1>2, <3>1, <3>2, <3>3, <3>4, Steps DEF Step, vars
    <3> QED BY <1>2, <3>5 DEF DrawFrame, Task, TaskDetects, TaskShows, view
  <2> QED BY <2>1 DEF Wrapper, TypeOK, ViewOK
<1>3. CASE ~Alive
  <2>1. ~Step
    BY <1>3
    DEF Step, Asks, EnableView, DisableView, SurfaceChanged, SurfaceChangedAgain,
        SurfaceDestroyed, SetDetectParams, InitializeCamera, ResetFlags, StartThread,
        CameraViewStarted, StopThread, Notify, Join, ReleaseCamera, CameraViewStopped, Worker,
        OpenCamera, WaitForFrame, TakeFrame, DeliverFrame, NoFrame, ConvertFrame, DrawFrame,
        RepeatOrEnd, Camera, Opened, Configured, Disconnected, AcquireImage, PutImage, Task,
        TaskDetects, TaskShows, UiAt, WorkerAt, TaskAt
  <2> QED BY <2>1, Steps DEF vars, view
<1> QED BY <1>1, <1>2, <1>3

LEMMA SessionsStep == ASSUME TypeOK, Lifecycle, Sessions, [Next]_vars PROVE Sessions'
<1> USE DEF view, flags, chain, work, detect, device, images
<1>1. CASE Asks
  BY <1>1, AsksNext DEF Sessions, Over, Open, TypeOK, Lifecycle
<1>2. CASE SetDetectParams \/ ResetFlags \/ StartThread \/ CameraViewStarted \/ StopThread
           \/ Notify \/ Join
  BY <1>2
  DEF SetDetectParams, ResetFlags, StartThread, CameraViewStarted, StopThread, Notify, Join,
      UiAt, Sessions, Over, Open
<1>3. CASE InitializeCamera
  <2>1. mState = "STOPPED" /\ connects \in Nat /\ connects' = connects + 1
    BY <1>3 DEF InitializeCamera, UiAt, Lifecycle, TypeOK, DevicesOK
  <2>2. \A c \in Cameras : c > connects' => c > connects
    BY <2>1 DEF Cameras
  <2>3. \A c \in Cameras : Over(c)' => Over(c)
    BY <1>3, <2>1 DEF InitializeCamera, Over, Cameras
  <2>4. /\ mCameraCaptureSession <= connects => mCameraCaptureSession <= connects'
        /\ mCameraDevice <= connects => mCameraDevice <= connects'
    BY <2>1 DEF TypeOK, DevicesOK
  <2>5. /\ UNCHANGED <<camera, mCameraDevice, mCameraCaptureSession, early>>
        /\ mState' = "STARTED" /\ ui' = "reset"
    BY <1>3 DEF InitializeCamera
  <2> QED BY <2>1, <2>2, <2>3, <2>4, <2>5 DEF Sessions, Open
<1>4. CASE ReleaseCamera
  <2>1. mState = "STARTED" /\ connects \in Cameras
    BY <1>4 DEF ReleaseCamera, UiAt, Lifecycle, UiPlaces
  <2>2. \A c \in Cameras :
          camera'[c] = IF c = mCameraCaptureSession THEN "closed" ELSE camera[c]
    BY <1>4 DEF ReleaseCamera
  <2>3. \A c \in Cameras : c > connects => c # mCameraCaptureSession
    BY DEF Sessions, Cameras, TypeOK, DevicesOK
  <2>4. /\ connects' = connects /\ mState' = "STARTED" /\ ui' = "clear"
        /\ mCameraCaptureSession' = 0 /\ 0 <= connects
        /\ mCameraDevice' = mCameraDevice
        /\ early' = {} => early = {} /\ camera[connects] \notin {"opening", "opened"}
    BY <1>4, <2>1 DEF ReleaseCamera, Cameras
  <2>5. ASSUME early' = {}, NEW c \in Cameras
        PROVE  ~Open(c)' /\ camera'[c] # "streaming"
    <3>1. CASE c = connects
      BY <2>2, <2>4, <2>5, <3>1 DEF Sessions, Open
    <3>2. CASE c > connects
      BY <2>2, <2>3, <3>2 DEF Sessions, Open
    <3>3. CASE c < connects
      BY <2>2, <2>4, <2>5, <3>3 DEF Sessions, Open, Over
    <3> QED BY <2>1, <3>1, <3>2, <3>3 DEF Cameras
  <2> QED BY <2>2, <2>3, <2>4, <2>5 DEF Sessions
<1>5. CASE CameraViewStopped
  BY <1>5 DEF CameraViewStopped, UiAt, Sessions, Over, Open
<1>6. CASE Worker
  <2>1. CASE OpenCamera
    <3>1. ~Over(connects) /\ connects \in Cameras
      BY <2>1
      DEF OpenCamera, WorkerAt, Lifecycle, Up, Over, UiPlaces, TypeOK, ViewOK, Cameras
    <3>2. \A c \in Cameras : c # connects => camera'[c] = camera[c]
      BY <2>1 DEF OpenCamera, TypeOK, DevicesOK
    <3>3. camera'[connects] \in {"opening", "closed"}
      BY <2>1, <3>1 DEF OpenCamera, TypeOK, DevicesOK
    <3> QED BY <2>1, <3>1, <3>2, <3>3 DEF OpenCamera, Sessions, Over, Open, Cameras
  <2>2. CASE WaitForFrame \/ TakeFrame \/ DeliverFrame \/ NoFrame \/ ConvertFrame
             \/ DrawFrame \/ RepeatOrEnd
    BY <2>2
    DEF WaitForFrame, TakeFrame, DeliverFrame, NoFrame, ConvertFrame, DrawFrame, RepeatOrEnd,
        Sessions, Over, Open
  <2> QED BY <1>6, <2>1, <2>2 DEF Worker
<1>7. CASE Camera
  <2>1. PICK c \in Cameras :
          Opened(c) \/ Configured(c) \/ Disconnected(c) \/ AcquireImage(c) \/ PutImage(c)
    BY <1>7 DEF Camera
  <2>2. CASE Opened(c)
    <3>1. /\ \A d \in Cameras : camera'[d] = IF d = c THEN "opened" ELSE camera[d]
          /\ camera[c] = "opening" /\ mCameraDevice' = c
          /\ UNCHANGED <<connects, mCameraCaptureSession, early, mState, ui>>
      BY <2>2 DEF Opened, TypeOK, DevicesOK
    <3>2. c <= connects
      BY <3>1 DEF Sessions, Cameras, TypeOK, DevicesOK
    <3> QED BY <3>1, <3>2 DEF Sessions, Over, Open
  <2>3. CASE Configured(c)
    <3>1. camera' = [camera EXCEPT ![c] = "streaming"] /\ camera[c] = "opened"
      BY <2>3 DEF Configured
    <3>2. early = {} => ~Over(c)
      BY <3>1 DEF Sessions, Open
    <3>3. ~(c > connects)
      BY <3>1 DEF Sessions
    <3>4. early = {} => c = connects /\ mState # "STOPPED" /\ ui # "clear"
      BY <3>2, <3>3 DEF Over, TypeOK, DevicesOK, Cameras
    <3>5. early = {} => \A d \in Cameras : camera[d] = "streaming" => d = c
      BY <3>4 DEF Sessions, Over, Open, TypeOK, DevicesOK, Cameras
    <3>6. /\ \A d \in Cameras : camera'[d] = IF d = c THEN "streaming" ELSE camera[d]
          /\ mCameraCaptureSession' = c
          /\ UNCHANGED <<connects, mCameraDevice, early, mState, ui>>
      BY <2>3 DEF Configured, TypeOK, DevicesOK
    <3>7. \A d \in Cameras : Over(d)' <=> Over(d)
      BY <3>6 DEF Over
    <3>8. mCameraCaptureSession' <= connects'
      BY <3>3, <3>6 DEF Cameras, TypeOK, DevicesOK
    <3>9. \A d \in Cameras : Over(d) /\ early = {} => d # c
      BY <3>2
    <3> QED BY <3>3, <3>4, <3>5, <3>6, <3>7, <3>8, <3>9 DEF Sessions, Open
  <2>4. CASE Disconnected(c)
    <3>1. /\ \A d \in Cameras :
               camera'[d] = camera[d] \/ (camera'[d] = "closed" /\ d \in {c, mCameraDevice})
          /\ UNCHANGED <<connects, mCameraCaptureSession, early, mState, ui>>
          /\ mCameraDevice' = 0
      BY <2>4 DEF Disconnected
    <3>2. ~(c > connects) /\ mCameraDevice' <= connects'
      BY <2>4, <3>1 DEF Disconnected, Sessions, TypeOK, DevicesOK
    <3>3. \A d \in Cameras : d > connects => d \notin {c, mCameraDevice}
      BY <3>2 DEF Sessions, TypeOK, DevicesOK, Cameras
    <3> QED BY <3>1, <3>2, <3>3 DEF Sessions, Over, Open
  <2>5. CASE AcquireImage(c) \/ PutImage(c)
    BY <2>5 DEF AcquireImage, PutImage, Sessions, Over, Open
  <2> QED BY <2>1, <2>2, <2>3, <2>4, <2>5
<1>8. CASE Task \/ UNCHANGED vars
  BY <1>8 DEF Task, TaskDetects, TaskShows, vars, Sessions, Over, Open
<1> QED BY <1>1, <1>2, <1>3, <1>4, <1>5, <1>6, <1>7, <1>8, Steps DEF Step

LEMMA OrderStep == ASSUME TypeOK, Lifecycle, Buffers, Order, [Next]_vars PROVE Order'
<1> USE DEF view, flags, chain, work, detect, device, images
<1>1. CASE Asks \/ SetDetectParams \/ ResetFlags \/ StartThread \/ CameraViewStarted
           \/ StopThread \/ Notify \/ Join \/ ReleaseCamera \/ CameraViewStopped
  <2>1. UNCHANGED <<given, shots, image, mFrameChain>>
    BY <1>1, AsksNext
    DEF SetDetectParams, ResetFlags, StartThread, CameraViewStarted, StopThread, Notify, Join,
        ReleaseCamera, CameraViewStopped, TypeOK
  <2> QED BY <2>1 DEF Order
<1>2. CASE InitializeCamera
  <2>1. \A i \in 0..1 : mFrameChain'[i] = NoPicture
    BY <1>2 DEF InitializeCamera
  <2>2. UNCHANGED <<given, shots, image>>
    BY <1>2 DEF InitializeCamera
  <2>3. \A i \in 0..1 : mFrameChain'[i].camera \notin Cameras
    BY <2>1 DEF NoPicture, Cameras
  <2> QED BY <2>2, <2>3 DEF Order
<1>3. CASE Worker
  <2>1. CASE DeliverFrame
    <3>1. New(mFrameChain[1 - mChainIdx]) /\ frame' = mFrameChain[1 - mChainIdx]
      BY <2>1 DEF DeliverFrame, WorkerAt, Buffers
    <3>2. /\ \A c \in Cameras :
               given'[c] = IF c = frame'.camera THEN frame'.number ELSE given[c]
          /\ UNCHANGED <<shots, image, mFrameChain>>
      BY <2>1 DEF DeliverFrame
    <3>3. 1 - mChainIdx \in 0..1
      BY DEF TypeOK, FramesOK
    <3> QED BY <3>1, <3>2, <3>3 DEF Order
  <2>2. CASE OpenCamera \/ WaitForFrame \/ TakeFrame \/ NoFrame \/ ConvertFrame \/ DrawFrame
             \/ RepeatOrEnd
    BY <2>2
    DEF OpenCamera, WaitForFrame, TakeFrame, NoFrame, ConvertFrame, DrawFrame, RepeatOrEnd,
        Order
  <2> QED BY <1>3, <2>1, <2>2 DEF Worker
<1>4. ASSUME NEW c \in Cameras, AcquireImage(c) PROVE Order'
  <2>1. /\ \A d \in Cameras : /\ shots'[d] = IF d = c THEN shots[d] + 1 ELSE shots[d]
                             /\ image'[d] = IF d = c THEN shots[d] + 1 ELSE image[d]
        /\ UNCHANGED <<given, mFrameChain>>
    BY <1>4 DEF AcquireImage, TypeOK, DevicesOK
  <2>2. \A d \in Cameras : shots[d] \in Nat /\ given[d] \in Nat
    BY DEF TypeOK, DevicesOK
  <2>3. \A i \in 0..1 : mFrameChain[i].number \in Nat
    BY DEF TypeOK, FramesOK, Picture
  <2> QED BY <2>1, <2>2, <2>3 DEF Order
<1>5. ASSUME NEW c \in Cameras, PutImage(c) PROVE Order'
  <2>1. /\ \A d \in Cameras : image'[d] = IF d = c THEN 0 ELSE image[d]
        /\ image[c] # 0 /\ UNCHANGED <<given, shots>>
    BY <1>5 DEF PutImage, TypeOK, DevicesOK
  <2>2. \A i \in 0..1 : \/ mFrameChain'[i] = mFrameChain[i]
                         \/ mFrameChain'[i] = [camera |-> c, number |-> image[c]]
    BY <1>5 DEF PutImage, TypeOK, FramesOK
  <2>3. image[c] = shots[c] /\ shots[c] \in Nat
    BY <2>1 DEF Order, TypeOK, DevicesOK
  <2> QED BY <2>1, <2>2, <2>3 DEF Order
<1>6. CASE Camera
  <2>1. ASSUME NEW c \in Cameras, Opened(c) \/ Configured(c) \/ Disconnected(c) PROVE Order'
    BY <2>1 DEF Opened, Configured, Disconnected, Order
  <2> QED BY <1>4, <1>5, <1>6, <2>1 DEF Camera
<1>7. CASE Task \/ UNCHANGED vars
  BY <1>7 DEF Task, TaskDetects, TaskShows, vars, Order
<1> QED BY <1>1, <1>2, <1>3, <1>6, <1>7, Steps DEF Step

LEMMA BuffersStep ==
    ASSUME TypeOK, Lifecycle, Buffers, Order, [Next]_vars
    PROVE  Buffers'
<1> USE DEF view, flags, chain, work, detect, device, images
<1>1. CASE Asks
  <2>1. Up' => Up
    BY <1>1, AsksNext DEF Up, TypeOK, Lifecycle
  <2> QED BY <1>1, <2>1, AsksNext DEF Buffers, New, TypeOK
<1>2. CASE SetDetectParams \/ CameraViewStarted \/ StopThread \/ ReleaseCamera
           \/ CameraViewStopped
  BY <1>2
  DEF SetDetectParams, CameraViewStarted, StopThread, ReleaseCamera, CameraViewStopped, UiAt,
      Up, Lifecycle, Buffers, New
<1>3. CASE InitializeCamera \/ ResetFlags \/ StartThread
  BY <1>3 DEF InitializeCamera, ResetFlags, StartThread, UiAt, Up, Lifecycle, Buffers, New
<1>4. CASE Notify \/ Join
  BY <1>4 DEF Notify, Join, Wake, UiAt, Up, Buffers, New
<1>5. CASE Worker
  <2>1. CASE OpenCamera \/ WaitForFrame \/ NoFrame \/ ConvertFrame \/ DrawFrame \/ RepeatOrEnd
    BY <2>1
    DEF OpenCamera, WaitForFrame, NoFrame, ConvertFrame, DrawFrame, RepeatOrEnd, Buffers, New,
        Up
  <2>2. CASE TakeFrame
    <3>1. Up
      BY <2>2 DEF TakeFrame, WorkerAt, Lifecycle
    <3>2. CASE mCameraFrameReady
      <4>1. /\ mChainIdx' = 1 - mChainIdx /\ 1 - mChainIdx' = mChainIdx
            /\ mCameraFrameReady' = FALSE /\ worker' = "test"
            /\ UNCHANGED <<mFrameChain, given, ui, mState>>
        BY <2>2, <3>2 DEF TakeFrame, TypeOK, FramesOK
      <4>2. New(mFrameChain[1 - mChainIdx])'
        BY <3>1, <3>2, <4>1 DEF Buffers, New
      <4> QED BY <4>1, <4>2 DEF Buffers
    <3>3. CASE ~mCameraFrameReady
      BY <2>2, <3>3 DEF TakeFrame, Buffers
    <3> QED BY <3>2, <3>3
  <2>3. CASE DeliverFrame
    <3>1. /\ worker = "test" /\ hasFrame /\ worker' = "convert"
          /\ frame' = mFrameChain[1 - mChainIdx]
          /\ UNCHANGED <<mFrameChain, mChainIdx, mCameraFrameReady, ui, mState>>
          /\ \A c \in Cameras :
                 given'[c] = IF c = frame'.camera THEN frame'.number ELSE given[c]
      BY <2>3 DEF DeliverFrame, WorkerAt
    <3>2. frame' # NoPicture
      BY <3>1 DEF Buffers, New, NoPicture, Cameras
    <3>3. Up' /\ mCameraFrameReady' => New(mFrameChain[mChainIdx])'
      BY <3>1 DEF Buffers, New, Up
    <3> QED BY <3>1, <3>2, <3>3 DEF Buffers
  <2> QED BY <1>5, <2>1, <2>2, <2>3 DEF Worker
<1>6. ASSUME NEW c \in Cameras, AcquireImage(c) PROVE Buffers'
  BY <1>6 DEF AcquireImage, Buffers, New, Up
<1>7. ASSUME NEW c \in Cameras, PutImage(c) PROVE Buffers'
  <2>1. /\ image[c] # 0 /\ mCameraFrameReady' = TRUE
        /\ worker' = worker \/ (worker = "waiting" /\ worker' = "enter")
        /\ UNCHANGED <<mChainIdx, hasFrame, frame, given, ui, mState>>
    BY <1>7 DEF PutImage, Wake
  <2>2. mChainIdx \in 0..1 /\ 1 - mChainIdx \in 0..1 /\ 1 - mChainIdx # mChainIdx
    BY DEF TypeOK, FramesOK
  <2>3. mFrameChain'[1 - mChainIdx] = mFrameChain[1 - mChainIdx]
    BY <1>7, <2>2 DEF PutImage, TypeOK, FramesOK
  <2>4. ~released => mFrameChain'[mChainIdx] = [camera |-> c, number |-> image[c]]
    BY <1>7, <2>2 DEF PutImage, TypeOK, FramesOK
  <2>5. Up => ~released
    BY DEF Up, Lifecycle, UiPlaces
  <2>6. Up => New(mFrameChain'[mChainIdx])
    BY <2>1, <2>4, <2>5 DEF New, Order
  <2>7. worker = "test" => Up
    BY DEF Lifecycle
  <2>8. worker = "test" /\ mFrameChain'[mChainIdx].camera = mFrameChain[1 - mChainIdx].camera
          => mFrameChain'[mChainIdx].number > mFrameChain[1 - mChainIdx].number
    BY <2>1, <2>2, <2>4, <2>5, <2>7 DEF Order
  <2> QED BY <2>1, <2>3, <2>6, <2>8 DEF Buffers, New, Up
<1>8. CASE Camera
  <2>1. ASSUME NEW c \in Cameras, Opened(c) \/ Configured(c) \/ Disconnected(c)
        PROVE  Buffers'
    BY <2>1 DEF Opened, Configured, Disconnected, Buffers, New, Up
  <2> QED BY <1>6, <1>7, <1>8, <2>1 DEF Camera
<1>9. CASE Task \/ UNCHANGED vars
  BY <1>9 DEF Task, TaskDetects, TaskShows, vars, Buffers, New, Up
<1> QED BY <1>1, <1>2, <1>3, <1>4, <1>5, <1>8, <1>9, Steps DEF Step

-----------------------------------------------------------------------------
(* The theorems. *)

LEMMA InitIInv == Init => IInv
<1> SUFFICES ASSUME Init PROVE IInv OBVIOUS
<1>1. TypeOK BY InitType
<1>2. Lifecycle /\ Wrapper /\ NoCrashWhileStarted
  BY DEF Init, Lifecycle, Up, UiPlaces, Wrapper, NoCrashWhileStarted
<1>3. Buffers BY DEF Init, Buffers, Up
<1>4. Order
  <2>1. \A c \in Cameras : c # 0 BY DEF Cameras
  <2> QED BY <2>1 DEF Init, Order, NoPicture
<1>5. Sessions BY DEF Init, Sessions, Open
<1> QED BY <1>1, <1>2, <1>3, <1>4, <1>5 DEF IInv

LEMMA StepIInv == IInv /\ [Next]_vars => IInv'
BY TypeStep, LifecycleStep, WrapperStep, CrashStep, BuffersStep, OrderStep, SessionsStep DEF IInv

LEMMA Invariant == Spec => []IInv
BY InitIInv, StepIInv, PTL DEF Spec

\* Every variable of the view keeps its type.
THEOREM TypeCorrect == Spec => []TypeOK
BY Invariant, PTL DEF IInv

\* The two buffers and the monitor keep the worker and the image threads of all
\* connections apart: a picture is whole from the moment it is handed on until
\* onCameraFrame has copied it.
THEOREM FramesUntouched == Spec => []FrameUntouched
<1>1. IInv => FrameUntouched
  BY DEF IInv, FrameUntouched, Buffers, Lifecycle, Up, UiPlaces
<1> QED BY <1>1, Invariant, PTL

\* From onCameraViewStarted until onCameraViewStopped nobody meets a missing wrapper.
THEOREM NoCrash == Spec => []NoCrashWhileStarted
BY Invariant, PTL DEF IInv

\* A camera whose session was configured before disconnectCamera is closed after it.
THEOREM CamerasClosed == Spec => []ClosedWhenConfigured
<1>1. IInv => ClosedWhenConfigured
  BY DEF IInv, Sessions, ClosedWhenConfigured
<1> QED BY <1>1, Invariant, PTL

LEMMA InitServes == Init => Listener!Init
BY DEF Init, Listener!Init, Phase

LEMMA StepServes ==
    ASSUME IInv, [Next]_vars
    PROVE  [Listener!Next]_<<Phase, shots, given, calls>>
<1> USE DEF view, flags, chain, work, detect, device, images
<1>1. CASE Asks
  <2>1. UNCHANGED Phase
    BY <1>1, AsksNext DEF Phase, IInv, TypeOK, Lifecycle
  <2> QED BY <1>1, <2>1, AsksNext DEF IInv, TypeOK
<1>2. CASE InitializeCamera
  BY <1>2
  DEF InitializeCamera, UiAt, Phase, IInv, Lifecycle, Listener!Next, Listener!Turn
<1>3. CASE CameraViewStarted
  BY <1>3
  DEF CameraViewStarted, UiAt, Phase, IInv, Lifecycle, UiPlaces, Listener!Next, Listener!Turn
<1>4. CASE CameraViewStopped
  BY <1>4
  DEF CameraViewStopped, UiAt, Phase, IInv, Lifecycle, UiPlaces, Listener!Next, Listener!Turn
<1>5. CASE SetDetectParams \/ ResetFlags \/ StartThread \/ StopThread \/ Notify \/ Join
           \/ ReleaseCamera
  BY <1>5
  DEF SetDetectParams, ResetFlags, StartThread, StopThread, Notify, Join, ReleaseCamera, UiAt,
      Phase
<1>6. CASE Worker
  <2>1. CASE DeliverFrame
    <3>1. /\ New(mFrameChain[1 - mChainIdx]) /\ frame' = mFrameChain[1 - mChainIdx]
          /\ Phase # "stopped"
      BY <2>1 DEF DeliverFrame, WorkerAt, IInv, Buffers, Lifecycle, Up, UiPlaces, Phase
    <3>2. PICK c \in Cameras : c = frame'.camera
      BY <3>1 DEF New
    <3>3. frame'.number \in (given[c] + 1)..shots[c]
      <4>1. 1 - mChainIdx \in 0..1
        BY DEF IInv, TypeOK, FramesOK
      <4>2. frame'.number <= shots[c]
        BY <3>1, <3>2, <4>1 DEF IInv, Order
      <4>3. frame'.number \in Nat /\ given[c] \in Nat /\ shots[c] \in Nat
        BY <3>1, <4>1 DEF IInv, TypeOK, FramesOK, DevicesOK, Picture
      <4> QED BY <3>1, <3>2, <4>2, <4>3 DEF New
    <3>4. given' = [given EXCEPT ![c] = frame'.number]
      BY <2>1, <3>2 DEF DeliverFrame, IInv, TypeOK, DevicesOK
    <3>5. calls' = calls + 1 /\ UNCHANGED <<Phase, shots>>
      BY <2>1 DEF DeliverFrame, Phase
    <3> QED BY <3>1, <3>3, <3>4, <3>5 DEF Listener!Next, Listener!Give
  <2>2. CASE OpenCamera \/ WaitForFrame \/ TakeFrame \/ NoFrame \/ ConvertFrame \/ DrawFrame
             \/ RepeatOrEnd
    BY <2>2
    DEF OpenCamera, WaitForFrame, TakeFrame, NoFrame, ConvertFrame, DrawFrame, RepeatOrEnd,
        Phase
  <2> QED BY <1>6, <2>1, <2>2 DEF Worker
<1>7. CASE Camera
  <2>1. ASSUME NEW c \in Cameras, AcquireImage(c) PROVE Listener!Take(c)
    BY <2>1 DEF AcquireImage, Phase, Listener!Take
  <2>2. ASSUME NEW c \in Cameras,
               Opened(c) \/ Configured(c) \/ Disconnected(c) \/ PutImage(c)
        PROVE  UNCHANGED <<Phase, shots, given, calls>>
    BY <2>2 DEF Opened, Configured, Disconnected, PutImage, Phase
  <2> QED BY <1>7, <2>1, <2>2 DEF Camera, Listener!Next
<1>8. CASE Task \/ UNCHANGED vars
  BY <1>8 DEF Task, TaskDetects, TaskShows, vars, Phase
<1> QED BY <1>1, <1>2, <1>3, <1>4, <1>5, <1>6, <1>7, <1>8, Steps DEF Step

\* CameraView implements FrameListener: the listener is told in turn of start and stop,
\* is given nothing in between stop and start, and of each camera's pictures each at most
\* once and none after a newer one.
THEOREM ListenerServed == Spec => ServesListener
BY InitServes, StepServes, Invariant, PTL DEF Spec, ServesListener, Listener!Spec

-----------------------------------------------------------------------------
(* No wake-up is lost. *)

\* Whoever sets what the worker waits for wakes it, or is about to: a worker that waits
\* has no picture to take, and was told to end only if the notification is yet to come,
\* so that it is not joined while it waits.
NoLostWakeUp ==
    /\ worker = "waiting" => ~mCameraFrameReady /\ (mStopThread => ui = "notify")
    /\ ui \in {"notify", "join"} => mStopThread

LEMMA InitWakeUp == Init => NoLostWakeUp
BY DEF Init, NoLostWakeUp

LEMMA StepWakeUp == ASSUME IInv, NoLostWakeUp, [Next]_vars PROVE NoLostWakeUp'
<1> USE DEF NoLostWakeUp, view, flags, chain, work, detect, device, images
\* These begin no wait, and set nothing that is waited for.
<1>1. CASE Asks
  BY <1>1, AsksNext DEF IInv, TypeOK
<1>2. CASE SetDetectParams \/ InitializeCamera \/ ResetFlags \/ StartThread
           \/ CameraViewStarted \/ Join \/ ReleaseCamera \/ CameraViewStopped
  BY <1>2
  DEF SetDetectParams, InitializeCamera, ResetFlags, StartThread, CameraViewStarted, Join,
      ReleaseCamera, CameraViewStopped, UiAt, IInv, TypeOK, ViewOK
\* The stop sets the flag first and wakes the worker next.
<1>3. CASE StopThread \/ Notify
  BY <1>3 DEF StopThread, Notify, UiAt, Wake
\* The worker tests both under the monitor before it waits.
<1>4. CASE Worker
  BY <1>4
  DEF Worker, OpenCamera, WaitForFrame, TakeFrame, DeliverFrame, NoFrame, ConvertFrame,
      DrawFrame, RepeatOrEnd, WorkerAt
\* An image thread makes the picture ready and wakes the worker in one.
<1>5. CASE Camera
  BY <1>5 DEF Camera, Opened, Configured, Disconnected, AcquireImage, PutImage, Wake
<1>6. CASE Task \/ UNCHANGED vars
  BY <1>6 DEF Task, TaskDetects, TaskShows, vars
<1> QED BY <1>1, <1>2, <1>3, <1>4, <1>5, <1>6, Steps DEF Step

\* No notification is lost between the worker's test and its wait: while it waits there is
\* no picture for it, and disconnectCamera never joins it while it waits (CameraWorker,
\* onImageAvailable, disconnectCamera).  That a picture is taken and that the stop returns
\* follows from this as far as the threads run.
THEOREM WakeUpsArrive == Spec => []NoLostWakeUp
<1>1. IInv /\ NoLostWakeUp /\ [Next]_vars => NoLostWakeUp'
  BY StepWakeUp
<1> QED BY <1>1, InitWakeUp, Invariant, PTL DEF Spec
=============================================================================
