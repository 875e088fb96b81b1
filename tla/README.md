# Formal models of SelfDriveCar

SelfDriveCar is an Android app that drives a model car. A phone on the car looks
through a camera (its own or a USB one), finds the two lines of a lane and steers
the car over Bluetooth. A second phone can run the same app as a controller: it
switches the car on and off over UDP, watches its video and changes the
parameters of the detection.

This directory holds TLA+ modules of the parts of the app in which timing,
threads, lost datagrams or stale state decide whether it works, the TLC
configurations that check them on small instances, and proofs for TLAPS of the
properties that matter most. Java sources named below are under
`src/openCVSamplefacedetection/src/main/java/`, `CameraBridgeViewBase.java` under
`src/openCVLibrary320/`, native ones under `src/libuvccamera/src/main/jni/`.

## 1. Inventory

### Components with models

**Lane follower** (`CVCameraWrapper.java`). *State*: `isActive`, the two reference
flags, the last and the default positions of the lines, `DETECT_ERROR_COUNTING`,
`channel1Value`, `channel2Value`, `lastTurnValue` and the turn to hold when the
lane is lost. *Operations*: `onCameraFrame` on the camera thread starts a
`DetectLaneTask`, unless one is running; the task detects the lines, `carDirect`
decides which of them to trust, computes steering and power, gates them by
`isActive`, and hands them to the channels and the BLE controller; the task then
records the positions. The parameter page (`MODE_PARAMS`) only records defaults.
The UI thread flips flags and changes settings at any time. *Hard*: no field is
locked, `isActive` and the flags are read more than once, and values of an earlier
lane or an earlier setting survive in the fields. *Correct when*: a lost lane
stops the car and keeps it stopped, outputs stay in range, a car switched off
comes to rest, a lost car does not turn against its last turn.

**Channel** (`Channel.java`). *State*: the trim of a servo (lower end, middle,
upper end), its curve, its direction, the last pulse. *Operation*:
`calculateResult(coordinate)`. *Hard*: two scales, five curves with integer cuts,
and a reversal. *Correct when*: the servo stays within its ends, is monotone, and
reaches the ends.

**Camera view** (`CVCameraWrapper.java`, `CameraBridgeViewBase.java`). *State*:
whether the view is enabled and has a surface, the state of the view, the open
camera and its session, two picture buffers with an index, the flags of the worker,
the wrapper of the lane detection. *Operations*: enable, disable, surface changed and
destroyed; `connectCamera`, `disconnectCamera`; the camera service's `onOpened`,
`onConfigured` and images; `CameraWorker`; the task. *Hard*: five kinds of threads,
some of them of earlier connections; the camera opens asynchronously; the worker
reads its buffer outside the monitor; a flag is set outside it; nobody waits for a
task. *Correct when*: a picture does not change while it is used, none is missed and
no stop hangs, the listener is told of start, pictures and stop in that order, the
process does not end while the view is started.

**UVC preview** (`UVCCamera/UVCPreview.cpp`). *State*: two flags read without a
lock, the queue of pictures to draw, the picture to call back with, a pool of
buffers, the callback object. *Operations*: libuvc's callback copies a picture into
the queue; the preview thread decodes and draws it; the capture thread calls Java;
`startPreview`, `stopPreview` and `setFrameCallback` from Java threads. *Hard*: lost
wake-ups, a wait without a condition, joins of threads that were not created yet,
buffers dropped on the way. *Correct when*: pictures come in order, at most once and
not after the stop; no buffer is in two places or leaks; a stop ends the threads.

**UVC stream** (`libuvc/src/stream.c`). *State*: the transfers, the working and the
held buffer with their frame id, error mark and sequence number, `running`.
*Operations*: start, stop and close; the transfers' callback on libusb's event
thread, which puts packets together and submits the transfer again; the caller's
thread. *Hard*: transfers come back while they are cancelled and counted, submission
may be refused, the camera may be unplugged, packets may be lost, one bit tells
pictures apart, a field is read after the unlock. *Correct when*: the handle is
freed when nobody uses it any more, the data of two pictures is not mixed, no old
picture is handed out again.

**Video stream** (`Commissioner.sendCameraFrameThread`,
`Client.receiveCameraFrameRunnable`). *State*: at the sender the datagram it is at;
at the receiver a byte buffer, the last serial number and a flag. *Operations*: cut
a JPEG into datagrams, glue datagrams together until an end marker is seen.
*Hard*: UDP loses, duplicates and reorders, nothing is acknowledged, frames are
told apart only by their end marker, some lengths hide it, and two of the 255 frame
ids can make a marker where none is. *Correct when*: no torn image is shown, and the
receiver finds back into the stream.

**Message threads** (`Commissioner.java`, `Client.java`, and `onResume`/`onPause`
of `UsbWebCamActivity`, `FdActivity`, `CommandActivity`,
`ChangeDetectionParamsPage`). *State*: a socket, two flags, two thread fields,
shared between the UI thread and every thread that has not ended yet.
*Operations*: open, start, stop, close, and the two loops. *Hard*: nobody waits
for a thread to end, so threads of several resumes exist at once, and a thread
that ends stops "the" receiver, whoever that is now. *Correct when*: no null socket
in the foreground, threads end when paused, sending goes on when resumed.

**Remote control** (`CommandActivity`, `ChangeDetectionParamsPage`, `Client`,
`Commissioner`, `Command`, the handlers of `UsbWebCamActivity` and `FdActivity`).
*State*: the switches the user set, the message under composition, the datagrams,
the queue of the car's main thread, what the car does. *Operations*: clicks and
touches, one message every 500 ms with everything in it, its handling, the car's
own buttons, the recorder. *Hard*: a message is read field by field while the user
clicks, is not numbered, and may be lost, late or twice; the buttons of a page that was
created anew do not show what is sent. *Correct when*: the car ends up doing what the
controller was told.

### How they interact

A picture of the USB camera goes from libusb's event thread (UVC stream) through
libuvc's callback, the preview and the capture thread (UVC preview) to a Java
callback that hands it to the lane follower; one of the phone's own camera goes
through the camera view, whose listener is the lane follower's `onCameraFrame`. The
order that `FrameHandoff` and `FrameListener` promise (each picture at most once,
none after the stop) is what the lane follower takes for granted.

The lane follower calls two channels and the BLE controller with every task. What
it hands to a channel is always in the channel's range (`SentInRange`), which is what
the channel's module assumes of its callers (`CoordinatesAssumption`). The remote
control's messages set `isActive`, the reference flags and the settings of the lane
follower through the car's main thread; the car's buttons set the same fields. The
message threads carry the messages both ways; the video stream runs beside them on
its own port, started and stopped by the `stream` field of the messages.

### Components without models

| component | why not |
|---|---|
| connection display (`CommandActivity` 105-126, 200-217) | a display; next in the plan (section 6) |
| recording (`UsbWebCamActivity`, `DataBase`, `SaveRecord`) | in the plan; the recorder's switch and its retries are in `RemoteControl` |
| opening and closing of the video socket (`Commissioner` 105-127, 284-296) | in the plan |
| settings (`CustomerSetting`, `ParamsFilter`, `SimpleDatabase`) | JSON in a key-value store, one call of the main thread each |
| manual remote control (`RemoteControlPage`) | one touch listener per thumb pad, on top of the channels |
| lane detection (`OpenCVWrapper_jni.cpp`) | image processing; `LaneControl` takes any result it can report |
| BLE controller | binary library, never read back |
| UVC device and controls (`device.c`, `ctrl.c`, `frame.c`) | descriptor parsing, one control transfer per property, pixel conversion: sequential functions of their input |
| USB transfers (libusb) | vendored; `UVCStream` models it as libuvc uses it |
| USB camera adapter | one call per picture |
| OpenCV, libjpeg-turbo | vendored |
| pages and widgets | layout and navigation |

Most of the lines under `src/` are vendored (libusb, libjpeg-turbo, OpenCV) or
generated; of the vendored code, `stream.c` and the camera view's base class are
modelled, because the app's threads run through them.

## 2. Modules

| module | what | proofs | instances |
|---|---|---|---|
| `LaneControl` | lane follower | `LaneControlProofs` | `MCLaneControl` |
| `Channel` | channel | `ChannelProofs` | `MCChannel` |
| `CameraView` | the phone's camera | `CameraViewProofs` | `MCCameraView` |
| `FrameListener` | what `CameraView` promises its listener | | |
| `UVCPreview` | the USB camera's preview | `UVCPreviewProofs` | `MCUVCPreview` |
| `FrameHandoff` | what `UVCPreview` promises its callback | | |
| `UVCStream` | one stream of libuvc | `UVCStreamProofs` | `MCUVCStream` |
| `VideoStream` | video over UDP | `VideoStreamProofs` | `MCVideoStream` |
| `MessageThreads` | threads and socket of either app | `MessageThreadsProofs` | `MCMessageThreads` |
| `RemoteControl` | both apps, the network between them | `RemoteControlProofs` | `MCRemoteControl` |

Definitions that only exist to be put in the place of another (`GivesUpAtLimit` for
`GivesUp`, and so on) are mutants: plausible slips of the code with which a
property must fail. They are not part of any specification.

### LaneControl

The variables are the fields of `CVCameraWrapper`; `pc`, `line`, `compared` and
`isDetect` are the running task's place and locals. `channel1Value` is kept
multiplied by the frame's width and `channel2Value` by ten, so that both are exact
integers; the rounding of doubles is left out, and so is the test for NaN, which
those quotients are not. The task is cut at its reads of shared fields: `Detect`
(996-1036), `Judge` (1250-1295), `SteerByLane` or `SteerBlind` (1297-1383), `Gate`
(1385), `Send` (1391-1404), `Record` (1038-1118), `Finish`. The UI's actions fall
between any two of them; a reference flag read by `Judge` (1265, 1270) is read again by
`Record` (1081, 1094). The settings are written field by field (`ChangeSetting`); while
they are, the task sees a mix (`Mixed`). Merged into one step are the task's two reads of
one field of the settings (1339 and 1341, 1363 and 1365) and its reads of the flags of
the two sides, left and right. `CameraFrame` needs `pc = "idle"`, the test of `testTask`'s
status. `misses` and `lateSends` are history variables.

### Channel

One action, `calculateResult`; the pulse is kept multiplied by the range. `Root` is
`Math.sqrt`, cut to an int, given as a function whose defining inequality is
assumed and evaluated by TLC. Float rounding is left out. Mixing one channel into
another is dead code: its caller is commented out (`CustomerSetting.java` 165-184).

### CameraView and FrameListener

A picture is the connection it came from and its number. `ui` is the main thread's
place in `checkCurrentState`, `connectCamera` and `disconnectCamera`; `worker` the
worker's place in its loop, `task` that of the lane follower's task as far as it
uses the wrapper. What runs under the wrapper's monitor is one step; what reads
`mChainIdx`, `mStopThread` or `openCVWrapper` outside it is a step of its own.
Abstractions: `onOpened` and the request it makes are one step; so is `releaseCamera`,
though `onConfigured` stores its session without a monitor (150-153); writing into a
released `Mat` changes nothing; opening a camera may be refused at any time. Left
out: a view that is not visible, drawing on the surface, the recorder, the parameter
page (it starts no task), the settings' use of the wrapper.

`FrameListener` is the promise of `CvCameraViewListener2`, and the refinement maps
the state of the view to its phase. Pictures may come between the connection and
`onCameraViewStarted`, because `CameraBridgeViewBase` calls it after it connected
(200): the promise allows for them, and `NoCrashWhileStarted` says what they can
cost.

### UVCPreview and FrameHandoff

A picture is its number; the buffers it is in are counted (`mFramePool`, `live`), so
that a leak or a double use shows as `Lost`. Each of the five threads has a place.
What is done under a mutex is one step, what reads `mIsRunning` or `mIsCapturing`
without one is a step of its own, and a wait on a condition is a place of its own
that a signal or a broadcast leaves. The model is of one object as the app uses it:
started once, with a converting callback, without a capture window
(`setCaptureDisplay` has no caller in the app). It is in MJPEG mode, which the app asks
for first; the YUYV mode it falls back to (`UsbWebCamActivity` 651-655), where the preview
thread draws without decoding (`UVCPreview.cpp` 543-552), is left out. A callback is
replaced in one step, all its fields together, and a call with a null object counts as a
call; threads can always be created. `delivered`, `calls` and `unjoined` are
histories. `HandsOffInOrder` is the refinement: the preview implements `FrameHandoff`
with `taken <- shot`, `given <- delivered`, `open <- api # "stopped"`.

### UVCStream

A buffer is the first and the last picture whose data is in it; the camera sends
`Packets` packets for a picture, the last with the end mark, and a picture's frame id
is its parity. A packet may come damaged, with an error libusb reports (`ArriveBad`) or
shorter than its header (`Bogus`, after the header has been looked at), or not at all
(`lost`). A transfer brings at most one packet. `cb_mutex` is never held between two
steps; `running`, and `hold_bfh_err` at line 1655, are read without it. Left out: bulk
transfers, `uvc_stream_get_frame` (polling), the negotiation of formats. libusb
may refuse any transfer that is submitted again (1003) and does so without a camera; it is
then `"stuck"`: it neither comes back nor is deleted.

### VideoStream

A datagram is a record of the frame, the length of the frame, its index, and the marker
that its bytes 1023 and 1024 make; whether it holds the frame's end marker follows from
these. The network is a sequence with actions that lose, duplicate and swap, all of them
counted in `faults`, as is `Restart`, the receiver's thread being started anew in the
middle of the stream. `expected`, `current` and `intact` are histories of what came in
order.

`Client.getByteIndex` searches all 1026 bytes of a datagram, and byte 1024 is the frame
id. Inside a JPEG no bytes look like a marker (JPEG escapes them), but a last byte 0xFF of
a full datagram makes one with the ids 0xD8 and 0xD9. A frame therefore has an id, any
of the set `Ids`, of which the model keeps the `marker` it makes and the set `marked` of
the parts it makes it with; what `EndMarker` and `StartMarker` find decides between ending
the image (330-403), starting over (405-411), keeping the datagram and not keeping it
(415-421). `misread` and
`shownMisread` are histories that tell whether an id has been taken for a marker since the
last true end of an image, and whether it was for the image shown: the properties state
what holds then, and what holds otherwise.

Frames stay below 128 datagrams, where the byte for the serial number changes sign
(`LengthsAssumption`: a frame has 360 x 240 pixels), and are longer than one. `EndImage`
always resets `oldSerial`; the code does not while `showImage` is null (385-391), but the
page sets that before the stream starts (`ChangeDetectionParamsPage` 201).

### MessageThreads

`owner` says of which app the threads are. A socket and a thread are named by the
resume that made them. `UiOrder` is the order of calls in `onResume` and `onPause` of
the car, of the command page and of the parameter page (which has no receiver). A call
is cut in two where it reads a field twice: `StartReceive`/`Launch` and
`StopReceive`/`Interrupt`/`ForgetThread`. `crash` tells which null field ended the
process. `onDestroy` repeats calls of `onPause` and adds nothing. A socket that cannot
be opened, and a second activity that is resumed before the first is stopped, are left
out. `crash = "thread"`, a thread field that is null when it is used, is reachable,
also in the foreground: an ending receiver clears the field between the UI thread's
test and use of it (`Client.java` 213-218). A resumed page can also stay deaf: the
receiver of the resume before ends late and stops the new one (`Client.java` 517);
`ListensUnlessStopped` says that nothing else makes a page deaf. Nothing in the
repository claims otherwise, so both are known weaknesses and not findings.

### RemoteControl

The controller's fields are `wanted` (the switches) and `held` (the parameters under
the finger). `reading` is the sender's place between the fields of
`sendMessageRunnable`; each field is read in a step of its own, in the order of the
constant `Fields`. `Handle` is one turn of the car's main thread and applies the whole
message. `isRecordStart` is the recorder itself, which may fail to start (`prepare`
throws) and is tried again with every message; exceptions that are not caught, of
`MediaRecorder.start` (261) and `stop` (277), are left out. `selected` is what the buttons
of the command page show and decide by; a page created anew shows off, whatever the
client still holds (`OpenPage`). `newest` and `setbacks` are histories.
The threads' own life is in `MessageThreads`; here a page that is open sends, one that
is closed finishes its round. Datagrams of other programs are not modelled.

## 3. Runs

| run | question | instance, and why it is enough |
|---|---|---|
| `LaneNormal` | is there one late output at most; are references paired with last positions? | frame of six pixels, so that 3 is "half a frame"; three results per side including none: lines that are followed, that jump too far, and that cross; a limit of two misses, so that outputs come from every branch |
| `LaneSettings` | do outputs stay in range, does a lost car stop and hold its turn and a car switched off come to rest, while the settings change and the parameter page comes and goes? | two settings that differ in the maximal steering and in the limit of misses (2 and 1), changed field by field, so that each change lowers or raises a limit under a running task and while misses are counted; lines of one side, with a result that reports a position outside the frame |
| `ChannelCurves` | range, monotony, ends and curves | the real range of 1000, a servo of 1000 to 2000 with every order of five trims, 39 coordinates that include the values where a cut changes something |
| `CameraFrames` | is a picture left alone while it is used; do pictures and stops get through; what does the listener see; which cameras are closed; when can the process end? | two connections with two pictures each, the view enabled, disabled and resized at any time: an image thread of the first connection beside everything of the second |
| `CameraLeftOpen` | is a released camera closed? (section 5) | two connections, one picture |
| `PreviewHandoff` | are buffers kept, does a stop end the threads and what can it hang on, is a picture served, is `FrameHandoff` implemented? | a queue of two (four in the code; the proofs cover every length), three pictures, so that one is dropped and one replaced, and one change of the callback by a page besides those of start and stop |
| `PreviewCallback` | does the wait of `setFrameCallback` end the old callback? (section 5) | two pictures |
| `StreamFrames` | who is left when the handle is freed; when are pictures mixed or repeated; does a stop return? | two transfers, two packets per picture, four pictures, three packets lost and one damaged, any transfer refused: the three losses that hide a whole picture and the frame id's change, which is the least with which pictures mix |
| `StreamUnplugged` | who is left when the camera was unplugged? (section 5) | two transfers, one picture |
| `VideoFaults` | torn images, one fault, recovery, and what a frame id that is taken for a marker spoils | four bytes per datagram; frames of two and three datagrams and all the lengths that hide the end marker; each with a harmless id, 0xD8 or 0xD9, and with 0xFF at the end of any of its full datagrams; three frames, three faults, three datagrams in flight: a fault in each of two neighbouring frames and a third in their successor, and two frames to find back with after one an id has cut |
| `Threads` | null socket; do receivers end, does sending go on, does a page listen? | two resumes of either app: threads of the earlier resume beside those of the present one; the controller has two pages that share its threads, and the car's sender is never told to end |
| `RemoteAgree` | stale commands, mixed messages, and do both sides agree in the end? | one switch and the recorder, one parameter, one click, one press at the car, one fault, two datagrams in flight and one message waiting: a datagram overtaken by a newer one, and one that is handled after the user's last click; the recorder fails as often as it likes |

Deadlock checking is off in the runs whose counters are bounded (pictures, resumes,
clicks, connections), where the instance really comes to its end, in the thread and
camera runs also because a crash ends the process, in the stream runs because a freed
stream has ended, and in the preview runs because a stop can really hang (section 5).

### Bounds

`MissBound` caps the history `misses` (it must exceed every limit of the settings);
`MaxFrames`, `MaxShots`, `MaxSwaps`, `MaxBad`, `MaxLost`, `MaxConnects`, `MaxFaults`,
`MaxInFlight`, `MaxResumes`, `MaxClicks`, `MaxPresses` and `MaxQueue` cap what their
names say. `lateSends` and `intact` count up to 2, the first value that matters. The
faults bound of the run with `Agreement` means that the network eventually behaves; the
property could not hold otherwise.

### Fairness

* `LaneControl`: a connected camera keeps delivering frames (`CameraFrame`) and the
  executor and main thread run the task (`Task`). The user owes nothing.
* `CameraView`: the main thread goes on with a start or a stop it began (`UiWork`), and
  the worker runs. The camera service, the user and the task owe nothing.
* `UVCPreview`: a thread that can go on does (libuvc's, preview, capture, the one that
  stops, those that set the callback). A thread that waits for a signal is not woken by
  fairness. The camera need not deliver.
* `UVCStream`: libusb's event thread, the caller's thread and the owner run; an unplugging
  and a stop need not come.
* `MessageThreads`: the UI thread finishes `onResume` and `onPause` once it began, and
  each thread gets to run. Neither a resume nor a message is assumed to come.
* `RemoteControl`: the sender, the receiver and the main thread run, and the network
  delivers what it does not lose. A recorder that is prepared again and again is ready in
  the end (`Recorded`). Clicks, pages and faults are not fair.

All of it but `Recorded` is weak fairness: each of these actions stays enabled until it is
taken. `Recorded` is strong fairness, because the handling of a message, between two of
which it is not enabled, may fail to start the recorder each time.

## 4. Proofs

TLC checks the instances above; TLAPS proves, for every value of the constants:

| theorem | property | from |
|---|---|---|
| `LaneControlProofs!TypeCorrect` | `TypeOK` | `SettingsAssumption`, `LinesAssumption`, `ModesAssumption`, `MissAssumption`, `WidthAssumption` |
| `LaneControlProofs!OutputsInRange` | `SentInRange` | the same |
| `LaneControlProofs!LaneLostStops` | `StopsWhenLaneLost` | the same |
| `LaneControlProofs!OneLateSend` | `LateSendBound` | the same |
| `LaneControlProofs!RestsUntilSwitchedOn` | `RestsWhileOff` | `WidthAssumption` |
| `LaneControlProofs!LostKeepsTurn` | `LostKeepsDirection` | those of the first row |
| `LaneControlProofs!ReferencesPaired` | `ReferencePairsLast` | the same, and `Modes = {"normal"}`: the parameter page records defaults alone |
| `ChannelProofs!TypeCorrect` | `TypeOK` | `RangeAssumption`, `PulsesAssumption`, `CoordinatesAssumption`, `RootAssumption` |
| `ChannelProofs!ServoWithinEnds` | `WithinEnds` | the same |
| `ChannelProofs!PulsesFollow` | `Monotone` | the same |
| `ChannelProofs!EndsReached` | `ReachesEnds` | the same |
| `ChannelProofs!CurvesAsNamed` | `CurveAsNamed` | the same |
| `CameraViewProofs!TypeCorrect` | `TypeOK` | `BoundsAssumption` |
| `CameraViewProofs!FramesUntouched` | `FrameUntouched` | the same |
| `CameraViewProofs!NoCrash` | `NoCrashWhileStarted` | the same |
| `CameraViewProofs!CamerasClosed` | `ClosedWhenConfigured` | the same |
| `CameraViewProofs!ListenerServed` | `ServesListener` | the same |
| `CameraViewProofs!WakeUpsArrive` | `NoLostWakeUp` | the same |
| `UVCPreviewProofs!TypeCorrect` | `TypeOK` | `FrameAssumption`, `BoundAssumption` |
| `UVCPreviewProofs!BuffersSafe` | `BuffersAccounted` | the same |
| `UVCPreviewProofs!StopSafe` | `StopEndsThreads` | the same |
| `UVCPreviewProofs!HandoffSafe` | `HandsOffInOrder` | the same |
| `UVCPreviewProofs!WakeUpsArrive` | `NoLostWakeUp` | nothing |
| `UVCStreamProofs!TypeCorrect` | `TypeOK` | `PacketsAssumption`, `LimitAssumption` |
| `UVCStreamProofs!CloseSafe` | `ClosedAlone` | the same |
| `UVCStreamProofs!LossSafe` | `MixedOnlyByLoss` | the same |
| `UVCStreamProofs!RepeatSafe` | `RepeatsOnlyAfterError` | the same |
| `UVCStreamProofs!WakeUpsArrive` | `NoLostWakeUp` | the same |
| `VideoStreamProofs!TypeCorrect` | `TypeOK` | `ChunkAssumption`, `LengthsAssumption`, `IdsAssumption`, `BoundsAssumption` |
| `VideoStreamProofs!ImagesInPlace` | `ShownInPlace` | the same |
| `VideoStreamProofs!ReceiverResyncs` | `ResyncAfterOneFrame` | the same |
| `VideoStreamProofs!SingleFaults` | `SingleFaultTolerated` | the same |
| `MessageThreadsProofs!TypeCorrect` | `TypeOK` | `OwnerAssumption`, `BoundAssumption` |
| `MessageThreadsProofs!NullSocketInBackground` | `NoNullSocketInForeground` | the same |
| `MessageThreadsProofs!QuietWhilePaused` | `NoRoundWhilePaused` | the same |
| `MessageThreadsProofs!SendingKept` | `KeepsSending` | the same |
| `MessageThreadsProofs!ListeningKept` | `ListensUnlessTold` | the same |
| `MessageThreadsProofs!PauseReleases` | `ReleasedWhenPaused` | the same |
| `RemoteControlProofs!TypeCorrect` | `TypeOK` | `FieldsAssumption`, `ParameterAssumption`, `BoundsAssumption` |
| `RemoteControlProofs!CurrentMessages` | `CurrentSaysWanted` | the same |
| `RemoteControlProofs!LineOrdered` | `Ordered` | the same |
| `RemoteControlProofs!SetbacksAreFaults` | `SetbackBound` | the same |

**Lane follower.** *OutputsInRange*: that `sent` is in range is not inductive; it
depends on what is in the channel fields when the task sends, and these can come from
the held turn, from a stale value or from the clamp. The invariant adds a range for
every one of those fields at every place of the task; the settings may change in
between, so the range is that of any setting and not of the present one.
*LaneLostStops*: that the power is 0 when enough tasks in a row trusted no line does
not survive a step by itself; one must know that the error count has kept pace with
`misses` although it is cut back to a limit that may change. The invariant is about a
car that still has power: its error count equals `misses`, because the count is only
cut back where the power is taken away, and some setting has a limit above it.
*LostKeepsTurn* is the same argument for the turn: until the follower gave up, the
count has kept pace; once it did, the turn is the held one or none. *OneLateSend*: an
output counted as late is that of a task that had passed the test of `isActive`; every
task that comes to its output later met the test and has neutral values. *ReferencesPaired*
adds that a line trusted between judging and recording lies in the frame.
*RestsUntilSwitchedOn*: a task that comes to its output while the car is off either
passed the test with neutral values or met it and had them set; so a car that stands and
has no other values about to be sent stands until it is switched on.

**Channel.** The curves map `0..RANGE` into itself (`CurveInRange`, which rests on
`QuotientInRange` for the square and on `SquareShrinks` for the root), keep its order
(`CurveGrows`) and its ends; multiplication by the two scales keeps all three. `Kept`
says that the pulse kept is that of the coordinate kept, and carries them to the
specification.

**Camera view.** `IInv` joins six parts to the types. `Lifecycle`: the main thread's
place tells the view's state and when there can be a worker. `Wrapper`: from
`onCameraViewStarted` to `onCameraViewStopped` there is a wrapper. `Buffers`: a
picture that is ready is in the buffer that is written, one that was taken in the
other, so no image thread writes what the worker reads. `Order`: no picture is older
than one further down the line, which gives the refinement. `Sessions`: while every
connection lasted until its session was configured, the session that is set is that
of the one open camera. `NoCrashWhileStarted` itself is inductive with these.
*WakeUpsArrive*: the worker tests both its flags under the monitor it waits on; the image
thread sets one and notifies in one step, the main thread sets the other without the
monitor but notifies after it, so a worker that waits while the stop is flagged meets the
main thread at its `notify` and not yet at its `join`.

**UVC preview.** `IInv` is `TypeOK`, `Lifecycle` (how far the stop has come against
what the threads can still do), `Accounted` (a buffer is lost only by a preview thread
that then leaves its loop, so one at most) and `Order` (a picture further down the
line, from the camera over both queues and hands to the callback, is older than those
behind it). Every step then maps to a step of `FrameHandoff` or leaves it alone.
*WakeUpsArrive* needs none of it: a picture is added only by a step that leaves the thread
it is for no longer waiting, a broadcast for the capture thread, a signal for the preview
thread, on whose condition variable nobody else waits. It says nothing of `mIsRunning`,
which is cleared without the mutex: section 5.

**UVC stream.** `Calls` ties a transfer that is called back to the event thread's
place. `Lifecycle` orders start and stop while nothing has gone wrong: the stop joins
the caller only when every transfer is gone. `Content` orders the two buffers and the
camera's packets; `UserOrder` the caller's picture behind them. `Loss` counts: if the
working buffer's last picture is not the camera's present one, so many packets went
missing since (`Gap`) that a joint of two pictures with the same frame id has cost more
than a whole picture. *WakeUpsArrive*: `running` is cleared without a broadcast at two
places, by the stop and by a transfer that tells of a missing device; a caller that waits
in a stream that does not run is between that and the broadcast to come, unless the start
was refused, which is the one way that forgets it.

**Video stream.** All of it is for every set of frame ids, 0xD8 and 0xD9 included.
*ImagesInPlace*: the receiver's buffer holds parts that follow each other as long as
`ifDropFrame` is not set, and `oldSerial` is then the index of the last of them; only an
id that was taken for a marker (`misread`) lets it begin with another part than 0; nothing
about the network enters. *ReceiverResyncs*: unless an id makes one, only the last part of
a frame can hold an end marker (`MiddleHasNoEnd`), and that of a readable frame does
(`LastHasEnd`); so the end of one complete readable frame empties the buffer, also of what
an id has left there, and while the next one comes in order the buffer holds just what came
of it (`Synchronised`).
*SingleFaults* looks ahead at the datagrams still to come (`Ahead`). Before the first fault
they come in sequence, behind what is in the buffer (`InSequence`). The receiver compares
serial numbers only, so a fault would spoil an image where it puts a datagram of another
frame behind one whose number it continues (`Torn`). A single fault does that in one case:
the first datagram of a frame overtakes the second, and last, of the frame before; but
before that first datagram the receiver sees a gap (`TornAtFirst`), so that it drops what
it has. Until a second fault the buffer is therefore of one frame, or dropped
(`OneFrame`). An id that empties or resets the buffer in the middle of a frame takes the
gap away that `TornAtFirst` relies on; so after a fault `OneFrame` holds only as long as
none was misread, and without a fault it holds regardless.

**Message threads.** While the activity is in the foreground the socket field holds the
socket of the present resume; a null dereference needs a null field, and so happened
before the opening or after the closing. `FieldsInv` says between which calls a thread
field is set and a flag of the controller up. `SenderInv`: from `startSend` to `stopSend`
the flag is set and the sender of this resume has not ended; as the sender only has to stay,
*SendingKept* proves `KeepsSending` without fairness. `ReceiverInv`: from `startReceive` to
`stopReceive` the receivers' flag is set unless an earlier receiver, ending late, has
cleared it, and the receiver of this resume leaves its loop only then. `BlockedInv`: nobody
is blocked on a null socket, so that closing the socket releases everybody.

**Remote control.** `Current` is the set of messages that can be under way: none says
more than was clicked, and one composed after the last click says what is wanted. Losing,
doubling and swapping keep a sequence of them one (`Removed`, `Inserted`, `Swapped`); a
click makes every message an old one; and the message under composition agrees, in the
fields read so far, with what is wanted unless there was a click (`ReadSoFar`).
*LineOrdered* looks at the messages in the order in which the car will apply them: the one
applied last, those that wait in its mailbox, those on the network, the one being composed.
Each was composed at a click, and in that line the clicks never fall unless something went
wrong. The invariant gives each message a level between `setbacks` and `faults`, rising
wherever the click falls (`Levelled`): a fault makes room for one more level (losing a
message leaves a line that needs no more, `Reindexed`; doubling and swapping neighbours add
one fall, `Exchanged`), and a message that sets the car back uses up the lowest. That there
are such levels says that `setbacks` is at most `faults`, which is *SetbacksAreFaults*.

Only model-checked: the liveness properties that rest on fairness (`EventuallyNeutral`,
`FrameIsTaken`, `PictureIsServed`, both `StopReturns`, `StopHangsOnlyOnWait`,
`ReceiversEnd`, `ListensUnlessStopped`, `Agreement`): that an action is enabled, which
fairness needs, is out of the prover's reach. What they rest on besides fairness is proved
where it can be said without it: nobody waits for what is already there
(`NoLostWakeUp` of the three modules with a condition variable), nobody is blocked for ever
(`ReleasedWhenPaused`), a flag is cleared for one reason only (`ListensUnlessTold`), the
state to be reached is not left again (`RestsWhileOff`), and a current message says what is
wanted (`CurrentSaysWanted`). These were checked by TLC on the instances of section 3 before
they were proved. Every invariant, action property and refinement of the passing runs is
stated by a theorem.

## 5. Where the code and its comments disagree

* `PreviewCallback`: `UVCPreview.cpp:218` says that `setFrameCallback` waits for
  "finishing capturing". It waits once, for any broadcast; that of the next picture (709)
  ends the wait while the capture thread is still in the old callback (851-868), whose
  object is then deleted (224).
* `StreamUnplugged`: `stream.c:1858` says that `uvc_stream_close` "Closes stream, frees
  handle and all streaming resources". After the camera was unplugged `running` is clear
  (985), so the close skips the stop (1867) and frees the handle while the callback, other
  transfers and the caller's thread use it. `ClosedAlone` shows that it is safe otherwise.
* `CameraLeftOpen`: `CVCameraWrapper.java:190` says of `disconnectCamera` "2. Stop camera
  and release it". A camera whose `onOpened` or `onConfigured` comes later is not closed
  and goes on delivering. `ClosedWhenConfigured` shows that it is the only way.

What the models show besides, where no comment says otherwise or a comment can be read
either way:

* A task that passed the test at `CVCameraWrapper.java:1385` drives a car once more after
  it was switched off (684 says that only a started car is given the values);
  `LateSendBound` shows that it is once at most. Switching to the parameter page leaves
  the last output with the car.
* Note 1 (`CVCameraWrapper.java:1489`) compares with the last position that was recognised
  validly; the code (1437) compares with whatever is in the field. The last note (1509)
  gives no power beyond 60 % of the steering where `getChannel2Value` gives a fifth; the
  comment at 1464 records that as a later decision.
* `stopPreview` can hang: it clears `mIsRunning` and signals without the mutex
  (`UVCPreview.cpp:359`), and a thread between its test and its wait is not woken.
  `StopHangsOnlyOnWait` shows that this is the only way. A stop that comes before the
  preview thread created the capture thread joins an id that was never set.
* A transfer that libusb refuses to take again (`stream.c:1003`) makes the stop wait for
  ever; `StopReturns` shows that nothing else does.
* Pictures can reach the worker before `onCameraViewStarted`, which makes the wrapper, and
  a task can outlive `onCameraViewStopped`, which drops it; either ends the process
  (`NoCrashWhileStarted` bounds when).
* A frame id can be taken for a marker: `Client.getByteIndex` (592-634) searches the byte
  behind the JPEG's, and the ids run through 0 to 254 (`CVCameraWrapper.java` 848-855). In
  the frame with id 0xD9 a full datagram that ends in 0xFF ends the image there (330): it
  is decoded cut short, without any fault of the network; if it is the frame's first, it
  is not kept (415-419), and what follows is decoded without it. In the frame with id 0xD8
  such a datagram starts the image anew (405-411), and all but one byte of what came is
  lost. This can happen once each in 255 frames. `ShownInPlace`, `SingleFaultTolerated` and
  `ResyncAfterOneFrame` bound the damage: the parts shown are in a row, without a fault
  they are of one frame, and the next two frames no id cuts put it right.
* A command page that was created anew shows its switches off while the client still sends
  them on (`CommandActivity.java` 142-194); `Agreement` says that the car does what is sent.
* A receiver that ends late makes the next resume deaf (`Client.java:517`), and one that
  ends between a test and a use of its field ends the process (`Client.java:218`).

## 6. Not modelled, and plan

Not modelled because there is no interaction a model would add to: the settings, the
manual remote control, the UVC controls, pages and widgets. Not modelled because it is
numeric or outside the source: the lane detection, the BLE controller, the vendored
libraries (each replaced by what the code can observe of it).

Done: all modules of section 2, with two abstract specifications. Left, in this order:

1. `ConnectionWatch`: the connection display with its one-second timer, the car's status
   messages and the pauses of the page (a page paused within its first second leaves its
   timer running beside the next, `CommandActivity.java:105`).
2. `VideoSession`: opening and closing the video sockets and threads of both apps around
   `VideoStream` (the car's socket is never closed, `Commissioner.java:291`).
3. `Recording`: recorder and surface shared by the main and the detection thread
   (`UsbWebCamActivity.java:277`), batches of ten records.
4. `DrivenCar`: `RemoteControl` composed with `LaneControl` and `Channel` - a user who
   switches the car off for good sees it come to rest.
5. Abstract specifications: a channel that delivers whole images, to be implemented by
   `VideoStream` up to its faults; a register that eventually holds the last value
   written, for `RemoteControl`.
