---------------------------- MODULE MessageThreads ----------------------------
(***************************************************************************)
(* The threads that send and receive the messages of the remote control,   *)
(* on either side: Commissioner.java in the car and Client.java in the     *)
(* controller start and stop them in the same way.  An activity that is    *)
(* resumed opens the socket, starts a receiver and a sender; one that is   *)
(* paused clears their flags, interrupts them and closes the socket.       *)
(*                                                                         *)
(* Nobody waits for a thread to end and the fields are shared without a    *)
(* lock, so the threads of an activity that was paused can still be there  *)
(* when it is resumed.  The interrupt does not end a DatagramSocket's      *)
(* receive and only shortens the sender's sleep, which the model lets end  *)
(* at any time anyway.                                                     *)
(***************************************************************************)
EXTENDS Integers, Sequences

CONSTANTS
    Owners,     \* which of the two apps: "car", "controller" or either
    MaxResumes  \* bound: how often the activity is resumed

ASSUME OwnerAssumption == Owners \subseteq {"car", "controller"}
ASSUME BoundAssumption == MaxResumes \in Nat \ {0}

Resumes == 1..MaxResumes

VARIABLES
    owner,          \* the app the model is of
    page,           \* the page that is resumed: "command", or "params" without a receiver
    step,           \* the UI thread's place in UiOrder
    count,          \* resumes so far; a socket and a thread are named by the resume they are of
    socket,         \* socket: the one that is open, 0 for null
    isStartReceive, \* isStartReceive
    isStartSend,    \* isStartSend
    receiveMessage, \* receiveMessage: the thread in the field, 0 for null
    sendThread,     \* sendMessageThread
    receiver,       \* for every resume: where its receiver is, and on which socket
    sender,         \* for every resume: where its sender is
    isAddressed,    \* ipAddress is not empty
    crash           \* the null field that has ended the process: "no", "socket" or "thread"

ui      == <<owner, page, step, count>>
fields  == <<socket, isStartReceive, isStartSend, receiveMessage, sendThread>>
vars    == <<ui, fields, receiver, sender, isAddressed, crash>>

\* What onResume and onPause call, in their order.  UsbWebCamActivity and FdActivity
\* stop the sender first, CommandActivity the receiver.
UiOrderReleasesFirst ==
    <<"init", "startReceive", "launch", "startSend", "resumed",
      "release", "stopReceive", "interrupt", "forget", "stopSend", "paused">>
UiOrder ==
    IF owner = "car"
    THEN <<"init", "startReceive", "launch", "startSend", "resumed",
           "stopSend", "stopReceive", "interrupt", "forget", "release", "paused">>
    ELSE IF page = "command"
    THEN <<"init", "startReceive", "launch", "startSend", "resumed",
           "stopReceive", "interrupt", "forget", "stopSend", "release", "paused">>
    ELSE <<"init", "startSend", "resumed", "stopSend", "release", "paused">>
At(name) == UiOrder[step] = name
Pages == IF owner = "car" THEN {"command"} ELSE {"command", "params"}

Unborn == [at |-> "none", on |-> 0]
Alive == crash = "no"

-----------------------------------------------------------------------------
\* Before the first resume; the controller's address is set in onCreate.
Init ==
    /\ owner \in Owners
    /\ page = "command"
    /\ step = Len(UiOrder)
    /\ count = 0
    /\ socket = 0
    /\ isStartReceive = FALSE /\ isStartSend = FALSE
    /\ receiveMessage = 0 /\ sendThread = 0
    /\ receiver = [c \in Resumes |-> Unborn]
    /\ sender = [c \in Resumes |-> "none"]
    /\ isAddressed = (owner = "controller")
    /\ crash = "no"

(* The UI thread. *)

\* The user, or Android, brings the activity back.
Resume(p) ==
    /\ At("paused")
    /\ count < MaxResumes
    /\ page' = p /\ step' = 1 /\ count' = count + 1
    /\ UNCHANGED <<owner, fields, receiver, sender, isAddressed, crash>>

Advance == step' = step + 1 /\ UNCHANGED <<owner, page, count, isAddressed>>
Safely == UNCHANGED crash
Dereferences(field, cause) == crash' = IF field = 0 THEN cause ELSE crash

\* init: the socket of this resume is opened.
OpenSocket ==
    /\ At("init")
    /\ Advance /\ Safely
    /\ socket' = count
    /\ UNCHANGED <<isStartReceive, isStartSend, receiveMessage, sendThread, receiver, sender>>

\* startReceiveClientMessage: the flag, a new thread unless the field has one, and
\* then the thread in the field is started.  Another receiver that ends between the
\* two has set the field to null.
StartReceiveUnmarked ==
    /\ At("startReceive")
    /\ Advance /\ Safely
    /\ receiveMessage' = IF receiveMessage = 0 THEN count ELSE receiveMessage
    /\ UNCHANGED <<socket, isStartReceive, isStartSend, sendThread, receiver, sender>>
StartReceive ==
    /\ At("startReceive")
    /\ Advance /\ Safely
    /\ isStartReceive' = TRUE
    /\ receiveMessage' = IF receiveMessage = 0 THEN count ELSE receiveMessage
    /\ UNCHANGED <<socket, isStartSend, sendThread, receiver, sender>>

Launch ==
    /\ At("launch")
    /\ Advance
    /\ Dereferences(receiveMessage, "thread")
    /\ receiver' = IF receiveMessage = 0 THEN receiver
                   ELSE [receiver EXCEPT ![receiveMessage].at = "test"]
    /\ UNCHANGED <<fields, sender>>

\* startSendMessage.  Only the UI thread has this field.
StartSendUnmarked ==
    /\ At("startSend")
    /\ Advance /\ Safely
    /\ sendThread' = count
    /\ sender' = [sender EXCEPT ![count] = "test"]
    /\ UNCHANGED <<socket, isStartReceive, isStartSend, receiveMessage, receiver>>
StartSend ==
    /\ At("startSend")
    /\ Advance /\ Safely
    /\ isStartSend' = TRUE
    /\ sendThread' = count
    /\ sender' = [sender EXCEPT ![count] = "test"]
    /\ UNCHANGED <<socket, isStartReceive, receiveMessage, receiver>>

Pause ==
    /\ At("resumed")
    /\ Advance /\ Safely
    /\ UNCHANGED <<fields, receiver, sender>>

\* stopReceiveClientMessage: the flag and the test of the field, then the interrupt
\* of the thread in the field, then the field is set to null.  Without a thread to
\* interrupt, Commissioner (171-175) leaves the field alone and Client (230) does not.
StopReceive ==
    /\ At("stopReceive")
    /\ step' = IF receiveMessage # 0 THEN step + 1
               ELSE IF owner = "car" THEN step + 3 ELSE step + 2
    /\ isStartReceive' = FALSE
    /\ UNCHANGED <<owner, page, count, isAddressed, crash>>
    /\ UNCHANGED <<socket, isStartSend, receiveMessage, sendThread, receiver, sender>>

Interrupt ==
    /\ At("interrupt")
    /\ Advance
    /\ Dereferences(receiveMessage, "thread")
    /\ UNCHANGED <<fields, receiver, sender>>

KeepThread ==
    /\ At("forget")
    /\ Advance /\ Safely
    /\ UNCHANGED <<fields, receiver, sender>>
ForgetThread ==
    /\ At("forget")
    /\ Advance /\ Safely
    /\ receiveMessage' = 0
    /\ UNCHANGED <<socket, isStartReceive, isStartSend, sendThread, receiver, sender>>

\* stopSendMessage.  The one of Commissioner (142-152) clears the flag of the
\* receiver, so that the flag of its sender is never cleared.
ClearsFlag ==
    IF owner = "car"
    THEN isStartReceive' = FALSE /\ UNCHANGED isStartSend
    ELSE isStartSend' = FALSE /\ UNCHANGED isStartReceive
StopSend ==
    /\ At("stopSend")
    /\ Advance /\ Safely
    /\ ClearsFlag
    /\ sendThread' = 0
    /\ UNCHANGED <<socket, receiveMessage, receiver, sender>>

\* release: the socket is closed and forgotten.
ReleaseNothing ==
    /\ At("release")
    /\ Advance /\ Safely
    /\ UNCHANGED <<fields, receiver, sender>>
Release ==
    /\ At("release")
    /\ Advance /\ Safely
    /\ socket' = 0
    /\ UNCHANGED <<isStartReceive, isStartSend, receiveMessage, sendThread, receiver, sender>>

UiStep ==
    \/ OpenSocket \/ StartReceive \/ Launch \/ StartSend
    \/ StopReceive \/ Interrupt \/ ForgetThread \/ StopSend \/ Release

(* A receiver: receiveData. *)

Moves(c, from, to) == receiver[c].at = from /\ receiver' = [receiver EXCEPT ![c].at = to]

TestReceiveFlag(c) ==
    /\ IF isStartReceive THEN Moves(c, "test", "read") ELSE Moves(c, "test", "exit")
    /\ UNCHANGED <<ui, fields, sender, isAddressed, crash>>

\* socket.receive: a field that is null ends the process, a socket blocks.
EnterReceive(c) ==
    /\ receiver[c].at = "read"
    /\ Dereferences(socket, "socket")
    /\ receiver' = [receiver EXCEPT ![c] = [at |-> "blocked", on |-> socket]]
    /\ UNCHANGED <<ui, fields, sender, isAddressed>>

\* A message came: the car learns the address of the controller, the handler gets
\* the message.
Hear(c) ==
    /\ receiver[c].on = socket
    /\ Moves(c, "blocked", "test")
    /\ isAddressed' = TRUE
    /\ UNCHANGED <<ui, fields, sender, crash>>

\* The socket the thread is blocked on was closed: the exception is logged.
HearNothing(c) ==
    /\ receiver[c].on # socket
    /\ Moves(c, "blocked", "test")
    /\ UNCHANGED <<ui, fields, sender, isAddressed, crash>>

\* The thread ends, but not without calling stopReceiveClientMessage itself, which
\* does the same as above to whatever receiver there is now.
EndReceiver(c) ==
    /\ Moves(c, "exit", IF receiveMessage # 0 THEN "interrupt"
                        ELSE IF owner = "car" THEN "dead" ELSE "forget")
    /\ isStartReceive' = FALSE
    /\ UNCHANGED <<ui, socket, isStartSend, receiveMessage, sendThread, sender, isAddressed, crash>>

InterruptField(c) ==
    /\ Moves(c, "interrupt", "forget")
    /\ Dereferences(receiveMessage, "thread")
    /\ UNCHANGED <<ui, fields, sender, isAddressed>>

ForgetField(c) ==
    /\ Moves(c, "forget", "dead")
    /\ receiveMessage' = 0
    /\ UNCHANGED <<ui, socket, isStartReceive, isStartSend, sendThread, sender, isAddressed, crash>>

ReceiverStep(c) ==
    \/ TestReceiveFlag(c) \/ EnterReceive(c) \/ HearNothing(c)
    \/ EndReceiver(c) \/ InterruptField(c) \/ ForgetField(c)

(* A sender: sendMessageRunnable and sendMessage. *)

SenderMoves(c, from, to) ==
    /\ sender[c] = from
    /\ sender' = [sender EXCEPT ![c] = to]
    /\ UNCHANGED <<ui, fields, receiver, isAddressed>>

\* The flag, then the address, then (in the car only) the socket, twice.
TestSendFlag(c) ==
    /\ UNCHANGED crash
    /\ SenderMoves(c, "test", IF ~isStartSend THEN "dead"
                              ELSE IF ~isAddressed THEN "sleep"
                              ELSE IF owner = "car" THEN "check" ELSE "send")

CheckSocket(c) ==
    /\ UNCHANGED crash
    /\ SenderMoves(c, "check", IF socket = 0 THEN "sleep" ELSE "send")

\* socket.send: a field that is null ends the process.
Send(c) ==
    /\ SenderMoves(c, "send", "sleep")
    /\ Dereferences(socket, "socket")

\* The 500 ms are over, or the thread was interrupted.
WakeUp(c) ==
    /\ UNCHANGED crash
    /\ SenderMoves(c, "sleep", "test")

SenderStep(c) == TestSendFlag(c) \/ CheckSocket(c) \/ Send(c) \/ WakeUp(c)

Next ==
    /\ Alive
    /\ \/ \E p \in Pages : Resume(p)
       \/ Pause
       \/ UiStep
       \/ \E c \in Resumes : ReceiverStep(c) \/ Hear(c) \/ SenderStep(c)

Spec == Init /\ [][Next]_vars

\* The UI thread finishes what it began, and every thread gets to run.  Nothing is
\* assumed about the user and about messages.
FairSpec ==
    /\ Spec
    /\ WF_vars(Alive /\ UiStep)
    /\ \A c \in Resumes : WF_vars(Alive /\ ReceiverStep(c))
    /\ \A c \in Resumes : WF_vars(Alive /\ SenderStep(c))

-----------------------------------------------------------------------------
(* Type invariant. *)
ReceiverStates ==
    {"none", "test", "read", "blocked", "exit", "interrupt", "forget", "dead"}
SenderStates ==
    {"none", "test", "send", "sleep", "dead"} \union IF owner = "car" THEN {"check"} ELSE {}
TypeOK ==
    /\ owner \in Owners
    /\ page \in Pages
    /\ step \in DOMAIN UiOrder
    /\ count \in 0..MaxResumes
    /\ socket \in {0, count}
    /\ isStartReceive \in BOOLEAN
    /\ isStartSend \in BOOLEAN
    /\ receiveMessage \in {0, count}
    /\ sendThread \in {0, count}
    /\ receiver \in [Resumes -> [at : ReceiverStates, on : 0..MaxResumes]]
    /\ sender \in [Resumes -> SenderStates]
    /\ isAddressed \in BOOLEAN
    /\ crash \in {"no", "socket", "thread"}

\* The null socket ends the process only in the background: never between the
\* opening of the socket in onResume and its closing in onPause, whatever the
\* threads of earlier resumes do.
NoNullSocketInForeground == crash = "socket" => At("paused") \/ At("init")

\* A controller that is paused begins nothing new: a thread that comes to its flag
\* then ends (CommandActivity.java:117, "close the thread that sends commands").
NoRoundWhilePaused ==
    [][owner = "controller" /\ At("paused") => \A c \in Resumes :
        /\ sender[c] = "test" => sender'[c] \in {"test", "dead"}
        /\ receiver[c].at = "test" => receiver'[c].at \in {"test", "exit"}]_vars

\* An activity that is paused for good leaves no receiver behind.
IsOver(at) == at \in {"none", "dead"}
ReceiversEnd ==
    <>[]At("paused") => <>[](~Alive \/ \A c \in Resumes : IsOver(receiver[c].at))

\* An activity that is resumed for good keeps sending.
KeepsSending ==
    <>[]At("resumed") => <>[](~Alive \/ \E c \in Resumes : ~IsOver(sender[c]))

\* onResume prepares the thread that receives the messages of the other app
\* (CommandActivity.java:99).  A page that stays listens, unless a receiver of an
\* earlier resume has ended after that and told this one to stop (Client.java:517).
Listening(c) == receiver[c].at \in {"test", "read", "blocked"}
ListensUnlessStopped ==
    <>[](At("resumed") /\ page = "command") =>
        <>[](\/ ~Alive
             \/ \E c \in Resumes : Listening(c)
             \/ ~isStartReceive /\ \E c \in 1..count - 1 : receiver[c].at = "dead")

=============================================================================
