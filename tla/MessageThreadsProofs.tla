------------------------ MODULE MessageThreadsProofs ------------------------
(***************************************************************************)
(* Proofs about MessageThreads, for any number of resumes: a thread that   *)
(* meets a null socket does so while the activity is in the background,    *)
(* the fields keep their types, a paused controller begins no round, a     *)
(* page keeps sending and listening while it is there, and a paused        *)
(* activity holds no receiver.                                             *)
(***************************************************************************)
EXTENDS MessageThreads, TLAPS

Last == Len(UiOrder)

\* Where the UI thread is, read off the order of its calls.
LEMMA Places ==
    ASSUME owner \in {"car", "controller"}, page \in Pages, step \in 1..Last
    PROVE  /\ Last \in Nat /\ Last > 2
           /\ At("init") <=> step = 1
           /\ At("paused") <=> step = Last
           /\ At("release") => step = Last - 1
           /\ At("stopReceive") => step > 1 /\ step + 3 < Last
           /\ At("interrupt") => step > 1 /\ step + 1 < Last
           /\ At("forget") => step > 1 /\ step + 1 < Last
           /\ At("stopSend") => step > 1 /\ step + 1 < Last
           /\ At("startReceive") => step > 1 /\ step + 1 < Last
           /\ At("launch") => step > 1 /\ step + 1 < Last
           /\ At("startSend") => step > 1 /\ step + 1 < Last
           /\ At("resumed") => step > 1 /\ step + 1 < Last
<1>1. CASE owner = "car"
  BY <1>1 DEF Pages, UiOrder, At, Last
<1>2. CASE owner = "controller" /\ page = "command"
  BY <1>2 DEF Pages, UiOrder, At, Last
<1>3. CASE owner = "controller" /\ page = "params"
  BY <1>3 DEF Pages, UiOrder, At, Last
<1> QED
  BY <1>1, <1>2, <1>3 DEF Pages

\* The socket is null only before it is opened and after it was closed, and the
\* resume that opens it has a number.
SocketInv ==
    /\ owner \in {"car", "controller"}
    /\ page \in Pages
    /\ step \in 1..Last
    /\ count \in Nat
    /\ step # Last => count # 0
    /\ socket = 0 => step = 1 \/ step = Last
    /\ crash = "socket" => step = 1 \/ step = Last

LEMMA InitSocket == Init => SocketInv
  BY OwnerAssumption DEF Init, SocketInv, Pages, UiOrder, Last

\* Within one resume the order of the calls stays.
LEMMA SamePage == ASSUME page' = page, owner' = owner PROVE Last' = Last /\ Pages' = Pages
  BY DEF Last, UiOrder, Pages

LEMMA NextSocket == ASSUME SocketInv, [Next]_vars PROVE SocketInv'
<1> USE DEF SocketInv
<1>0. CASE UNCHANGED vars
  BY <1>0, SamePage DEF vars, ui, fields
<1>1. ASSUME NEW p \in Pages, Alive, Resume(p) PROVE SocketInv'
  <2>1. /\ page' = p /\ owner' = owner /\ step' = 1 /\ count' = count + 1
        /\ crash' = crash /\ crash = "no"
    BY <1>1 DEF Resume, Alive
  <2>2. page' \in Pages'
    BY <2>1 DEF Pages
  <2>3. Last' \in Nat /\ Last' > 2
    BY <2>1, <2>2 DEF Pages, UiOrder, Last
  <2>4. count' # 0
    BY <2>1
  <2> QED
    BY <2>1, <2>2, <2>3, <2>4
<1>2. ASSUME Alive, UiStep \/ Pause PROVE SocketInv'
  <2>0. crash = "no"
    BY <1>2 DEF Alive
  <2>1. CASE OpenSocket
    BY <2>0, <2>1, Places, SamePage DEF OpenSocket, Advance, Safely
  <2>2. CASE StartReceive
    BY <2>0, <2>2, Places, SamePage DEF StartReceive, Advance, Safely
  <2>3. CASE Launch
    BY <2>0, <2>3, Places, SamePage DEF Launch, Advance, Dereferences, fields
  <2>4. CASE StartSend
    BY <2>0, <2>4, Places, SamePage DEF StartSend, Advance, Safely
  <2>5. CASE Pause
    BY <2>0, <2>5, Places, SamePage DEF Pause, Advance, Safely, fields
  <2>6. CASE StopReceive
    BY <2>0, <2>6, Places, SamePage DEF StopReceive
  <2>7. CASE Interrupt
    BY <2>0, <2>7, Places, SamePage DEF Interrupt, Advance, Dereferences, fields
  <2>8. CASE ForgetThread
    BY <2>0, <2>8, Places, SamePage DEF ForgetThread, Advance, Safely
  <2>9. CASE StopSend
    BY <2>0, <2>9, Places, SamePage DEF StopSend, Advance, Safely
  <2>10. CASE Release
    BY <2>0, <2>10, Places, SamePage DEF Release, Advance, Safely
  <2> QED
    BY <1>2, <2>1, <2>2, <2>3, <2>4, <2>5, <2>6, <2>7, <2>8, <2>9, <2>10 DEF UiStep
\* A thread may find the socket null, and that is at these two places.
<1>3. ASSUME NEW c \in Resumes, Alive, ReceiverStep(c) \/ Hear(c) \/ SenderStep(c)
      PROVE  SocketInv'
  <2>1. UNCHANGED <<owner, page, step, count, socket>>
    BY <1>3 DEF ReceiverStep, SenderStep, TestReceiveFlag, EnterReceive, Hear, HearNothing,
                EndReceiver, InterruptField, ForgetField, TestSendFlag, CheckSocket, Send,
                WakeUp, SenderMoves, ui, fields
  <2>2. crash' = "socket" => socket = 0
    BY <1>3 DEF ReceiverStep, SenderStep, TestReceiveFlag, EnterReceive, Hear, HearNothing,
                EndReceiver, InterruptField, ForgetField, TestSendFlag, CheckSocket, Send,
                WakeUp, Dereferences, Alive
  <2> QED
    BY <2>1, <2>2, SamePage
<1> QED
  BY <1>0, <1>1, <1>2, <1>3 DEF Next

\* However often the activity is resumed and however slowly the threads of earlier
\* resumes end, no thread meets a null socket while the activity is there
\* (Commissioner.java 65-80, 97, 216 and Client.java 80-102, 203, 459).
THEOREM NullSocketInBackground == Spec => []NoNullSocketInForeground
<1>1. Init => SocketInv
  BY InitSocket
<1>2. SocketInv /\ [Next]_vars => SocketInv'
  BY NextSocket
<1>3. SocketInv => NoNullSocketInForeground
  BY Places DEF SocketInv, NoNullSocketInForeground
<1> QED
  BY <1>1, <1>2, <1>3, PTL DEF Spec

-----------------------------------------------------------------------------
(* Type correctness, and a controller that begins nothing new in the background. *)

\* Which call is the UI thread's n-th, for each of the three orders.
LEMMA CallOrder ==
    ASSUME owner \in {"car", "controller"}, page \in Pages, step \in 1..Last
    PROVE  /\ owner = "car" =>
                /\ page = "command" /\ Last = 11
                /\ At("init") => step = 1
                /\ At("startReceive") => step = 2
                /\ At("launch") => step = 3
                /\ At("startSend") => step = 4
                /\ At("resumed") => step = 5
                /\ At("stopSend") => step = 6
                /\ At("stopReceive") => step = 7
                /\ At("interrupt") => step = 8
                /\ At("forget") => step = 9
                /\ At("release") => step = 10
           /\ owner = "controller" /\ page = "command" =>
                /\ Last = 11
                /\ At("init") => step = 1
                /\ At("startReceive") => step = 2
                /\ At("launch") => step = 3
                /\ At("startSend") => step = 4
                /\ At("resumed") => step = 5
                /\ At("stopReceive") => step = 6
                /\ At("interrupt") => step = 7
                /\ At("forget") => step = 8
                /\ At("stopSend") => step = 9
                /\ At("release") => step = 10
           /\ owner = "controller" /\ page # "command" =>
                /\ Last = 6
                /\ At("init") => step = 1
                /\ At("startSend") => step = 2
                /\ At("resumed") => step = 3
                /\ At("stopSend") => step = 4
                /\ At("release") => step = 5
                /\ ~At("startReceive") /\ ~At("launch") /\ ~At("stopReceive")
                /\ ~At("interrupt") /\ ~At("forget")
<1>1. CASE owner = "car"
  BY <1>1 DEF Pages, UiOrder, At, Last
<1>2. CASE owner = "controller" /\ page = "command"
  BY <1>2 DEF Pages, UiOrder, At, Last
<1>3. CASE owner = "controller" /\ page = "params"
  BY <1>3 DEF Pages, UiOrder, At, Last
<1> QED
  BY <1>1, <1>2, <1>3 DEF Pages

\* While which calls a field can be set, and a flag of the controller up.
FieldsInv ==
    /\ socket # 0 => step \in 2..(Last - 1)
    /\ receiveMessage # 0 =>
        page = "command" /\ step \in 3..(IF owner = "car" THEN 9 ELSE 8)
    /\ sendThread # 0 => step \in IF owner = "car" THEN 5..6
                                  ELSE IF page = "command" THEN 5..9 ELSE 3..4
    /\ owner = "controller" =>
        /\ isStartReceive => page = "command" /\ step \in 3..6
        /\ isStartSend => step \in IF page = "command" THEN 5..9 ELSE 3..4

TypeInv == TypeOK /\ SocketInv /\ FieldsInv

\* The domain of the order is its places.
LEMMA Domain == DOMAIN UiOrder = 1..Last
<1>1. CASE owner = "car"
  BY <1>1 DEF UiOrder, Last
<1>2. CASE owner # "car" /\ page = "command"
  BY <1>2 DEF UiOrder, Last
<1>3. CASE owner # "car" /\ page # "command"
  BY <1>3 DEF UiOrder, Last
<1>. QED
  BY <1>1, <1>2, <1>3

\* The same after a step.
LEMMA NextDomain == (DOMAIN UiOrder)' = 1..Last'
<1>1. CASE owner' = "car"
  BY <1>1 DEF UiOrder, Last
<1>2. CASE owner' # "car" /\ page' = "command"
  BY <1>2 DEF UiOrder, Last
<1>3. CASE owner' # "car" /\ page' # "command"
  BY <1>3 DEF UiOrder, Last
<1>. QED
  BY <1>1, <1>2, <1>3

LEMMA InitTypeInv == Init => TypeInv
<1>. SUFFICES ASSUME Init PROVE TypeInv
  OBVIOUS
<1>1. SocketInv
  BY InitSocket
<1>2. isAddressed \in BOOLEAN
  BY DEF Init
<1>3. /\ socket = 0 /\ receiveMessage = 0 /\ sendThread = 0 /\ count = 0
      /\ isStartReceive = FALSE /\ isStartSend = FALSE /\ crash = "no"
      /\ owner \in Owners
      /\ receiver = [c \in Resumes |-> Unborn] /\ sender = [c \in Resumes |-> "none"]
  BY DEF Init
<1>4. TypeOK
  <2>1. receiver \in [Resumes -> [at : ReceiverStates, on : 0..MaxResumes]]
    BY <1>3, BoundAssumption DEF Unborn, ReceiverStates
  <2>2. sender \in [Resumes -> SenderStates]
    BY <1>3 DEF SenderStates
  <2>3. page \in Pages /\ step \in DOMAIN UiOrder /\ count \in 0..MaxResumes
    BY <1>1, <1>3, Domain, BoundAssumption DEF SocketInv
  <2>. QED
    BY <1>2, <1>3, <2>1, <2>2, <2>3 DEF TypeOK
<1>5. FieldsInv
  BY <1>3 DEF FieldsInv
<1>. QED
  BY <1>1, <1>4, <1>5 DEF TypeInv

\* A step of a receiver or a sender keeps the types.
LEMMA ThreadType ==
    ASSUME TypeOK, NEW c \in Resumes, ReceiverStep(c) \/ Hear(c) \/ SenderStep(c)
    PROVE  TypeOK'
<1>. USE DEF TypeOK
<1>1. UNCHANGED <<owner, page, step, count, socket, isStartSend, sendThread>>
  BY DEF ReceiverStep, SenderStep, TestReceiveFlag, EnterReceive, Hear, HearNothing,
         EndReceiver, InterruptField, ForgetField, TestSendFlag, CheckSocket, Send,
         WakeUp, SenderMoves, ui, fields
<1>2. Pages' = Pages /\ UiOrder' = UiOrder /\ SenderStates' = SenderStates
  BY <1>1 DEF Pages, UiOrder, SenderStates
<1>3. /\ isStartReceive' \in BOOLEAN /\ receiveMessage' \in {0, count}
      /\ isAddressed' \in BOOLEAN /\ crash' \in {"no", "socket", "thread"}
  BY DEF ReceiverStep, SenderStep, TestReceiveFlag, EnterReceive, Hear, HearNothing,
         EndReceiver, InterruptField, ForgetField, TestSendFlag, CheckSocket, Send,
         WakeUp, SenderMoves, Dereferences, ui, fields
<1>4. receiver' \in [Resumes -> [at : ReceiverStates, on : 0..MaxResumes]]
  <2>1. socket \in 0..MaxResumes
    BY BoundAssumption
  <2>. QED
    BY <2>1 DEF ReceiverStep, SenderStep, TestReceiveFlag, EnterReceive, Hear, HearNothing,
         EndReceiver, InterruptField, ForgetField, TestSendFlag, CheckSocket, Send,
         WakeUp, SenderMoves, Moves, ReceiverStates
<1>5. sender' \in [Resumes -> SenderStates]
  BY DEF ReceiverStep, SenderStep, TestReceiveFlag, EnterReceive, Hear, HearNothing,
         EndReceiver, InterruptField, ForgetField, TestSendFlag, CheckSocket, Send,
         WakeUp, SenderMoves, SenderStates
<1>. QED
  BY <1>1, <1>2, <1>3, <1>4, <1>5

\* A step of the UI thread, the resume and the pause included, keeps them too.
LEMMA UiType ==
    ASSUME TypeInv, Alive, UiStep \/ Pause \/ \E p \in Pages : Resume(p)
    PROVE  TypeOK'
<1>. USE DEF TypeInv, TypeOK
<1>0. SocketInv'
  BY NextSocket DEF Next
<1>1. /\ owner' \in Owners /\ page' \in Pages' /\ step' \in DOMAIN UiOrder'
      /\ owner' = owner
  BY <1>0, NextDomain DEF SocketInv, UiStep, OpenSocket, StartReceive, Launch, StartSend,
         StopReceive, Interrupt, ForgetThread, StopSend, Release, Pause, Resume, Advance
<1>2. SenderStates' = SenderStates
  BY <1>1 DEF SenderStates
<1>3. CASE UiStep \/ Pause
  <2>1. UNCHANGED <<page, count, isAddressed>>
    BY <1>3 DEF UiStep, OpenSocket, StartReceive, Launch, StartSend, StopReceive,
         Interrupt, ForgetThread, StopSend, Release, Pause, Advance
  <2>2. /\ socket' \in {0, count} /\ receiveMessage' \in {0, count}
        /\ sendThread' \in {0, count} /\ isStartReceive' \in BOOLEAN
        /\ isStartSend' \in BOOLEAN /\ crash' \in {"no", "socket", "thread"}
    BY <1>3 DEF UiStep, OpenSocket, StartReceive, Launch, StartSend, StopReceive,
         Interrupt, ForgetThread, StopSend, Release, Pause, Safely, Dereferences,
         ClearsFlag, fields
  <2>3. receiver' \in [Resumes -> [at : ReceiverStates, on : 0..MaxResumes]]
    BY <1>3 DEF UiStep, OpenSocket, StartReceive, Launch, StartSend, StopReceive,
         Interrupt, ForgetThread, StopSend, Release, Pause, ReceiverStates
  <2>4. sender' \in [Resumes -> SenderStates]
    BY <1>3 DEF UiStep, OpenSocket, StartReceive, Launch, StartSend, StopReceive,
         Interrupt, ForgetThread, StopSend, Release, Pause, SenderStates
  <2>. QED
    BY <1>1, <1>2, <2>1, <2>2, <2>3, <2>4
<1>4. CASE \E p \in Pages : Resume(p)
  <2>1. /\ count < MaxResumes /\ count' = count + 1
        /\ UNCHANGED <<fields, receiver, sender, isAddressed, crash>>
        /\ At("paused")
    BY <1>4 DEF Resume
  <2>2. socket = 0 /\ receiveMessage = 0 /\ sendThread = 0
    BY <2>1, Places, CallOrder DEF SocketInv, FieldsInv
  <2>. QED
    BY <1>1, <1>2, <2>1, <2>2, BoundAssumption DEF fields
<1>. QED
  BY <1>3, <1>4

\* A field is set, and a flag of the controller up, only between these calls.
LEMMA NextFields == ASSUME TypeInv, [Next]_vars PROVE FieldsInv'
<1>. USE DEF TypeInv, SocketInv, FieldsInv
<1>1. CASE UNCHANGED vars
  BY <1>1, SamePage DEF vars, ui, fields
<1>2. ASSUME NEW c \in Resumes, ReceiverStep(c) \/ Hear(c) \/ SenderStep(c)
      PROVE  FieldsInv'
  <2>1. UNCHANGED <<owner, page, step, count, socket, isStartSend, sendThread>>
    BY <1>2 DEF ReceiverStep, SenderStep, TestReceiveFlag, EnterReceive, Hear, HearNothing,
         EndReceiver, InterruptField, ForgetField, TestSendFlag, CheckSocket, Send,
         WakeUp, SenderMoves, ui, fields
  <2>2. /\ receiveMessage' \in {0, receiveMessage}
        /\ isStartReceive' => isStartReceive
    BY <1>2 DEF ReceiverStep, SenderStep, TestReceiveFlag, EnterReceive, Hear, HearNothing,
         EndReceiver, InterruptField, ForgetField, TestSendFlag, CheckSocket, Send,
         WakeUp, SenderMoves, ui, fields
  <2>. QED
    BY <2>1, <2>2, SamePage
<1>3. ASSUME NEW p \in Pages, Resume(p) PROVE FieldsInv'
  <2>1. /\ UNCHANGED <<owner, fields>> /\ At("paused")
    BY <1>3 DEF Resume
  <2>2. /\ socket = 0 /\ receiveMessage = 0 /\ sendThread = 0
        /\ owner = "controller" => ~isStartReceive /\ ~isStartSend
    BY <2>1, Places, CallOrder
  <2>. QED
    BY <2>1, <2>2 DEF fields
<1>4. CASE UiStep \/ Pause
  <2>1. Last' = Last /\ page' = page /\ owner' = owner
    BY <1>4, SamePage DEF UiStep, OpenSocket, StartReceive, Launch, StartSend, StopReceive,
         Interrupt, ForgetThread, StopSend, Release, Pause, Advance
  <2>2. CASE OpenSocket
    BY <2>1, <2>2, CallOrder DEF OpenSocket, Advance
  <2>3. CASE StartReceive
    BY <2>1, <2>3, CallOrder DEF StartReceive, Advance
  <2>4. CASE Launch
    BY <2>1, <2>4, CallOrder DEF Launch, Advance, fields
  <2>5. CASE StartSend
    BY <2>1, <2>5, CallOrder DEF StartSend, Advance
  <2>6. CASE Pause
    BY <2>1, <2>6, CallOrder DEF Pause, Advance, fields
  <2>7. CASE StopReceive
    BY <2>1, <2>7, CallOrder DEF StopReceive
  <2>8. CASE Interrupt
    BY <2>1, <2>8, CallOrder DEF Interrupt, Advance, fields
  <2>9. CASE ForgetThread
    BY <2>1, <2>9, CallOrder DEF ForgetThread, Advance
  <2>10. CASE StopSend
    BY <2>1, <2>10, CallOrder DEF StopSend, Advance, ClearsFlag
  <2>11. CASE Release
    BY <2>1, <2>11, CallOrder DEF Release, Advance
  <2>. QED
    BY <1>4, <2>2, <2>3, <2>4, <2>5, <2>6, <2>7, <2>8, <2>9, <2>10, <2>11 DEF UiStep
<1>. QED
  BY <1>1, <1>2, <1>3, <1>4 DEF Next

LEMMA NextTypeInv == ASSUME TypeInv, [Next]_vars PROVE TypeInv'
<1>1. SocketInv'
  BY NextSocket DEF TypeInv
<1>2. FieldsInv'
  BY NextFields
<1>3. TypeOK'
  <2>1. CASE Next
    BY <2>1, ThreadType, UiType DEF Next, TypeInv
  <2>2. CASE UNCHANGED vars
    BY <2>2 DEF TypeInv, TypeOK, vars, ui, fields, Pages, UiOrder, SenderStates
  <2>. QED
    BY <2>1, <2>2
<1>. QED
  BY <1>1, <1>2, <1>3 DEF TypeInv

LEMMA TypeInvariant == Spec => []TypeInv
BY InitTypeInv, NextTypeInv, PTL DEF Spec

\* A field of an earlier resume is forgotten before the next begins, however many there
\* are: receiveMessage and sendMessageThread are of the present resume or null
\* (Commissioner.java, Client.java: stopReceiveClientMessage, stopSendMessage).
THEOREM TypeCorrect == Spec => []TypeOK
<1>1. TypeInv => TypeOK
  BY DEF TypeInv
<1>. QED
  BY TypeInvariant, <1>1, PTL

\* However often it is resumed and however many threads it has left, a controller that is
\* paused begins no new round (Client.java: stopReceiveClientMessage, stopSendMessage).
THEOREM QuietWhilePaused == Spec => NoRoundWhilePaused
<1>1. ASSUME TypeInv, [Next]_vars, owner = "controller", At("paused"), NEW c \in Resumes
      PROVE  /\ sender[c] = "test" => sender'[c] \in {"test", "dead"}
             /\ receiver[c].at = "test" => receiver'[c].at \in {"test", "exit"}
  <2>1. ~isStartReceive /\ ~isStartSend
    BY <1>1, Places, CallOrder DEF TypeInv, SocketInv, FieldsInv
  <2>2. CASE UiStep
    <3>1. ~ \E name \in {"init", "startReceive", "launch", "startSend", "stopReceive",
                         "interrupt", "forget", "stopSend", "release"} : At(name)
      BY <1>1 DEF At
    <3>. QED
      BY <2>2, <3>1 DEF UiStep, OpenSocket, StartReceive, Launch, StartSend, StopReceive,
         Interrupt, ForgetThread, StopSend, Release
  <2>3. CASE Pause \/ (\E p \in Pages : Resume(p)) \/ UNCHANGED vars
    BY <2>3 DEF Pause, Resume, vars
  <2>4. ASSUME NEW d \in Resumes, ReceiverStep(d) \/ Hear(d) PROVE
             /\ sender[c] = "test" => sender'[c] \in {"test", "dead"}
             /\ receiver[c].at = "test" => receiver'[c].at \in {"test", "exit"}
    BY <1>1, <2>1, <2>4 DEF TypeInv, TypeOK, ReceiverStep, TestReceiveFlag, EnterReceive, Hear,
       HearNothing, EndReceiver, InterruptField, ForgetField, Moves
  <2>5. ASSUME NEW d \in Resumes, SenderStep(d) PROVE
             /\ sender[c] = "test" => sender'[c] \in {"test", "dead"}
             /\ receiver[c].at = "test" => receiver'[c].at \in {"test", "exit"}
    BY <1>1, <2>1, <2>5 DEF TypeInv, TypeOK, SenderStep, TestSendFlag, CheckSocket, Send,
       WakeUp, SenderMoves
  <2>. QED
    BY <1>1, <2>2, <2>3, <2>4, <2>5 DEF Next
<1>2. TypeInv /\ [Next]_vars =>
        (owner = "controller" /\ At("paused") => \A c \in Resumes :
            /\ sender[c] = "test" => sender'[c] \in {"test", "dead"}
            /\ receiver[c].at = "test" => receiver'[c].at \in {"test", "exit"})
  BY <1>1
<1>. QED
  BY TypeInvariant, <1>2, PTL DEF Spec, NoRoundWhilePaused

-----------------------------------------------------------------------------
(* Sending and receiving go on while the page is there. *)

\* From startSend to stopSend the sender of this resume runs.
Sending == step \in IF owner = "car" THEN 5..6 ELSE IF page = "command" THEN 5..9 ELSE 3..4
SenderInv == Sending => isStartSend /\ ~IsOver(sender[count])

\* An earlier receiver that has ended told the one of this resume to stop as well.
ToldToStop == \E c \in 1..count - 1 : receiver[c].at \in {"interrupt", "forget", "dead"}

\* From startReceive to stopReceive the flag is set, unless such a receiver cleared it, and
\* the receiver of this resume ends only when it was cleared.
ReceiverInv ==
    /\ \A c \in Resumes : c > count \/ (c = count /\ step <= 3) => receiver[c].at = "none"
    /\ page = "command" /\ step \in 3..6 => isStartReceive \/ ToldToStop
    /\ page = "command" /\ step \in 4..6 /\ Alive => Listening(count) \/ ~isStartReceive
    /\ isStartReceive => page = "command" /\ step \in 3..6

\* Nobody is blocked on a socket that is null.
BlockedInv == Alive => \A c \in Resumes : receiver[c].at = "blocked" => receiver[c].on # 0

RunInv == TypeInv /\ SenderInv /\ ReceiverInv /\ BlockedInv

LEMMA InitRun == Init => RunInv
<1>. SUFFICES ASSUME Init PROVE RunInv
  OBVIOUS
<1>1. owner \in {"car", "controller"} /\ page = "command" /\ step = 11 /\ ~isStartReceive
  BY OwnerAssumption DEF Init, UiOrder
<1>2. \A c \in Resumes : receiver[c].at = "none"
  BY DEF Init, Unborn
<1>. QED
  BY <1>1, <1>2, InitTypeInv DEF RunInv, SenderInv, Sending, ReceiverInv, BlockedInv

\* A resume has a receiver and a sender of its own.
LEMMA CountType == ASSUME TypeInv PROVE count \in Nat /\ (step # Last => count \in Resumes)
BY BoundAssumption DEF TypeInv, TypeOK, SocketInv, Resumes

\* While a page is sending or receiving it is not paused.
LEMMA NotLast ==
    ASSUME TypeInv
    PROVE  /\ Sending => step # Last
           /\ page = "command" => Last = 11
BY DEF TypeInv, SocketInv, Sending, Pages, Last, UiOrder

LEMMA SenderStays == ASSUME RunInv, [Next]_vars PROVE SenderInv'
<1>. USE DEF SenderInv, Sending
<1>0. /\ TypeInv /\ owner \in {"car", "controller"} /\ page \in Pages /\ step \in 1..Last
      /\ sender \in [Resumes -> SenderStates]
  BY DEF RunInv, TypeInv, TypeOK, SocketInv
<1>1. CASE UNCHANGED vars
  BY <1>1 DEF vars, ui, fields, RunInv, IsOver
<1>2. ASSUME NEW p \in Pages, Resume(p) PROVE SenderInv'
  BY <1>2 DEF Resume
<1>3. CASE StartSend
  <2>1. step # Last
    BY <1>0, <1>3, Places DEF StartSend
  <2>2. count \in Resumes
    BY <1>0, <2>1, CountType
  <2>3. isStartSend' /\ sender'[count] = "test" /\ count' = count
    BY <1>0, <1>3, <2>2 DEF StartSend, Advance
  <2>. QED
    BY <2>3 DEF IsOver
\* The other calls neither stop a sender nor lead here from outside, and StopSend leaves.
<1>4. CASE (UiStep /\ ~StartSend) \/ Pause
  <2>1. UNCHANGED <<owner, page, count, sender>>
    BY <1>4 DEF UiStep, OpenSocket, StartReceive, Launch, StopReceive, Interrupt, ForgetThread,
         StopSend, Release, Pause, Advance
  <2>2. Sending' => Sending /\ isStartSend' = isStartSend
    <3>1. CASE OpenSocket \/ StartReceive \/ Launch
      BY <1>0, <3>1, CallOrder DEF OpenSocket, StartReceive, Launch, Advance, fields, Pages
    <3>2. CASE StopReceive
      BY <1>0, <3>2, CallOrder DEF StopReceive, Pages
    <3>3. CASE Interrupt \/ ForgetThread \/ Release \/ Pause
      BY <1>0, <3>3, CallOrder DEF Interrupt, ForgetThread, Release, Pause, Advance, fields,
         Pages
    <3>4. CASE StopSend
      BY <1>0, <3>4, CallOrder DEF StopSend, Advance, Pages
    <3>. QED
      BY <1>4, <3>1, <3>2, <3>3, <3>4 DEF UiStep
  <2>. QED
    BY <2>1, <2>2 DEF RunInv, IsOver
<1>5. ASSUME NEW c \in Resumes, ReceiverStep(c) \/ Hear(c) PROVE SenderInv'
  <2>1. UNCHANGED <<owner, page, step, count, isStartSend, sender>>
    BY <1>5 DEF ReceiverStep, TestReceiveFlag, EnterReceive, Hear, HearNothing, EndReceiver,
         InterruptField, ForgetField, ui, fields
  <2>. QED
    BY <2>1 DEF RunInv, IsOver
\* A sender ends only when it finds its flag cleared.
<1>6. ASSUME NEW c \in Resumes, SenderStep(c) PROVE SenderInv'
  <2>1. UNCHANGED <<owner, page, step, count, isStartSend>>
    BY <1>6 DEF SenderStep, TestSendFlag, CheckSocket, Send, WakeUp, SenderMoves, ui, fields
  <2>2. Sending => count \in Resumes
    BY <1>0, CountType, NotLast
  <2>3. count \in Resumes /\ isStartSend /\ ~IsOver(sender[count]) => ~IsOver(sender'[count])
    BY <1>0, <1>6 DEF SenderStep, TestSendFlag, CheckSocket, Send, WakeUp, SenderMoves, IsOver
  <2>. QED
    BY <2>1, <2>2, <2>3 DEF RunInv
<1>. QED
  BY <1>1, <1>2, <1>3, <1>4, <1>5, <1>6 DEF Next

LEMMA BlockedStays == ASSUME RunInv, [Next]_vars PROVE BlockedInv'
<1>. USE DEF BlockedInv
<1>0. /\ Alive => \A c \in Resumes : receiver[c].at = "blocked" => receiver[c].on # 0
      /\ receiver \in [Resumes -> [at : ReceiverStates, on : 0..MaxResumes]]
  BY DEF RunInv, TypeInv, TypeOK
<1>1. ASSUME NEW c \in Resumes, EnterReceive(c) PROVE BlockedInv'
  <2>1. Alive' => Alive /\ socket # 0
    BY <1>1 DEF EnterReceive, Dereferences, Alive
  <2>. QED
    BY <1>0, <1>1, <2>1 DEF EnterReceive
\* Nobody else comes to be blocked, or changes the socket somebody is blocked on.
<1>2. CASE [Next]_vars /\ ~(\E c \in Resumes : EnterReceive(c))
  <2>1. Alive' => Alive
    BY <1>2 DEF Next, vars, Alive
  <2>2. ASSUME NEW d \in Resumes, receiver'[d].at = "blocked"
        PROVE  receiver'[d] = receiver[d]
    <3>1. CASE UNCHANGED vars \/ (\E p \in Pages : Resume(p)) \/ Pause
      BY <3>1 DEF vars, Resume, Pause
    <3>2. CASE UiStep
      BY <1>0, <2>2, <3>2 DEF UiStep, OpenSocket, StartReceive, Launch, StartSend, StopReceive,
         Interrupt, ForgetThread, StopSend, Release
    <3>3. ASSUME NEW c \in Resumes, ReceiverStep(c) \/ Hear(c) \/ SenderStep(c)
          PROVE  receiver'[d] = receiver[d]
      BY <1>0, <1>2, <2>2, <3>3 DEF ReceiverStep, TestReceiveFlag, Hear, HearNothing,
         EndReceiver, InterruptField, ForgetField, Moves, SenderStep, TestSendFlag, CheckSocket,
         Send, WakeUp, SenderMoves
    <3>. QED
      BY <1>2, <3>1, <3>2, <3>3 DEF Next
  <2>. QED
    BY <1>0, <2>1, <2>2
<1>. QED
  BY <1>1, <1>2

\* What a receiver does to its own place and to the flag.
LEMMA ReceiverMoves ==
    ASSUME TypeOK, NEW d \in Resumes, ReceiverStep(d) \/ Hear(d), NEW c \in Resumes
    PROVE  /\ UNCHANGED <<owner, page, step, count>>
           /\ receiver[c].at = "none" => receiver'[c].at = "none"
           /\ receiver[c].at \in {"interrupt", "forget", "dead"}
                  => receiver'[c].at \in {"interrupt", "forget", "dead"}
           /\ isStartReceive' # isStartReceive
                  => isStartReceive /\ ~isStartReceive' /\ receiver[d].at = "exit"
                     /\ receiver'[d].at \in {"interrupt", "forget", "dead"}
           /\ Listening(c) => Listening(c)' \/ ~isStartReceive'
           /\ Alive' => Alive
<1>1. receiver \in [Resumes -> [at : ReceiverStates, on : 0..MaxResumes]]
  BY DEF TypeOK
<1>2. CASE TestReceiveFlag(d)
  BY <1>1, <1>2 DEF TestReceiveFlag, Moves, Listening, ui, fields, Alive
<1>3. CASE EnterReceive(d)
  BY <1>1, <1>3 DEF EnterReceive, Dereferences, Listening, ui, fields, Alive
<1>4. CASE Hear(d) \/ HearNothing(d)
  BY <1>1, <1>4 DEF Hear, HearNothing, Moves, Listening, ui, fields, Alive
<1>5. CASE EndReceiver(d)
  <2>1. isStartReceive \in BOOLEAN /\ isStartReceive' = FALSE
    BY <1>5 DEF EndReceiver, TypeOK
  <2>2. isStartReceive' # isStartReceive => isStartReceive /\ ~isStartReceive'
    BY <2>1, Zenon
  <2>. QED
    BY <1>1, <1>5, <2>2 DEF EndReceiver, Moves, Listening, ui, Alive
<1>6. CASE InterruptField(d)
  BY <1>1, <1>6 DEF InterruptField, Moves, Dereferences, Listening, ui, fields, Alive
<1>7. CASE ForgetField(d)
  BY <1>1, <1>7 DEF ForgetField, Moves, Listening, ui, Alive
<1>. QED
  BY <1>2, <1>3, <1>4, <1>5, <1>6, <1>7 DEF ReceiverStep

\* A receiver that ends while the page is there is an earlier one, or was told to by one.
LEMMA ReceiverStepStays ==
    ASSUME RunInv, Alive, NEW d \in Resumes, ReceiverStep(d) \/ Hear(d)
    PROVE  ReceiverInv'
<1>0. TypeInv /\ TypeOK /\ ReceiverInv
  BY DEF RunInv, TypeInv
<1>1. /\ count \in Nat /\ count <= MaxResumes /\ d \in Nat /\ MaxResumes \in Nat
      /\ Resumes = 1..MaxResumes /\ step \in Nat
  BY <1>0, CountType, BoundAssumption DEF TypeInv, TypeOK, SocketInv, Resumes
<1>2. /\ UNCHANGED <<owner, page, step, count>> /\ (Alive' => Alive)
      /\ isStartReceive' # isStartReceive
             => isStartReceive /\ ~isStartReceive' /\ receiver[d].at = "exit"
                /\ receiver'[d].at \in {"interrupt", "forget", "dead"}
  BY <1>0, ReceiverMoves
<1>3. /\ \A c \in Resumes : receiver[c].at = "none" => receiver'[c].at = "none"
      /\ \A c \in Resumes : receiver[c].at \in {"interrupt", "forget", "dead"}
                                 => receiver'[c].at \in {"interrupt", "forget", "dead"}
      /\ \A c \in Resumes : Listening(c) => Listening(c)' \/ ~isStartReceive'
  BY <1>0, ReceiverMoves
<1>4. ToldToStop => ToldToStop'
  <2>1. ASSUME NEW c \in 1..count - 1 PROVE c \in Resumes
    BY <1>1
  <2>. QED
    BY <1>2, <1>3, <2>1 DEF ToldToStop
<1>5. ASSUME NEW c \in Resumes, c > count \/ (c = count /\ step <= 3)
      PROVE  receiver'[c].at = "none"
  BY <1>0, <1>3, <1>5 DEF ReceiverInv
<1>6. isStartReceive' => isStartReceive
  BY <1>2
<1>7. ASSUME page = "command", step \in 3..6 PROVE isStartReceive' \/ ToldToStop'
  <2>1. count \in Resumes
    BY <1>0, <1>7, CountType, NotLast
  <2>2. CASE isStartReceive' # isStartReceive
    <3>1. d # count
      BY <1>0, <1>1, <1>2, <1>7, <2>1, <2>2 DEF ReceiverInv, Listening
    <3>2. ~(d > count)
      BY <1>0, <1>2, <2>2 DEF ReceiverInv
    <3>3. d \in 1..count - 1
      BY <1>1, <3>1, <3>2
    <3>. QED
      BY <1>2, <2>2, <3>3 DEF ToldToStop
  <2>3. CASE isStartReceive' = isStartReceive
    BY <1>0, <1>4, <1>7, <2>3 DEF ReceiverInv
  <2>. QED
    BY <2>2, <2>3
<1>8. ASSUME page = "command", step \in 4..6
      PROVE  Listening(count)' \/ ~isStartReceive'
  <2>1. count \in Resumes
    BY <1>0, <1>8, CountType, NotLast
  <2>2. Listening(count) \/ ~isStartReceive
    BY <1>0, <1>8 DEF ReceiverInv
  <2>3. Listening(count)' <=> receiver'[count].at \in {"test", "read", "blocked"}
    BY <1>2 DEF Listening
  <2>4. Listening(count) => Listening(count)' \/ ~isStartReceive'
    BY <1>3, <1>2, <2>1, <2>3 DEF Listening
  <2>. QED
    BY <1>6, <2>2, <2>4
<1>9. isStartReceive' => page = "command" /\ step \in 3..6
  BY <1>0, <1>6 DEF ReceiverInv
<1>. QED
  BY <1>2, <1>5, <1>7, <1>8, <1>9 DEF ReceiverInv

\* The UI thread's calls: the flag and the receiver begin with this resume and are told
\* to stop before the page is paused.
LEMMA UiStepStays == ASSUME RunInv, Alive, UiStep \/ Pause PROVE ReceiverInv'
<1>. USE DEF ReceiverInv
<1>0. /\ TypeInv /\ ReceiverInv /\ owner \in {"car", "controller"} /\ page \in Pages
      /\ step \in 1..Last /\ Last \in Nat /\ count \in Nat
      /\ receiver \in [Resumes -> [at : ReceiverStates, on : 0..MaxResumes]]
      /\ receiveMessage \in {0, count}
  BY Places, CountType DEF RunInv, TypeInv, TypeOK, SocketInv
<1>1. UNCHANGED <<owner, page, count>>
  BY DEF UiStep, OpenSocket, StartReceive, Launch, StartSend, StopReceive, Interrupt,
         ForgetThread, StopSend, Release, Pause, Advance
<1>2. CASE StartReceive
  BY <1>0, <1>1, <1>2, CallOrder DEF StartReceive, Advance, Pages
<1>3. CASE Launch
  <2>1. /\ step = 3 /\ step' = 4 /\ page = "command" /\ isStartReceive' = isStartReceive
    BY <1>0, <1>3, CallOrder DEF Launch, Advance, fields, Pages
  <2>2. CASE receiveMessage = 0
    <3>1. receiver' = receiver /\ ~Alive'
      BY <1>3, <2>2 DEF Launch, Dereferences, Alive
    <3>. QED
      BY <1>0, <1>1, <2>1, <3>1 DEF ToldToStop
  <2>3. CASE receiveMessage # 0
    <3>1. count \in Resumes /\ receiver' = [receiver EXCEPT ![count].at = "test"]
      <4>1. count \in Resumes
        BY <1>0, <2>1, CountType, NotLast
      <4>2. receiveMessage = count
        BY <1>0, <2>3
      <4>. QED
        BY <1>3, <2>3, <4>1, <4>2 DEF Launch
    <3>2. receiver'[count].at = "test" /\ (\A c \in Resumes \ {count} : receiver'[c] = receiver[c])
      BY <1>0, <3>1
    <3>3. ToldToStop => ToldToStop'
      <4>1. \A c \in 1..count - 1 : receiver'[c] = receiver[c]
        BY <1>0, <3>1
      <4>. QED
        BY <1>1, <4>1 DEF ToldToStop
    <3>. QED
      BY <1>0, <1>1, <2>1, <3>2, <3>3 DEF Listening
  <2>. QED
    BY <2>2, <2>3
\* The other calls leave the receivers alone.
<1>4. CASE OpenSocket \/ StartSend \/ Pause \/ Interrupt \/ ForgetThread \/ Release
  <2>1. UNCHANGED <<receiver, isStartReceive>> /\ (Alive' => Alive) /\ step' = step + 1
    BY <1>4 DEF OpenSocket, StartSend, Pause, Interrupt, ForgetThread, Release, Advance, fields,
         Alive
  <2>2. step = 1 \/ page # "command" \/ step \in 4..5 \/ step > 6
    BY <1>0, <1>4, CallOrder DEF OpenSocket, StartSend, Pause, Interrupt, ForgetThread, Release,
         Pages
  <2>3. (ToldToStop' <=> ToldToStop) /\ (Listening(count)' <=> Listening(count))
    BY <1>1, <2>1 DEF ToldToStop, Listening
  <2>. QED
    BY <1>0, <1>1, <2>1, <2>2, <2>3
<1>5. CASE StopReceive \/ StopSend
  <2>1. UNCHANGED receiver /\ step' > step /\ step' \in Nat
    BY <1>0, <1>5 DEF StopReceive, StopSend, Advance
  <2>2. \/ ~isStartReceive' /\ step' \notin 3..6
        \/ page # "command" /\ isStartReceive' = isStartReceive
        \/ step > 6 /\ isStartReceive' = isStartReceive
    BY <1>0, <1>5, CallOrder DEF StopReceive, StopSend, Advance, ClearsFlag, Pages
  <2>. QED
    BY <1>0, <1>1, <2>1, <2>2
<1>. QED
  BY <1>2, <1>3, <1>4, <1>5 DEF UiStep

LEMMA ReceiverStays == ASSUME RunInv, [Next]_vars PROVE ReceiverInv'
<1>1. ASSUME NEW p \in Pages, Resume(p) PROVE ReceiverInv'
  <2>1. /\ step = Last /\ step' = 1 /\ count' = count + 1 /\ count \in Nat
        /\ UNCHANGED <<receiver, isStartReceive>>
    BY <1>1, Places, CountType DEF Resume, RunInv, TypeInv, SocketInv, fields
  <2>2. ~isStartReceive
    BY <2>1, NotLast DEF RunInv, ReceiverInv
  <2>3. \A c \in Resumes : c > count => receiver[c].at = "none"
    BY DEF RunInv, ReceiverInv
  <2>4. \A c \in Resumes : c \in Int
    BY BoundAssumption DEF Resumes
  <2>. QED
    BY <2>1, <2>2, <2>3, <2>4 DEF ReceiverInv
<1>2. ASSUME NEW c \in Resumes, SenderStep(c) PROVE ReceiverInv'
  <2>1. UNCHANGED <<page, step, count, isStartReceive, receiver>> /\ (Alive' => Alive)
    BY <1>2 DEF SenderStep, TestSendFlag, CheckSocket, Send, WakeUp, SenderMoves, Dereferences,
         ui, fields, Alive
  <2>. QED
    BY <2>1 DEF RunInv, ReceiverInv, ToldToStop, Listening
<1>3. CASE UNCHANGED vars
  BY <1>3 DEF RunInv, ReceiverInv, ToldToStop, Listening, vars, ui, fields, Alive
<1>. QED
  BY <1>1, <1>2, <1>3, UiStepStays, ReceiverStepStays DEF Next

LEMMA RunInvariant == Spec => []RunInv
<1>1. RunInv /\ [Next]_vars => RunInv'
  BY NextTypeInv, SenderStays, ReceiverStays, BlockedStays DEF RunInv
<1>. QED
  BY InitRun, <1>1, PTL DEF Spec

\* An activity that is resumed for good keeps sending: its sender is started with the flag
\* set and finds it set whenever it tests it, whatever the threads of earlier resumes and
\* the receivers do.  No fairness is needed: the sender does not end (Commissioner.java and
\* Client.java: startSendMessage, stopSendMessage).
THEOREM SendingKept == Spec => KeepsSending
<1>1. RunInv => (At("resumed") => \E c \in Resumes : ~IsOver(sender[c]))
  <2>. SUFFICES ASSUME RunInv, At("resumed") PROVE \E c \in Resumes : ~IsOver(sender[c])
    OBVIOUS
  <2>1. Sending
    BY CallOrder DEF RunInv, TypeInv, TypeOK, SocketInv, Sending, Pages
  <2>2. count \in Resumes
    BY <2>1, CountType, NotLast DEF RunInv
  <2>. QED
    BY <2>1, <2>2 DEF RunInv, SenderInv
<1>. QED
  BY RunInvariant, <1>1, PTL DEF KeepsSending

\* A page that is resumed to receive listens, with the receiver of this resume, unless one
\* of an earlier resume has ended since and told it to stop (Client.java:517).
ListensUnlessTold ==
    Alive /\ page = "command" /\ At("resumed")
        => Listening(count) \/ (~isStartReceive /\ ToldToStop)

\* What the liveness property ListensUnlessStopped rests on: at no moment is a page deaf
\* for another reason than a receiver of an earlier resume that ended in it.
THEOREM ListeningKept == Spec => []ListensUnlessTold
<1>1. RunInv => ListensUnlessTold
  <2>. SUFFICES ASSUME RunInv, Alive, page = "command", At("resumed")
                PROVE  Listening(count) \/ (~isStartReceive /\ ToldToStop)
    BY DEF ListensUnlessTold
  <2>1. step = 5
    BY CallOrder DEF RunInv, TypeInv, SocketInv
  <2>. QED
    BY <2>1 DEF RunInv, ReceiverInv
<1>. QED
  BY RunInvariant, <1>1, PTL

\* A paused activity holds nobody: the flag of the receivers is cleared, and the socket a
\* receiver may be blocked on is closed.
ReleasedWhenPaused ==
    Alive /\ At("paused") =>
        /\ ~isStartReceive
        /\ \A c \in Resumes : receiver[c].at = "blocked" => receiver[c].on # socket

\* What the liveness property ReceiversEnd rests on: no receiver is left blocked on an open
\* socket by onPause, and none finds its flag set after it (stopReceiveClientMessage,
\* release).
THEOREM PauseReleases == Spec => []ReleasedWhenPaused
<1>1. RunInv => ReleasedWhenPaused
  <2>. SUFFICES ASSUME RunInv, Alive, At("paused")
                PROVE  /\ ~isStartReceive
                       /\ \A c \in Resumes : receiver[c].at = "blocked" => receiver[c].on # socket
    BY DEF ReleasedWhenPaused
  <2>1. step = Last /\ Last \in Nat
    BY Places DEF RunInv, TypeInv, SocketInv
  <2>2. socket = 0
    BY <2>1 DEF RunInv, TypeInv, FieldsInv
  <2>3. ~isStartReceive
    BY <2>1, NotLast DEF RunInv, ReceiverInv
  <2>. QED
    BY <2>2, <2>3 DEF RunInv, BlockedInv
<1>. QED
  BY RunInvariant, <1>1, PTL
=============================================================================
