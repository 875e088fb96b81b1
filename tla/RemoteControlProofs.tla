------------------------- MODULE RemoteControlProofs -------------------------
(***************************************************************************)
(* Proofs about RemoteControl for every set of switches and parameters and *)
(* any number of clicks, faults and messages under way: the type           *)
(* invariant, that no message composed after the last click says anything  *)
(* but what the user wants, and that the car goes back behind what it knew *)
(* at most once for every fault.                                           *)
(***************************************************************************)
EXTENDS RemoteControl, TLAPS

\* The switches are the fields the sender reads, and each has a place.
LEMMA FieldsType ==
    /\ Len(Fields) \in Nat /\ DOMAIN Fields = 1..Len(Fields)
    /\ \A k \in 1..Len(Fields) : Fields[k] \in Switches
    /\ \A s \in Switches : \E k \in 1..Len(Fields) : s = Fields[k]
<1>1. Fields \in Seq(Range(ReadingOrder))
  BY FieldsAssumption
<1>2. Len(Fields) \in Nat /\ DOMAIN Fields = 1..Len(Fields)
  BY <1>1
<1>. QED  BY <1>2 DEF Switches, Range

LEMMA SeqGrows ==
    ASSUME NEW S, NEW T, S \subseteq T, NEW s \in Seq(S) PROVE s \in Seq(T)
OBVIOUS

LEMMA BlankType == Off \in [Switches -> BOOLEAN] /\ Blank \in Message
<1>1. Off \in [Switches -> BOOLEAN]
  BY DEF Off
<1>2. 0 \in 0..MaxClicks
  BY BoundsAssumption
<1>. QED  BY <1>1, <1>2 DEF Blank, Message

-----------------------------------------------------------------------------
\* The messages that can be under way: none says more than was clicked, and one
\* composed after the last click says what is wanted.
Current == {m \in Message : m.at <= clicks /\ (m.at = clicks => m.switches = wanted)}

\* The message being composed is on its way to be one of them: if nothing was
\* clicked since its composition began, what it has read is still wanted.
ReadSoFar ==
    /\ draft.at <= clicks
    /\ draft.at = clicks =>
           \A k \in 1..Len(Fields) : k < reading => draft.switches[Fields[k]] = wanted[Fields[k]]

UnderwayCurrent == net \in Seq(Current) /\ queue \in Seq(Current)

IInv == TypeOK /\ UnderwayCurrent /\ ReadSoFar

-----------------------------------------------------------------------------
(* A queue of the network or of the car keeps its members. *)

LEMMA Removed ==
    ASSUME NEW S, NEW s \in Seq(S), NEW k \in DOMAIN s
    PROVE  RemoveAt(s, k) \in Seq(S) /\ Len(RemoveAt(s, k)) = Len(s) - 1
BY DEF RemoveAt

LEMMA Inserted ==
    ASSUME NEW S, NEW s \in Seq(S), NEW k \in DOMAIN s
    PROVE  InsertAt(s, k, s[k]) \in Seq(S) /\ Len(InsertAt(s, k, s[k])) = Len(s) + 1
BY DEF InsertAt

LEMMA Swapped ==
    ASSUME NEW S, NEW s \in Seq(S), NEW k \in DOMAIN s, k < Len(s)
    PROVE  LET t == [s EXCEPT ![k] = s[k + 1], ![k + 1] = s[k]]
           IN  t \in Seq(S) /\ Len(t) = Len(s)
<1>1. k + 1 \in DOMAIN s /\ s[k] \in S /\ s[k + 1] \in S
  OBVIOUS
<1>. QED  BY <1>1

LEMMA Taken ==
    ASSUME NEW S, NEW s \in Seq(S), s # <<>>
    PROVE  /\ Head(s) \in S /\ Tail(s) \in Seq(S) /\ Len(Tail(s)) = Len(s) - 1
OBVIOUS

LEMMA Appended ==
    ASSUME NEW S, NEW s \in Seq(S), NEW m \in S
    PROVE  Append(s, m) \in Seq(S) /\ Len(Append(s, m)) = Len(s) + 1
OBVIOUS

\* While nothing is clicked, the current messages are the same.
LEMMA SameCurrent == UNCHANGED <<wanted, clicks>> => Current' = Current
BY DEF Current

\* One more click, and every message is an old one.
LEMMA OneMoreClick ==
    ASSUME TypeOK, NEW s \in Switches, Click(s)
    PROVE  Current \subseteq Current'
<1>1. clicks \in 0..MaxClicks /\ clicks' = clicks + 1
  BY DEF TypeOK, Click
<1>2. SUFFICES ASSUME NEW m \in Current PROVE m \in Current'
  OBVIOUS
<1>3. m \in Message /\ m.at \in Int /\ m.at <= clicks
  BY DEF Current, Message
<1>4. m.at <= clicks' /\ m.at # clicks'
  BY <1>1, <1>3
<1>. QED  BY <1>3, <1>4 DEF Current

-----------------------------------------------------------------------------
(* Initially, and with every step.                                         *)

LEMMA InitInv == Init => IInv
<1>. SUFFICES ASSUME Init PROVE IInv
  OBVIOUS
<1>1. {MaxClicks, MaxPresses, MaxFaults, MaxInFlight, MaxQueue} \subseteq Nat
  BY BoundsAssumption
<1>2. SendPlace \in Nat
  BY FieldsType DEF SendPlace
<1>3. net \in Seq(Message) /\ queue \in Seq(Message) /\ UnderwayCurrent
  BY DEF Init, UnderwayCurrent
<1>4. TypeOK
  <2>1. Len(net) <= MaxInFlight /\ Len(queue) <= MaxQueue
    BY <1>1 DEF Init
  <2>2. /\ clicks \in 0..MaxClicks /\ newest \in 0..MaxClicks /\ faults \in 0..MaxFaults
        /\ presses \in 0..MaxPresses /\ reading \in 0..SendPlace /\ setbacks \in Nat
    BY <1>1, <1>2 DEF Init
  <2>3. /\ page \in BOOLEAN /\ isCrashed \in BOOLEAN
        /\ activity \in BOOLEAN /\ isRecordStart \in BOOLEAN
    BY Zenon DEF Init
  <2>. QED  BY <1>3, <2>1, <2>2, <2>3, BlankType DEF Init, TypeOK
<1>5. ReadSoFar
  BY FieldsType DEF Init, ReadSoFar, Blank
<1>. QED  BY <1>3, <1>4, <1>5 DEF IInv

\* The user of the controller.
LEMMA ClickStep ==
    ASSUME IInv, NEW s \in Switches, Click(s)
    PROVE  IInv'
<1>. USE DEF IInv
<1>1. clicks \in 0..MaxClicks /\ MaxClicks \in Nat /\ clicks < MaxClicks /\ clicks' = clicks + 1
  BY BoundsAssumption DEF TypeOK, Click
<1>2. clicks' \in 0..MaxClicks
  BY <1>1
<1>3. wanted' \in [Switches -> BOOLEAN] /\ selected' \in [Switches -> BOOLEAN]
  <2>1. selected \in [Switches -> BOOLEAN] /\ wanted \in [Switches -> BOOLEAN]
    BY DEF TypeOK
  <2>2. selected[s] = TRUE \/ selected[s] = FALSE
    BY <2>1
  <2>3. (~selected[s]) = TRUE \/ (~selected[s]) = FALSE
    BY <2>2
  <2>. QED  BY <2>1, <2>2, <2>3 DEF Click
<1>4. TypeOK'
  BY <1>2, <1>3 DEF TypeOK, Click, composer, network, car
<1>5. UnderwayCurrent'
  <2>1. net' = net /\ queue' = queue
    BY DEF Click, network, car
  <2>. QED  BY <2>1, OneMoreClick, SeqGrows DEF UnderwayCurrent
<1>6. ReadSoFar'
  <2>1. draft' = draft /\ draft.at \in Int /\ draft.at <= clicks
    BY DEF Click, composer, TypeOK, Message, ReadSoFar
  <2>2. draft.at <= clicks' /\ draft.at # clicks'
    BY <1>1, <2>1
  <2>. QED  BY <2>1, <2>2 DEF ReadSoFar
<1>. QED  BY <1>4, <1>5, <1>6

\* A step that neither clicks nor reads leaves what was read as it is.
LEMMA ReadKept ==
    ASSUME ReadSoFar, UNCHANGED <<wanted, clicks, draft, reading>>
    PROVE  ReadSoFar'
BY DEF ReadSoFar

LEMMA UnderwayKept ==
    ASSUME UnderwayCurrent, UNCHANGED <<wanted, clicks, net, queue>>
    PROVE  UnderwayCurrent'
BY SameCurrent DEF UnderwayCurrent

LEMMA UserStep ==
    ASSUME IInv, (\E p \in Parameters : TouchDown(p)) \/ TouchUp \/ OpenPage \/ ClosePage
    PROVE  IInv'
<1>. USE DEF IInv, composer, network, car
<1>1. UNCHANGED <<wanted, clicks, draft, reading, net, queue>>
  BY DEF TouchDown, TouchUp, OpenPage, ClosePage
<1>2. TypeOK'
  BY DEF TypeOK, TouchDown, TouchUp, OpenPage, ClosePage
<1>. QED  BY <1>1, <1>2, ReadKept, UnderwayKept

\* The sender thread.
LEMMA ComposeStep ==
    ASSUME IInv, Compose
    PROVE  IInv'
<1>. USE DEF IInv, controller, car
<1>1. reading \in 0..SendPlace /\ Len(Fields) \in Nat /\ SendPlace = Len(Fields) + 3
  BY FieldsType DEF TypeOK, SendPlace
<1>2. clicks \in 0..MaxClicks /\ MaxClicks \in Nat
  BY BoundsAssumption DEF TypeOK
<1>3. CASE BeginRound
  <2>1. draft' = [switches |-> Off, parameter |-> NoParameter, at |-> clicks]
    BY <1>3 DEF BeginRound, Blank
  <2>2. draft' \in Message
    BY <1>2, <2>1, BlankType DEF Message
  <2>3. TypeOK'
    BY <1>1, <1>3, <2>2 DEF BeginRound, TypeOK, network, SendPlace
  <2>4. ReadSoFar'
    BY <1>2, <1>3, <2>1 DEF BeginRound, ReadSoFar
  <2>. QED  BY <1>3, <2>3, <2>4, UnderwayKept DEF BeginRound, network
<1>4. CASE ReadSwitch
  <2>. DEFINE f == Fields[reading]
  <2>1. reading \in 1..Len(Fields) /\ f \in Switches
    BY <1>4, FieldsType DEF ReadSwitch
  <2>2. draft' = [draft EXCEPT !.switches = [draft.switches EXCEPT ![f] = wanted[f]]]
    BY <1>4 DEF ReadSwitch, TypeOK, Message
  <2>3. draft.switches \in [Switches -> BOOLEAN] /\ wanted[f] \in BOOLEAN
    BY <2>1 DEF TypeOK, Message
  <2>4. [draft.switches EXCEPT ![f] = wanted[f]] \in [Switches -> BOOLEAN]
    BY <2>3
  <2>5. draft' \in Message
    BY <2>2, <2>4 DEF TypeOK, Message
  <2>6. reading' \in 0..SendPlace
    BY <1>1, <1>4, <2>1 DEF ReadSwitch
  <2>7. TypeOK'
    BY <1>4, <2>5, <2>6 DEF ReadSwitch, TypeOK, network, SendPlace
  <2>8. /\ draft'.at = draft.at
        /\ \A s \in Switches : draft'.switches[s] = IF s = f THEN wanted[s] ELSE draft.switches[s]
    BY <2>2, <2>3 DEF TypeOK, Message
  <2>9. UNCHANGED <<wanted, clicks>> /\ reading' = reading + 1
    BY <1>4 DEF ReadSwitch
  <2>10. ASSUME draft.at = clicks, NEW k \in 1..Len(Fields), k < reading + 1
         PROVE  draft'.switches[Fields[k]] = wanted[Fields[k]]
    <3>1. Fields[k] \in Switches
      BY FieldsType
    <3>2. CASE k = reading
      BY <2>8, <3>1, <3>2
    <3>3. CASE k < reading
      BY <2>8, <2>10, <3>1, <3>3 DEF ReadSoFar
    <3>. QED  BY <2>1, <2>10, <3>2, <3>3
  <2>. HIDE DEF f
  <2>11. ReadSoFar'
    BY <2>8, <2>9, <2>10 DEF ReadSoFar
  <2>. QED  BY <1>4, <2>7, <2>11, UnderwayKept DEF ReadSwitch, network
<1>5. CASE TestParameter
  <2>1. reading' \in 0..SendPlace
    BY <1>1, <1>5 DEF TestParameter, UsePlace, SendPlace
  <2>2. TypeOK'
    BY <1>5, <2>1 DEF TestParameter, TypeOK, network, SendPlace
  <2>3. \A k \in 1..Len(Fields) : k < reading
    BY <1>1, <1>5 DEF TestParameter, TestPlace
  <2>4. ReadSoFar'
    BY <1>5, <2>3 DEF TestParameter, ReadSoFar
  <2>. QED  BY <1>5, <2>2, <2>4, UnderwayKept DEF TestParameter, network
<1>6. CASE UseParameter
  <2>1. draft' = [switches |-> draft.switches, parameter |-> held, at |-> draft.at]
    BY <1>6 DEF UseParameter, TypeOK, Message
  <2>2. draft' \in Message
    BY <2>1 DEF TypeOK, Message
  <2>3. reading' \in 0..SendPlace /\ isCrashed' \in BOOLEAN
    BY <1>1, <1>6 DEF UseParameter
  <2>4. TypeOK'
    BY <1>6, <2>2, <2>3 DEF UseParameter, TypeOK, network, SendPlace
  <2>5. \A k \in 1..Len(Fields) : k < reading
    BY <1>1, <1>6 DEF UseParameter, UsePlace
  <2>6. ReadSoFar'
    BY <1>6, <2>1, <2>5 DEF UseParameter, ReadSoFar
  <2>. QED  BY <1>6, <2>4, <2>6, UnderwayKept DEF UseParameter, network
<1>7. CASE Send
  <2>1. \A k \in 1..Len(Fields) : k < reading
    BY <1>1, <1>7 DEF Send
  <2>2. draft.at = clicks => draft.switches = wanted
    <3>. SUFFICES ASSUME draft.at = clicks PROVE draft.switches = wanted
      OBVIOUS
    <3>1. \A k \in 1..Len(Fields) : draft.switches[Fields[k]] = wanted[Fields[k]]
      BY <2>1 DEF ReadSoFar
    <3>2. \A s \in Switches : draft.switches[s] = wanted[s]
      BY <3>1, FieldsType
    <3>3. draft.switches \in [Switches -> BOOLEAN] /\ wanted \in [Switches -> BOOLEAN]
      BY DEF TypeOK, Message
    <3>. QED  BY <3>2, <3>3
  <2>3. draft \in Current /\ draft \in Message
    BY <2>2 DEF Current, ReadSoFar, TypeOK
  <2>4. net' = Append(net, draft) /\ draft' = Blank /\ reading' = 0 /\ Len(net) < MaxInFlight
    BY <1>7 DEF Send
  <2>5. net' \in Seq(Current) /\ net' \in Seq(Message) /\ Len(net') = Len(net) + 1
    BY <2>3, <2>4, Appended DEF UnderwayCurrent, TypeOK
  <2>6. Len(net') <= MaxInFlight /\ reading' \in 0..SendPlace
    BY <1>1, <2>4, <2>5, BoundsAssumption DEF TypeOK
  <2>7. TypeOK'
    BY <1>7, <2>4, <2>5, <2>6, BlankType DEF Send, TypeOK, SendPlace
  <2>8. UnderwayCurrent'
    BY <1>7, <2>5, SameCurrent DEF Send, UnderwayCurrent
  <2>9. ReadSoFar'
    BY <1>2, <1>7, <2>4, FieldsType DEF Send, ReadSoFar, Blank
  <2>. QED  BY <2>7, <2>8, <2>9
<1>. QED  BY <1>3, <1>4, <1>5, <1>6, <1>7 DEF Compose

\* The network: a message that is lost, doubled or overtaken stays what it was.
LEMMA FaultStep ==
    ASSUME IInv, NEW k \in DOMAIN net, Lose(k) \/ Duplicate(k) \/ Swap(k)
    PROVE  IInv'
<1>. USE DEF IInv, controller, composer, car
<1>1. /\ net' \in Seq(Current) /\ net' \in Seq(Message) /\ Len(net') <= MaxInFlight
  <2>1. net \in Seq(Current) /\ net \in Seq(Message) /\ Len(net) \in Nat /\ MaxInFlight \in Nat
        /\ Len(net) <= MaxInFlight
    BY BoundsAssumption DEF UnderwayCurrent, TypeOK
  <2>2. CASE Lose(k)
    BY <2>1, <2>2, Removed DEF Lose
  <2>3. CASE Duplicate(k)
    BY <2>1, <2>3, Inserted DEF Duplicate
  <2>4. CASE Swap(k)
    BY <2>1, <2>4, Swapped DEF Swap
  <2>. QED  BY <2>2, <2>3, <2>4
<1>2. UNCHANGED <<controller, composer, car>> /\ Fault
  BY DEF Lose, Duplicate, Swap
<1>3. faults' \in 0..MaxFaults
  BY <1>2, BoundsAssumption DEF Fault, TypeOK
<1>4. TypeOK'
  BY <1>1, <1>2, <1>3 DEF TypeOK
<1>5. UnderwayCurrent'
  BY <1>1, <1>2, SameCurrent DEF UnderwayCurrent
<1>. QED  BY <1>2, <1>4, <1>5, ReadKept

\* The car.
LEMMA HearStep ==
    ASSUME IInv, Hear
    PROVE  IInv'
<1>. USE DEF IInv, controller, composer
<1>1. /\ Head(net) \in Current /\ Head(net) \in Message
      /\ Tail(net) \in Seq(Current) /\ Tail(net) \in Seq(Message)
      /\ Len(Tail(net)) = Len(net) - 1 /\ Len(net) \in Nat
  BY Taken DEF Hear, UnderwayCurrent, TypeOK
<1>2. net' = Tail(net) /\ UNCHANGED <<wanted, clicks, draft, reading>>
  BY DEF Hear
<1>3. net' \in Seq(Current) /\ net' \in Seq(Message) /\ Len(net') <= MaxInFlight
  BY <1>1, <1>2, BoundsAssumption DEF TypeOK
<1>4. queue' \in Seq(Current) /\ queue' \in Seq(Message) /\ Len(queue') <= MaxQueue
  <2>1. queue \in Seq(Current) /\ queue \in Seq(Message) /\ Len(queue) < MaxQueue /\ Len(queue) \in Nat
    BY DEF Hear, UnderwayCurrent, TypeOK
  <2>2. CASE activity
    <3>1. queue' = Append(queue, Head(net))
      BY <2>2 DEF Hear
    <3>. QED  BY <1>1, <2>1, <3>1, BoundsAssumption, Appended
  <2>3. CASE ~activity
    BY <2>1, <2>3, BoundsAssumption DEF Hear
  <2>. QED  BY <2>2, <2>3
<1>5. TypeOK'
  BY <1>3, <1>4 DEF Hear, TypeOK
<1>6. UnderwayCurrent'
  BY <1>2, <1>3, <1>4, SameCurrent DEF UnderwayCurrent
<1>. QED  BY <1>2, <1>5, <1>6, ReadKept

\* What the recorder does is its own business.
LEMMA RecordType ==
    ASSUME TypeOK, NEW on \in BOOLEAN, Record(on)
    PROVE  isRecordStart' \in BOOLEAN
BY Zenon DEF Record, Outcomes

LEMMA HandleStep ==
    ASSUME IInv, Handle
    PROVE  IInv'
<1>. USE DEF IInv, controller, composer
<1>. DEFINE m == Head(queue)
            on == Records(m)
<1>1. /\ m \in Message
      /\ Tail(queue) \in Seq(Current) /\ Tail(queue) \in Seq(Message)
      /\ Len(Tail(queue)) = Len(queue) - 1 /\ Len(queue) \in Nat
  BY Taken DEF Handle, UnderwayCurrent, TypeOK
<1>2. /\ m.switches \in [Switches -> BOOLEAN] /\ m.at \in 0..MaxClicks
      /\ m.parameter \in Parameters \union {NoParameter}
  BY <1>1 DEF Message
<1>3. queue' = Tail(queue) /\ UNCHANGED <<wanted, clicks, draft, reading, net>>
  BY DEF Handle, network
<1>4. isRecordStart' \in BOOLEAN
  <2>1. on \in BOOLEAN /\ Record(on)
    BY <1>2 DEF Handle, Records
  <2>. HIDE DEF on
  <2>. QED  BY <2>1, RecordType
<1>5. queue' \in Seq(Current) /\ queue' \in Seq(Message) /\ Len(queue') <= MaxQueue
  BY <1>1, <1>3, BoundsAssumption DEF TypeOK
<1>6. /\ applied' \in [Switches -> BOOLEAN] /\ newest' \in 0..MaxClicks
      /\ parameter' \in Parameters \union {NoParameter} /\ setbacks' \in Nat
  <2>1. /\ applied' = m.switches /\ newest' = m.at
        /\ parameter' = IF m.parameter = NoParameter THEN parameter ELSE m.parameter
        /\ setbacks' = IF m.at < newest THEN setbacks + 1 ELSE setbacks
    BY DEF Handle
  <2>. HIDE DEF m
  <2>. QED  BY <1>2, <2>1 DEF TypeOK
<1>7. TypeOK'
  BY <1>4, <1>5, <1>6 DEF Handle, TypeOK, network
<1>8. UnderwayCurrent'
  BY <1>3, <1>5, SameCurrent DEF UnderwayCurrent
<1>. QED  BY <1>3, <1>7, <1>8, ReadKept

LEMMA PressStep ==
    ASSUME IInv, NEW s \in Switches, Press(s)
    PROVE  IInv'
<1>. USE DEF IInv, controller, composer, network
<1>1. UNCHANGED <<wanted, clicks, draft, reading, net, queue>>
  BY DEF Press
<1>2. isRecordStart' \in BOOLEAN
  <2>1. CASE s = "isRecord"
    <3>. DEFINE on == ~applied[s]
    <3>1. on \in BOOLEAN
      OBVIOUS
    <3>2. Record(on)
      BY <2>1 DEF Press
    <3>. HIDE DEF on
    <3>. QED  BY <3>1, <3>2, RecordType
  <2>2. CASE s # "isRecord"
    BY <2>2 DEF Press, TypeOK
  <2>. QED  BY <2>1, <2>2
<1>3. presses' \in 0..MaxPresses
  BY BoundsAssumption DEF Press, TypeOK
<1>4. applied' \in [Switches -> BOOLEAN]
  BY DEF Press, TypeOK
<1>5. TypeOK'
  BY <1>2, <1>3, <1>4 DEF Press, TypeOK
<1>. QED  BY <1>1, <1>5, ReadKept, UnderwayKept

LEMMA ActivityStep ==
    ASSUME IInv, ResumeCar \/ PauseCar
    PROVE  IInv'
<1>. USE DEF IInv, controller, composer, network
<1>1. UNCHANGED <<wanted, clicks, draft, reading, net, queue>>
  BY DEF ResumeCar, PauseCar
<1>2. TypeOK'
  BY DEF TypeOK, ResumeCar, PauseCar
<1>. QED  BY <1>1, <1>2, ReadKept, UnderwayKept

-----------------------------------------------------------------------------
\* The invariant of the remote control, from which both theorems follow.
THEOREM Invariant == Spec => []IInv
<1>1. IInv /\ [Next]_vars => IInv'
  <2>. SUFFICES ASSUME IInv, [Next]_vars PROVE IInv'
    OBVIOUS
  <2>1. CASE UNCHANGED vars
    <3>. USE DEF vars, controller, composer, network, car
    <3>1. TypeOK'
      BY <2>1 DEF IInv, TypeOK
    <3>. QED  BY <2>1, <3>1, ReadKept, UnderwayKept DEF IInv
  <2>2. CASE Next
    <3>1. CASE \E s \in Switches : Click(s) \/ Press(s)
      BY <3>1, ClickStep, PressStep
    <3>2. CASE (\E p \in Parameters : TouchDown(p)) \/ TouchUp \/ OpenPage \/ ClosePage
      BY <3>2, UserStep
    <3>3. CASE \E k \in DOMAIN net : Lose(k) \/ Duplicate(k) \/ Swap(k)
      BY <3>3, FaultStep
    <3>. QED
      BY <2>2, <3>1, <3>2, <3>3, ComposeStep, HearStep, HandleStep, ActivityStep DEF Next
  <2>. QED  BY <2>1, <2>2
<1>. QED  BY <1>1, InitInv, PTL DEF Spec

\* Every variable of both apps and of the network keeps its type.
THEOREM TypeCorrect == Spec => []TypeOK
<1>1. IInv => TypeOK
  BY DEF IInv
<1>. QED  BY <1>1, Invariant, PTL

\* Client.java 236-249: although the switches are read one after the other while
\* the user clicks, a message whose composition began after the last click says
\* exactly what is wanted, however long it stays under way.
THEOREM CurrentMessages == Spec => []CurrentSaysWanted
<1>1. IInv => CurrentSaysWanted
  <2>. SUFFICES ASSUME IInv, NEW m \in Underway PROVE m.at = clicks => m.switches = wanted
    BY DEF CurrentSaysWanted
  <2>1. m \in Current
    BY DEF IInv, UnderwayCurrent, Underway, Range
  <2>. QED  BY <2>1 DEF Current
<1>. QED  BY <1>1, Invariant, PTL

-----------------------------------------------------------------------------
(* Why every setback is a fault's doing.  Put the messages in the order in *)
(* which they will be applied, behind the one applied last.  As long as    *)
(* nothing goes wrong the clicks they were composed at never fall along    *)
(* that line.  A fault makes room for one more fall, and every fall that   *)
(* is applied uses one up: so the line has levels, between the setbacks    *)
(* there were and the faults there were, that rise wherever it falls.      *)

\* A line of N + 1 messages can be levelled between lo and hi: each gets a level,
\* never below that of the one before, and above it where it was composed earlier.
Levelled(P, N, lo, hi) ==
    \E f \in [0..N -> lo..hi] :
        \A i, j \in 0..N : i < j => f[i] <= f[j] /\ (P[j] < P[i] => f[i] < f[j])

\* So can a line whose messages come from it in their order, whatever is left out
\* or repeated.
LEMMA Reindexed ==
    ASSUME NEW N \in Nat, NEW M \in Nat, NEW lo \in Int, NEW hi \in Int, NEW high \in Int, hi <= high,
           NEW P \in [0..N -> Int], NEW Q \in [0..M -> Int], NEW h \in [0..M -> 0..N],
           \A i \in 0..M : Q[i] = P[h[i]],
           \A i, j \in 0..M : i < j => h[i] <= h[j],
           Levelled(P, N, lo, hi)
    PROVE  Levelled(Q, M, lo, high)
<1>1. PICK f \in [0..N -> lo..hi] :
          \A i, j \in 0..N : i < j => f[i] <= f[j] /\ (P[j] < P[i] => f[i] < f[j])
  BY DEF Levelled
<1>. DEFINE g == [i \in 0..M |-> f[h[i]]]
<1>2. g \in [0..M -> lo..high]
  OBVIOUS
<1>3. ASSUME NEW i \in 0..M, NEW j \in 0..M, i < j
      PROVE  g[i] <= g[j] /\ (Q[j] < Q[i] => g[i] < g[j])
  <2>1. h[i] \in 0..N /\ h[j] \in 0..N /\ h[i] <= h[j]
    BY <1>3
  <2>2. g[i] = f[h[i]] /\ g[j] = f[h[j]] /\ Q[i] = P[h[i]] /\ Q[j] = P[h[j]]
    OBVIOUS
  <2>3. f[h[i]] \in Int /\ P[h[i]] \in Int
    BY <2>1
  <2>4. CASE h[i] = h[j]
    BY <2>2, <2>3, <2>4
  <2>5. CASE h[i] < h[j]
    BY <1>1, <2>1, <2>2, <2>5
  <2>. QED  BY <2>1, <2>4, <2>5
<1>. HIDE DEF g
<1>. QED  BY <1>2, <1>3 DEF Levelled

\* The first message goes: a level is used up when the next is an earlier one.
LEMMA FirstTaken ==
    ASSUME NEW N \in Nat, NEW lo \in Int, NEW hi \in Int,
           NEW P \in [0..(N + 1) -> Int], NEW Q \in [0..N -> Int],
           \A i \in 0..N : Q[i] = P[i + 1],
           Levelled(P, N + 1, lo, hi)
    PROVE  Levelled(Q, N, IF P[1] < P[0] THEN lo + 1 ELSE lo, hi)
<1>1. PICK f \in [0..(N + 1) -> lo..hi] :
          \A i, j \in 0..(N + 1) : i < j => f[i] <= f[j] /\ (P[j] < P[i] => f[i] < f[j])
  BY DEF Levelled
<1>. DEFINE g == [i \in 0..N |-> f[i + 1]]
            low == IF P[1] < P[0] THEN lo + 1 ELSE lo
<1>2. ASSUME NEW i \in 0..N PROVE g[i] \in low..hi
  <2>1. 0 \in 0..(N + 1) /\ 1 \in 0..(N + 1) /\ i + 1 \in 0..(N + 1)
    OBVIOUS
  <2>2. f[0] \in lo..hi /\ f[1] \in lo..hi /\ f[i + 1] \in lo..hi
    BY <2>1
  <2>3. f[1] <= f[i + 1] /\ (P[1] < P[0] => f[0] < f[1])
    <3>1. P[1] < P[0] => f[0] < f[1]
      BY <1>1, <2>1
    <3>2. CASE i = 0
      BY <2>2, <3>1, <3>2
    <3>3. CASE i > 0
      BY <1>1, <2>1, <3>1, <3>3
    <3>. QED  BY <3>2, <3>3
  <2>. QED  BY <2>2, <2>3
<1>3. g \in [0..N -> low..hi]
  BY <1>2
<1>4. ASSUME NEW i \in 0..N, NEW j \in 0..N, i < j
      PROVE  g[i] <= g[j] /\ (Q[j] < Q[i] => g[i] < g[j])
  <2>1. i + 1 \in 0..(N + 1) /\ j + 1 \in 0..(N + 1) /\ i + 1 < j + 1
    BY <1>4
  <2>. QED  BY <1>1, <2>1
<1>. HIDE DEF g, low
<1>5. Levelled(Q, N, low, hi)
  BY <1>3, <1>4 DEF Levelled
<1>. QED  BY <1>5 DEF low

\* Arithmetic of one level more.
LEMMA OneLevelUp ==
    /\ \A a, lo, hi \in Int : lo <= a /\ a <= hi => a \in lo..(hi + 1) /\ a + 1 \in lo..(hi + 1)
    /\ \A a, b, p, q \in Int : a <= b /\ (q < p => a < b) =>
           /\ a + 1 <= b + 1 /\ (q < p => a + 1 < b + 1)
           /\ a <= b + 1 /\ (q < p => a < b + 1)
OBVIOUS

\* The level of a message that is overtaken.
Overtaken(b, p, q) == IF q < p THEN b ELSE b + 1

LEMMA OvertakenLevel ==
    /\ \A b, p, q \in Int : b <= Overtaken(b, p, q) /\ (p < q => b < Overtaken(b, p, q))
    /\ \A a, b, p, q, s \in Int : a <= b /\ (p < s => a < b) =>
           a <= Overtaken(b, p, q) /\ (p < s => a < Overtaken(b, p, q))
    /\ \A b, c, p, q, r \in Int : b <= c /\ (r < q => b < c) =>
           Overtaken(b, p, q) <= c + 1 /\ (r < p => Overtaken(b, p, q) < c + 1)
BY DEF Overtaken

\* Two neighbours change places: one level more is enough.
LEMMA Exchanged ==
    ASSUME NEW N \in Nat, NEW lo \in Int, NEW hi \in Int,
           NEW P \in [0..N -> Int], NEW Q \in [0..N -> Int],
           NEW k \in 1..N, k + 1 \in 1..N,
           Q[k] = P[k + 1], Q[k + 1] = P[k],
           \A i \in 0..N : i # k /\ i # k + 1 => Q[i] = P[i],
           Levelled(P, N, lo, hi)
    PROVE  Levelled(Q, N, lo, hi + 1)
<1>1. PICK f \in [0..N -> lo..hi] :
          \A i, j \in 0..N : i < j => f[i] <= f[j] /\ (P[j] < P[i] => f[i] < f[j])
  BY DEF Levelled
<1>. DEFINE g == [i \in 0..N |-> IF i < k THEN f[i]
                                 ELSE IF i = k THEN f[k + 1]
                                 ELSE IF i = k + 1 THEN Overtaken(f[k + 1], P[k], P[k + 1])
                                 ELSE f[i] + 1]
<1>2. k \in 0..N /\ k + 1 \in 0..N
  OBVIOUS
<1>3. \A i \in 0..N : f[i] \in Int /\ lo <= f[i] /\ f[i] <= hi /\ P[i] \in Int
  OBVIOUS
<1>4. g \in [0..N -> lo..(hi + 1)]
  <2>1. ASSUME NEW i \in 0..N PROVE f[i] \in lo..(hi + 1) /\ f[i] + 1 \in lo..(hi + 1)
    BY <1>3, OneLevelUp, Zenon
  <2>. QED  BY <1>2, <2>1 DEF Overtaken
<1>5. ASSUME NEW i \in 0..N, NEW j \in 0..N, i < j
      PROVE  g[i] <= g[j] /\ (Q[j] < Q[i] => g[i] < g[j])
  <2>1. f[k] \in Int /\ f[k + 1] \in Int /\ P[k] \in Int /\ P[k + 1] \in Int
        /\ f[i] \in Int /\ f[j] \in Int /\ P[i] \in Int /\ P[j] \in Int
    BY <1>2, <1>3
  <2>2. f[i] <= f[j] /\ (P[j] < P[i] => f[i] < f[j])
    BY <1>1, <1>5
  <2>3. f[k] <= f[k + 1] /\ (P[k + 1] < P[k] => f[k] < f[k + 1])
    BY <1>1, <1>2
  <2>4. i < k => f[i] <= f[k] /\ f[i] <= f[k + 1]
                 /\ (P[k] < P[i] => f[i] < f[k]) /\ (P[k + 1] < P[i] => f[i] < f[k + 1])
    BY <1>1, <1>2
  <2>5. j > k + 1 => f[k] <= f[j] /\ f[k + 1] <= f[j]
                     /\ (P[j] < P[k] => f[k] < f[j]) /\ (P[j] < P[k + 1] => f[k + 1] < f[j])
    BY <1>1, <1>2
  <2>. DEFINE swapped == Overtaken(f[k + 1], P[k], P[k + 1])
  <2>6. CASE i < k
    <3>1. g[i] = f[i] /\ Q[i] = P[i]
      BY <2>6
    <3>2. CASE j < k
      BY <2>2, <3>1, <3>2
    <3>3. CASE j = k
      BY <2>4, <2>6, <3>1, <3>3
    <3>4. CASE j = k + 1
      <4>1. g[j] = swapped /\ Q[j] = P[k]
        BY <3>4
      <4>2. f[i] <= f[k + 1] /\ (P[k] < P[i] => f[i] < f[k + 1])
        BY <2>1, <2>3, <2>4, <2>6
      <4>3. f[i] <= swapped /\ (P[k] < P[i] => f[i] < swapped)
        BY <2>1, <4>2, OvertakenLevel, Zenon
      <4>. QED  BY <3>1, <4>1, <4>3, Zenon
    <3>5. CASE j > k + 1
      <4>1. g[j] = f[j] + 1 /\ Q[j] = P[j]
        BY <3>5
      <4>2. f[i] <= f[j] + 1 /\ (P[j] < P[i] => f[i] < f[j] + 1)
        BY <2>1, <2>2, OneLevelUp, Zenon
      <4>. QED  BY <3>1, <4>1, <4>2, Zenon
    <3>. QED  BY <3>2, <3>3, <3>4, <3>5
  <2>7. CASE i = k /\ j = k + 1
    <3>1. g[i] = f[k + 1] /\ Q[i] = P[k + 1] /\ g[j] = swapped /\ Q[j] = P[k]
      BY <2>7
    <3>2. f[k + 1] <= swapped /\ (P[k] < P[k + 1] => f[k + 1] < swapped)
      BY <2>1, OvertakenLevel, Zenon
    <3>. QED  BY <3>1, <3>2, Zenon
  <2>8. CASE i = k /\ j > k + 1
    <3>1. g[i] = f[k + 1] /\ Q[i] = P[k + 1] /\ g[j] = f[j] + 1 /\ Q[j] = P[j]
      BY <2>8
    <3>2. f[k + 1] <= f[j] + 1 /\ (P[j] < P[k + 1] => f[k + 1] < f[j] + 1)
      BY <2>1, <2>5, <2>8, OneLevelUp, Zenon
    <3>. QED  BY <3>1, <3>2, Zenon
  <2>9. CASE i = k + 1 /\ j > k + 1
    <3>1. g[i] = swapped /\ Q[i] = P[k] /\ g[j] = f[j] + 1 /\ Q[j] = P[j]
      BY <2>9
    <3>2. swapped <= f[j] + 1 /\ (P[j] < P[k] => swapped < f[j] + 1)
      BY <2>1, <2>5, <2>9, OvertakenLevel, Zenon
    <3>. QED  BY <3>1, <3>2, Zenon
  <2>10. CASE i > k + 1
    <3>1. g[i] = f[i] + 1 /\ Q[i] = P[i] /\ g[j] = f[j] + 1 /\ Q[j] = P[j]
      BY <1>5, <2>10
    <3>2. f[i] + 1 <= f[j] + 1 /\ (P[j] < P[i] => f[i] + 1 < f[j] + 1)
      BY <2>1, <2>2, OneLevelUp, Zenon
    <3>. QED  BY <3>1, <3>2, Zenon
  <2>. QED  BY <1>5, <2>6, <2>7, <2>8, <2>9, <2>10
<1>. HIDE DEF g
<1>. QED  BY <1>4, <1>5 DEF Levelled

\* A message composed after all of them joins at the end.
LEMMA Extended ==
    ASSUME NEW N \in Nat, NEW lo \in Int, NEW hi \in Int,
           NEW P \in [0..N -> Int], NEW Q \in [0..(N + 1) -> Int],
           \A i \in 0..N : Q[i] = P[i] /\ Q[i] <= Q[N + 1],
           Levelled(P, N, lo, hi)
    PROVE  Levelled(Q, N + 1, lo, hi)
<1>1. PICK f \in [0..N -> lo..hi] :
          \A i, j \in 0..N : i < j => f[i] <= f[j] /\ (P[j] < P[i] => f[i] < f[j])
  BY DEF Levelled
<1>. DEFINE g == [i \in 0..(N + 1) |-> IF i <= N THEN f[i] ELSE hi]
<1>2. \A i \in 0..N : f[i] \in Int /\ lo <= f[i] /\ f[i] <= hi
  OBVIOUS
<1>3. g \in [0..(N + 1) -> lo..hi]
  <2>1. 0 \in 0..N
    OBVIOUS
  <2>2. lo <= hi
    BY <1>2, <2>1
  <2>. QED  BY <1>2, <2>2
<1>4. ASSUME NEW i \in 0..(N + 1), NEW j \in 0..(N + 1), i < j
      PROVE  g[i] <= g[j] /\ (Q[j] < Q[i] => g[i] < g[j])
  <2>1. i \in 0..N /\ Q[i] \in Int /\ Q[j] \in Int
    BY <1>4
  <2>2. CASE j = N + 1
    BY <1>2, <2>1, <2>2
  <2>3. CASE j # N + 1
    <3>1. j \in 0..N
      BY <2>3
    <3>. QED  BY <1>1, <1>4, <2>1, <3>1
  <2>. QED  BY <2>2, <2>3
<1>. HIDE DEF g
<1>. QED  BY <1>3, <1>4 DEF Levelled

-----------------------------------------------------------------------------
(* The line of the messages.                                               *)

\* The clicks every message in line was composed at: the one applied last, those
\* that wait for the main thread, those on their way, and the one being composed.
InLine == Len(queue) + Len(net) + (IF reading = 0 THEN 0 ELSE 1)
Line == [i \in 0..InLine |->
    IF i = 0 THEN newest
    ELSE IF i <= Len(queue) THEN queue[i].at
    ELSE IF i <= Len(queue) + Len(net) THEN net[i - Len(queue)].at
    ELSE draft.at]

Order == newest <= clicks /\ Levelled(Line, InLine, setbacks, faults)

LineTyped ==
    /\ Len(queue) \in Nat /\ Len(net) \in Nat /\ InLine \in Nat
    /\ DOMAIN queue = 1..Len(queue) /\ DOMAIN net = 1..Len(net)
    /\ Line \in [0..InLine -> Int]
    /\ clicks \in Int /\ newest \in Int /\ draft.at \in Int
    /\ setbacks \in Int /\ faults \in Int

\* A line is as long as its parts, and of numbers.
LEMMA LineType == TypeOK => LineTyped
<1>. SUFFICES ASSUME TypeOK PROVE LineTyped
  OBVIOUS
<1>1. queue \in Seq(Message) /\ net \in Seq(Message) /\ draft \in Message
  BY DEF TypeOK
<1>2. \A m \in Message : m.at \in Int
  BY DEF Message
<1>3. Len(queue) \in Nat /\ Len(net) \in Nat /\ DOMAIN queue = 1..Len(queue) /\ DOMAIN net = 1..Len(net)
  BY <1>1
<1>4. InLine \in Nat
  BY <1>3 DEF InLine
<1>5. clicks \in Int /\ newest \in Int /\ draft.at \in Int /\ setbacks \in Int /\ faults \in Int
  BY <1>1, <1>2 DEF TypeOK
<1>6. ASSUME NEW i \in 0..InLine PROVE Line[i] \in Int
  <2>1. CASE i = 0
    BY <1>5, <2>1 DEF Line
  <2>2. CASE i \in 1..Len(queue)
    <3>1. queue[i].at \in Int
      BY <1>1, <1>2, <1>3, <2>2
    <3>. QED  BY <1>3, <2>2, <3>1 DEF Line
  <2>3. CASE i > Len(queue) /\ i <= Len(queue) + Len(net)
    <3>1. i - Len(queue) \in 1..Len(net)
      BY <1>3, <2>3
    <3>2. net[i - Len(queue)].at \in Int
      BY <1>1, <1>2, <1>3, <3>1
    <3>. QED  BY <1>3, <2>3, <3>2 DEF Line
  <2>4. CASE i > Len(queue) + Len(net)
    BY <1>3, <1>5, <2>4 DEF Line
  <2>. QED  BY <1>3, <1>4, <2>1, <2>2, <2>3, <2>4
<1>7. Line \in [0..InLine -> Int]
  BY <1>6 DEF Line
<1>. QED  BY <1>3, <1>4, <1>5, <1>7 DEF LineTyped

LEMMA LineTypeNext == TypeOK' => LineTyped'
BY LineType, PTL

\* A line that reads the same keeps its levels; so does one a message is taken
\* from or doubled in.
LEMMA LineKept ==
    ASSUME LineTyped, LineTyped', Levelled(Line, InLine, setbacks, faults),
           InLine' = InLine, \A i \in 0..InLine : Line'[i] = Line[i],
           setbacks' = setbacks, faults' = faults \/ faults' = faults + 1
    PROVE  Levelled(Line', InLine', setbacks', faults')
<1>. DEFINE h == [i \in 0..InLine |-> i]
<1>1. h \in [0..InLine -> 0..InLine] /\ \A i \in 0..InLine : h[i] = i
  OBVIOUS
<1>2. faults <= faults'
  BY DEF LineTyped
<1>. HIDE DEF h
<1>3. /\ InLine \in Nat /\ setbacks \in Int /\ faults \in Int /\ faults' \in Int
      /\ Line \in [0..InLine -> Int] /\ Line' \in [0..InLine -> Int]
  BY DEF LineTyped
<1>4. \A i, j \in 0..InLine : i < j => h[i] <= h[j]
  BY <1>1
<1>5. \A i \in 0..InLine : Line'[i] = Line[h[i]]
  BY <1>1
<1>6. Levelled(Line', InLine, setbacks, faults')
  BY <1>1, <1>2, <1>3, <1>4, <1>5, Reindexed
<1>. QED  BY <1>6

LEMMA LineLoses ==
    ASSUME LineTyped, LineTyped', Levelled(Line, InLine, setbacks, faults),
           NEW k \in 1..InLine, InLine' = InLine - 1,
           \A i \in 0..InLine' : Line'[i] = IF i < k THEN Line[i] ELSE Line[i + 1],
           setbacks' = setbacks, faults' = faults \/ faults' = faults + 1
    PROVE  Levelled(Line', InLine', setbacks', faults')
<1>. DEFINE h == [i \in 0..InLine' |-> IF i < k THEN i ELSE i + 1]
<1>1. /\ InLine \in Nat /\ InLine' \in Nat /\ setbacks \in Int /\ faults \in Int /\ faults' \in Int
      /\ Line \in [0..InLine -> Int] /\ Line' \in [0..InLine' -> Int]
  BY DEF LineTyped
<1>2. h \in [0..InLine' -> 0..InLine]
  BY <1>1
<1>3. \A i, j \in 0..InLine' : i < j => h[i] <= h[j]
  BY <1>1
<1>4. \A i \in 0..InLine' : Line'[i] = Line[h[i]]
  OBVIOUS
<1>5. faults <= faults'
  BY DEF LineTyped
<1>. HIDE DEF h
<1>6. Levelled(Line', InLine', setbacks, faults')
  BY <1>1, <1>2, <1>3, <1>4, <1>5, Reindexed
<1>. QED  BY <1>6

LEMMA LineDoubles ==
    ASSUME LineTyped, LineTyped', Levelled(Line, InLine, setbacks, faults),
           NEW k \in 1..InLine, InLine' = InLine + 1,
           \A i \in 0..InLine' : Line'[i] = IF i <= k THEN Line[i] ELSE Line[i - 1],
           setbacks' = setbacks, faults' = faults \/ faults' = faults + 1
    PROVE  Levelled(Line', InLine', setbacks', faults')
<1>. DEFINE h == [i \in 0..InLine' |-> IF i <= k THEN i ELSE i - 1]
<1>1. /\ InLine \in Nat /\ InLine' \in Nat /\ setbacks \in Int /\ faults \in Int /\ faults' \in Int
      /\ Line \in [0..InLine -> Int] /\ Line' \in [0..InLine' -> Int]
  BY DEF LineTyped
<1>2. h \in [0..InLine' -> 0..InLine]
  BY <1>1
<1>3. \A i, j \in 0..InLine' : i < j => h[i] <= h[j]
  BY <1>1
<1>4. \A i \in 0..InLine' : Line'[i] = Line[h[i]]
  OBVIOUS
<1>5. faults <= faults'
  BY DEF LineTyped
<1>. HIDE DEF h
<1>6. Levelled(Line', InLine', setbacks, faults')
  BY <1>1, <1>2, <1>3, <1>4, <1>5, Reindexed
<1>. QED  BY <1>6

Ordered == IInv /\ Order

\* Most steps leave the line alone.
LEMMA LineStays ==
    ASSUME Ordered, IInv', newest <= clicks',
           UNCHANGED <<queue, net, newest, setbacks>>,
           reading' = 0 <=> reading = 0, draft'.at = draft.at,
           faults' = faults \/ faults' = faults + 1
    PROVE  Order'
<1>1. LineTyped /\ LineTyped'
  BY LineType, LineTypeNext DEF Ordered, IInv
<1>2. InLine' = InLine
  BY DEF InLine
<1>3. \A i \in 0..InLine : Line'[i] = Line[i]
  BY <1>2 DEF Line
<1>4. Levelled(Line', InLine', setbacks', faults')
  BY <1>1, <1>2, <1>3, LineKept DEF Ordered, Order
<1>. QED  BY <1>4 DEF Order

\* A new message says the clicks of now, which no other exceeds.
LEMMA BeginRoundOrder ==
    ASSUME Ordered, IInv', BeginRound
    PROVE  Order'
<1>1. LineTyped /\ LineTyped'
  BY LineType, LineTypeNext DEF Ordered, IInv
<1>2. /\ reading = 0 /\ reading' = 1 /\ draft'.at = clicks
      /\ UNCHANGED <<clicks, queue, net, newest, setbacks, faults>>
  BY DEF BeginRound, Blank, controller, network, car
<1>3. InLine = Len(queue) + Len(net) /\ InLine' = InLine + 1
  BY <1>1, <1>2 DEF InLine, LineTyped
<1>4. \A i \in 0..InLine : Line'[i] = Line[i]
  BY <1>1, <1>2, <1>3 DEF Line, LineTyped
<1>5. Line'[InLine + 1] = clicks
  BY <1>1, <1>2, <1>3 DEF Line, LineTyped
<1>6. ASSUME NEW i \in 0..InLine PROVE Line[i] <= clicks
  <2>1. CASE i = 0
    BY <2>1 DEF Line, Ordered, Order
  <2>2. CASE i \in 1..Len(queue)
    <3>1. queue[i] \in Current
      BY <1>1, <2>2 DEF Ordered, IInv, UnderwayCurrent, LineTyped
    <3>. QED  BY <2>2, <3>1 DEF Line, Current
  <2>3. CASE i > Len(queue)
    <3>1. i - Len(queue) \in 1..Len(net)
      BY <1>1, <1>3, <2>3 DEF LineTyped
    <3>2. net[i - Len(queue)] \in Current
      BY <1>1, <3>1 DEF Ordered, IInv, UnderwayCurrent, LineTyped
    <3>3. Line[i] = net[i - Len(queue)].at
      BY <1>1, <1>3, <2>3 DEF Line, LineTyped
    <3>. QED  BY <3>2, <3>3 DEF Current
  <2>. QED  BY <1>1, <2>1, <2>2, <2>3 DEF LineTyped
<1>7. /\ InLine \in Nat /\ setbacks \in Int /\ faults \in Int
      /\ Line \in [0..InLine -> Int] /\ Line' \in [0..(InLine + 1) -> Int]
  BY <1>1, <1>3 DEF LineTyped
<1>8. \A i \in 0..InLine : Line'[i] = Line[i] /\ Line'[i] <= Line'[InLine + 1]
  BY <1>4, <1>5, <1>6
<1>9. Levelled(Line', InLine + 1, setbacks, faults)
  BY <1>7, <1>8, Extended DEF Ordered, Order
<1>. QED  BY <1>2, <1>3, <1>9 DEF Order, Ordered

\* A message that is sent, or heard, stays at its place in the line.
LEMMA SendOrder ==
    ASSUME Ordered, IInv', Send
    PROVE  Order'
<1>1. LineTyped /\ LineTyped'
  BY LineType, LineTypeNext DEF Ordered, IInv
<1>2. /\ net' = Append(net, draft) /\ reading' = 0 /\ reading # 0
      /\ UNCHANGED <<clicks, queue, newest, setbacks, faults>>
  BY FieldsType DEF Send, SendPlace, controller, car
<1>3. net \in Seq(Message) /\ draft \in Message
  BY DEF Ordered, IInv, TypeOK
<1>4. /\ Len(net') = Len(net) + 1
      /\ \A i \in 1..Len(net) : net'[i] = net[i]
      /\ net'[Len(net) + 1] = draft
  BY <1>2, <1>3
<1>5. InLine = Len(queue) + Len(net) + 1 /\ InLine' = InLine
  BY <1>1, <1>2, <1>4 DEF InLine, LineTyped
<1>6. ASSUME NEW i \in 0..InLine PROVE Line'[i] = Line[i]
  <2>1. CASE i <= Len(queue)
    BY <1>1, <1>2, <1>5, <2>1 DEF Line, LineTyped
  <2>2. CASE i > Len(queue) /\ i <= Len(queue) + Len(net)
    <3>1. i - Len(queue) \in 1..Len(net)
      BY <1>1, <2>2 DEF LineTyped
    <3>2. Line[i] = net[i - Len(queue)].at /\ Line'[i] = net'[i - Len(queue)].at
      BY <1>1, <1>2, <1>4, <1>5, <2>2 DEF Line, LineTyped
    <3>. QED  BY <1>4, <3>1, <3>2
  <2>3. CASE i = Len(queue) + Len(net) + 1
    <3>1. i - Len(queue) = Len(net) + 1
      BY <1>1, <2>3 DEF LineTyped
    <3>2. Line[i] = draft.at /\ Line'[i] = net'[i - Len(queue)].at
      BY <1>1, <1>2, <1>4, <1>5, <2>3 DEF Line, LineTyped
    <3>. QED  BY <1>4, <3>1, <3>2
  <2>. QED  BY <1>1, <1>5, <2>1, <2>2, <2>3 DEF LineTyped
<1>7. Levelled(Line', InLine', setbacks', faults')
  BY <1>1, <1>2, <1>5, <1>6, LineKept DEF Ordered, Order
<1>. QED  BY <1>2, <1>7 DEF Order, Ordered

LEMMA HearOrder ==
    ASSUME Ordered, IInv', Hear
    PROVE  Order'
<1>1. LineTyped /\ LineTyped'
  BY LineType, LineTypeNext DEF Ordered, IInv
<1>2. /\ net' = Tail(net) /\ net # <<>>
      /\ clicks' = clicks /\ reading' = reading /\ draft' = draft
      /\ newest' = newest /\ setbacks' = setbacks /\ faults' = faults
  BY DEF Hear, controller, composer
<1>3. net \in Seq(Message) /\ queue \in Seq(Message)
  BY DEF Ordered, IInv, TypeOK
<1>4. /\ Len(net') = Len(net) - 1 /\ Len(net) >= 1
      /\ \A i \in 1..Len(net') : net'[i] = net[i + 1]
  BY <1>2, <1>3
<1>5. CASE activity
  <2>1. /\ Len(queue') = Len(queue) + 1
        /\ \A i \in 1..Len(queue) : queue'[i] = queue[i]
        /\ queue'[Len(queue) + 1] = net[1]
    <3>1. queue' = Append(queue, Head(net))
      BY <1>5 DEF Hear
    <3>. QED  BY <1>2, <1>3, <3>1
  <2>2. InLine' = InLine
    BY <1>1, <1>2, <1>4, <2>1 DEF InLine, LineTyped
  <2>3. ASSUME NEW i \in 0..InLine PROVE Line'[i] = Line[i]
    <3>0. i \in Nat /\ Len(queue) \in Nat /\ Len(net) \in Nat
      BY <1>1 DEF LineTyped
    <3>1. CASE i = 0
      BY <1>2, <2>2, <3>1 DEF Line
    <3>2. CASE i \in 1..Len(queue)
      BY <1>1, <2>1, <2>2, <3>2 DEF Line, LineTyped
    <3>3. CASE i = Len(queue) + 1
      <4>1. i - Len(queue) = 1
        BY <1>1, <3>3 DEF LineTyped
      <4>2. Line[i] = net[i - Len(queue)].at /\ Line'[i] = queue'[i].at
        BY <1>1, <1>4, <2>1, <2>2, <3>3 DEF Line, LineTyped
      <4>. QED  BY <2>1, <3>3, <4>1, <4>2
    <3>4. CASE i > Len(queue) + 1 /\ i <= Len(queue) + Len(net)
      <4>1. i - Len(queue') \in 1..Len(net') /\ i - Len(queue) = (i - Len(queue')) + 1
        BY <1>1, <1>4, <2>1, <3>4 DEF LineTyped
      <4>2. Line[i] = net[i - Len(queue)].at /\ Line'[i] = net'[i - Len(queue')].at
        BY <1>1, <1>4, <2>1, <2>2, <3>4 DEF Line, LineTyped
      <4>. QED  BY <1>4, <4>1, <4>2
    <3>5. CASE i > Len(queue) + Len(net)
      BY <1>1, <1>2, <1>4, <2>1, <2>2, <3>5 DEF Line, LineTyped
    <3>. QED  BY <3>0, <3>1, <3>2, <3>3, <3>4, <3>5
  <2>4. Levelled(Line', InLine', setbacks', faults')
    BY <1>1, <1>2, <2>2, <2>3, LineKept DEF Ordered, Order
  <2>. QED  BY <1>2, <2>4 DEF Order, Ordered
<1>6. CASE ~activity
  <2>. DEFINE k == Len(queue) + 1
  <2>0. queue' = queue
    BY <1>6 DEF Hear
  <2>1. queue' = queue /\ InLine' = InLine - 1 /\ k \in 1..InLine
    BY <1>1, <1>2, <1>4, <2>0 DEF InLine, LineTyped
  <2>2. ASSUME NEW i \in 0..InLine' PROVE Line'[i] = IF i < k THEN Line[i] ELSE Line[i + 1]
    <3>0. i \in Int /\ i \in 0..InLine /\ Len(queue) \in Nat /\ Len(net') \in Nat
      BY <1>1, <2>1 DEF LineTyped
    <3>1. CASE i < k
      <4>1. i <= Len(queue)
        BY <1>1, <3>0, <3>1 DEF LineTyped
      <4>2. Line'[i] = Line[i]
        BY <1>1, <1>2, <2>1, <3>0, <4>1 DEF Line, LineTyped
      <4>. QED  BY <3>1, <4>2
    <3>2. CASE i >= k /\ i <= Len(queue) + Len(net')
      <4>1. i - Len(queue) \in 1..Len(net') /\ (i + 1) - Len(queue) = (i - Len(queue)) + 1
        BY <1>1, <3>2 DEF LineTyped
      <4>2. Line[i + 1] = net[(i + 1) - Len(queue)].at /\ Line'[i] = net'[i - Len(queue)].at
        BY <1>1, <1>4, <2>1, <3>2 DEF Line, LineTyped
      <4>. QED  BY <1>4, <3>2, <4>1, <4>2
    <3>3. CASE i > Len(queue) + Len(net')
      BY <1>1, <1>2, <1>4, <2>1, <3>3 DEF Line, LineTyped
    <3>4. i < k \/ (i >= k /\ i <= Len(queue) + Len(net')) \/ i > Len(queue) + Len(net')
      BY <3>0
    <3>. QED  BY <3>1, <3>2, <3>3, <3>4
  <2>. HIDE DEF k
  <2>3. Levelled(Line', InLine', setbacks', faults')
    BY <1>1, <1>2, <2>1, <2>2, LineLoses DEF Ordered, Order
  <2>. QED  BY <1>2, <2>3 DEF Order, Ordered
<1>. QED  BY <1>5, <1>6

\* More levels do no harm.
LEMMA Roomier ==
    ASSUME NEW N \in Nat, NEW lo \in Int, NEW hi \in Int, NEW high \in Int, hi <= high,
           NEW P, Levelled(P, N, lo, hi)
    PROVE  Levelled(P, N, lo, high)
<1>1. PICK f \in [0..N -> lo..hi] :
          \A i, j \in 0..N : i < j => f[i] <= f[j] /\ (P[j] < P[i] => f[i] < f[j])
  BY DEF Levelled
<1>2. f \in [0..N -> lo..high]
  OBVIOUS
<1>. QED  BY <1>1, <1>2 DEF Levelled

\* What is where when a message is lost or doubled.
LEMMA RemovedAt ==
    ASSUME NEW S, NEW s \in Seq(S), NEW k \in 1..Len(s), NEW i \in 1..(Len(s) - 1)
    PROVE  RemoveAt(s, k)[i] = IF i < k THEN s[i] ELSE s[i + 1]
<1>. DEFINE before == SubSeq(s, 1, k - 1)
            after == SubSeq(s, k + 1, Len(s))
<1>1. Len(s) \in Nat /\ k \in 1..Len(s) /\ i \in 1..(Len(s) - 1)
  OBVIOUS
<1>2. before \in Seq(S) /\ Len(before) = k - 1 /\ \A j \in 1..(k - 1) : before[j] = s[j]
  BY <1>1
<1>3. after \in Seq(S) /\ Len(after) = Len(s) - k /\ \A j \in 1..(Len(s) - k) : after[j] = s[k + j]
  BY <1>1
<1>. HIDE DEF before, after
<1>4. (before \o after)[i] = IF i <= k - 1 THEN before[i] ELSE after[i - (k - 1)]
  BY <1>1, <1>2, <1>3
<1>5. RemoveAt(s, k) = before \o after
  BY DEF RemoveAt, before, after
<1>6. CASE i < k
  <2>1. (before \o after)[i] = s[i]
    BY <1>1, <1>2, <1>4, <1>6
  <2>. QED  BY <1>5, <1>6, <2>1
<1>7. CASE ~(i < k)
  <2>1. i - (k - 1) \in 1..(Len(s) - k) /\ k + (i - (k - 1)) = i + 1 /\ ~(i <= k - 1)
    BY <1>1, <1>7
  <2>2. (before \o after)[i] = s[i + 1]
    BY <1>3, <1>4, <2>1
  <2>. QED  BY <1>5, <1>7, <2>2
<1>. QED  BY <1>6, <1>7

LEMMA InsertedAt ==
    ASSUME NEW S, NEW s \in Seq(S), NEW k \in 1..Len(s), NEW i \in 1..(Len(s) + 1)
    PROVE  InsertAt(s, k, s[k])[i] = IF i <= k THEN s[i] ELSE s[i - 1]
BY DEF InsertAt

\* The place of a datagram in the line.
LEMMA PlaceInNet ==
    ASSUME LineTyped, NEW k \in 1..Len(net)
    PROVE  Len(queue) + k \in 1..InLine /\ Line[Len(queue) + k] = net[k].at
<1>1. Len(queue) \in Nat /\ Len(net) \in Nat
  BY DEF LineTyped
<1>2. Len(queue) + k \in 1..InLine
  BY <1>1 DEF InLine
<1>3. (Len(queue) + k) - Len(queue) = k
  BY <1>1
<1>. QED  BY <1>1, <1>2, <1>3 DEF Line

\* The faults of the network.
LEMMA LoseOrder ==
    ASSUME Ordered, IInv', NEW k \in DOMAIN net, Lose(k)
    PROVE  Order'
<1>1. LineTyped /\ LineTyped'
  BY LineType, LineTypeNext DEF Ordered, IInv
<1>2. /\ net' = RemoveAt(net, k)
      /\ UNCHANGED <<clicks, reading, draft, queue, newest, setbacks>> /\ faults' = faults + 1
  BY DEF Lose, Fault, controller, composer, car
<1>3. net \in Seq(Message)
  BY DEF Ordered, IInv, TypeOK
<1>4. /\ Len(net') = Len(net) - 1
      /\ \A i \in 1..Len(net') : net'[i] = IF i < k THEN net[i] ELSE net[i + 1]
  <2>1. Len(net') = Len(net) - 1
    BY <1>2, <1>3, Removed
  <2>2. Len(net) \in Nat /\ k \in 1..Len(net)
    BY <1>3
  <2>. QED  BY <1>2, <1>3, <2>1, <2>2, RemovedAt
<1>5. /\ Len(queue) \in Nat /\ Len(net) \in Nat /\ Len(net') \in Nat /\ k \in 1..Len(net)
  BY <1>1 DEF LineTyped
<1>. DEFINE at == Len(queue) + k
<1>6. at \in 1..InLine /\ InLine' = InLine - 1
  BY <1>2, <1>4, <1>5 DEF InLine
<1>7. ASSUME NEW i \in 0..InLine' PROVE Line'[i] = IF i < at THEN Line[i] ELSE Line[i + 1]
  <2>1. i \in Nat /\ i \in 0..InLine /\ i + 1 \in 0..InLine
    BY <1>1, <1>6 DEF LineTyped
  <2>2. CASE i <= Len(queue)
    BY <1>2, <1>5, <2>1, <2>2 DEF Line
  <2>3. CASE i > Len(queue) /\ i <= Len(queue) + Len(net')
    <3>. DEFINE j == i - Len(queue)
    <3>1. j \in 1..Len(net') /\ (i + 1) - Len(queue) = j + 1 /\ (i < at <=> j < k)
      BY <1>5, <2>1, <2>3
    <3>2. Line'[i] = net'[j].at
      BY <1>2, <1>5, <2>1, <2>3 DEF Line
    <3>3. Line[i] = net[j].at
      BY <1>4, <1>5, <2>1, <2>3 DEF Line
    <3>4. Line[i + 1] = net[(i + 1) - Len(queue)].at
      BY <1>4, <1>5, <2>1, <2>3 DEF Line
    <3>. HIDE DEF j, at
    <3>. QED  BY <1>4, <3>1, <3>2, <3>3, <3>4
  <2>4. CASE i > Len(queue) + Len(net')
    <3>1. ~(i < at)
      BY <1>4, <1>5, <2>1, <2>4
    <3>2. Line'[i] = draft.at
      BY <1>2, <1>5, <2>1, <2>4 DEF Line
    <3>3. Line[i + 1] = draft.at
      BY <1>4, <1>5, <2>1, <2>4 DEF Line
    <3>. QED  BY <3>1, <3>2, <3>3
  <2>. QED  BY <1>5, <2>1, <2>2, <2>3, <2>4
<1>. HIDE DEF at
<1>8. Levelled(Line', InLine', setbacks', faults')
  BY <1>1, <1>2, <1>6, <1>7, LineLoses DEF Ordered, Order
<1>. QED  BY <1>2, <1>8 DEF Order, Ordered

LEMMA DuplicateOrder ==
    ASSUME Ordered, IInv', NEW k \in DOMAIN net, Duplicate(k)
    PROVE  Order'
<1>1. LineTyped /\ LineTyped'
  BY LineType, LineTypeNext DEF Ordered, IInv
<1>2. /\ net' = InsertAt(net, k, net[k])
      /\ UNCHANGED <<clicks, reading, draft, queue, newest, setbacks>> /\ faults' = faults + 1
  BY DEF Duplicate, Fault, controller, composer, car
<1>3. net \in Seq(Message)
  BY DEF Ordered, IInv, TypeOK
<1>4. /\ Len(net') = Len(net) + 1
      /\ \A i \in 1..Len(net') : net'[i] = IF i <= k THEN net[i] ELSE net[i - 1]
  <2>1. Len(net') = Len(net) + 1
    BY <1>2, <1>3, Inserted
  <2>2. Len(net) \in Nat /\ k \in 1..Len(net)
    BY <1>3
  <2>. QED  BY <1>2, <1>3, <2>1, <2>2, InsertedAt
<1>5. /\ Len(queue) \in Nat /\ Len(net) \in Nat /\ Len(net') \in Nat /\ k \in 1..Len(net)
  BY <1>1 DEF LineTyped
<1>. DEFINE at == Len(queue) + k
<1>6. at \in 1..InLine /\ InLine' = InLine + 1
  BY <1>2, <1>4, <1>5 DEF InLine
<1>7. ASSUME NEW i \in 0..InLine' PROVE Line'[i] = IF i <= at THEN Line[i] ELSE Line[i - 1]
  <2>0. InLine \in Nat
    BY <1>1 DEF LineTyped
  <2>1. i \in Nat /\ (i <= at => i \in 0..InLine) /\ (~(i <= at) => i - 1 \in 0..InLine)
    BY <1>5, <1>6, <2>0
  <2>2. CASE i <= Len(queue)
    BY <1>2, <1>5, <2>1, <2>2 DEF Line
  <2>3. CASE i > Len(queue) /\ i <= Len(queue) + Len(net')
    <3>. DEFINE j == i - Len(queue)
    <3>1. j \in 1..Len(net') /\ (i - 1) - Len(queue) = j - 1 /\ (i <= at <=> j <= k)
      BY <1>5, <2>1, <2>3
    <3>2. Line'[i] = net'[j].at
      BY <1>2, <1>5, <2>1, <2>3 DEF Line
    <3>3. i <= at => Line[i] = net[j].at
      BY <1>4, <1>5, <2>1, <2>3 DEF Line
    <3>4. ~(i <= at) => Line[i - 1] = net[(i - 1) - Len(queue)].at
      BY <1>4, <1>5, <2>1, <2>3 DEF Line
    <3>. HIDE DEF j, at
    <3>. QED  BY <1>4, <3>1, <3>2, <3>3, <3>4
  <2>4. CASE i > Len(queue) + Len(net')
    <3>1. ~(i <= at)
      BY <1>4, <1>5, <2>1, <2>4
    <3>2. Line'[i] = draft.at
      BY <1>2, <1>5, <2>1, <2>4 DEF Line
    <3>3. Line[i - 1] = draft.at
      BY <1>4, <1>5, <2>1, <2>4, <3>1 DEF Line
    <3>. QED  BY <3>1, <3>2, <3>3
  <2>. QED  BY <1>5, <2>1, <2>2, <2>3, <2>4
<1>. HIDE DEF at
<1>8. Levelled(Line', InLine', setbacks', faults')
  BY <1>1, <1>2, <1>6, <1>7, LineDoubles DEF Ordered, Order
<1>. QED  BY <1>2, <1>8 DEF Order, Ordered

LEMMA SwapOrder ==
    ASSUME Ordered, IInv', NEW k \in DOMAIN net, Swap(k)
    PROVE  Order'
<1>1. LineTyped /\ LineTyped'
  BY LineType, LineTypeNext DEF Ordered, IInv
<1>2. /\ net' = [net EXCEPT ![k] = net[k + 1], ![k + 1] = net[k]] /\ k < Len(net)
      /\ UNCHANGED <<clicks, reading, draft, queue, newest, setbacks>> /\ faults' = faults + 1
  BY DEF Swap, Fault, controller, composer, car
<1>3. net \in Seq(Message)
  BY DEF Ordered, IInv, TypeOK
<1>4. /\ Len(queue) \in Nat /\ Len(net) \in Nat /\ k \in 1..Len(net) /\ k + 1 \in 1..Len(net)
  BY <1>1, <1>2 DEF LineTyped
<1>5. /\ Len(net') = Len(net)
      /\ net'[k] = net[k + 1] /\ net'[k + 1] = net[k]
      /\ \A i \in 1..Len(net) : i # k /\ i # k + 1 => net'[i] = net[i]
  BY <1>2, <1>3, <1>4
<1>. DEFINE at == Len(queue) + k
<1>6. InLine' = InLine /\ at \in 1..InLine /\ at + 1 \in 1..InLine /\ at + 1 = Len(queue) + (k + 1)
  BY <1>2, <1>4, <1>5 DEF InLine
<1>7. Line[at] = net[k].at /\ Line[at + 1] = net[k + 1].at
  BY <1>1, <1>4, <1>6, PlaceInNet
<1>8. ASSUME NEW i \in 1..Len(net) PROVE Line'[Len(queue) + i] = net'[i].at
  <2>1. (Len(queue) + i) - Len(queue) = i /\ Len(queue) + i \in 0..InLine
    BY <1>4 DEF InLine
  <2>2. Line'[Len(queue) + i] = net'[(Len(queue) + i) - Len(queue)].at
    BY <1>2, <1>4, <1>5, <1>6, <2>1 DEF Line
  <2>. QED  BY <2>1, <2>2
<1>9. Line'[at] = Line[at + 1] /\ Line'[at + 1] = Line[at]
  BY <1>4, <1>5, <1>6, <1>7, <1>8
<1>10. ASSUME NEW i \in 0..InLine, i # at, i # at + 1 PROVE Line'[i] = Line[i]
  <2>1. i \in Nat
    BY <1>1 DEF LineTyped
  <2>2. CASE i <= Len(queue)
    BY <1>2, <1>4, <1>6, <2>1, <2>2 DEF Line
  <2>3. CASE i > Len(queue) /\ i <= Len(queue) + Len(net)
    <3>. DEFINE j == i - Len(queue)
    <3>1. j \in 1..Len(net) /\ j # k /\ j # k + 1
      BY <1>4, <1>10, <2>1, <2>3
    <3>2. Line'[i] = net'[j].at /\ Line[i] = net[j].at
      BY <1>2, <1>4, <1>5, <1>6, <2>1, <2>3 DEF Line
    <3>. QED  BY <1>5, <3>1, <3>2
  <2>4. CASE i > Len(queue) + Len(net)
    BY <1>2, <1>4, <1>5, <1>6, <2>1, <2>4 DEF Line
  <2>. QED  BY <1>4, <2>1, <2>2, <2>3, <2>4
<1>. HIDE DEF at
<1>11. /\ InLine \in Nat /\ setbacks \in Int /\ faults \in Int
       /\ Line \in [0..InLine -> Int] /\ Line' \in [0..InLine -> Int]
  BY <1>1, <1>6 DEF LineTyped
<1>12. Levelled(Line', InLine, setbacks, faults + 1)
  BY <1>6, <1>9, <1>10, <1>11, Exchanged DEF Ordered, Order
<1>. QED  BY <1>2, <1>6, <1>12 DEF Order, Ordered

\* The main thread applies the first message of the line.
LEMMA HandleOrder ==
    ASSUME Ordered, IInv', Handle
    PROVE  Order'
<1>1. LineTyped /\ LineTyped'
  BY LineType, LineTypeNext DEF Ordered, IInv
<1>2. /\ queue # <<>> /\ queue' = Tail(queue)
      /\ clicks' = clicks /\ reading' = reading /\ draft' = draft /\ net' = net
      /\ newest' = Head(queue).at
      /\ setbacks' = IF Head(queue).at < newest THEN setbacks + 1 ELSE setbacks
  BY DEF Handle, controller, composer, network
<1>3. faults' = faults
  BY DEF Handle, network
<1>4. queue \in Seq(Message) /\ queue \in Seq(Current)
  BY DEF Ordered, IInv, TypeOK, UnderwayCurrent
<1>5. /\ Len(queue') = Len(queue) - 1 /\ Len(queue) >= 1 /\ Head(queue) = queue[1]
      /\ \A i \in 1..Len(queue') : queue'[i] = queue[i + 1]
      /\ queue[1] \in Current
  BY <1>2, <1>4
<1>6. /\ Len(queue) \in Nat /\ Len(net) \in Nat /\ Len(queue') \in Nat
  BY <1>1 DEF LineTyped
<1>7. InLine = InLine' + 1 /\ InLine' \in Nat /\ InLine \in Nat
  BY <1>1, <1>2, <1>5, <1>6 DEF InLine, LineTyped
<1>8. Line[0] = newest /\ Line[1] = Head(queue).at
  <2>1. \A n \in Nat : 0 \in 0..(n + 1) /\ 1 \in 0..(n + 1)
    OBVIOUS
  <2>2. 0 \in 0..InLine /\ 1 \in 0..InLine
    BY <1>7, <2>1, Zenon
  <2>. QED  BY <1>5, <1>6, <2>2 DEF Line
<1>9. ASSUME NEW i \in 0..InLine' PROVE Line'[i] = Line[i + 1]
  <2>0. \A n \in Nat : \A m \in 0..n : m \in Nat /\ m + 1 \in 0..(n + 1)
    OBVIOUS
  <2>1. i \in Nat /\ i + 1 \in 0..InLine
    BY <1>7, <2>0, Zenon
  <2>2. CASE i = 0
    <3>1. Line'[i] = newest'
      BY <2>2 DEF Line
    <3>. QED  BY <1>2, <1>8, <2>2, <3>1
  <2>3. CASE i \in 1..Len(queue')
    <3>1. Line'[i] = queue'[i].at /\ Line[i + 1] = queue[i + 1].at
      BY <1>5, <1>6, <2>1, <2>3 DEF Line
    <3>. QED  BY <1>5, <2>3, <3>1
  <2>4. CASE i > Len(queue') /\ i <= Len(queue') + Len(net)
    <3>1. i - Len(queue') = (i + 1) - Len(queue)
      BY <1>5, <1>6, <2>1
    <3>2. Line'[i] = net[i - Len(queue')].at /\ Line[i + 1] = net[(i + 1) - Len(queue)].at
      BY <1>2, <1>5, <1>6, <2>1, <2>4 DEF Line
    <3>. QED  BY <3>1, <3>2
  <2>5. CASE i > Len(queue') + Len(net)
    BY <1>2, <1>5, <1>6, <2>1, <2>5 DEF Line
  <2>. QED  BY <1>6, <2>1, <2>2, <2>3, <2>4, <2>5
<1>10. /\ setbacks \in Int /\ faults \in Int /\ setbacks' \in Int /\ faults' \in Int
       /\ Line \in [0..(InLine' + 1) -> Int] /\ Line' \in [0..InLine' -> Int]
  BY <1>1, <1>7 DEF LineTyped
<1>11. Levelled(Line, InLine' + 1, setbacks, faults)
  BY <1>7 DEF Ordered, Order
<1>12. Levelled(Line', InLine', IF Line[1] < Line[0] THEN setbacks + 1 ELSE setbacks, faults)
  BY <1>7, <1>9, <1>10, <1>11, FirstTaken
<1>13. Levelled(Line', InLine', setbacks', faults)
  BY <1>2, <1>8, <1>12
<1>. QED  BY <1>2, <1>3, <1>5, <1>13 DEF Order, Current

LEMMA InitOrder == Init => Order
<1>. SUFFICES ASSUME Init PROVE Order
  OBVIOUS
<1>1. queue = <<>> /\ net = <<>> /\ reading = 0 /\ newest = 0 /\ clicks = 0 /\ setbacks = 0 /\ faults = 0
  BY DEF Init
<1>2. InLine = 0
  BY <1>1 DEF InLine
<1>3. Levelled(Line, 0, 0, 0)
  <2>. DEFINE f == [i \in 0..0 |-> 0]
  <2>1. f \in [0..0 -> 0..0]
    OBVIOUS
  <2>2. \A i, j \in 0..0 : ~(i < j)
    OBVIOUS
  <2>. HIDE DEF f
  <2>. QED  BY <2>1, <2>2 DEF Levelled
<1>. QED  BY <1>1, <1>2, <1>3 DEF Order

\* Client.java 236-257 and the handler of the car: a message is composed, sent,
\* heard and handled in turn, so what is applied next is older than what was
\* applied before only where a datagram was lost, doubled or overtaken.
THEOREM LineOrdered == Spec => []Ordered
<1>1. Ordered /\ [Next]_vars /\ IInv' => Order'
  <2>. SUFFICES ASSUME Ordered, [Next]_vars, IInv' PROVE Order'
    OBVIOUS
  <2>. USE DEF controller, composer, network, car
  <2>1. LineTyped /\ LineTyped'
    BY LineType, LineTypeNext DEF Ordered, IInv
  <2>2. newest <= clicks /\ newest \in Int /\ clicks \in Int
    BY <2>1 DEF Ordered, Order, LineTyped
  <2>3. CASE UNCHANGED vars
    BY <2>2, <2>3, LineStays DEF vars
  <2>4. ASSUME NEW s \in Switches, Click(s) PROVE Order'
    BY <2>2, <2>4, LineStays DEF Click
  <2>5. ASSUME NEW s \in Switches, Press(s) PROVE Order'
    BY <2>2, <2>5, LineStays DEF Press
  <2>6. CASE (\E p \in Parameters : TouchDown(p)) \/ TouchUp \/ OpenPage \/ ClosePage \/ ResumeCar \/ PauseCar
    BY <2>2, <2>6, LineStays DEF TouchDown, TouchUp, OpenPage, ClosePage, ResumeCar, PauseCar
  <2>7. CASE ReadSwitch \/ TestParameter \/ UseParameter
    <3>1. reading # 0 /\ reading' # 0
      BY <2>7, FieldsType DEF ReadSwitch, TestParameter, UseParameter, TestPlace, UsePlace, SendPlace
    <3>2. draft'.at = draft.at
      BY <2>7 DEF ReadSwitch, TestParameter, UseParameter, Ordered, IInv, TypeOK, Message
    <3>. QED  BY <2>2, <2>7, <3>1, <3>2, LineStays DEF ReadSwitch, TestParameter, UseParameter
  <2>. QED
    BY <2>3, <2>4, <2>5, <2>6, <2>7, BeginRoundOrder, SendOrder, LoseOrder, DuplicateOrder, SwapOrder,
       HearOrder, HandleOrder DEF Next, Compose
<1>2. Init => Ordered
  BY InitInv, InitOrder DEF Ordered
<1>. QED  BY <1>1, <1>2, Invariant, PTL DEF Spec, Ordered

\* Everything the car does because of an outdated message is the network's doing:
\* it goes back behind what it already knew at most once for every fault.
THEOREM SetbacksAreFaults == Spec => []SetbackBound
<1>1. Ordered => SetbackBound
  <2>. SUFFICES ASSUME Ordered PROVE SetbackBound
    OBVIOUS
  <2>1. LineTyped
    BY LineType DEF Ordered, IInv
  <2>2. PICK f \in [0..InLine -> setbacks..faults] : TRUE
    BY DEF Ordered, Order, Levelled
  <2>3. 0 \in 0..InLine
    BY <2>1 DEF LineTyped
  <2>4. f[0] \in setbacks..faults
    BY <2>2, <2>3
  <2>. QED  BY <2>1, <2>4 DEF SetbackBound, LineTyped
<1>. QED  BY <1>1, LineOrdered, PTL

=============================================================================
