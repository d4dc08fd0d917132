---------------------------- MODULE WsClientProofs ----------------------------
(***************************************************************************)
(* Proofs about the browser's WebSocket client, for any set of sockets, any*)
(* cap of the attempts and any fuel.                                       *)
(*                                                                         *)
(* Sole says what keeps an event of an old socket harmless: as long as     *)
(* nobody called connect() while a socket was closing, there is one socket *)
(* at most that can still fire an event, and none while a retry is pending.*)
(***************************************************************************)
EXTENDS WsClient, TLAPS

Sole ==
  ~overlap =>
    /\ \A s, t \in Sockets : state[s] # "none" /\ state[t] # "none" => s = t
    /\ timer => \A s \in Sockets : state[s] = "none"

IInv == /\ TypeOK
        /\ Sole
        /\ OneConnection
        /\ DisconnectIsFinal
        /\ FlagTellsTruth

-----------------------------------------------------------------------------
\* The parts that several actions share.

\* The close listener leaves a client without a socket; if it had one socket at
\* most, there is none left.
LEMMA CloseEventKeeps ==
  ASSUME IInv, NEW s \in Sockets, NEW error \in BOOLEAN,
         state[s] # "none", CloseEvent(s, error), fuel' \in 0 .. MaxFuel
  PROVE  IInv'
<1>0. NoSocket \notin Sockets /\ MaxAttempts \in Nat
  BY SocketAssumption, AttemptAssumption
<1>d. polling' = (polling \/ (mounted /\ (error \/ attempts >= MaxAttempts)))
  BY DEF CloseEvent, FallBack
<1>a. polling' \in BOOLEAN
  BY <1>d, Zenon
<1>b. attempts' \in 0 .. MaxAttempts
  BY <1>0 DEF IInv, TypeOK, CloseEvent, ScheduleReconnect
<1>e. timer' \in BOOLEAN
  <2>1. CASE should
    BY <2>1 DEF CloseEvent, ScheduleReconnect
  <2>2. CASE ~should
    BY <2>2 DEF IInv, TypeOK, CloseEvent
  <2> QED
    BY <2>1, <2>2
<1>c. /\ state' = [state EXCEPT ![s] = "none"] /\ connected' = FALSE /\ ws' = NoSocket
      /\ UNCHANGED <<should, mounted, net, overlap>>
  BY DEF CloseEvent
<1>1. TypeOK'
  BY <1>a, <1>b, <1>c, <1>e DEF IInv, TypeOK, SocketStates
<1>2. ~overlap => \A t \in Sockets : state'[t] = "none"
  BY DEF IInv, TypeOK, Sole, CloseEvent
<1>3. /\ overlap' = overlap /\ should' = should
      /\ ws' = NoSocket /\ ~connected'
      /\ timer' = IF should THEN TRUE ELSE timer
  BY DEF CloseEvent, ScheduleReconnect
<1>4. Sole'
  BY <1>2, <1>3 DEF Sole
<1>5. OneConnection'
  BY <1>2, <1>3 DEF OneConnection, Live
<1>6. DisconnectIsFinal'
  BY <1>2, <1>3 DEF DisconnectIsFinal, IInv, Live
<1>7. FlagTellsTruth'
  BY <1>2, <1>3 DEF FlagTellsTruth
<1> QED
  BY <1>1, <1>4, <1>5, <1>6, <1>7 DEF IInv

\* connect(), with or without an exception of the constructor.
LEMMA ConnectKeeps ==
  ASSUME IInv, Connect, mounted' \in BOOLEAN, net' = net, fuel' \in 0 .. MaxFuel
  PROVE  IInv'
<1>0. NoSocket \notin Sockets /\ MaxAttempts \in Nat
  BY SocketAssumption, AttemptAssumption
<1>a. /\ ws \notin Live /\ should' = TRUE
      /\ overlap' = (overlap \/ Ending # {})
  BY DEF Connect
<1>b. /\ ~overlap' => ~overlap /\ \A s \in Sockets : state[s] = "none"
      /\ ~overlap' => ~connected
  BY <1>a DEF IInv, TypeOK, SocketStates, OneConnection, FlagTellsTruth, Live, Ending, Current
<1>1. CASE timer' = FALSE /\ OpenSocket
  <2> PICK s \in Sockets : /\ state[s] = "none"
                           /\ state' = [state EXCEPT ![s] = "connecting"]
                           /\ ws' = s
                           /\ UNCHANGED <<attempts, connected, polling>>
    BY <1>1 DEF OpenSocket
  <2>1. TypeOK'
    BY <1>1, <1>a DEF IInv, TypeOK, SocketStates
  <2>2. Sole'
    BY <1>1, <1>b DEF IInv, TypeOK, Sole
  <2>3. OneConnection'
    BY <1>1, <1>b DEF IInv, TypeOK, OneConnection, Live
  <2>4. DisconnectIsFinal'
    BY <1>a DEF DisconnectIsFinal
  <2>5. FlagTellsTruth'
    BY <1>b DEF IInv, TypeOK, FlagTellsTruth, Current
  <2> QED
    BY <2>1, <2>2, <2>3, <2>4, <2>5 DEF IInv
<1>2. CASE ConstructorThrows(TRUE)
  <2>0. polling' \in BOOLEAN
    BY <1>2, Zenon DEF ConstructorThrows
  <2>a. timer' \in BOOLEAN /\ attempts' \in 0 .. MaxAttempts
    BY <1>0, <1>2 DEF IInv, TypeOK, ConstructorThrows, ScheduleReconnect
  <2>b. overlap' \in BOOLEAN
    BY <1>a, Zenon
  <2>1. TypeOK'
    BY <1>2, <1>a, <2>0, <2>a, <2>b DEF IInv, TypeOK, ConstructorThrows
  <2>2. Sole'
    BY <1>2, <1>b DEF Sole, ConstructorThrows
  <2>3. OneConnection'
    BY <1>2, <1>b DEF OneConnection, Live, ConstructorThrows
  <2>4. DisconnectIsFinal'
    BY <1>a DEF DisconnectIsFinal
  <2>5. FlagTellsTruth'
    BY <1>2, <1>b DEF FlagTellsTruth, ConstructorThrows
  <2> QED
    BY <2>1, <2>2, <2>3, <2>4, <2>5 DEF IInv
<1> QED
  BY <1>1, <1>2 DEF Connect

\* What is spent stays in its range.
LEMMA Spending ==
  ASSUME TypeOK, Spend
  PROVE  fuel' \in 0 .. MaxFuel
  BY FuelAssumption DEF TypeOK, Spend

-----------------------------------------------------------------------------
\* disconnect() forgets its socket, which is closing from then on.
LEMMA DisconnectKeeps ==
  ASSUME IInv, CallDisconnect
  PROVE  IInv'
<1>0. NoSocket \notin Sockets /\ MaxAttempts \in Nat /\ fuel' \in 0 .. MaxFuel
  BY SocketAssumption, AttemptAssumption, Spending DEF IInv, CallDisconnect
<1>1. /\ state' \in [Sockets -> SocketStates]
      /\ \A s \in Sockets : state'[s] # "none" => state[s] # "none"
      /\ \A s \in Sockets : s # ws => state'[s] = state[s]
      /\ \A s \in Sockets : s = ws => state'[s] \notin {"connecting", "open"}
  BY <1>0 DEF IInv, TypeOK, CallDisconnect, Close, SocketStates
<1>a. /\ should' = FALSE /\ timer' = FALSE /\ attempts' = 0 /\ connected' = FALSE
      /\ ws' = NoSocket /\ UNCHANGED <<mounted, polling, net, overlap>>
  BY DEF CallDisconnect
<1>b. attempts' \in 0 .. MaxAttempts
  BY <1>0, <1>a
<1>2. TypeOK'
  BY <1>0, <1>1, <1>a, <1>b DEF IInv, TypeOK
<1>3. Sole'
  BY <1>1 DEF IInv, Sole, CallDisconnect
<1>4. ~overlap => Live' = {}
  BY <1>1 DEF IInv, OneConnection, Live
<1>5. OneConnection'
  BY <1>4 DEF OneConnection, CallDisconnect
<1>6. DisconnectIsFinal'
  BY <1>4 DEF DisconnectIsFinal, CallDisconnect
<1>7. FlagTellsTruth'
  BY <1>4 DEF FlagTellsTruth, CallDisconnect, Live
<1> QED
  BY <1>2, <1>3, <1>5, <1>6, <1>7 DEF IInv

LEMMA OpenedKeeps ==
  ASSUME IInv, NEW s \in Sockets, Opened(s)
  PROVE  IInv'
<1>0. /\ state[s] = "connecting" /\ state' = [state EXCEPT ![s] = "open"]
      /\ connected' = TRUE /\ attempts' = 0
      /\ UNCHANGED <<ws, should, timer, mounted, polling, net, overlap, fuel>>
  BY DEF Opened
<1>1. TypeOK'
  BY <1>0, AttemptAssumption DEF IInv, TypeOK, SocketStates
<1>2. Sole'
  BY <1>0 DEF IInv, TypeOK, Sole
<1>3. Live' = Live /\ s \in Live
  BY <1>0 DEF IInv, TypeOK, Live
<1>4. OneConnection'
  BY <1>0, <1>3 DEF IInv, OneConnection
<1>5. DisconnectIsFinal'
  BY <1>0, <1>3 DEF IInv, DisconnectIsFinal
<1>6. FlagTellsTruth'
  BY <1>0, <1>3 DEF IInv, TypeOK, OneConnection, FlagTellsTruth, Current, Live
<1> QED
  BY <1>1, <1>2, <1>4, <1>5, <1>6 DEF IInv

LEMMA OversizedKeeps ==
  ASSUME IInv, NEW s \in Sockets, Oversized(s)
  PROVE  IInv'
<1>0. /\ state[s] = "open" /\ fuel' \in 0 .. MaxFuel
      /\ state' = IF ws = NoSocket THEN state ELSE Close(ws)
      /\ UNCHANGED <<ws, should, timer, attempts, connected, mounted, polling,
                     net, overlap>>
  BY Spending DEF IInv, Oversized
<1>1. /\ state' \in [Sockets -> SocketStates]
      /\ \A t \in Sockets : state'[t] # "none" => state[t] # "none"
      /\ \A t \in Sockets : t # ws => state'[t] = state[t]
      /\ ws = s => state'[s] = "closing"
  BY <1>0, SocketAssumption DEF IInv, TypeOK, Close, SocketStates
<1>2. TypeOK'
  BY <1>0, <1>1 DEF IInv, TypeOK
<1>3. Sole'
  BY <1>0, <1>1 DEF IInv, Sole
<1>4. ~overlap => ws = s /\ Live' = {}
  BY <1>0, <1>1 DEF IInv, OneConnection, Live
<1>5. OneConnection'
  BY <1>0, <1>4 DEF IInv, OneConnection
<1>6. DisconnectIsFinal'
  BY <1>0, <1>4 DEF IInv, DisconnectIsFinal, Live
<1>7. FlagTellsTruth'
  BY <1>0, <1>1, <1>4 DEF FlagTellsTruth, Current, Live
<1> QED
  BY <1>2, <1>3, <1>5, <1>6, <1>7 DEF IInv

\* The timer opens a socket without asking whether there is one: there is none.
LEMMA TimerKeeps ==
  ASSUME IInv, TimerFires
  PROVE  IInv'
<1>0. /\ timer /\ timer' = FALSE
      /\ UNCHANGED <<should, mounted, net, overlap, fuel>>
  BY DEF TimerFires
<1> PICK s \in Sockets : /\ state[s] = "none"
                         /\ state' = [state EXCEPT ![s] = "connecting"]
                         /\ ws' = s
                         /\ UNCHANGED <<attempts, connected, polling>>
  BY DEF TimerFires, OpenSocket
<1>1. /\ ~overlap => ~connected /\ \A t \in Sockets : state[t] = "none"
      /\ should
  BY <1>0 DEF IInv, TypeOK, Sole, FlagTellsTruth, DisconnectIsFinal
<1>2. TypeOK'
  BY <1>0 DEF IInv, TypeOK, SocketStates
<1>3. Sole'
  BY <1>0, <1>1 DEF IInv, TypeOK, Sole
<1>4. OneConnection'
  BY <1>0, <1>1 DEF IInv, TypeOK, OneConnection, Live
<1>5. DisconnectIsFinal'
  BY <1>0, <1>1 DEF DisconnectIsFinal
<1>6. FlagTellsTruth'
  BY <1>0, <1>1 DEF IInv, TypeOK, FlagTellsTruth
<1> QED
  BY <1>2, <1>3, <1>4, <1>5, <1>6 DEF IInv

LEMMA TimerThrowsKeeps ==
  ASSUME IInv, TimerThrows
  PROVE  IInv'
<1>0. /\ timer /\ fuel' \in 0 .. MaxFuel
      /\ UNCHANGED <<state, ws, connected, should, mounted, net, overlap>>
      /\ ScheduleReconnect(should) /\ polling' = (polling \/ mounted)
  BY Spending DEF IInv, TimerThrows, ConstructorThrows
<1>1. timer' = timer
  BY <1>0 DEF IInv, DisconnectIsFinal, TypeOK, ScheduleReconnect
<1>a. polling' \in BOOLEAN
  BY <1>0, Zenon
<1>b. attempts' \in 0 .. MaxAttempts
  BY <1>0, AttemptAssumption DEF IInv, TypeOK, ScheduleReconnect
<1>2. TypeOK'
  BY <1>0, <1>1, <1>a, <1>b DEF IInv, TypeOK
<1>3. Sole' /\ OneConnection'
  BY <1>0, <1>1 DEF IInv, Sole, OneConnection, Live
<1>4. DisconnectIsFinal' /\ FlagTellsTruth'
  BY <1>0, <1>1 DEF IInv, DisconnectIsFinal, FlagTellsTruth, Live, Current
<1> QED
  BY <1>2, <1>3, <1>4 DEF IInv

-----------------------------------------------------------------------------
\* The three facts of the invariant.
LEMMA Initially == Init => IInv
<1> SUFFICES ASSUME Init PROVE IInv
  OBVIOUS
<1>0. 0 \in 0 .. MaxAttempts /\ MaxFuel \in 0 .. MaxFuel
  BY AttemptAssumption, FuelAssumption
<1>1. TypeOK
  BY <1>0 DEF Init, TypeOK, SocketStates
<1>2. Sole
  BY DEF Init, Sole
<1>3. OneConnection /\ DisconnectIsFinal
  BY DEF Init, OneConnection, DisconnectIsFinal, Live
<1>4. FlagTellsTruth
  BY DEF Init, FlagTellsTruth, Current
<1> QED
  BY <1>1, <1>2, <1>3, <1>4 DEF IInv

LEMMA StepKeeps == IInv /\ [Next]_vars => IInv'
<1> SUFFICES ASSUME IInv, [Next]_vars PROVE IInv'
  OBVIOUS
<1> TypeOK
  BY DEF IInv
<1>1. CASE Mount
  <2>1. Connect /\ mounted' \in BOOLEAN /\ net' = net /\ fuel' \in 0 .. MaxFuel
    BY <1>1 DEF Mount, TypeOK
  <2> QED
    BY <2>1, ConnectKeeps
<1>2. CASE CallConnect
  <2>1. Connect /\ mounted' \in BOOLEAN /\ net' = net /\ fuel' \in 0 .. MaxFuel
    BY <1>2, Spending DEF CallConnect, TypeOK
  <2> QED
    BY <2>1, ConnectKeeps
<1>3. CASE CallDisconnect
  BY <1>3, DisconnectKeeps
<1>4. ASSUME NEW s \in Sockets, Event(s) PROVE IInv'
  <2>1. CASE Opened(s)
    BY <2>1, OpenedKeeps
  <2>2. CASE Failed(s)
    <3>1. state[s] # "none" /\ CloseEvent(s, TRUE) /\ fuel' \in 0 .. MaxFuel
      BY <2>2, Spending DEF Failed, TypeOK
    <3> QED
      BY <3>1, CloseEventKeeps
  <2>3. CASE Lost(s)
    <3>1. state[s] # "none" /\ fuel' \in 0 .. MaxFuel
      BY <2>3, Spending DEF Lost
    <3>2. PICK error \in BOOLEAN : CloseEvent(s, error)
      BY <2>3 DEF Lost
    <3> QED
      BY <3>1, <3>2, CloseEventKeeps
  <2>4. CASE Closed(s)
    <3>1. /\ state[s] # "none" /\ CloseEvent(s, state[s] = "aborting")
          /\ fuel' \in 0 .. MaxFuel
      BY <2>4 DEF Closed, Ending, TypeOK
    <3>2. (state[s] = "aborting") \in BOOLEAN
      OBVIOUS
    <3> QED
      BY <3>1, <3>2, CloseEventKeeps
  <2>5. CASE Oversized(s)
    BY <2>5, OversizedKeeps
  <2> QED
    BY <1>4, <2>1, <2>2, <2>3, <2>4, <2>5 DEF Event
<1>5. CASE TimerFires
  BY <1>5, TimerKeeps
<1>6. CASE TimerThrows
  BY <1>6, TimerThrowsKeeps
<1>7. CASE PollEnds
  <2>1. TypeOK'
    BY <1>7 DEF PollEnds, client, TypeOK
  <2>2. Sole' /\ OneConnection' /\ DisconnectIsFinal' /\ FlagTellsTruth'
    BY <1>7 DEF PollEnds, client, IInv, Sole, OneConnection, DisconnectIsFinal,
                FlagTellsTruth, Live, Current
  <2> QED
    BY <2>1, <2>2 DEF IInv
<1>8. CASE NetChanges
  <2>1. TypeOK'
    BY <1>8, Spending DEF NetChanges, client, TypeOK
  <2>2. Sole' /\ OneConnection' /\ DisconnectIsFinal' /\ FlagTellsTruth'
    BY <1>8 DEF NetChanges, client, IInv, Sole, OneConnection, DisconnectIsFinal,
                FlagTellsTruth, Live, Current
  <2> QED
    BY <2>1, <2>2 DEF IInv
<1>9. CASE UNCHANGED vars
  BY <1>9 DEF vars, IInv, TypeOK, Sole, OneConnection, DisconnectIsFinal,
              FlagTellsTruth, Live, Current
<1> QED
  BY <1>1, <1>2, <1>3, <1>4, <1>5, <1>6, <1>7, <1>8, <1>9 DEF Next

LEMMA Invariance == Spec => []IInv
  BY Initially, StepKeeps, PTL DEF Spec

\* Every variable keeps its type: the attempts never exceed their cap, though
\* every socket's close event and every failed constructor counts one.
THEOREM ClientTypes == Spec => []TypeOK
  BY Invariance, PTL DEF IInv

\* As long as connect() is not called while a socket is closing, there is one
\* connection at most, and none while the retry timer runs.
THEOREM OneSocket == Spec => []OneConnection
  BY Invariance, PTL DEF IInv

\* After disconnect() no retry is pending, whatever sockets are still closing.
THEOREM DisconnectHolds == Spec => []DisconnectIsFinal
  BY Invariance, PTL DEF IInv

\* isConnected tells whether the current socket is open.
THEOREM TrueFlag == Spec => []FlagTellsTruth
  BY Invariance, PTL DEF IInv
=============================================================================
