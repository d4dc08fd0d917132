------------------------------ MODULE WsClient ------------------------------
(***************************************************************************)
(* The browser's end of the panel's WebSocket: the class WebSocketClient   *)
(* of web/assets/js/websocket.js and the dashboard page that uses it.      *)
(*                                                                         *)
(* The client is a handful of fields shared by the listeners of EVERY      *)
(* socket it ever made: a listener does not ask whether its socket is      *)
(* still the current one.  JavaScript runs one event at a time, so each    *)
(* event, timer and call is one action; between two of them anything may   *)
(* happen.  A browser changes readyState and fires the events that belong  *)
(* to the change in one task (the WebSocket standard).                     *)
(***************************************************************************)
EXTENDS Integers, FiniteSets

CONSTANTS
    Sockets,      \* WebSocket objects that exist at one time
    NoSocket,     \* the client's `ws` when it is null
    MaxAttempts,  \* maxReconnectAttempts
    MaxFuel       \* bound: calls of the page, faults and oversized payloads

ASSUME SocketAssumption == NoSocket \notin Sockets
ASSUME AttemptAssumption == MaxAttempts \in Nat
ASSUME FuelAssumption == MaxFuel \in Nat

VARIABLES
    state,     \* readyState of each socket; "none" is not made, or closed for good
    ws,        \* this.ws
    should,    \* this.shouldReconnect
    timer,     \* this.reconnectTimer is set
    attempts,  \* this.reconnectAttempts
    connected, \* this.isConnected
    mounted,   \* the page has called connect() and subscribed
    polling,   \* at least one fallback loop of the page runs
    net,       \* the server can be reached
    overlap,   \* history: connect() was called while an older socket was closing
    fuel       \* what is left of MaxFuel

client == <<ws, should, timer, attempts, connected>>
vars == <<state, ws, should, timer, attempts, connected, mounted, polling,
          net, overlap, fuel>>

\* "aborting" is a socket that was closed before it opened: it ends with an
\* error event, one that was "closing" does not.
SocketStates == {"none", "connecting", "open", "closing", "aborting"}
Live == {s \in Sockets : state[s] \in {"connecting", "open"}}
Ending == {s \in Sockets : state[s] \in {"closing", "aborting"}}
Current(s) == ws = s

Init ==
    /\ state = [s \in Sockets |-> "none"]
    /\ ws = NoSocket
    /\ should = TRUE
    /\ timer = FALSE
    /\ attempts = 0
    /\ connected = FALSE
    /\ mounted = FALSE
    /\ polling = FALSE
    /\ net \in BOOLEAN
    /\ overlap = FALSE
    /\ fuel = MaxFuel

Spend == fuel > 0 /\ fuel' = fuel - 1

-----------------------------------------------------------------------------
(* The parts the listeners and calls are made of.                          *)

\* Mistake: the window is exhausted and the client gives up.
GivesUp(wanted) ==
    /\ timer' = (wanted /\ attempts < MaxAttempts)
    /\ attempts' = IF wanted /\ attempts < MaxAttempts THEN attempts + 1
                   ELSE attempts

\* Mistake: one attempt too many is counted.
OverCounts(wanted) ==
    /\ timer' = wanted
    /\ attempts' = IF wanted /\ attempts <= MaxAttempts THEN attempts + 1
                   ELSE attempts

\* scheduleReconnect: one timer at most, and one more attempt is counted until
\* the active window is exhausted; after that it keeps trying, slowly.
ScheduleReconnect(wanted) ==
    /\ timer' = wanted
    /\ attempts' = IF wanted /\ attempts < MaxAttempts THEN attempts + 1
                   ELSE attempts

\* Mistake: only the listener of 'disconnected' falls back.
FallsBackLate(error) ==
    polling' = (polling \/ (mounted /\ attempts > MaxAttempts))

\* The page's listeners of 'error' and 'disconnected' fall back to polling: the
\* first at once, the second when the attempts are used up.
FallBack(error) ==
    polling' = (polling \/ (mounted /\ (error \/ attempts >= MaxAttempts)))

\* openSocket: a new socket becomes the current one, ...
OpenSocket ==
    \E s \in Sockets :
       /\ state[s] = "none"
       /\ state' = [state EXCEPT ![s] = "connecting"]
       /\ ws' = s
       /\ UNCHANGED <<attempts, connected, polling>>

\* ... or the constructor throws: an error is emitted and a retry scheduled.
ConstructorThrows(wanted) ==
    /\ ScheduleReconnect(wanted)
    /\ polling' = (polling \/ mounted)
    /\ UNCHANGED <<state, ws, connected>>

-----------------------------------------------------------------------------
(* Calls of the page.                                                      *)

\* Mistake: the pending retry is not canceled.
ConnectKeepsTimer ==
    /\ ws \notin Live
    /\ should' = TRUE
    /\ UNCHANGED timer
    /\ OpenSocket
    /\ overlap' = (overlap \/ Ending # {})

\* connect() does nothing while the current socket is connecting or open.
Connect ==
    /\ ws \notin Live
    /\ should' = TRUE
    /\ overlap' = (overlap \/ Ending # {})
    /\ \/ timer' = FALSE /\ OpenSocket
       \/ ConstructorThrows(TRUE)

\* The page calls connect() once it is mounted and subscribes in the same task.
Mount ==
    /\ ~mounted
    /\ mounted' = TRUE
    /\ Connect
    /\ UNCHANGED <<net, fuel>>

CallConnect ==
    /\ mounted
    /\ Spend
    /\ Connect
    /\ UNCHANGED <<mounted, net>>

Close(s) == [state EXCEPT ![s] = CASE state[s] = "open" -> "closing"
                                   [] state[s] = "connecting" -> "aborting"
                                   [] OTHER -> state[s]]

\* disconnect() forgets the socket before its close event has come.
CallDisconnect ==
    /\ mounted
    /\ Spend
    /\ should' = FALSE
    /\ timer' = FALSE
    /\ attempts' = 0
    /\ state' = IF ws = NoSocket THEN state ELSE Close(ws)
    /\ ws' = NoSocket
    /\ connected' = FALSE
    /\ UNCHANGED <<mounted, polling, net, overlap>>

-----------------------------------------------------------------------------
(* Events of a socket, whether or not it is still the current one.         *)

Opened(s) ==
    /\ state[s] = "connecting"
    /\ net
    /\ state' = [state EXCEPT ![s] = "open"]
    /\ connected' = TRUE
    /\ attempts' = 0
    /\ UNCHANGED <<ws, should, timer, mounted, polling, net, overlap, fuel>>

\* Mistake: the close listener reconnects whatever the client was told.
CloseAlwaysRetries(s, error) ==
    /\ state' = [state EXCEPT ![s] = "none"]
    /\ connected' = FALSE
    /\ ws' = NoSocket
    /\ FallBack(error)
    /\ ScheduleReconnect(TRUE)
    /\ UNCHANGED <<should, mounted, net, overlap>>

\* Mistake: the close listener leaves the flag alone.
CloseKeepsFlag(s, error) ==
    /\ state' = [state EXCEPT ![s] = "none"]
    /\ ws' = NoSocket
    /\ FallBack(error)
    /\ IF should THEN ScheduleReconnect(TRUE) ELSE UNCHANGED <<timer, attempts>>
    /\ UNCHANGED <<connected, should, mounted, net, overlap>>

\* The close listener, after the error listener if the connection failed.
CloseEvent(s, error) ==
    /\ state' = [state EXCEPT ![s] = "none"]
    /\ connected' = FALSE
    /\ ws' = NoSocket
    /\ FallBack(error)
    /\ IF should THEN ScheduleReconnect(TRUE) ELSE UNCHANGED <<timer, attempts>>
    /\ UNCHANGED <<should, mounted, net, overlap>>

\* A handshake fails because the server is away, or refuses although it is there.
Failed(s) ==
    /\ state[s] = "connecting"
    /\ IF net THEN Spend ELSE UNCHANGED fuel
    /\ CloseEvent(s, TRUE)

\* The connection of an open socket is lost: the hub drops a slow client, the
\* panel restarts, or the network fails.
Lost(s) ==
    /\ state[s] = "open"
    /\ Spend
    /\ \E error \in BOOLEAN : CloseEvent(s, error)

\* The close handshake that the client began comes to its end.
Closed(s) ==
    /\ s \in Ending
    /\ CloseEvent(s, state[s] = "aborting")
    /\ UNCHANGED fuel

\* A payload over the limit: onMessage closes this.ws, which need not be the
\* socket the payload came through, and waits for its close event.
Oversized(s) ==
    /\ state[s] = "open"
    /\ Spend
    /\ state' = IF ws = NoSocket THEN state ELSE Close(ws)
    /\ UNCHANGED <<ws, should, timer, attempts, connected, mounted, polling,
                   net, overlap>>

\* The timer's callback opens a socket without looking at this.ws.
TimerFires ==
    /\ timer
    /\ timer' = FALSE
    /\ OpenSocket
    /\ UNCHANGED <<should, mounted, net, overlap, fuel>>

TimerThrows ==
    /\ timer
    /\ Spend
    /\ ConstructorThrows(should)
    /\ UNCHANGED <<should, mounted, net, overlap>>

-----------------------------------------------------------------------------
(* The page's polling loop and the network.                                *)

\* A poll loop that finds the client connected ends; here the last one does.
PollEnds ==
    /\ polling
    /\ connected
    /\ polling' = FALSE
    /\ UNCHANGED <<state, client, mounted, net, overlap, fuel>>

NetChanges ==
    /\ Spend
    /\ net' = ~net
    /\ UNCHANGED <<state, client, mounted, polling, overlap>>

-----------------------------------------------------------------------------
Event(s) == Opened(s) \/ Failed(s) \/ Lost(s) \/ Closed(s) \/ Oversized(s)

Next ==
    \/ Mount \/ CallConnect \/ CallDisconnect
    \/ \E s \in Sockets : Event(s)
    \/ TimerFires \/ TimerThrows
    \/ PollEnds
    \/ NetChanges

(* A handshake ends, one way or the other, and so does a close handshake; a *)
(* timer fires; a poll loop comes to its next round. Nobody has to click,   *)
(* and the network need not come back.                                      *)
Fairness ==
    /\ WF_vars(Mount)
    /\ \A s \in Sockets : WF_vars(Opened(s) \/ Failed(s)) /\ WF_vars(Closed(s))
    /\ WF_vars(TimerFires)
    /\ WF_vars(PollEnds)

Spec == Init /\ [][Next]_vars /\ Fairness

-----------------------------------------------------------------------------
(* Properties.                                                             *)

\* Every variable is in its range.
TypeOK ==
    /\ state \in [Sockets -> SocketStates]
    /\ ws \in Sockets \cup {NoSocket}
    /\ should \in BOOLEAN
    /\ timer \in BOOLEAN
    /\ attempts \in 0 .. MaxAttempts
    /\ connected \in BOOLEAN
    /\ mounted \in BOOLEAN
    /\ polling \in BOOLEAN
    /\ net \in BOOLEAN
    /\ overlap \in BOOLEAN
    /\ fuel \in 0 .. MaxFuel

\* The client has one connection at most, and while it has one no retry is pending
\* that would open a second (the comment at websocket.js:41-42), as long as connect()
\* has not been called while an older socket was still closing. After such a call
\* the old socket's close event forgets the new one and schedules a retry.
OneConnection ==
    ~overlap => /\ Live \subseteq {ws}
                /\ timer => Live = {}

\* After disconnect(), and until the next connect(), nothing reconnects and, with
\* the same exception, nothing is left that could deliver messages to the page.
DisconnectIsFinal ==
    ~should => /\ ~timer
               /\ ~overlap => Live = {} /\ ~connected

\* With the same exception, isConnected, which ends the polling loops, is TRUE
\* while the current socket is open and never without one.
FlagTellsTruth ==
    ~overlap =>
        /\ \A s \in Sockets : state[s] = "open" => Current(s) /\ connected
        /\ connected => \E s \in Sockets : Current(s) /\ state[s] \in {"open", "closing"}

\* The client never gives up: if from some time on the server can be reached and
\* nobody disconnects, the client is connected from some time on (the comment at
\* websocket.js:22-24), even after sockets got in each other's way.
Reconnects == <>[](net /\ should /\ mounted) => <>[]connected

\* A page that wants updates and is not connected gets them by polling, or is
\* connected soon; it does not wait for the whole active window.
KeepsUpdated ==
    (mounted /\ should /\ ~connected) ~> (connected \/ polling \/ ~should)

=============================================================================
