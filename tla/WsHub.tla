-------------------------------- MODULE WsHub --------------------------------
(***************************************************************************)
(* The WebSocket hub of the panel: web/websocket/hub.go, and the handler   *)
(* with its two pumps in web/controller/websocket.go. One goroutine (Run)  *)
(* owns the registry and fans messages out; connections register and       *)
(* unregister through bounded channels, and broadcasters queue messages.   *)
(*                                                                         *)
(* A message is its number in the order of the broadcast channel. Which    *)
(* payloads become messages (JSON, the size limit, the throttle) is left   *)
(* out: a broadcast here is one that got as far as enqueue. The control    *)
(* channels are sets: every connection passes each of them once, and no    *)
(* order between different connections is observed.                        *)
(***************************************************************************)
EXTENDS Naturals, FiniteSets

CONSTANTS
  Clients,       \* connections, each made once
  Senders,       \* goroutines that broadcast: jobs and handlers
  SendCap,       \* clientSendQueue
  BroadcastCap,  \* hubBroadcastQueue
  ControlCap,    \* hubControlQueue
  Attempts,      \* hubRestartAttempts
  MaxPanics,     \* bound: panics in the event loop
  MaxMessages,   \* bound: messages queued
  MayStop        \* may the server stop?

ASSUME CapsAssumption ==
  /\ SendCap \in Nat \ {0} /\ BroadcastCap \in Nat \ {0}
  /\ ControlCap \in Nat \ {0} /\ Attempts \in Nat \ {0}
  /\ MaxPanics \in Nat /\ MaxMessages \in Nat /\ MayStop \in BOOLEAN

VARIABLES
  hub,      \* where Run is
  attempt,  \* its attempt
  ctxDone,  \* has Stop cancelled the context?
  sent,     \* messages put in the broadcast channel
  taken,    \* messages taken out of it
  targets,  \* the clients this fanout has yet to try
  dead,     \* the clients it could not send to
  reg,      \* Clients -> in the register channel, in the registry, ...
  unreg,    \* the clients in the unregister channel
  buf,      \* Clients -> messages in its Send channel
  closed,   \* Clients -> is Send closed?
  sock,     \* Clients -> the connection
  reader,   \* Clients -> does readPump run?
  writer,   \* Clients -> does writePump run?
  sender,   \* Senders -> "idle" or in "enqueue"
  panics,   \* what is left of MaxPanics
  \* History, read by no guard:
  first,    \* Clients -> taken when it was registered
  got       \* Clients -> the messages put in its Send channel

hubVars  == <<hub, attempt, targets, dead, taken, panics>>
pumpVars == <<sock, reader, writer>>
vars == <<hubVars, ctxDone, sent, reg, unreg, buf, closed, pumpVars, sender,
          first, got>>

TypeOK ==
  /\ hub \in {"loop", "fanout", "crashed", "down", "stopped"}
  /\ attempt \in 0 .. Attempts - 1 /\ panics \in Nat
  /\ ctxDone \in BOOLEAN
  /\ sent \in Nat /\ taken \in Nat
  /\ targets \in SUBSET Clients /\ dead \in SUBSET Clients
  /\ reg \in [Clients -> {"none", "queued", "in", "removed"}]
  /\ unreg \in SUBSET Clients
  /\ buf \in [Clients -> 0 .. SendCap] /\ closed \in [Clients -> BOOLEAN]
  /\ sock \in [Clients -> {"none", "joining", "open", "down"}]
  /\ reader \in [Clients -> BOOLEAN] /\ writer \in [Clients -> BOOLEAN]
  /\ sender \in [Senders -> {"idle", "enqueue"}]
  /\ first \in [Clients -> Nat] /\ got \in [Clients -> SUBSET Nat]

Init ==
  /\ hub = "loop" /\ attempt = 0 /\ ctxDone = FALSE
  /\ sent = 0 /\ taken = 0 /\ targets = {} /\ dead = {}
  /\ reg = [c \in Clients |-> "none"] /\ unreg = {}
  /\ buf = [c \in Clients |-> 0] /\ closed = [c \in Clients |-> FALSE]
  /\ sock = [c \in Clients |-> "none"]
  /\ reader = [c \in Clients |-> FALSE] /\ writer = [c \in Clients |-> FALSE]
  /\ sender = [s \in Senders |-> "idle"]
  /\ panics = MaxPanics
  /\ first = [c \in Clients |-> 0] /\ got = [c \in Clients |-> {}]

Queued     == {c \in Clients : reg[c] = "queued"}
Registered == {c \in Clients : reg[c] = "in"}

(* As if the channel were closed and the registration kept. *)
RemoveCloseOnly(S) ==
  /\ reg' = reg
  /\ closed' = [c \in Clients |-> closed[c] \/ (c \in S /\ reg[c] = "in")]

(* Delete the clients of S that are registered, and close their channels. *)
Remove(S) ==
  /\ reg' = [c \in Clients |-> IF c \in S /\ reg[c] = "in" THEN "removed"
                                                           ELSE reg[c]]
  /\ closed' = [c \in Clients |-> closed[c] \/ (c \in S /\ reg[c] = "in")]

-----------------------------------------------------------------------------
(* A connection: HandleWebSocket, readPump and writePump *)

Connect(c) ==
  /\ sock[c] = "none"
  /\ sock' = [sock EXCEPT ![c] = "joining"]
  /\ UNCHANGED <<hubVars, ctxDone, sent, reg, unreg, buf, closed, reader, writer,
                 sender, first, got>>

(* Register waits for room in the channel, or gives up when the hub was      *)
(* stopped; either way the pumps are started.                                *)
Register(c) ==
  /\ sock[c] = "joining"
  /\ \/ /\ Cardinality(Queued) < ControlCap
        /\ reg' = [reg EXCEPT ![c] = "queued"]
     \/ ctxDone /\ UNCHANGED reg
  /\ sock' = [sock EXCEPT ![c] = "open"]
  /\ reader' = [reader EXCEPT ![c] = TRUE]
  /\ writer' = [writer EXCEPT ![c] = TRUE]
  /\ UNCHANGED <<hubVars, ctxDone, sent, unreg, buf, closed, sender, first, got>>

(* The peer closes, a write fails or no pong arrives in time. *)
PeerLeaves(c) ==
  /\ sock[c] = "open"
  /\ sock' = [sock EXCEPT ![c] = "down"]
  /\ UNCHANGED <<hubVars, ctxDone, sent, reg, unreg, buf, closed, reader, writer,
                 sender, first, got>>

(* The deferred Unregister: through the channel, or directly when that is    *)
(* full.                                                                     *)
Unregister(c) ==
  /\ reader[c] /\ sock[c] = "down"
  /\ reader' = [reader EXCEPT ![c] = FALSE]
  /\ \/ /\ Cardinality(unreg) < ControlCap
        /\ unreg' = unreg \cup {c}
        /\ UNCHANGED <<reg, closed>>
     \/ /\ Cardinality(unreg) >= ControlCap
        /\ Remove({c})
        /\ UNCHANGED unreg
  /\ UNCHANGED <<hubVars, ctxDone, sent, buf, sock, writer, sender, first, got>>

(* writePump sends what its channel holds, ... *)
Write(c) ==
  /\ writer[c] /\ buf[c] > 0
  /\ buf' = [buf EXCEPT ![c] = @ - 1]
  /\ writer' = [writer EXCEPT ![c] = (sock[c] = "open")]
  /\ UNCHANGED <<hubVars, ctxDone, sent, reg, unreg, closed, sock, reader, sender,
                 first, got>>

(* As if writePump returned without closing the connection. *)
WriteCloseLeaving(c) ==
  /\ writer[c] /\ buf[c] = 0 /\ closed[c]
  /\ writer' = [writer EXCEPT ![c] = FALSE]
  /\ UNCHANGED <<hubVars, ctxDone, sent, reg, unreg, buf, closed, sock, reader,
                 sender, first, got>>

(* ... closes the connection when the channel is closed and empty, ... *)
WriteClose(c) ==
  /\ writer[c] /\ buf[c] = 0 /\ closed[c]
  /\ writer' = [writer EXCEPT ![c] = FALSE]
  /\ sock' = [sock EXCEPT ![c] = "down"]
  /\ UNCHANGED <<hubVars, ctxDone, sent, reg, unreg, buf, closed, reader, sender,
                 first, got>>

(* ... and gives up when a ping cannot be written. *)
PingFails(c) ==
  /\ writer[c] /\ sock[c] = "down"
  /\ writer' = [writer EXCEPT ![c] = FALSE]
  /\ UNCHANGED <<hubVars, ctxDone, sent, reg, unreg, buf, closed, sock, reader,
                 sender, first, got>>

-----------------------------------------------------------------------------
(* Broadcast: nothing to do without clients; then enqueue, which drops the   *)
(* message when the channel stays full or the hub was stopped.               *)

Broadcast(s) ==
  /\ sender[s] = "idle" /\ Registered # {} /\ sent < MaxMessages
  /\ sender' = [sender EXCEPT ![s] = "enqueue"]
  /\ UNCHANGED <<hubVars, ctxDone, sent, reg, unreg, buf, closed, pumpVars, first,
                 got>>

Enqueue(s) ==
  /\ sender[s] = "enqueue"
  /\ sender' = [sender EXCEPT ![s] = "idle"]
  /\ \/ sent - taken < BroadcastCap /\ sent' = sent + 1
     \/ (sent - taken >= BroadcastCap \/ ctxDone) /\ UNCHANGED sent
  /\ UNCHANGED <<hubVars, ctxDone, reg, unreg, buf, closed, pumpVars, first, got>>

-----------------------------------------------------------------------------
(* The event loop: runOnce takes from any channel that is ready *)

TakeRegister(c) ==
  /\ hub = "loop" /\ reg[c] = "queued"
  /\ reg' = [reg EXCEPT ![c] = "in"]
  /\ first' = [first EXCEPT ![c] = taken]
  /\ UNCHANGED <<hubVars, ctxDone, sent, unreg, buf, closed, pumpVars, sender,
                 got>>

TakeUnregister(c) ==
  /\ hub = "loop" /\ c \in unreg
  /\ unreg' = unreg \ {c}
  /\ Remove({c})
  /\ UNCHANGED <<hubVars, ctxDone, sent, buf, pumpVars, sender, first, got>>

(* fanout copies the registry under the read lock, ... *)
TakeBroadcast ==
  /\ hub = "loop" /\ taken < sent
  /\ taken' = taken + 1
  /\ targets' = Registered
  /\ hub' = IF Registered = {} THEN "loop" ELSE "fanout"
  /\ UNCHANGED <<attempt, dead, panics, ctxDone, sent, reg, unreg, buf,
                 closed, pumpVars, sender, first, got>>

(* As if a full client were passed over. *)
TrySendSkipping(c) ==
  /\ hub = "fanout" /\ c \in targets
  /\ targets' = targets \ {c}
  /\ \/ /\ ~closed[c] /\ buf[c] < SendCap
        /\ buf' = [buf EXCEPT ![c] = @ + 1]
        /\ got' = [got EXCEPT ![c] = @ \cup {taken}]
     \/ /\ closed[c] \/ buf[c] = SendCap
        /\ UNCHANGED <<buf, got>>
  /\ UNCHANGED <<hub, attempt, dead, taken, panics, ctxDone, sent, reg,
                 unreg, closed, pumpVars, sender, first>>

(* ... tries every client it copied (a send on a closed channel panics and   *)
(* trySend recovers), ...                                                    *)
TrySend(c) ==
  /\ hub = "fanout" /\ c \in targets
  /\ targets' = targets \ {c}
  /\ \/ /\ ~closed[c] /\ buf[c] < SendCap
        /\ buf' = [buf EXCEPT ![c] = @ + 1]
        /\ got' = [got EXCEPT ![c] = @ \cup {taken}]
        /\ UNCHANGED dead
     \/ /\ closed[c] \/ buf[c] = SendCap
        /\ dead' = dead \cup {c}
        /\ UNCHANGED <<buf, got>>
  /\ UNCHANGED <<hub, attempt, taken, panics, ctxDone, sent, reg, unreg,
                 closed, pumpVars, sender, first>>

(* ... and removes those it could not send to. *)
Evict ==
  /\ hub = "fanout" /\ targets = {}
  /\ Remove(dead)
  /\ dead' = {}
  /\ hub' = "loop"
  /\ UNCHANGED <<attempt, targets, taken, panics, ctxDone, sent, unreg, buf,
                 pumpVars, sender, first, got>>

(* As if one retry too many were made, or one too few. *)
PanicOnceMore ==
  /\ hub = "fanout" /\ panics > 0
  /\ panics' = panics - 1
  /\ targets' = {} /\ dead' = {}
  /\ IF attempt < Attempts
       THEN hub' = "crashed" /\ attempt' = attempt + 1
       ELSE hub' = "down" /\ UNCHANGED attempt
  /\ UNCHANGED <<taken, ctxDone, sent, reg, unreg, buf, closed, pumpVars, sender,
                 first, got>>

PanicOnceLess ==
  /\ hub = "fanout" /\ panics > 0
  /\ panics' = panics - 1
  /\ targets' = {} /\ dead' = {}
  /\ IF attempt < Attempts - 2
       THEN hub' = "crashed" /\ attempt' = attempt + 1
       ELSE hub' = "down" /\ UNCHANGED attempt
  /\ UNCHANGED <<taken, ctxDone, sent, reg, unreg, buf, closed, pumpVars, sender,
                 first, got>>

(* A panic in the loop: recovered, and retried after a pause while there are *)
(* attempts left.                                                            *)
Panic ==
  /\ hub = "fanout" /\ panics > 0
  /\ panics' = panics - 1
  /\ targets' = {} /\ dead' = {}
  /\ IF attempt < Attempts - 1
       THEN hub' = "crashed" /\ attempt' = attempt + 1
       ELSE hub' = "down" /\ UNCHANGED attempt
  /\ UNCHANGED <<taken, ctxDone, sent, reg, unreg, buf, closed, pumpVars, sender,
                 first, got>>

(* The pause ends, or the context does. *)
Retry ==
  /\ hub = "crashed"
  /\ \/ hub' = "loop"
     \/ ctxDone /\ hub' = "down"
  /\ UNCHANGED <<attempt, targets, dead, taken, panics, ctxDone, sent, reg,
                 unreg, buf, closed, pumpVars, sender, first, got>>

(* Stop, which the server calls last, and shutdown in the loop. *)
Stop ==
  /\ MayStop /\ ~ctxDone
  /\ ctxDone' = TRUE
  /\ UNCHANGED <<hubVars, sent, reg, unreg, buf, closed, pumpVars, sender, first,
                 got>>

Shutdown ==
  /\ hub = "loop" /\ ctxDone
  /\ hub' = "stopped"
  /\ Remove(Clients)
  /\ UNCHANGED <<attempt, targets, dead, taken, panics, ctxDone, sent,
                 unreg, buf, pumpVars, sender, first, got>>

-----------------------------------------------------------------------------
Connection(c) ==
  \/ Connect(c) \/ Register(c) \/ PeerLeaves(c) \/ Unregister(c)
  \/ Write(c) \/ WriteClose(c) \/ PingFails(c)

Hub ==
  \/ \E c \in Clients : TakeRegister(c) \/ TakeUnregister(c) \/ TrySend(c)
  \/ TakeBroadcast \/ Evict \/ Panic \/ Retry \/ Shutdown

Next ==
  \/ \E c \in Clients : Connection(c)
  \/ \E s \in Senders : Broadcast(s) \/ Enqueue(s)
  \/ Hub \/ Stop

Spec == Init /\ [][Next]_vars

(***************************************************************************)
(* Fairness: goroutines run on, and select chooses among its ready cases   *)
(* at random, so none of them is passed over for ever. Nothing is assumed  *)
(* of browsers, panics and the operator.                                   *)
(***************************************************************************)
Fairness ==
  /\ \A c \in Clients :
       /\ WF_vars(Register(c)) /\ WF_vars(Unregister(c))
       /\ WF_vars(Write(c)) /\ WF_vars(WriteClose(c)) /\ WF_vars(PingFails(c))
       /\ SF_vars(TakeRegister(c)) /\ SF_vars(TakeUnregister(c))
       /\ WF_vars(TrySend(c))
  /\ \A s \in Senders : WF_vars(Enqueue(s))
  /\ SF_vars(TakeBroadcast) /\ WF_vars(Evict) /\ WF_vars(Retry)
  /\ SF_vars(Shutdown)

FairSpec == Spec /\ Fairness

-----------------------------------------------------------------------------
(* Properties *)

(* The registry holds only clients whose channel is open, although readers   *)
(* remove clients directly while a fanout works on its copy of the registry. *)
RegisteredIsOpen == \A c \in Clients : reg[c] = "in" => ~closed[c]

(* As long as the loop does not panic, what a client was sent is an unbroken *)
(* run of the messages from its registration on, each once and in order; and *)
(* one that is still registered has missed none: a client that falls behind  *)
(* is disconnected, and never just skips a message.                          *)
Pending(c) == c \in targets \cup dead
Unbroken ==
  panics = MaxPanics =>
    \A c \in Clients :
      /\ \E last \in 0 .. taken : got[c] = (first[c] + 1) .. last
      /\ reg[c] = "in" /\ ~Pending(c) => got[c] = (first[c] + 1) .. taken

(* A client whose channel was closed loses its connection, so that the       *)
(* browser notices and reconnects.                                           *)
ClosedIsDisconnected ==
  \A c \in Clients : closed[c] ~> sock[c] = "down"

(* With fewer panics than attempts the hub keeps up: what was queued is      *)
(* taken, through any crash and restart of its loop.                         *)
Drains == (taken < sent) ~> (taken = sent \/ ctxDone)

-----------------------------------------------------------------------------
(* What the comments of the code say and the code does not do *)

(* hub.go:353-357: Unregister removes a client "so dead clients aren't left  *)
(* in the registry": one whose readPump has ended is out of the registry, or *)
(* its removal is on its way.                                                *)
NoneLeftBehind ==
  \A c \in Clients :
    reg[c] = "in" /\ sock[c] = "down" /\ ~reader[c] => c \in unreg

=============================================================================
