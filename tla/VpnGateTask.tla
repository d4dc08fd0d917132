----------------------------- MODULE VpnGateTask -----------------------------
(***************************************************************************)
(* The VPNGate connection: web/service/openvpn.go and vpngate_cleaner.go.  *)
(* One global task (id, phase, cancel, cmd, status) behind a mutex is       *)
(* shared by request handlers, the 1-minute status poll, the recovery that *)
(* follows every restart of Xray, and the goroutines of the task itself:    *)
(* the connector (connectVPNGate), the waiter for its openvpn, the network *)
(* checker and the failover. They outlive the task that started them, and  *)
(* tell by its id, or not at all, that it is over.                          *)
(*                                                                         *)
(* Each critical section of the code is one action. A tun device is named  *)
(* by the attempt whose openvpn created it. Servers, countries, policy     *)
(* routes and progress messages are left out: whether a failover finds a    *)
(* candidate, and whether a command succeeds, is a free choice.             *)
(***************************************************************************)
EXTENDS Naturals

CONSTANTS
  Conns,     \* attempts to connect, each made once: a context and its goroutines
  Failovers, \* goroutines in triggerVPNGateFailover
  Requests,  \* handlers, cron and recovery goroutines
  None,      \* no context, process, tun or outbound
  MaxFuel    \* bound: clicks, polls, recoveries and failures

Goros == Conns \cup Failovers \cup Requests

ASSUME GorosAssumption ==
  /\ Conns \cap Failovers = {} /\ Conns \cap Requests = {}
  /\ Failovers \cap Requests = {}
  /\ None \notin Conns
ASSUME FuelAssumption == MaxFuel \in Nat

VARIABLES
  \* vpnGateOpenVPN
  id, phase,
  cancel,    \* the attempt whose context t.cancel cancels
  cmd,       \* the attempt whose openvpn is t.cmd
  tun,       \* status.TunIP
  fallback,  \* fallbackEnable
  global,    \* globalFallback
  \* The template
  outbound,  \* the tun the vpngate outbound sends through
  \* Goroutines
  pc, tid,   \* Goros -> where it is, the taskID it was given
  arg,       \* Conns and Requests -> the tun it has detected
  ask,       \* Failovers -> may it end in waiting_confirm?
  done,      \* Conns -> is the context canceled?
  proc,      \* Conns -> its openvpn
  before,    \* Conns -> the tuns there were before
  waiter,    \* Conns -> does a goroutine wait for its openvpn?
  checker,   \* Conns -> its network checker
  fuel,
  lost       \* history: attempts given up with nobody told

taskVars == <<id, phase, cancel, cmd, tun, fallback, global>>
connVars == <<done, proc, before, waiter, checker>>
vars == <<taskVars, outbound, pc, tid, arg, ask, connVars, fuel, lost>>

Busy    == {"installing", "preparing", "connecting"}
Waiting == Busy \cup {"waiting_confirm"}
Phases  == Waiting \cup {"idle", "connected", "failed", "canceled"}
Places  == {"new", "idle", "install", "prepare", "config", "spawn", "adopt", "poll",
            "update", "updated", "nodefail", "fail", "remove", "failover", "list",
            "choose", "status", "probe", "lookup", "infer", "repair", "recover",
            "template", "stale", "restart"}
Alive   == {c \in Conns : proc[c] \in {"up", "tun"}}
Active(d) == d # None /\ proc[d] = "tun"
Fresh   == {c \in Conns : pc[c] = "new"}

TypeOK ==
  /\ id \in Nat /\ phase \in Phases
  /\ {cancel, cmd, tun, outbound} \subseteq Conns \cup {None}
  /\ fallback \in BOOLEAN /\ global \in BOOLEAN
  /\ pc \in [Goros -> Places]
  /\ tid \in [Goros -> Nat]
  /\ arg \in [Goros -> Conns \cup {None}]
  /\ ask \in [Failovers -> BOOLEAN]
  /\ done \in [Conns -> BOOLEAN]
  /\ proc \in [Conns -> {"none", "up", "tun", "dead"}]
  /\ before \in [Conns -> SUBSET Conns]
  /\ waiter \in [Conns -> BOOLEAN]
  /\ checker \in [Conns -> {"off", "armed", "pinging"}]
  /\ fuel \in 0 .. MaxFuel
  /\ lost \subseteq Conns

-----------------------------------------------------------------------------
(* The panel starts with an empty task. The template may name a tun of an   *)
(* openvpn that an earlier run of the panel has left, alive or not.         *)
Init ==
  /\ id = 0 /\ phase = "idle" /\ cancel = None /\ cmd = None /\ tun = None
  /\ fallback = FALSE /\ global = FALSE
  /\ \E old \in Conns \cup {None}, state \in {"tun", "dead"} :
       /\ outbound = old
       /\ proc = [c \in Conns |-> IF c = old THEN state ELSE "none"]
       /\ pc = [g \in Goros |-> IF g \in Conns \ {old} THEN "new" ELSE "idle"]
  /\ tid = [g \in Goros |-> 0]
  /\ arg = [g \in Goros |-> None]
  /\ ask = [f \in Failovers |-> FALSE]
  /\ done = [c \in Conns |-> FALSE]
  /\ before = [c \in Conns |-> {}]
  /\ waiter = [c \in Conns |-> FALSE] /\ checker = [c \in Conns |-> "off"]
  /\ fuel = MaxFuel /\ lost = {}

Spend == fuel > 0 /\ fuel' = fuel - 1
SpendUnless(certain) == IF certain THEN UNCHANGED fuel ELSE Spend

Goto(g, l) == pc' = [pc EXCEPT ![g] = l]

(* stopLocked: the context of the last attempt is canceled, which kills its *)
(* openvpn; t.cmd is killed, or by name every openvpn of the panel.         *)
Killed == {cancel} \cup (IF cmd # None THEN {cmd} ELSE Conns)
Stop ==
  /\ done' = [c \in Conns |-> done[c] \/ c = cancel]
  /\ proc' = [c \in Conns |-> IF c \in Alive \cap Killed THEN "dead" ELSE proc[c]]
  /\ cancel' = None /\ cmd' = None

(* go triggerVPNGateFailover(t), while g goes on at l. *)
SpawnFailover(g, l, t) ==
  \E f \in Failovers :
    /\ pc[f] = "idle"
    /\ pc' = [pc EXCEPT ![f] = "failover", ![g] = l]
    /\ tid' = [tid EXCEPT ![f] = t]

(* As if an old task could set the phase. *)
SetTaskAlways(c, ph) == phase' = ph

(* setTask *)
SetTask(c, ph) == phase' = IF id = tid[c] THEN ph ELSE phase

-----------------------------------------------------------------------------
(* connectVPNGate *)

Install(c) ==
  /\ pc[c] = "install"
  /\ SetTask(c, "installing")
  /\ Goto(c, "prepare")
  /\ UNCHANGED <<id, cancel, cmd, tun, fallback, global, outbound, tid, arg, ask,
                 connVars, fuel, lost>>

(* The installation succeeded; or it failed, or there is no tun support. *)
Prepare(c) ==
  /\ pc[c] = "prepare"
  /\ \/ SetTask(c, "preparing") /\ Goto(c, "config") /\ UNCHANGED fuel
     \/ SpendUnless(done[c]) /\ Goto(c, "fail") /\ UNCHANGED phase
  /\ UNCHANGED <<id, cancel, cmd, tun, fallback, global, outbound, tid, arg, ask,
                 connVars, lost>>

(* The configuration of the server is bad, its file cannot be written, or it *)
(* is and the tuns are listed.                                               *)
Configure(c) ==
  /\ pc[c] = "config"
  /\ \/ /\ SetTask(c, "connecting")
        /\ before' = [before EXCEPT ![c] = {d \in Conns : Active(d)}]
        /\ Goto(c, "spawn")
        /\ UNCHANGED fuel
     \/ /\ \E l \in {"nodefail", "fail"} : Goto(c, l)
        /\ Spend
        /\ UNCHANGED <<phase, before>>
  /\ UNCHANGED <<id, cancel, cmd, tun, fallback, global, outbound, tid, arg, ask,
                 done, proc, waiter, checker, lost>>

(* cmd.Start fails when the context is canceled, and may fail otherwise. *)
Spawn(c) ==
  /\ pc[c] = "spawn"
  /\ \/ /\ ~done[c]
        /\ proc' = [proc EXCEPT ![c] = "up"]
        /\ Goto(c, "adopt")
        /\ UNCHANGED fuel
     \/ SpendUnless(done[c]) /\ Goto(c, "fail") /\ UNCHANGED proc
  /\ UNCHANGED <<taskVars, outbound, tid, arg, ask, done, before, waiter, checker,
                 lost>>

(* The process of a task that is over is killed, ... *)
Abandon(c) ==
  /\ pc[c] = "adopt" /\ id # tid[c]
  /\ proc' = [proc EXCEPT ![c] = "dead"]
  /\ Goto(c, "idle")
  /\ UNCHANGED <<taskVars, outbound, tid, arg, ask, done, before, waiter, checker,
                 fuel, lost>>

(* ... that of the current one becomes t.cmd. *)
Adopt(c) ==
  /\ pc[c] = "adopt" /\ id = tid[c]
  /\ cmd' = c
  /\ Goto(c, "poll")
  /\ UNCHANGED <<id, phase, cancel, tun, fallback, global, outbound, tid, arg, ask,
                 connVars, fuel, lost>>

(* The select of the connector: canceled, ... *)
Canceled(c) ==
  /\ pc[c] = "poll" /\ done[c]
  /\ Goto(c, "idle")
  /\ UNCHANGED <<taskVars, outbound, tid, arg, ask, connVars, fuel, lost>>

(* ... openvpn has exited, and what is done depends on the phase: a phase of *)
(* "connecting" is taken for a failover under way, also when it is the       *)
(* connector's own and nobody has canceled it, ...                           *)
Exited(c) ==
  \/ /\ phase = "connected"
     /\ SpawnFailover(c, "idle", tid[c])
  \/ /\ phase \in {"connecting", "waiting_confirm", "canceled"}
     /\ Goto(c, "idle")
     /\ UNCHANGED tid
  \/ /\ phase \in {"installing", "preparing", "idle", "failed"}
     /\ Goto(c, "nodefail")
     /\ UNCHANGED tid

ExitSeen(c) ==
  /\ pc[c] = "poll" /\ proc[c] = "dead"
  /\ Exited(c)
  /\ lost' = IF phase = "connecting" /\ ~done[c] THEN lost \cup {c} ELSE lost
  /\ UNCHANGED <<taskVars, outbound, arg, ask, connVars, fuel>>

(* ... 45 seconds have passed or the server refuses, or the tunnel is said   *)
(* to be up and has no address, or no route, ...                             *)
GiveUp(c) ==
  /\ pc[c] = "poll"
  /\ Spend
  /\ \E l \in {"nodefail", "fail"} : Goto(c, l)
  /\ UNCHANGED <<taskVars, outbound, tid, arg, ask, connVars, lost>>

(* ... or there is a tun there was not before. *)
Detect(c) ==
  /\ pc[c] = "poll"
  /\ \E d \in Conns \ before[c] : Active(d) /\ arg' = [arg EXCEPT ![c] = d]
  /\ before' = [before EXCEPT ![c] = {}]
  /\ Goto(c, "update")
  /\ UNCHANGED <<taskVars, outbound, tid, ask, done, proc, waiter, checker, fuel,
                 lost>>

(* updateXrayVPNGateOutbound saves the template and restarts Xray under      *)
(* managedOutboundMu; either may fail. No id is checked.                     *)
UpdateOutbound(c) ==
  /\ pc[c] = "update"
  /\ \/ outbound' = arg[c] /\ Goto(c, "updated") /\ UNCHANGED fuel
     \/ outbound' \in {outbound, arg[c]} /\ Spend /\ Goto(c, "fail")
  /\ UNCHANGED <<taskVars, tid, arg, ask, connVars, lost>>

(* As if only the network checker watched over the connection. *)
ConnectedUnwaited(c) ==
  /\ pc[c] = "updated"
  /\ IF id = tid[c]
       THEN /\ phase' = "connected" /\ tun' = arg[c]
            /\ checker' = [checker EXCEPT ![c] = "armed"]
            /\ UNCHANGED waiter
       ELSE UNCHANGED <<phase, tun, waiter, checker>>
  /\ arg' = [arg EXCEPT ![c] = None]
  /\ Goto(c, "idle")
  /\ UNCHANGED <<id, cancel, cmd, fallback, global, outbound, tid, ask, done, proc,
                 before, fuel, lost>>

Connected(c) ==
  /\ pc[c] = "updated"
  /\ IF id = tid[c]
       THEN /\ phase' = "connected" /\ tun' = arg[c]
            /\ waiter' = [waiter EXCEPT ![c] = TRUE]
            /\ checker' = [checker EXCEPT ![c] = "armed"]
       ELSE UNCHANGED <<phase, tun, waiter, checker>>
  /\ arg' = [arg EXCEPT ![c] = None]
  /\ Goto(c, "idle")
  /\ UNCHANGED <<id, cancel, cmd, fallback, global, outbound, tid, ask, done, proc,
                 before, fuel, lost>>

(* The goroutine that waits for openvpn after the connection. *)
Disconnected(c) ==
  /\ waiter[c] /\ proc[c] = "dead"
  /\ waiter' = [waiter EXCEPT ![c] = FALSE]
  /\ Exited(c)
  /\ UNCHANGED <<taskVars, outbound, arg, ask, done, proc, before, checker, fuel,
                 lost>>

(* startNetworkChecker: the context ends it, or a look at the task, ... *)
CheckerTick(c) ==
  /\ checker[c] = "armed"
  /\ checker' = [checker EXCEPT ![c] =
                   IF id = tid[c] /\ phase = "connected" THEN "pinging" ELSE "off"]
  /\ UNCHANGED <<taskVars, outbound, pc, tid, arg, ask, done, proc, before, waiter,
                 fuel, lost>>

CheckerStops(c) ==
  /\ checker[c] = "armed" /\ done[c]
  /\ checker' = [checker EXCEPT ![c] = "off"]
  /\ UNCHANGED <<taskVars, outbound, pc, tid, arg, ask, done, proc, before, waiter,
                 fuel, lost>>

(* ... the ping succeeds or is a failure too few, or it is the third.        *)
(* A ping the context has killed counts as a failure.                        *)
PingDone(c) ==
  /\ checker[c] = "pinging"
  /\ \/ /\ checker' = [checker EXCEPT ![c] = "armed"]
        /\ UNCHANGED <<pc, tid, fuel>>
     \/ /\ checker' = [checker EXCEPT ![c] = "off"]
        /\ SpendUnless(done[c])
        /\ SpawnFailover(c, pc[c], tid[c])
  /\ UNCHANGED <<taskVars, outbound, arg, ask, done, proc, before, waiter, lost>>

-----------------------------------------------------------------------------
(* Failures: of a connector, a waiter, a status request or a failover *)

(* As if a failure left the failover to somebody else. *)
NodeFailureSilent(g) ==
  /\ pc[g] = "nodefail"
  /\ IF id # tid[g] \/ phase = "canceled" THEN UNCHANGED phase
                                          ELSE phase' = "connecting"
  /\ Goto(g, "idle")
  /\ UNCHANGED <<id, cancel, cmd, tun, fallback, global, outbound, tid, arg, ask,
                 connVars, fuel, lost>>

(* handleVPNGateNodeFailure *)
NodeFailure(g) ==
  /\ pc[g] = "nodefail"
  /\ \/ /\ id # tid[g] \/ phase = "canceled"
        /\ Goto(g, "idle")
        /\ UNCHANGED <<phase, tid>>
     \/ /\ id = tid[g] /\ phase # "canceled" /\ fallback
        /\ phase' = "connecting"
        /\ SpawnFailover(g, "idle", id)
     \/ /\ id = tid[g] /\ phase # "canceled" /\ ~fallback
        /\ Goto(g, "fail")
        /\ UNCHANGED <<phase, tid>>
  /\ UNCHANGED <<id, cancel, cmd, tun, fallback, global, outbound, arg, ask,
                 connVars, fuel, lost>>

(* fail *)
Fail(g) ==
  /\ pc[g] = "fail"
  /\ IF id = tid[g] /\ phase # "canceled"
       THEN /\ Stop /\ phase' = "failed" /\ tun' = None
            /\ Goto(g, "remove")
       ELSE /\ Goto(g, "idle")
            /\ UNCHANGED <<phase, tun, cancel, cmd, done, proc>>
  /\ UNCHANGED <<id, fallback, global, outbound, tid, arg, ask, before, waiter,
                 checker, fuel, lost>>

(* removeXrayVPNGateOutbound, whose errors are logged; no id is checked. *)
Remove(g) ==
  /\ pc[g] = "remove"
  /\ \/ outbound' = None /\ UNCHANGED fuel
     \/ Spend /\ UNCHANGED outbound
  /\ Goto(g, "idle")
  /\ UNCHANGED <<taskVars, tid, arg, ask, connVars, lost>>

-----------------------------------------------------------------------------
(* triggerVPNGateFailover *)

FailoverStart(f) ==
  /\ pc[f] = "failover"
  /\ IF id = tid[f]
       THEN /\ Stop /\ phase' = "connecting"
            /\ ask' = [ask EXCEPT ![f] = fallback /\ ~global]
            /\ Goto(f, "list")
       ELSE /\ Goto(f, "idle")
            /\ UNCHANGED <<phase, cancel, cmd, ask, done, proc>>
  /\ UNCHANGED <<id, tun, fallback, global, outbound, tid, arg, before, waiter,
                 checker, fuel, lost>>

(* The servers are listed: there is a candidate, there is none or no list,   *)
(* or the user is asked whether those of other countries will do.            *)
ListServers(f) ==
  /\ pc[f] = "list"
  /\ \/ Goto(f, "choose") /\ UNCHANGED <<phase, fuel>>
     \/ Spend /\ Goto(f, "fail") /\ UNCHANGED phase
     \/ /\ ask[f] /\ Spend
        /\ phase' = IF id = tid[f] THEN "waiting_confirm" ELSE phase
        /\ Goto(f, "idle")
  /\ ask' = [ask EXCEPT ![f] = FALSE]
  /\ UNCHANGED <<id, cancel, cmd, tun, fallback, global, outbound, tid, arg,
                 connVars, lost>>

(* The last critical section gives the task a new context, and does not ask *)
(* whether it has one.                                                      *)
Choose(f) ==
  /\ pc[f] = "choose"
  /\ \/ /\ id = tid[f]
        /\ \E c \in Fresh :
             /\ cancel' = c
             /\ pc' = [pc EXCEPT ![f] = "idle", ![c] = "install"]
             /\ tid' = [tid EXCEPT ![c] = id]
     \/ /\ id # tid[f]
        /\ Goto(f, "idle")
        /\ UNCHANGED <<cancel, tid>>
  /\ UNCHANGED <<id, phase, cmd, tun, fallback, global, outbound, arg, ask,
                 connVars, fuel, lost>>

-----------------------------------------------------------------------------
(* Requests *)

(* StartVPNGate, which ends with a call of VPNGateStatus. *)
StartVPNGate(r) ==
  /\ pc[r] = "idle" /\ Spend
  /\ \E c \in Fresh, fb \in BOOLEAN :
       /\ done' = [d \in Conns |-> done[d] \/ d = cancel]
       /\ proc' = [d \in Conns |->
                     IF d \in Alive \cap Killed THEN "dead" ELSE proc[d]]
       /\ cancel' = c /\ cmd' = None /\ fallback' = fb
       /\ pc' = [pc EXCEPT ![r] = "status", ![c] = "install"]
       /\ tid' = [tid EXCEPT ![c] = id + 1]
  /\ id' = id + 1 /\ phase' = "installing" /\ tun' = None /\ global' = FALSE
  /\ UNCHANGED <<outbound, arg, ask, before, waiter, checker, lost>>

ContinueVPNGateWithAll(r) ==
  /\ pc[r] = "idle" /\ phase = "waiting_confirm"
  /\ Spend
  /\ global' = TRUE /\ phase' = "connecting"
  /\ SpawnFailover(r, "status", id)
  /\ UNCHANGED <<id, cancel, cmd, tun, fallback, outbound, arg, ask, connVars, lost>>

(* As if the phase were misspelt. *)
CancelMisspelt(r) ==
  /\ pc[r] = "idle" /\ Spend
  /\ Stop /\ phase' = "cancelled" /\ tun' = None
  /\ Goto(r, "remove")
  /\ UNCHANGED <<id, fallback, global, outbound, tid, arg, ask, before, waiter,
                 checker, lost>>

CancelVPNGate(r) ==
  /\ pc[r] = "idle" /\ Spend
  /\ Stop /\ phase' = "canceled" /\ tun' = None
  /\ Goto(r, "remove")
  /\ UNCHANGED <<id, fallback, global, outbound, tid, arg, ask, before, waiter,
                 checker, lost>>

(* VPNGateCleaner.Remove *)
UninstallVPNGate(r) ==
  /\ pc[r] = "idle" /\ Spend
  /\ Stop /\ phase' = "idle" /\ tun' = None
  /\ Goto(r, "remove")
  /\ UNCHANGED <<id, fallback, global, outbound, tid, arg, ask, before, waiter,
                 checker, lost>>

(* A request or a job calls VPNGateStatus or RecoverStaleVPNGateOutbound. *)
Ask(r) ==
  /\ pc[r] = "idle" /\ Spend
  /\ \E l \in {"status", "recover"} : Goto(r, l)
  /\ UNCHANGED <<taskVars, outbound, tid, arg, ask, connVars, lost>>

(* VPNGateStatus copies the task, and goes on without the lock: the tun of a *)
(* connection is looked for, or that of the outbound, if there is no          *)
(* connection. Its caller may be CheckAndRepairVPNGate, which goes on to      *)
(* "repair" a connection and to "recover" anything else.                     *)
VPNGateStatus(r) ==
  /\ pc[r] = "status"
  /\ tid' = [tid EXCEPT ![r] = id]
  /\ \/ phase = "connected" /\ Goto(r, "probe") /\ arg' = [arg EXCEPT ![r] = tun]
     \/ /\ phase \in Waiting
        /\ \E l \in {"idle", "recover"} : Goto(r, l)
        /\ UNCHANGED arg
     \/ phase \notin Waiting \cup {"connected"} /\ Goto(r, "lookup") /\ UNCHANGED arg
  /\ UNCHANGED <<taskVars, outbound, ask, connVars, fuel, lost>>

Probe(r) ==
  /\ pc[r] = "probe"
  /\ \E l \in IF Active(arg[r]) THEN {"idle", "repair"} ELSE {"nodefail"} : Goto(r, l)
  /\ arg' = [arg EXCEPT ![r] = None]
  /\ UNCHANGED <<taskVars, outbound, tid, ask, connVars, fuel, lost>>

(* inferVPNGateStatusFromXray *)
Lookup(r) ==
  /\ pc[r] = "lookup"
  /\ \/ /\ Active(outbound)
        /\ Goto(r, "infer")
        /\ arg' = [arg EXCEPT ![r] = outbound]
     \/ /\ ~Active(outbound)
        /\ \E l \in {"idle", "recover"} : Goto(r, l)
        /\ UNCHANGED arg
  /\ UNCHANGED <<taskVars, outbound, tid, ask, connVars, fuel, lost>>

(* The tunnel found becomes a task, unless a connection is under way by now; *)
(* its context replaces the one there may be.                                *)
Infer(r) ==
  /\ pc[r] = "infer"
  /\ \/ /\ phase \notin Waiting
        /\ \E c \in Fresh, fb \in BOOLEAN, l \in {"idle", "repair"} :
             /\ cancel' = c /\ fallback' = fb
             /\ pc' = [pc EXCEPT ![r] = l, ![c] = "idle"]
             /\ tid' = [tid EXCEPT ![c] = id + 1]
             /\ checker' = [checker EXCEPT ![c] = "armed"]
        /\ id' = id + 1 /\ phase' = "connected" /\ tun' = arg[r] /\ global' = FALSE
     \/ /\ phase \in Waiting
        /\ \E l \in {"idle", "recover"} : Goto(r, l)
        /\ UNCHANGED <<id, phase, cancel, tun, fallback, global, tid, checker>>
  /\ arg' = [arg EXCEPT ![r] = None]
  /\ UNCHANGED <<cmd, outbound, ask, done, proc, before, waiter, fuel, lost>>

(* RecoverStaleVPNGateOutbound: nothing to do while a connection is made, ... *)
RecoverLook(r) ==
  /\ pc[r] = "recover"
  /\ Goto(r, IF phase \in Waiting THEN "idle" ELSE "template")
  /\ UNCHANGED <<taskVars, outbound, tid, arg, ask, connVars, fuel, lost>>

(* ... nor when the outbound is alive, nor when there is none and no routing *)
(* rule refers to it; ...                                                    *)
RecoverTemplate(r) ==
  /\ pc[r] = "template"
  /\ \E l \in IF outbound = None THEN {"restart", "idle"}
              ELSE IF Active(outbound) THEN {"status"} ELSE {"stale"} : Goto(r, l)
  /\ UNCHANGED <<taskVars, outbound, tid, arg, ask, connVars, fuel, lost>>

(* ... otherwise whatever is the outbound by now is removed, or that fails;  *)
(* ...                                                                       *)
RecoverRemove(r) ==
  /\ pc[r] = "stale"
  /\ \/ outbound' = None /\ UNCHANGED fuel
     \/ Spend /\ UNCHANGED outbound
  /\ Goto(r, "restart")
  /\ UNCHANGED <<taskVars, tid, arg, ask, connVars, lost>>

(* ... then a new task takes over, whatever the old one has become. *)
RecoverRestart(r) ==
  /\ pc[r] = "restart"
  /\ Stop
  /\ id' = id + 1 /\ phase' = "connecting" /\ tun' = None
  /\ fallback' \in BOOLEAN /\ global' = FALSE
  /\ SpawnFailover(r, "idle", id + 1)
  /\ UNCHANGED <<outbound, arg, ask, before, waiter, checker, fuel, lost>>

(* CheckAndRepairVPNGate: the outbound failed its test. *)
Repair(r) ==
  /\ pc[r] = "repair"
  /\ \/ /\ phase = "connected"
        /\ phase' = "connecting" /\ fallback' \in BOOLEAN /\ global' = FALSE
        /\ SpawnFailover(r, "idle", id)
     \/ /\ phase # "connected"
        /\ Goto(r, "idle")
        /\ UNCHANGED <<phase, fallback, global, tid>>
  /\ UNCHANGED <<id, cancel, cmd, tun, outbound, arg, ask, connVars, fuel, lost>>

-----------------------------------------------------------------------------
(* openvpn *)

TunUp(c) ==
  /\ proc[c] = "up"
  /\ proc' = [proc EXCEPT ![c] = "tun"]
  /\ UNCHANGED <<taskVars, outbound, pc, tid, arg, ask, done, before, waiter, checker,
                 fuel, lost>>

Dies(c) ==
  /\ c \in Alive /\ Spend
  /\ proc' = [proc EXCEPT ![c] = "dead"]
  /\ UNCHANGED <<taskVars, outbound, pc, tid, arg, ask, done, before, waiter, checker,
                 lost>>

-----------------------------------------------------------------------------
Connector(c) ==
  \/ Install(c) \/ Prepare(c) \/ Configure(c) \/ Spawn(c) \/ Abandon(c) \/ Adopt(c)
  \/ Canceled(c) \/ ExitSeen(c) \/ GiveUp(c) \/ Detect(c) \/ UpdateOutbound(c)
  \/ Connected(c)

Watchers(c) == Disconnected(c) \/ CheckerTick(c) \/ CheckerStops(c) \/ PingDone(c)

Failover(f) == FailoverStart(f) \/ ListServers(f) \/ Choose(f)

Request(r) ==
  \/ StartVPNGate(r) \/ ContinueVPNGateWithAll(r) \/ CancelVPNGate(r)
  \/ UninstallVPNGate(r) \/ Ask(r) \/ VPNGateStatus(r) \/ Probe(r)
  \/ Lookup(r) \/ Infer(r) \/ RecoverLook(r) \/ RecoverTemplate(r) \/ RecoverRemove(r)
  \/ RecoverRestart(r) \/ Repair(r)

Next ==
  \/ \E c \in Conns : Connector(c) \/ Watchers(c) \/ TunUp(c) \/ Dies(c)
  \/ \E f \in Failovers : Failover(f)
  \/ \E r \in Requests : Request(r)
  \/ \E g \in Goros : NodeFailure(g) \/ Fail(g) \/ Remove(g)

Spec == Init /\ [][Next]_vars

-----------------------------------------------------------------------------
(* Properties *)

(* Who will still change the phase of the current task. *)
AtWork(g) ==
  /\ tid[g] = id
  /\ pc[g] \in {"install", "prepare", "config", "spawn", "adopt", "poll", "update",
                "updated", "nodefail", "fail", "failover", "list", "choose"}
  /\ pc[g] \in {"adopt", "poll"} => ~done[g]

(* A connection that is being made has somebody at work on it: VPNGateStatus *)
(* and the recovery leave such phases alone, so a goroutine that returned     *)
(* without a word would leave the panel connecting for ever. The one         *)
(* exception is an openvpn that exits by itself while the phase is           *)
(* "connecting", which the connector takes for a failover under way.         *)
NeverStuck ==
  phase \in Busy => \/ \E g \in Goros : AtWork(g)
                    \/ \E c \in lost : tid[c] = id

(* A connection shown as connected is watched: somebody waits for its        *)
(* openvpn or pings through its tun, or is already at work on the task,      *)
(* though cancels, failovers and status polls replace watchers all the time. *)
Watched(c) == tid[c] = id /\ (waiter[c] \/ (checker[c] # "off" /\ ~done[c]))
ConnectedIsWatched ==
  phase = "connected" => \/ \E c \in Conns : Watched(c)
                         \/ \E g \in Goros : AtWork(g)

(* A goroutine of a task that is over, however late it wakes up, leaves the   *)
(* task that has replaced it alone: its phase, context and process.           *)
LateIsSilent ==
  \A h \in Conns \cup Failovers :
    tid[h] # id /\ pc[h] \notin {"new", "idle"} /\ pc'[h] # pc[h]
      => UNCHANGED <<id, phase, cancel, cmd, tun>>
SupersededIsSilent == [][LateIsSilent]_vars

-----------------------------------------------------------------------------
(* What the comments of the code say and the code does not do *)

(* vpngate_cleaner.go:6: an uninstall begins with "Cancel/stop any running   *)
(* openvpn tasks": no failover is launched for the task it has left idle.     *)
UninstallStops ==
  [][\A f \in Failovers :
       phase = "idle" /\ pc[f] = "idle" /\ pc'[f] = "failover" => tid'[f] # id]_vars

=============================================================================
