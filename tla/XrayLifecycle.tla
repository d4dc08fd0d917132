---------------------------- MODULE XrayLifecycle ----------------------------
(***************************************************************************)
(* The life of the managed Xray process: web/service/xray.go (the mutex    *)
(* `lock`, the process pointer `p` and the flags isNeedXrayRestart and     *)
(* isManuallyStopped), xray/process.go (spawn, exit, SIGTERM, finalizer),  *)
(* and everything that calls them: the 1s watchdog, the 30s restart check, *)
(* the traffic job, the managed-outbound recovery and the panel's request  *)
(* handlers, which edit the database and the running Xray without holding  *)
(* `lock`.                                                                 *)
(*                                                                         *)
(* A configuration is the set of the items it contains: clients (or whole  *)
(* inbounds), which handlers also add to and remove from the running Xray  *)
(* over its API, and sections of the template, which only a restart loads. *)
(***************************************************************************)
EXTENDS Naturals, FiniteSets

CONSTANTS
  Panel,      \* request handlers of the panel (SIGUSR1 acts like one of them)
  Ticks,      \* goroutines the cron starts for CheckXrayRunningJob
  Boot,       \* Server.startTask
  Cron,       \* the 30s function of startTask
  Traffic,    \* XrayTrafficJob
  Recovery,   \* the goroutine of scheduleManagedOutboundRecovery
  Procs,      \* Process objects (an exited one that p does not hold is reused)
  NoProc,     \* p = nil
  Nobody,     \* lock is free
  Clients,    \* items with a runtime API (AddUser, RemoveUser, AddInbound, ...)
  Sections,   \* items of the template, without one
  Managed,    \* the sections the recovery repairs: the VPNGate and WARP outbounds
  Ignored,    \* the sections Config.Equals does not compare
  EditKinds,  \* the edit handlers at work: "inbound", "client", "template"
  SlowSpawn,  \* may Start return before its goroutine has forked Xray?
  MaxFuel     \* bound: events of the environment (edits, clicks, faults)

Callers == Panel \cup Ticks \cup {Boot, Cron, Traffic, Recovery}
Items == Clients \cup Sections

ASSUME CallersAssumption ==
  /\ Panel \cap Ticks = {}
  /\ {Boot, Cron, Traffic, Recovery} \cap (Panel \cup Ticks) = {}
  /\ Cardinality({Boot, Cron, Traffic, Recovery}) = 4
  /\ Boot \notin {Cron, Traffic, Recovery}
  /\ Cron \notin {Traffic, Recovery}
  /\ Traffic # Recovery
  /\ Nobody \notin Callers
ASSUME ProcsAssumption == NoProc \notin Procs
ASSUME ItemsAssumption == Clients \cap Sections = {} /\ Ignored \subseteq Sections
                            /\ Managed \subseteq Sections
ASSUME SwitchAssumption ==
  /\ EditKinds \subseteq {"inbound", "client", "template"}
  /\ SlowSpawn \in BOOLEAN
  /\ MaxFuel \in Nat

VARIABLES
  lock,         \* who holds the mutex
  manualStop,   \* isManuallyStopped
  needRestart,  \* isNeedXrayRestart
  recovering,   \* managedRecoveryScheduled
  repairs,      \* the outbounds its goroutine has repaired so far
  checkTime,    \* CheckXrayRunningJob.checkTime
  p,            \* the process pointer
  st,           \* Procs -> where the child process is
  term,         \* Procs -> was it sent SIGTERM?
  live,         \* Procs -> the configuration it runs, after API calls
  pCfg,         \* p.config, what p was started with
  port,         \* does p have its apiPort? Start learns it last
  dbCfg,        \* the configuration the database describes
  dbVer,        \* how many commits made it so
  pc,           \* Callers -> where the caller is
  force,        \* Callers -> isForce of the RestartXray it is in
  built,        \* Callers -> the result of its GetXrayConfig
  ok,           \* Callers -> did its RestartXray return nil?
  edit,         \* Callers -> the edit it is carrying out
  fuel,         \* what is left of MaxFuel
  \* History, read by no guard:
  since,        \* Callers -> dbVer when it called RestartXray
  builtVer,     \* Callers -> dbVer when it built its configuration
  pVer,         \* the latest dbVer that p.config is known to stand for
  downRun       \* checks in a row (up to 2) that found Xray crashed

procVars == <<st, term, live, pCfg, port, pVer>>
dbVars   == <<dbCfg, dbVer>>
callVars == <<pc, force, built, ok, edit, since, builtVer>>
jobVars  == <<recovering, repairs, checkTime, downRun>>
vars == <<lock, manualStop, needRestart, p, procVars, dbVars, callVars,
          jobVars, fuel>>

NoEdit == [item |-> Nobody, want |-> FALSE, snap |-> {}, need |-> FALSE]
Edits  == [item : Items \cup {Nobody}, want : BOOLEAN, snap : SUBSET Items,
           need : BOOLEAN]

Waiting   == {"lock"}
Holding   == {"config", "decide", "start", "version"}
InRestart == Waiting \cup Holding
Editing   == {"sync", "api", "save", "commit", "flag", "call"}

TypeOK ==
  /\ lock \in Callers \cup {Nobody}
  /\ manualStop \in BOOLEAN /\ needRestart \in BOOLEAN /\ recovering \in BOOLEAN
  /\ repairs \in SUBSET Managed
  /\ checkTime \in Nat /\ downRun \in Nat
  /\ p \in Procs \cup {NoProc}
  /\ st \in [Procs -> {"exited", "spawning", "running"}]
  /\ term \in [Procs -> BOOLEAN]
  /\ live \in [Procs -> SUBSET Items]
  /\ pCfg \in SUBSET Items /\ port \in BOOLEAN /\ pVer \in Nat
  /\ dbCfg \in SUBSET Items /\ dbVer \in Nat
  /\ pc \in [Callers -> {"idle", "back"} \cup InRestart \cup Editing]
  /\ force \in [Callers -> BOOLEAN] /\ ok \in [Callers -> BOOLEAN]
  /\ built \in [Callers -> SUBSET Items]
  /\ edit \in [Callers -> Edits]
  /\ since \in [Callers -> Nat] /\ builtVer \in [Callers -> Nat]
  /\ fuel \in Nat

-----------------------------------------------------------------------------
(* The panel has just been started: nothing runs, and Boot is about to call *)
(* RestartXray(true). The database holds any configuration.                 *)
Init ==
  /\ lock = Nobody /\ p = NoProc
  /\ manualStop = FALSE /\ needRestart = FALSE /\ recovering = FALSE
  /\ repairs = {}
  /\ checkTime = 0 /\ downRun = 0
  /\ st = [q \in Procs |-> "exited"] /\ term = [q \in Procs |-> FALSE]
  /\ live = [q \in Procs |-> {}]
  /\ pCfg = {} /\ port = FALSE /\ pVer = 0
  /\ dbCfg \in SUBSET Items /\ dbVer = 1
  /\ pc = [c \in Callers |-> IF c = Boot THEN "lock" ELSE "idle"]
  /\ force = [c \in Callers |-> c = Boot]
  /\ since = [c \in Callers |-> IF c = Boot THEN 1 ELSE 0]
  /\ built = [c \in Callers |-> {}] /\ builtVer = [c \in Callers |-> 0]
  /\ ok = [c \in Callers |-> FALSE] /\ edit = [c \in Callers |-> NoEdit]
  /\ fuel = MaxFuel

(* IsXrayRunning: the child was forked and has not been waited for. *)
Running(q) == q # NoProc /\ st[q] = "running"
Reachable  == {q \in Procs : st[q] = "running"}

(* DidXrayCrash *)
Crashed == ~Running(p) /\ ~manualStop

(* Config.Equals: every section but the ignored ones, byte for byte. *)
Equals(a, b) == a \ Ignored = b \ Ignored

Toggle(S, i) == (S \ {i}) \cup ({i} \ S)
Spend == fuel > 0 /\ fuel' = fuel - 1
Booted == pc[Boot] = "idle"
Goto(c, l) == pc' = [pc EXCEPT ![c] = l]

(* c calls RestartXray(f). *)
Enter(c, f) ==
  /\ Goto(c, "lock")
  /\ force' = [force EXCEPT ![c] = f]
  /\ since' = [since EXCEPT ![c] = dbVer]
  /\ UNCHANGED <<built, builtVer, ok>>

(* Mistakes the checks must notice: an error path that returns nil, ...      *)
LeaveWithoutError(c, success) ==
  /\ lock' = Nobody
  /\ Goto(c, "back")
  /\ ok' = [ok EXCEPT ![c] = TRUE]
  /\ since' = since

(* ... and one that forgets to unlock. *)
LeaveLocked(c, success) ==
  /\ lock' = IF success THEN Nobody ELSE lock
  /\ Goto(c, "back")
  /\ ok' = [ok EXCEPT ![c] = success]
  /\ since' = IF success THEN since ELSE [since EXCEPT ![c] = 0]

(* The deferred Unlock and the return of RestartXray. *)
Leave(c, success) ==
  /\ lock' = Nobody
  /\ Goto(c, "back")
  /\ ok' = [ok EXCEPT ![c] = success]
  /\ since' = IF success THEN since ELSE [since EXCEPT ![c] = 0]

-----------------------------------------------------------------------------
(* RestartXray *)

(* Mistake: no mutex. *)
EnterUnlocked(c) ==
  /\ pc[c] = "lock"
  /\ lock' = c
  /\ manualStop' = FALSE
  /\ Goto(c, "config")
  /\ UNCHANGED <<needRestart, p, procVars, dbVars, force, built, ok, edit,
                 since, builtVer, jobVars, fuel>>

(* Mistake: isManuallyStopped is not reset. *)
AcquireKeepingStop(c) ==
  /\ pc[c] = "lock" /\ lock = Nobody
  /\ lock' = c
  /\ Goto(c, "config")
  /\ UNCHANGED <<manualStop, needRestart, p, procVars, dbVars, force, built, ok,
                 edit, since, builtVer, jobVars, fuel>>

AcquireLock(c) ==
  /\ pc[c] = "lock" /\ lock = Nobody
  /\ lock' = c
  /\ manualStop' = FALSE
  /\ Goto(c, "config")
  /\ UNCHANGED <<needRestart, p, procVars, dbVars, force, built, ok, edit,
                 since, builtVer, jobVars, fuel>>

(* GetXrayConfig first runs AddTraffic(nil, nil), which disables what ran   *)
(* out in the database and, when the API answers, in the running Xray; its  *)
(* results are dropped. Then it reads the database or fails, in AddTraffic  *)
(* too: for a p without an apiPort that panics.                             *)
BuildConfig(c) ==
  /\ pc[c] = "config"
  /\ \E off \in {{}} \cup {{i} : i \in dbCfg \cap Clients}, good \in BOOLEAN :
       /\ dbCfg' = dbCfg \ off
       /\ dbVer' = IF off = {} THEN dbVer ELSE dbVer + 1
       /\ off # {} => port \/ p = NoProc
       /\ \/ live' = live
          \/ /\ off # {} /\ port
             /\ \E q \in Reachable : live' = [live EXCEPT ![q] = @ \ off]
       /\ IF off = {} /\ good THEN fuel' = fuel ELSE Spend
       /\ \/ /\ good
             /\ built' = [built EXCEPT ![c] = dbCfg']
             /\ builtVer' = [builtVer EXCEPT ![c] = dbVer']
             /\ Goto(c, "decide")
             /\ UNCHANGED <<lock, ok, since>>
          \/ /\ ~good
             /\ Leave(c, FALSE)
             /\ UNCHANGED <<built, builtVer>>
  /\ UNCHANGED <<manualStop, needRestart, p, st, term, pCfg, port, pVer, force,
                 edit, jobVars>>

(* Mistake: Equals is not asked. *)
UnneededUncompared(c) == ~force[c] /\ ~needRestart

(* "It does not need to restart Xray" *)
Unneeded(c) == ~force[c] /\ Equals(pCfg, built[c]) /\ ~needRestart

SkipRestart(c) ==
  /\ pc[c] = "decide" /\ Running(p) /\ Unneeded(c)
  /\ Leave(c, TRUE)
  /\ pVer' = IF Equals(pCfg, built[c]) THEN builtVer[c] ELSE pVer
  /\ UNCHANGED <<manualStop, needRestart, p, st, term, live, pCfg, port, dbVars,
                 force, built, edit, builtVer, jobVars, fuel>>

(* Mistake: the new Xray is started without stopping the old one. *)
KeepOld(c) ==
  /\ pc[c] = "decide"
  /\ Running(p) => ~Unneeded(c)
  /\ Goto(c, "start")
  /\ UNCHANGED <<lock, manualStop, needRestart, p, procVars, dbVars,
                 force, built, ok, edit, since, builtVer, jobVars, fuel>>

(* p.Stop() sends SIGTERM and does not wait for the exit. *)
StopOld(c) ==
  /\ pc[c] = "decide"
  /\ Running(p) => ~Unneeded(c)
  /\ term' = IF Running(p) THEN [term EXCEPT ![p] = TRUE] ELSE term
  /\ Goto(c, "start")
  /\ UNCHANGED <<lock, manualStop, needRestart, p, st, live, pCfg, port, pVer,
                 dbVars, force, built, ok, edit, since, builtVer, jobVars, fuel>>

(* NewProcess and Start up to its goroutine, which runs Xray; Start may also *)
(* fail to write the configuration file, and then p is a dead process.       *)
StartNew(c) ==
  /\ pc[c] = "start"
  /\ \E q \in Procs \ {p} :
       /\ st[q] = "exited"
       /\ p' = q
       /\ \/ /\ st' = [st EXCEPT ![q] = "spawning"]
             /\ live' = [live EXCEPT ![q] = built[c]]
             /\ Goto(c, "version")
             /\ UNCHANGED <<lock, ok, since, fuel>>
          \/ /\ Leave(c, FALSE)
             /\ Spend
             /\ UNCHANGED <<st, live>>
  /\ pCfg' = built[c] /\ port' = FALSE /\ pVer' = builtVer[c]
  /\ UNCHANGED <<manualStop, needRestart, term, dbVars, force, built, edit, builtVer,
                 jobVars>>

(* refreshVersion has run a whole `xray -version`; unless SlowSpawn, the    *)
(* goroutine has forked by then. refreshAPIPort sets the port, and the      *)
(* recovery is scheduled unless it is already.                              *)
Started(c) ==
  /\ pc[c] = "version"
  /\ SlowSpawn \/ st[p] # "spawning"
  /\ Leave(c, TRUE)
  /\ port' = TRUE
  /\ recovering' = TRUE
  /\ UNCHANGED <<manualStop, needRestart, p, st, term, live, pCfg, pVer, dbVars,
                 force, built, edit, builtVer, repairs, checkTime, downRun, fuel>>

(* Mistake: the 30s function keeps its flag after the restart. *)
BackRearming(c) ==
  /\ pc[c] = "back"
  /\ Goto(c, "idle")
  /\ checkTime' = IF c \in Ticks THEN 0 ELSE checkTime
  /\ needRestart' = (needRestart \/ c = Cron)
  /\ force' = [force EXCEPT ![c] = FALSE]
  /\ built' = [built EXCEPT ![c] = {}]
  /\ builtVer' = [builtVer EXCEPT ![c] = 0]
  /\ since' = [since EXCEPT ![c] = 0]
  /\ ok' = [ok EXCEPT ![c] = FALSE]
  /\ edit' = [edit EXCEPT ![c] = NoEdit]
  /\ UNCHANGED <<lock, manualStop, p, procVars, dbVars, recovering, repairs,
                 downRun, fuel>>

(* What each caller does when RestartXray is back: the watchdog clears its  *)
(* count, the traffic job flags a failed restart and what the API refused.  *)
Back(c) ==
  /\ pc[c] = "back"
  /\ Goto(c, "idle")
  /\ checkTime' = IF c \in Ticks THEN 0 ELSE checkTime
  /\ needRestart' = (needRestart \/ (c = Traffic /\ (~ok[c] \/ edit[c].need)))
  /\ force' = [force EXCEPT ![c] = FALSE]
  /\ built' = [built EXCEPT ![c] = {}]
  /\ builtVer' = [builtVer EXCEPT ![c] = 0]
  /\ since' = [since EXCEPT ![c] = 0]
  /\ ok' = [ok EXCEPT ![c] = FALSE]
  /\ edit' = [edit EXCEPT ![c] = NoEdit]
  /\ UNCHANGED <<lock, manualStop, p, procVars, dbVars, recovering, repairs,
                 downRun, fuel>>

RestartXray(c) ==
  \/ AcquireLock(c) \/ BuildConfig(c) \/ SkipRestart(c) \/ StopOld(c)
  \/ StartNew(c) \/ Started(c) \/ Back(c)

-----------------------------------------------------------------------------
(* The scheduled jobs *)

(* Mistake: a healthy check counts back instead of clearing the count. *)
CheckHealthyBack(t) ==
  /\ pc[t] = "idle" /\ Booted /\ ~Crashed
  /\ checkTime' = checkTime - 1 /\ downRun' = 0
  /\ UNCHANGED <<lock, manualStop, needRestart, p, procVars, dbVars, callVars,
                 recovering, repairs, fuel>>

(* Mistake: a healthy check leaves the count. *)
CheckHealthyKeeping(t) ==
  /\ pc[t] = "idle" /\ Booted /\ ~Crashed
  /\ downRun' = 0
  /\ UNCHANGED <<lock, manualStop, needRestart, p, procVars, dbVars, callVars,
                 recovering, repairs, checkTime, fuel>>

(* CheckXrayRunningJob.Run: the check and the count, then RestartXray(false) *)
(* after two checks in a row. Run is not exclusive: while one call waits for *)
(* the lock the cron starts the next.                                        *)
CheckHealthy(t) ==
  /\ pc[t] = "idle" /\ Booted /\ ~Crashed
  /\ checkTime' = 0 /\ downRun' = 0
  /\ UNCHANGED <<lock, manualStop, needRestart, p, procVars, dbVars, callVars,
                 recovering, repairs, fuel>>

CheckCrashed(t) ==
  /\ pc[t] = "idle" /\ Booted /\ Crashed
  /\ checkTime' = checkTime + 1
  /\ downRun' = IF downRun < 2 THEN downRun + 1 ELSE 2
  /\ \/ /\ checkTime' > 1
        /\ Enter(t, FALSE)
        /\ UNCHANGED edit
     \/ /\ checkTime' <= 1
        /\ UNCHANGED callVars
  /\ UNCHANGED <<lock, manualStop, needRestart, p, procVars, dbVars,
                 recovering, repairs, fuel>>

(* The 30s function: IsNeedRestartAndSetFalse, then RestartXray(false). *)
CheckNeedRestart ==
  /\ pc[Cron] = "idle" /\ Booted /\ needRestart
  /\ needRestart' = FALSE
  /\ Enter(Cron, FALSE)
  /\ UNCHANGED <<lock, manualStop, p, procVars, dbVars, edit, jobVars, fuel>>

(* RemoveUser on the running Xray, or an error the caller remembers. *)
ApiRemove(c, i) ==
  \/ /\ \E q \in Reachable : live' = [live EXCEPT ![q] = @ \ {i}]
     /\ edit' = [edit EXCEPT ![c] = [NoEdit EXCEPT !.item = i]]
  \/ /\ UNCHANGED live
     /\ edit' = [edit EXCEPT ![c] = [NoEdit EXCEPT !.item = i, !.need = TRUE]]

(* XrayTrafficJob.Run finds client i out of quota: AddTraffic removes it    *)
(* from the running Xray inside its transaction, ...                        *)
TrafficDisable(i) ==
  /\ pc[Traffic] = "idle" /\ Booted /\ Running(p) /\ port
  /\ i \in dbCfg \cap Clients
  /\ ApiRemove(Traffic, i)
  /\ Goto(Traffic, "commit")
  /\ Spend
  /\ UNCHANGED <<lock, manualStop, needRestart, p, st, term, pCfg, port, pVer,
                 dbVars, force, built, ok, since, builtVer, jobVars>>

(* ... commits or rolls back (and reports the disabled client either way),  *)
(* and restarts Xray when RestartXrayOnClientDisable is set.                *)
TrafficCommit ==
  /\ pc[Traffic] = "commit"
  /\ \/ /\ dbCfg' = dbCfg \ {edit[Traffic].item}
        /\ dbVer' = dbVer + 1
        /\ UNCHANGED fuel
     \/ Spend /\ UNCHANGED dbVars
  /\ \/ Goto(Traffic, "call") /\ UNCHANGED edit
     \/ /\ edit[Traffic].need /\ Goto(Traffic, "flag") /\ UNCHANGED edit
     \/ /\ ~edit[Traffic].need /\ Goto(Traffic, "idle")
        /\ edit' = [edit EXCEPT ![Traffic] = NoEdit]
  /\ UNCHANGED <<lock, manualStop, needRestart, p, procVars, force, built, ok,
                 since, builtVer, jobVars>>

(* The recovery checks each managed outbound once; for one it finds unusable *)
(* it saves another template and restarts Xray.                              *)
RecoveryRepair(s) ==
  /\ recovering /\ pc[Recovery] = "idle"
  /\ s \notin repairs /\ Spend
  /\ repairs' = repairs \cup {s}
  /\ dbCfg' = Toggle(dbCfg, s)
  /\ dbVer' = dbVer + 1
  /\ Goto(Recovery, "call")
  /\ UNCHANGED <<lock, manualStop, needRestart, p, procVars, force, built, ok,
                 edit, since, builtVer, recovering, checkTime, downRun>>

(* Mistake: the flag is cleared while a repair is still under way. *)
RecoveryEndEarly ==
  /\ recovering
  /\ recovering' = FALSE /\ repairs' = {}
  /\ UNCHANGED <<lock, manualStop, needRestart, p, procVars, dbVars, callVars,
                 checkTime, downRun, fuel>>

RecoveryEnd ==
  /\ recovering /\ pc[Recovery] = "idle"
  /\ recovering' = FALSE /\ repairs' = {}
  /\ UNCHANGED <<lock, manualStop, needRestart, p, procVars, dbVars, callVars,
                 checkTime, downRun, fuel>>

CallRestart(c) ==
  /\ pc[c] = "call"
  /\ Enter(c, TRUE)
  /\ UNCHANGED <<lock, manualStop, needRestart, p, procVars, dbVars, edit,
                 jobVars, fuel>>

-----------------------------------------------------------------------------
(* The request handlers *)

ClickRestart(h) ==
  /\ pc[h] = "idle" /\ Spend
  /\ Enter(h, TRUE)
  /\ UNCHANGED <<lock, manualStop, needRestart, p, procVars, dbVars, edit,
                 jobVars>>

(* StopXray holds the lock from the flag to the SIGTERM. *)
StopXray(h) ==
  /\ pc[h] = "idle" /\ lock = Nobody /\ Spend
  /\ manualStop' = TRUE
  /\ term' = IF Running(p) THEN [term EXCEPT ![p] = TRUE] ELSE term
  /\ UNCHANGED <<lock, needRestart, p, st, live, pCfg, port, pVer, dbVars,
                 callVars, jobVars>>

(* The template is saved; the user restarts Xray with a click of its own. *)
SaveTemplate(h, s) ==
  /\ "template" \in EditKinds
  /\ pc[h] = "idle" /\ Spend
  /\ dbCfg' = Toggle(dbCfg, s)
  /\ dbVer' = dbVer + 1
  /\ UNCHANGED <<lock, manualStop, needRestart, p, procVars, callVars, jobVars>>

(* SetInboundEnable writes the one column first, ... *)
ToggleInbound(h, i) ==
  /\ "inbound" \in EditKinds
  /\ pc[h] = "idle" /\ Spend
  /\ dbCfg' = Toggle(dbCfg, i)
  /\ dbVer' = dbVer + 1
  /\ edit' = [edit EXCEPT ![h] = [NoEdit EXCEPT !.item = i,
                                                !.want = i \notin dbCfg]]
  /\ Goto(h, "sync")
  /\ UNCHANGED <<lock, manualStop, needRestart, p, procVars, force, built, ok,
                 since, builtVer, jobVars>>

(* The handlers of a controller share one XrayAPI, and none of them checks  *)
(* the error of its Init: without p or its port, or when another handler    *)
(* has just closed it, the call panics and gin drops the request.           *)
Panics(h) == ~port \/ \E o \in Panel \ {h} : pc[o] \in {"sync", "api"}

Drop(h) ==
  /\ Goto(h, "idle")
  /\ edit' = [edit EXCEPT ![h] = NoEdit]

(* ... then removes the inbound from the running Xray and, to enable it,    *)
(* adds it back.                                                            *)
SyncInbound(h) ==
  /\ pc[h] = "sync"
  /\ LET i == edit[h].item IN
     \/ /\ port
        /\ \E q \in Reachable :
             live' = [live EXCEPT ![q] = IF edit[h].want THEN @ \cup {i}
                                                         ELSE @ \ {i}]
        /\ Drop(h)
     \/ /\ port
        /\ \/ UNCHANGED live
           \/ /\ edit[h].want
              /\ \E q \in Reachable : live' = [live EXCEPT ![q] = @ \ {i}]
        /\ Goto(h, "flag")
        /\ UNCHANGED edit
     \/ Panics(h) /\ Drop(h) /\ UNCHANGED live
     \/ /\ port /\ Panics(h) /\ Drop(h)
        /\ \E q \in Reachable : live' = [live EXCEPT ![q] = @ \ {i}]
  /\ UNCHANGED <<lock, manualStop, needRestart, p, st, term, pCfg, port, pVer,
                 dbVars, force, built, ok, since, builtVer, jobVars, fuel>>

(* AddInboundClient, DelInboundClient and UpdateInboundClient read the whole *)
(* inbound, ...                                                              *)
EditClient(h, i) ==
  /\ "client" \in EditKinds
  /\ pc[h] = "idle" /\ Spend
  /\ edit' = [edit EXCEPT ![h] = [item |-> i, want |-> i \notin dbCfg,
                                  snap |-> dbCfg \cap Clients, need |-> FALSE]]
  /\ Goto(h, "api")
  /\ UNCHANGED <<lock, manualStop, needRestart, p, procVars, dbVars, force,
                 built, ok, since, builtVer, jobVars>>

(* ... change the running Xray (AddUser refuses a user it has), ...          *)
CallApi(h) ==
  /\ pc[h] = "api"
  /\ LET i == edit[h].item IN
     \/ /\ port
        /\ \E q \in Reachable :
             /\ edit[h].want => i \notin live[q]
             /\ live' = [live EXCEPT ![q] = IF edit[h].want THEN @ \cup {i}
                                                            ELSE @ \ {i}]
        /\ Goto(h, "save")
        /\ UNCHANGED edit
     \/ /\ port
        /\ edit' = [edit EXCEPT ![h].need = TRUE]
        /\ Goto(h, "save")
        /\ UNCHANGED live
     \/ Panics(h) /\ Drop(h) /\ UNCHANGED live
  /\ UNCHANGED <<lock, manualStop, needRestart, p, st, term, pCfg, port, pVer,
                 dbVars, force, built, ok, since, builtVer, jobVars, fuel>>

(* ... and save the whole inbound they read, changed; if that fails the      *)
(* handler reports the error and asks for no restart.                        *)
SaveClient(h) ==
  /\ pc[h] = "save"
  /\ \/ /\ dbCfg' = (dbCfg \ Clients) \cup
                     (IF edit[h].want THEN edit[h].snap \cup {edit[h].item}
                                      ELSE edit[h].snap \ {edit[h].item})
        /\ dbVer' = dbVer + 1
        /\ IF edit[h].need
             THEN Goto(h, "flag") /\ UNCHANGED edit
             ELSE Drop(h)
        /\ UNCHANGED fuel
     \/ Spend /\ Drop(h) /\ UNCHANGED dbVars
  /\ UNCHANGED <<lock, manualStop, needRestart, p, procVars, force, built, ok,
                 since, builtVer, jobVars>>

(* SetToNeedRestart *)
SetToNeedRestart(c) ==
  /\ pc[c] = "flag"
  /\ needRestart' = TRUE
  /\ Drop(c)
  /\ UNCHANGED <<lock, manualStop, p, procVars, dbVars, force, built, ok,
                 since, builtVer, jobVars, fuel>>

-----------------------------------------------------------------------------
(* The child processes *)

Forked(q) ==
  /\ st[q] = "spawning"
  /\ st' = [st EXCEPT ![q] = "running"]
  /\ UNCHANGED <<lock, manualStop, needRestart, p, term, live, pCfg, port, pVer,
                 dbVars, callVars, jobVars, fuel>>

Dies(q) ==
  /\ st' = [st EXCEPT ![q] = "exited"]
  /\ term' = [term EXCEPT ![q] = FALSE]
  /\ live' = [live EXCEPT ![q] = {}]
  /\ UNCHANGED <<lock, manualStop, needRestart, p, pCfg, port, pVer, dbVars,
                 callVars, jobVars>>

ForkFails(q) == st[q] = "spawning" /\ Dies(q) /\ Spend
Crash(q)     == st[q] = "running" /\ ~term[q] /\ Dies(q) /\ Spend
Exit(q)      == st[q] = "running" /\ term[q] /\ Dies(q) /\ UNCHANGED fuel

(* The finalizer of a Process nothing points to any more stops its child. *)
Finalize(q) ==
  /\ q # p /\ st[q] = "running" /\ ~term[q]
  /\ term' = [term EXCEPT ![q] = TRUE]
  /\ UNCHANGED <<lock, manualStop, needRestart, p, st, live, pCfg, port, pVer,
                 dbVars, callVars, jobVars, fuel>>

-----------------------------------------------------------------------------
Handler(h) ==
  \/ ClickRestart(h) \/ StopXray(h)
  \/ \E s \in Sections : SaveTemplate(h, s)
  \/ \E i \in Clients : ToggleInbound(h, i) \/ EditClient(h, i)
  \/ SyncInbound(h) \/ CallApi(h) \/ SaveClient(h)

Jobs ==
  \/ \E t \in Ticks : CheckHealthy(t) \/ CheckCrashed(t)
  \/ CheckNeedRestart
  \/ \E i \in Clients : TrafficDisable(i)
  \/ TrafficCommit
  \/ \E s \in Managed : RecoveryRepair(s)
  \/ RecoveryEnd

Child(q) == Forked(q) \/ ForkFails(q) \/ Crash(q) \/ Exit(q) \/ Finalize(q)

Next ==
  \/ \E c \in Callers : RestartXray(c) \/ CallRestart(c) \/ SetToNeedRestart(c)
  \/ \E h \in Panel : Handler(h)
  \/ Jobs
  \/ \E q \in Procs : Child(q)

Spec == Init /\ [][Next]_vars

(***************************************************************************)
(* Fairness. A caller past its first step is a goroutine that runs on;     *)
(* sync.Mutex hands itself to a waiter that starves, hence SF; the cron    *)
(* keeps starting its jobs; the kernel forks, and Xray obeys SIGTERM.      *)
(* Nothing is assumed of the users, and no fault is certain to happen.     *)
(***************************************************************************)
Fairness ==
  /\ \A c \in Callers :
       /\ SF_vars(AcquireLock(c))
       /\ WF_vars(BuildConfig(c)) /\ WF_vars(SkipRestart(c) \/ StopOld(c))
       /\ WF_vars(StartNew(c)) /\ WF_vars(Started(c)) /\ WF_vars(Back(c))
       /\ WF_vars(CallRestart(c)) /\ WF_vars(SetToNeedRestart(c))
  /\ \A h \in Panel : WF_vars(SyncInbound(h) \/ CallApi(h) \/ SaveClient(h))
  /\ WF_vars(\E t \in Ticks : CheckHealthy(t) \/ CheckCrashed(t))
  /\ WF_vars(CheckNeedRestart) /\ WF_vars(TrafficCommit)
  /\ WF_vars(RecoveryEnd \/ \E s \in Managed : RecoveryRepair(s))
  /\ \A q \in Procs : WF_vars(Forked(q) \/ ForkFails(q)) /\ WF_vars(Exit(q))

FairSpec == Spec /\ Fairness

-----------------------------------------------------------------------------
(* Properties *)

(* A RestartXray that returned nil was not too early: the process p stands   *)
(* for every commit made before the call, though commits, other restarts and *)
(* API edits went on meanwhile and the lock was waited for.                  *)
RestartReflectsWrites ==
  \A c \in Callers : pc[c] = "back" /\ ok[c] => p # NoProc /\ since[c] <= pVer

(* Whoever restarts Xray, p never goes back to an older configuration: the   *)
(* configuration is read under the same lock as p is replaced.               *)
NeverOlder ==
  [][p # NoProc => p' # NoProc /\ pVer <= pVer']_vars

(* Every child that p no longer stands for has been sent SIGTERM, so no      *)
(* restart leaves a second Xray serving, provided that Start forks before it *)
(* returns.                                                                  *)
NoOrphan ==
  ~SlowSpawn => \A q \in Procs \ {p} : st[q] = "exited" \/ term[q]

(* isManuallyStopped means what DidXrayCrash takes it for: no Xray serves.   *)
ManualStopMeansDown ==
  ~SlowSpawn /\ manualStop => p = NoProc \/ st[p] = "exited" \/ term[p]

(* The watchdog restarts only after two checks in a row that found Xray      *)
(* crashed, with no healthy check between them, though earlier runs of the   *)
(* job may still be waiting for the lock and clear the count when they end.  *)
DownTwiceInARow ==
  [][\A t \in Ticks : pc[t] = "idle" /\ pc'[t] = "lock" => downRun' = 2]_vars

(* The restarts the recovery makes do not schedule another recovery: the     *)
(* flag is set as long as its goroutine has one under way.                   *)
RecoveryIsDebounced ==
  pc[Recovery] # "idle" => recovering /\ repairs # {}

(* Where the caller is, for the contract: in RestartXray, back without an    *)
(* error, or elsewhere (a RestartXray that failed is over for the contract). *)
Phase == [c \in Callers |-> CASE pc[c] \in InRestart -> "in"
                              [] pc[c] = "back" /\ ok[c] -> "done"
                              [] OTHER -> "out"]

(* RestartXray implements the contract, also with a slow spawn. *)
Contract == INSTANCE RestartContract WITH
  written <- dbVer, installed <- pVer, asked <- since, phase <- Phase
ImplementsContract == Contract!Spec

(* Xray found down and not stopped by hand runs again (or is stopped by      *)
(* hand) once the faults have stopped.                                       *)
Recovers == Crashed ~> (Running(p) \/ manualStop)

(* When the users and the faults rest, so do the restarts: no job keeps      *)
(* restarting Xray for the reasons another one leaves behind.                *)
RestartsQuiesce == <>[](lock = Nobody)

-----------------------------------------------------------------------------
(* What the comments of the code say and the code does not do *)

(* inbound.go:430: a handler asks for a restart when the running Xray could  *)
(* not be synchronised with the database; so when no request is left and     *)
(* nobody is at work, the two agree on the clients.                          *)
QuiescentInSync ==
  /\ lock = Nobody /\ ~needRestart /\ ~recovering
  /\ \A c \in Callers : pc[c] = "idle"
  /\ Running(p) /\ ~term[p]
  => live[p] \cap Clients = dbCfg \cap Clients

=============================================================================
