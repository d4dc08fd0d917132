# X-MILI in TLA+

X-MILI is a web panel that runs and configures an Xray server: it keeps inbounds
and clients in SQLite, writes them into an Xray configuration, starts and
restarts Xray as a child process, edits the running Xray over its gRPC API,
counts traffic, and shows all of it to browsers over WebSocket. Around that it
manages outbounds of its own (WARP, VPNGate through OpenVPN), geo files and a
subscription server.

This directory holds TLA+ models of the parts whose correctness depends on
order, concurrency and failure, the TLC runs that check them on small instances,
and TLAPS proofs for instances of every size. `PROJECT.json` lists the
components, runs, mutants, source lines of every definition, findings, hazards
and theorems.

Check a run with `tlc -config MCXrayLifecycle_safety.cfg MCXrayLifecycle`, a
proof with `tlapm XrayLifecycleProofs.tla`.

## The system

| Component | State | Operations | Hard behaviour |
|---|---|---|---|
| Xray process management: `web/service/xray.go`, `xray/process.go`, `xray/config.go` | mutex `lock`, process pointer `p`, flags `isNeedXrayRestart` and `isManuallyStopped`; in each Process: cmd, apiPort, config | RestartXray, StopXray, SetToNeedRestart, DidXrayCrash, Start, Stop, finalizer | many callers; the fork happens in a goroutine; SIGTERM is not waited for; readers do not take the lock |
| Xray API client: `xray/api.go` | one connection per service struct, shared by requests | Init, Close, AddInbound, DelInbound, AddUser, RemoveUser, GetTraffic | used on an Xray that restarts; Init's error ignored |
| Jobs: `web/job/*`, `web/web.go` startTask | checkTime; cron | watchdog (1 s), restart check (30 s), traffic (10 s), client IPs (10 s), resets, log rotation, WARP (12 min), VPNGate (1 min) | runs overlap; they call RestartXray and the API |
| Inbound service: `web/service/inbound.go` | tables inbounds, client_traffics, inbound_client_ips | add, update, delete, enable, accounting, renewal, resets | database and running Xray change in separate steps; two tables describe one client |
| WebSocket hub and connections: `web/websocket/hub.go`, `web/controller/websocket.go` | registry, three bounded channels, a buffer per client | Register, Unregister, Broadcast, Run, Stop, pumps | one goroutine owns the registry but not alone; slow clients; panics of the loop |
| VPNGate task: `web/service/openvpn.go`, `vpngate*.go` | task id, phase, cancel, openvpn child, outbound in the template | start, cancel, failover, network checker, recovery | tasks replaced while goroutines of old ones run |
| WARP repair: `web/service/warp.go` | outbound in the template, recovery flag | check, ten attempts, replace, restart | scheduled by every restart, restarts itself |
| Outbound service: `web/service/outbound.go` | counters; test semaphore | AddTraffic, reset, TestOutbound | temporary Xray processes |
| Client IP limit: `web/job/check_client_ip_job.go` | addresses per client | scan the log, merge, ban, disconnect | log truncation, API edits of read data |
| Custom geo files: `web/service/custom_geo.go` | rows and files | create, update, delete, refresh | row and file in separate steps |
| Server service: `web/service/server.go` | database file, Xray binary | ImportDB, UpdateXray, UpdateGeofile, stop, restart | file renames, failures half way |
| Server lifecycle: `web/web.go`, `main.go` | http server, cron, hub | Start, Stop, SIGHUP, SIGTERM | shutdown order against running jobs |
| Subscription server: `sub/` | none | format links | none |
| Browser: WebSocket client: `assets/js/websocket.js`, `html/index.html` | socket, timer, attempts, the page's polling | connect, disconnect, reconnect with backoff, fall back to polling | events of old sockets arrive after new ones exist |
| Browser: forms: `assets/js/model/inbound.js`, `outbound.js`, their modals and templates | one inbound, one outbound, the list of outbounds | choose, edit, save, open again, copy a link, import it, edit as JSON | some forty classes, each with a writer and a reader of its own |
| Settings, sessions, users, logger, other pages, scripts | rows, cookies | get, set | none that a model would add to |

Who calls whom: handlers, jobs and background goroutines all end in RestartXray
(which itself calls the inbound service to build the configuration, and schedules
the managed-outbound recovery, which may call RestartXray again). Handlers and
the traffic job change the running Xray through the API and the database
through gorm, in either order; when the API fails they set a flag that the 30 s
function turns into a restart. Jobs and handlers broadcast through the hub.

What makes each component correct:

- Process management: a restart that succeeded runs a configuration no older
  than the request; never back to an older one; one Xray at a time; a stop is a
  stop; a crash is repaired; restarts end.
- API and inbounds: when nobody is at work, the running Xray has the clients
  the database has, or a restart has been asked for.
- Hub: no gap in what a connected browser is sent; whoever is dropped notices;
  nobody dead is kept; the loop survives a panic.
- VPNGate task: what is being connected has somebody at work on it, what is connected is
  watched, what was replaced stays silent.
- Accounting: who is served is charged, who has used up a limit is not served, nobody
  else is cut off; a renewal keeps the rhythm of its periods; traffic is counted once.
- WebSocket client: one connection; a disconnect is final; a page without a connection
  polls until it has one.
- Forms: what is saved is something Xray accepts; what is opened again is what was
  saved; a link makes an outbound that reaches the inbound it came from.
- Geo files, imports, IP limits, shutdown: see the last section.

## Modules

### XrayLifecycle

`xray.go`, `process.go` and all their callers. A *caller* is a goroutine that may
be in RestartXray: a request handler (`Panel`; SIGUSR1, the WARP job and a VPNGate
connect that has saved its outbound do what a handler does that saves the template
and restarts), a run of the watchdog (`Ticks`), `Boot` (startTask), `Cron` (the 30 s
function), `Traffic`, and `Recovery`. `pc` says where it is:

| `pc` | In the code |
|---|---|
| `lock` | waits in `lock.Lock()` |
| `config` | holds the lock, in GetXrayConfig |
| `decide` | has the configuration, about to test `IsXrayRunning` and `Equals` |
| `start` | old child signalled, about to make and start a new Process |
| `version` | in `Start`, after the goroutine was launched, before the apiPort is known |
| `back` | RestartXray has returned, its caller has not reacted yet |
| `sync`, `api`, `save`, `commit`, `flag`, `call` | between the steps of an edit |

A configuration is a set of items: `Clients` (users or inbounds, which the API adds
and removes) and `Sections` of the template (which only a restart loads). `dbCfg`
is what the database describes, `pCfg` what `p` was started with, `live[q]` what
child `q` really runs. `dbVer` counts commits; `since`, `builtVer` and `pVer`
remember which commit a call, a built configuration and `p` stand for. They are
history: no guard reads them.

`SlowSpawn` is the race at `process.go:272`: `Start` launches a goroutine that forks,
then runs `xray -version` to its end. FALSE means that the goroutine has forked by
then, which is what nearly always happens; TRUE admits every order. Reading
`cmd.Process` during the fork is a data race in the code; the model lets the reader
see either side of it.

Faults (a crash, a failed fork, a failed read or write, an API error) and inputs
(clicks, edits) spend `fuel`, which starts at `MaxFuel`; API errors are free, as
each follows an input.

Left out: a job that reaches the API while `p` has no apiPort dereferences a nil
client and, as the cron has no recovery chain, ends the panel; the model lets such
a job not run. A handler in the same position is recovered by gin and drops its
request, and that is modelled (`Panics`).

### RestartContract

What RestartXray promises, in four variables: commits written, the commit the
process in place stands for, and for every caller its phase and what was written
when it called. `XrayLifecycle` implements it with
`written <- dbVer, installed <- pVer, asked <- since, phase <- Phase`.

### WsHub

The hub's goroutine (`hub`: in its select, in a fanout, crashed and waiting to
retry, given up, stopped), the registry and the two control channels (`reg`,
`unreg`), the broadcast channel (messages are numbered; it holds `taken + 1 ..
sent`), the buffer of every client (`buf`, `closed`), and for each connection its
socket and two pumps. A fanout is not atomic: it copies the registry, tries each
client, then evicts, and readers may remove a client directly in between.

A connection lives once; a browser that reconnects is another one. Panics of the
loop are assumed possible at any point of a fanout, as the code's recovery
harness assumes. The throttle and the size limit decide which broadcasts are
made and are left out; a broadcast here is one that reached `enqueue`.

### VpnGateTask

`openvpn.go` and `vpngate_cleaner.go`: one task behind a mutex (`id`, `phase`, `cancel`,
`cmd`, `tun`, `fallback`, `global`) and every goroutine that touches it. Goroutines are
attempts to connect (`Conns`: a context with its connector, openvpn, waiter and network
checker), failovers (`Failovers`) and everything else that calls in (`Requests`: handlers,
the 1-minute poll, the recovery after a restart of Xray). `tid` is the task id a goroutine
was given, `pc` where it is:

| `pc` | In the code |
|---|---|
| `install`, `prepare`, `config`, `spawn`, `adopt` | connectVPNGate, up to `t.cmd = cmd` |
| `poll` | its select: canceled, exited, timeout, a tun appears |
| `update`, `updated` | writing the outbound, then "connected" if the id is still its own |
| `nodefail`, `fail`, `remove` | about to lock in handleVPNGateNodeFailure, fail, removeXrayVPNGateOutbound |
| `failover`, `list`, `choose` | triggerVPNGateFailover: stop, list servers, start an attempt |
| `status`, `probe`, `lookup`, `infer` | VPNGateStatus: copy, look for a tun, take it over |
| `repair`, `recover`, `template`, `stale`, `restart` | CheckAndRepairVPNGate, RecoverStaleVPNGateOutbound |

A critical section is one action, and what happens between two is another, so that a
goroutine acts on what it has read before. A tun is named by the attempt whose openvpn
made it; killing a process takes effect at once, noticing it does not. Servers,
countries, policy routes, progress and messages are left out: a failover may find a
candidate, none, or a reason to ask the user. An attempt is made once, so the number of
`Conns` bounds the connections of a history; clicks, polls, recoveries and failures that
the code does not cause itself spend `fuel`. Whether the caller of VPNGateStatus is
CheckAndRepairVPNGate, which goes on, is a free choice. The template's other editors and
Xray itself are in XrayLifecycle.

### WsClient

`websocket.js` and the dashboard of `index.html`: `state`, the readyState of every socket
that is not yet gone (a closed one is used again for a new one), the client's fields (`ws`, `should`, `timer`, `attempts`,
`connected`), the page (`mounted`, `polling`) and whether the server can be reached (`net`). The events of a socket are actions
of their own, because the browser delivers them later: a socket may close when the client
already holds another one. What a message carries is left out. Also left out: that each
`error` event starts one more poll loop, and that the loop of the inbounds page
(`inbounds.html:2011`) has no end.

`overlap` remembers that `connect()` was called while an older socket was closing. The
comment at `websocket.js:41` says such a call makes no second connection; the close
listener (line 122) does not ask which socket it belongs to, forgets the new one and
schedules a third. The invariants exclude histories with `overlap`, the liveness properties
do not.

### ClientAccounting

`inbound.go`, the handlers of `controller/inbound.go` and the two jobs that touch traffic,
for one inbound. A client is an *entry* of the inbound's settings (`inb.ent`), a *row* of
client_traffics (`row`) and a user of the running Xray (`x.served`), changed in separate
steps. Quota, date and renewal are small numbers, and time passes in periods (`clock`); a
negative date is a duration that starts at the first use. A request is two steps at least, the
reading of the inbound (`req.seen`) and its writing, with the traffic job, the periodic reset,
restarts and time in between; the deletion of a client, which has no transaction, is one
more. The job reads Xray's counters (`x.live`), of the inbound and of each client, with
reset into `batch` and adds them in a transaction that may fail; what was carried by an
inbound that is gone is charged to nobody. `x.conf` is the configuration Xray was started with, which
RestartXray(false) compares. Faults: Xray ends, the database or an API call fails. A form
(`form`) may have been loaded long before it is sent.

Left out: CopyInboundClients and the variants by e-mail address, two requests at once,
several inbounds, the migrations, `restartOnDisable`.

### FormCodec, InboundModel, OutboundModel, NodeForms

`FormCodec` says what a class with a toJson and a fromJson does to its fields: under which
key a field is written and from which it is read, which fields have a value to clear,
what is lost and what comes back. `InboundModel` and `OutboundModel` describe the classes of
`inbound.js` and `outbound.js` in these terms, which of them a form writes (the conditions
of the toJson methods), what the templates show, and the share link with its import.
`NodeForms` is the person: it opens a form, chooses protocol, transport, security, flow and
switches, edits fields, saves, opens again, resets the traffic, copies a link and goes to
the Xray page, where the outbound modal has a form tab, a JSON tab, a link and a tag.

A form holds only what differs from a new one: an edit is `<<class, field, value>>`, with
values *set*, *cleared* (a default taken away), *blank* and *twice* (of lists of headers). So
the contents of fields are abstracted, and all fields of all classes are there. A field that
was cleared is not followed into a link. Also abstracted: the conversions of old DNS rules
and of freedom's `ipsBlocked`, the editing of fields in the simple mode (its forms are
ready to be saved), the dialogs for clients of an existing inbound, Wireguard's links.

### MC modules

`MCXrayLifecycle`, `MCWsHub`, `MCVpnGateTask` and `MCClientAccounting` add the symmetry of interchangeable
children, handlers, runs of the watchdog, connections, senders, attempts, failovers, requests and clients.
`MCWsClient` and `MCNodeForms` have none. Liveness runs do not use
it. Definitions named as mistakes ("as if ...", "Mistake: ...") in the modules are
variants that the checks of the properties substitute for the real definition; no
action uses them.

## Runs

Deadlock is not checked: when the fuel is spent and everybody is idle the bounded
system rightly stops.

| Run | Instance | Shows |
|---|---|---|
| `safety` | 2 handlers, 1 watchdog run, 3 children, 1 client, 1 managed section, all edits, fuel 2 | types; one recovery at a time; no orphan; a stop means down |
| `contract` | 1 handler, 2 overlapping watchdog runs, template edits, fork after the return of Start, fuel 2 | a restart reflects earlier writes, never older, implements its contract; restart only after two bad checks in a row |
| `liveness` | 1 handler, fuel 1, fairness | a crash is repaired; restarts end |
| `sync` | 1 handler, 1 client, fuel 3 | *violated*: the running Xray and the database stay apart |
| `ws_streams` | 2 connections, buffers of 2, 4 messages, 2 panics, stop | types; registry holds open channels; no gaps |
| `ws_liveness` | 2 connections, channels of 1, 2 messages, 1 panic, 2 attempts, fairness | the dropped are disconnected; the hub drains |
| `ws_zombie` | 1 connection | *violated*: a removed client is registered |
| `vpngate` | 2 attempts, 2 failovers, 1 request, fuel 3 | types; nobody is left connecting, or connected unwatched; old goroutines leave the new task alone |
| `vpngate_uninstall` | 1 attempt, 1 failover, 1 request, fuel 3 | *violated*: a failover starts after an uninstall |
| `ws_client` | 4 sockets, 2 attempts, fuel 5, fairness | one connection; a disconnect is final; the flag is right; the page comes back, and is updated meanwhile |
| `accounting` | 2 clients, each on either of 2 plans, an inbound with or without a total, 1 request, 1 fault, 1 unit of traffic, clock to 3 | who is served, charged and cut off; rows and entries; periods; traffic counted once |
| `forms` | 2 choices, 1 edited field, at most 4 outbounds | coherent streams; nothing forgotten by saving, resetting, linking, importing; valid outbounds with tags of their own |

The bounds: three children are needed for a restart that overlaps both an exiting
child and one that is being forked, and exited ones are reused. Two handlers and
the jobs give the interleavings of an edit, a restart and a stop; a third handler
adds no new kind of step. Fuel 2 or 3 is enough for an edit, a fault and a click in
one history, and every counterexample found needs at most 3. Channels of one or two
places are full or empty in a few steps, and 4 messages overflow a buffer of 2 with
one in flight. The proofs do not depend on any of these bounds.

`ws_client` needs a third and a fourth socket for an old one to close behind a new one twice.
In `accounting` one request is under way at a time, and every job may run between its
steps; one fault decides at which of them it fails. In `forms` two choices reach every pair
of transport, security, flow and switch from each protocol, among them the orders in which
one choice has to undo another; one edited field is enough to see each field of each class
through saving, opening, linking and importing, because the classes treat fields
independently (where they do not, the conditions are in `Left` and `Json`). Opening a saved
inbound again costs nothing, and copying a link ends the choices.

The findings: each violated property states a sentence of a comment, and the
run shows a step-by-step counterexample. `sync` is an edit that is saved but does
not take effect until some later restart: the API call met an Xray that was being
replaced, and the configuration had been read before the commit; or a restart was
asked for and skipped, since `Equals` compares with what Xray was started with.
`ws_zombie` is work for clients that have gone. `vpngate_uninstall` is a status poll (or a
waiter, or a connector) that has seen the openvpn gone, waits for the lock while an
uninstall stops the task, and then starts a failover of the task that was stopped: the
uninstall keeps its id, and "idle" is not among the phases that are asked for. Four more behaviours are in the
models and not stated as properties: the watchdog and the 30 s function can undo
a stop by hand that comes between their check (or the edit) and their restart; a
hub that gave up leaves its browsers connected and silent; its attempts are never
reset, so three panics in its whole life end it; and a connection still in the
register channel survives Stop. They are under the hazards.

The passing properties name the cases in which the code does not keep what they say, so
that they show there are no others. In `ClientAccounting`: a renewal enables the row and
Xray's user but not the entry, so that a deletion later believes the client is not served
and leaves it served without a row (`inbound.go:1634`); DelDepletedClients never calls Xray
(`inbound.go:2477`); handlers save the whole inbound they have read, over what the job has
done meanwhile; RestartXray(false) is skipped when the configuration equals the one Xray was
started with, and GetXrayConfig discards the answer that a restart is needed; the
periodic reset asks for no restart; a renewal that lands exactly on the present is disabled
in the same pass; a delayed start takes its duration from the entry and its test from the row;
UpdateInbound ignores an error of the API's DelInbound, and DelInbound does not call it for
an inbound that is switched off; a client that is added takes the row an old one has left,
disabled or not, and is served all the same (`inbound.go:865`); DelDepletedClients looks for
rows twice (`inbound.go:2497` and 2561), so that the traffic job in between makes it delete
rows of clients it keeps; the error of
the last Save of AddInboundClient is not seen by the transaction (`inbound.go:892`). The
bounds of the `accounting` run are too small for some of these to matter: the proofs, and
random runs with wider bounds while they were being made, showed that the properties have
to name them.

In the forms: REALITY's `maxTimediff` is written as `maxTimeDiff` and so never read back; the
custom tables of a Sudoku mask are typed as a text and read only as a list; a cleared field
that has a default comes back; `inbound.reality = false` (`inbound_modal.html:445`) assigns a
field nobody reads, so that REALITY stays on WebSocket and HTTPUpgrade; a VMess link has the
mode of XHTTP in `type` where the import reads `mode`, and no ECH; XHTTP padding, masks and
all of Hysteria's security are lost on import; a JSON text without its list of servers, users
or peers makes fromJson throw in the editor's listener, and OK then saves the previous
outbound; leaving the JSON tab forgets an invalid text without a word; the outbound form
keeps the flow when the security is set to none, and TLS or REALITY on mKCP.

### Fairness

`XrayLifecycle`: a goroutine past its first step runs on (WF per caller and step);
the mutex is SF, because Go's mutex hands itself to a waiter that has starved for a
millisecond; cron starts its jobs again and again (WF); forks end and Xray obeys
SIGTERM (WF). No fairness on users or faults. `Recovers` allows "stopped by hand" as
an outcome.

`WsHub`: pumps, enqueue and the loop run on (WF); `select` picks uniformly among its
ready cases, so a case that is ready again and again is taken (SF on TakeRegister,
TakeUnregister, TakeBroadcast, Shutdown). No fairness on browsers, panics and Stop.

`WsClient`: the page is mounted, a handshake that has begun ends one way or the other,
a closing handshake ends, the browser's timer fires and a poll that has begun ends (WF).
No fairness on the network's state, on calls of connect and disconnect, or on losses.
`Reconnects` is stated for a network that stays up from some time on while nobody
disconnects.

`VpnGateTask`, `ClientAccounting` and `NodeForms` are checked for safety alone: the first
stops its histories when the fuel is spent, and nobody is bound to send a request or to
press a button.

## Proofs

`XrayLifecycleProofs`, for any sets of handlers, runs, children and items, any fuel
and both values of SlowSpawn, assuming only that the named callers are distinct and
that managed and ignored items are sections:

- The inductive invariant is `IInv == TypeInv /\ LockInv /\ VerInv /\ ChildInv`.
  `LockInv`: exactly the lock's holder is between Lock and Unlock. `VerInv`: at each
  `pc`, what is known of `since`, `builtVer`, `pVer` and `dbVer`. It is needed because
  RestartReflectsWrites speaks only of callers that are back; the knowledge is made
  when the configuration is built, and survives because nobody else can replace `p`
  under the lock. `ChildInv`: without SlowSpawn only the lock's holder sees a child
  being forked, and a caller about to start one has a signalled or exited `p`.
- From it: `TypeCorrect`, `RestartsReflectWrites`, `NoOrphans`, `StopMeansDown`.
- `VersionsGrow` and `Refinement` (every step is a step of the contract or leaves its
  variables alone), with lemmas on what a step does to `pVer` and to one caller's phase.
- `TwoChecks` with `WatchInv` (the count never exceeds the bad checks in a row, up
  to two), and `OneRecovery`, whose invariant is inductive with the types.

`WsHubProofs`, for any numbers of connections and senders and any capacities:
`HubTypeCorrect`, `RegistryIsOpen` and `StreamsAreUnbroken`. `StageInv` adds that a
connection passes its stages once, so that what is taken from the register channel
was never closed. `FanoutInv` and `StreamInv` describe the middle of a fanout: clients
not tried yet have everything but the current message.

`VpnGateTaskProofs`, for any numbers of attempts, failovers and requests, assuming only
that they are distinct: `TaskTypes`, `NoStuckTask`, `NoUnwatchedConnection` and
`NoZombie`. The inductive invariant is `IInv == TypeOK /\ ConnInv /\ NeverStuck /\
ConnectedIsWatched`. `ConnInv` says that nobody knows an attempt that has not begun, so
that a new context is not canceled already, and that a connector whose openvpn is
waited for has returned. With it each action either leaves the goroutine at work where
it was, hands the work to another, or sets a phase that needs none. `NoZombie` needs the
types alone: it is a fact about every step.

`WsClientProofs`, for any set of sockets, any cap of the attempts and any fuel:
`ClientTypes`, `OneSocket`, `DisconnectHolds` and `TrueFlag`. The inductive invariant is
the four properties with `Sole`: while nobody called connect() during a closing, at most
one socket, closing or not, can still fire an event, and none can while the retry timer
runs. OneConnection speaks of live sockets only, and would not exclude that the close
event of an older one forgets the current one.

`NodeFormsProofs`, about the inbounds page, for any numbers of choices and edits:

- `SavedIsCoherent`. `FormInv` asks of the open form what the property asks of the saved
  one, and of REALITY more: that its protocol has it and that its transport has TLS at
  least. Without that the form could leave WebSocket, where REALITY was forgotten, for a
  transport that has neither.
- `ResetKeeps` and `ReopenedAsSaved`. First each class is shown to read every field from
  the key it is written to, and from nobody else's (`ClassesAreKeyed`; the two `Unread`
  fields are the exceptions). `RowInv` then says what is true of the data at any time: an
  edit in the form is one of an object that is there (`IsFilledIn`); everything in a saved
  row is what an object that is sent writes for one of its fields (`IsRow`); and what was
  seen when the form was saved is in the row (`Agrees`). `IsRow` is needed because an
  object is sent again only if the row's own choices say so (`SentParts`), and `Agrees` is
  what an arbitrary number of resets between the saving and the opening must keep
  (`ResetAsSeen`).

`XrayPageProofs`, about the Xray page and what joins it to the other, for any numbers of
choices, edits and outbounds:

- `TemplateIsUsable`, `NodesAreKept` and `WhatIsShownIsSaved`, from `NodeInv`: the template
  is a sequence of documents that are the JSON of some outbound (`IsDocument`), complete and
  with unique tags; the modal holds an outbound and a document it agrees with (`IsCurrent`).
  A document survives being parsed and written (`DocumentSurvives`) because its objects
  are written again: a field that is written only together with another one (`Left`) has
  that other one in the document. The steps that matter are `Ok`, whose second check is of
  the outbound that is written (`ValidIsComplete`: the JSON of an outbound without issues
  has a server, a user and an encryption), and the deletion, which moves the others up.
- `FormTypes`: that every edit is one of an object that is there, in both forms.
- `ImportsMatter`. `CopiedInv` says that a link that can be imported while its inbound is
  known was copied from the row that is there: the inbounds page has no link and the other
  page does not change the row. The rest is about the format: what an outbound needs of a
  transport or a security is in a parameter that `genLink` writes and `fromLink` reads into
  the field of that name (`TransportsAgree`, `SecuritiesAgree`), and the object it belongs
  to is one that the row sends (`ObjectsOfInbound`) and that the outbound has
  (`ObjectsOfOutbound`).

`ClientAccountingProofs` and `ClientAccountingStepProofs`, for any emails, any plans (a quota,
a date or a duration, a period), any totals and any bounds. The model writes handlers and
jobs as functions of the *world*, which is the database, Xray and the restart flag, and the
proof is built the same way:

- A lemma per call of Xray's API, per change of a table, and per pass of AddTraffic; then
  what the four passes together (`Passes`) do to the row, the entry and the user of one
  client (`RowPasses`, `EntryPasses`, `UsersPass`). `NextExpiryOK` is the arithmetic of a
  renewal: the loop of `inbound.go:1631` ends at the first date not past.
- A lemma per handler that it keeps the invariant and has a named effect (`Added`, `Edited`,
  `Deleted`, `Saved`, `Reset`, `Pruned`, `Updated`, `Switched`, `InboundDeleted`). The
  properties of steps are then proved from these effects, without the code of the handlers.
- The invariant (`Invariance`) is `IInv == Sound(World) /\ IsInbound(form) /\ RequestOK /\
  ResetOK /\ BatchOK /\ BoundsOK`. `Sound`: an Xray that is down hosts nothing and what is
  not hosted serves nobody; a deleted inbound leaves neither entries nor rows. `RequestOK`:
  between the reading and the writing of a handler no client comes or goes, since the jobs
  only change clients that are there. Without it the stale inbound that a handler saves
  could bring back a client without its row. `ResetOK` is for the reset, which saves a row
  it has read before: if that row was enabled, then a job that has disabled it since has
  disabled the entry too, so that the client is not entitled to what the reset does not give.
- From it: `TypeCorrect`, and per action property one lemma for the writes of the handlers
  and one for all other steps: `RowsAreKept`, `PassesEnforceLimits`, `NoTrafficIsLost`,
  `PeriodsAreKept`, `NobodyRidesFree`, `EverybodyIsServed`.

Every safety property of a passing run, state or action, is stated by a theorem, and the
invariants were model-checked before they were proved. Only model-checked are the liveness
properties (`Recovers`, `RestartsQuiesce`, `ClosedIsDisconnected`, `Drains`, `Reconnects`,
`KeepsUpdated`), which are out of this prover's reach.

## Not modelled

In the order in which they would be worth modelling:

- **Client IP limit** (`check_client_ip_job.go`): merging and partition of addresses, the job
  against the handlers that edit the same client.
- **Shutdown** (`web.go`, `main.go`): Start, Stop, SIGHUP and the jobs that outlive the server.
- **Server service** (`server.go`): ImportDB with its renames, UpdateXray, UpdateGeofile; and the
  editors of the template that do not take `managedOutboundMu`.
- **Custom geo files** (`custom_geo.go`): rows and files under create, update, delete, refresh.
- **Outbound service** (`outbound.go`): the test with a temporary Xray, the counters; the ten
  attempts of a WARP repair; fetching and validating VPNGate servers, whose result the
  VpnGateTask model leaves open.

Their hazards are listed in `PROJECT.json` without a property. Nothing to model: the
subscription server formats links and keeps no state; settings are rows that are read
and written; sessions, logger, shell scripts and packaging; the rest of the frontend
shows what the server answers.

`web/assets/codemirror` (JSHint, CodeMirror's JavaScript mode and its linter) is third-party
code; it makes up 33 of the 41 thousand lines of JavaScript in the repository, which
bounds the share of lines that `map` can cover.
