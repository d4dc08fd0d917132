-------------------------- MODULE ClientAccounting --------------------------
(***************************************************************************)
(* The clients of an inbound: who may use it, who Xray lets in, and what   *)
(* is charged to whom (web/service/inbound.go, web/job/xray_traffic_job).  *)
(*                                                                         *)
(* A client is described in three places: an entry of the JSON in the      *)
(* inbound's settings, a row of client_traffics with the counters, and     *)
(* the users of the running Xray, changed through its API.  Handlers of    *)
(* requests read the inbound, call the API and save the WHOLE inbound they *)
(* read; the traffic job works on the same tables every ten seconds.       *)
(*                                                                         *)
(* One inbound.  One request at a time, its read and its write two steps;  *)
(* the form of the inbound may have been loaded long before.  A            *)
(* transaction is one step: SQLite lets one writer in at a time.           *)
(***************************************************************************)
EXTENDS Integers, FiniteSets

CONSTANTS
    Emails,       \* the names of clients
    Plans,        \* what a client can be given: quota, expiry and renewal
    Totals,       \* what an inbound's own `total` can be; 0 is no limit
    MaxClock,     \* bound: periods of time
    MaxFuel,      \* bound: units of traffic
    MaxFaults,    \* bound: crashes of Xray, failures of the database, lost API calls
    MaxRequests   \* bound: requests

\* A negative expiry is a duration that starts with the first use.
PlanType == [quota : Nat, expiry : Int, reset : Nat]
ClientType == [enable : BOOLEAN, quota : Nat, expiry : Int, reset : Nat]
RowType == [enable : BOOLEAN, quota : Nat, expiry : Int, reset : Nat,
            used : Nat, all : Nat]

ASSUME PlanAssumption == Plans \subseteq PlanType
ASSUME TotalAssumption == Totals \subseteq Nat
ASSUME BoundAssumption ==
  {MaxClock, MaxFuel, MaxFaults, MaxRequests} \subseteq Nat

VARIABLES
    inb,     \* the inbound: there, on (enable), total, used; ent, its clients
    row,     \* client_traffics, by email
    x,       \* Xray: up, hosted (it has the inbound), served, conf, live (counters)
    flag,    \* isNeedXrayRestart
    reading, \* the traffic job has read the counters and not yet added them
    batch,   \* these counters
    req,     \* the request under way
    form,    \* the inbound as a browser has loaded it to edit it
    clock,
    fuel, faults, requests  \* what is left of the bounds

budget == <<fuel, faults, requests>>
job == <<reading, batch>>
vars == <<inb, row, x, flag, reading, batch, req, form, clock,
          fuel, faults, requests>>

Put(f, c, v) == [d \in DOMAIN f \cup {c} |-> IF d = c THEN v ELSE f[d]]
Without(f, S) == [d \in DOMAIN f \ S |-> f[d]]

NoClients == [c \in {} |-> 0]

(* What the API of Xray has counted: for the inbound and for each client.   *)
NoCounters == [inbound |-> 0, clients |-> NoClients]

Idle == [kind |-> "idle"]

(* What AddClientStat creates for a client. *)
AddClientStat(client) ==
  [enable |-> client.enable, quota |-> client.quota, expiry |-> client.expiry,
   reset |-> client.reset, used |-> 0, all |-> 0]

(* What UpdateClientStat leaves of a row. *)
UpdateClientStat(r, client) ==
  [AddClientStat(client) EXCEPT !.used = r.used, !.all = r.all]

Client(plan, enable) ==
  [enable |-> enable, quota |-> plan.quota, expiry |-> plan.expiry,
   reset |-> plan.reset]

Clients == {Client(p, e) : p \in Plans, e \in BOOLEAN}

Expired(r, now) == r.expiry > 0 /\ r.expiry <= now
Depleted(r, now) == (r.quota > 0 /\ r.used >= r.quota) \/ Expired(r, now)

-----------------------------------------------------------------------------
(* Handlers work on the database, Xray and the restart flag together, here  *)
(* a record w.  `ok' says whether the API of Xray answers this handler.     *)

World == [inb |-> inb, row |-> row, x |-> x, flag |-> flag]

Becomes(w) == inb' = w.inb /\ row' = w.row /\ x' = w.x /\ flag' = w.flag

(* Mistake: a user who cannot be added is reported to nobody. *)
AddsQuietly(w, S, ok) ==
  IF ok /\ w.x.hosted THEN [w EXCEPT !.x.served = @ \cup S] ELSE w

(* Xray refuses a user it has, and any user of an inbound it has not. *)
AddUsers(w, S, ok) ==
  IF S = {} THEN w
  ELSE IF ok /\ w.x.hosted
       THEN [w EXCEPT !.x.served = @ \cup S, !.flag = @ \/ S \cap w.x.served # {}]
       ELSE [w EXCEPT !.flag = TRUE]

(* Mistake: a user who cannot be removed is reported to nobody. *)
RemovesQuietly(w, S, ok) ==
  IF ok /\ w.x.hosted THEN [w EXCEPT !.x.served = @ \ S] ELSE w

(* "User not found" is not an error to the callers. *)
RemoveUsers(w, S, ok) ==
  IF S = {} THEN w
  ELSE IF ok /\ w.x.hosted
       THEN [w EXCEPT !.x.served = @ \ S]
       ELSE [w EXCEPT !.flag = TRUE]

DropInbound(w, ok) ==
  IF ok THEN [w EXCEPT !.x.hosted = FALSE, !.x.served = {}] ELSE w

HostInbound(w, S, ok) ==
  IF ok /\ ~w.x.hosted
    THEN [w EXCEPT !.x.hosted = TRUE, !.x.served = S]
    ELSE [w EXCEPT !.flag = TRUE]

(* The clients of settings `ent` that a configuration holds: those enabled  *)
(* there and not disabled in their row, if they have one.                   *)
Eligible(ent, rows) ==
  {c \in DOMAIN ent : ent[c].enable /\ (c \in DOMAIN rows => rows[c].enable)}

(* GetXrayConfig. *)
Config(i, rows) ==
  [hosted |-> i.there /\ i.on,
   served |-> IF i.there /\ i.on THEN Eligible(i.ent, rows) ELSE {}]

-----------------------------------------------------------------------------
(* AddTraffic *)

(* Entries or rows with new dates. *)
Dated(f, dates) ==
  [c \in DOMAIN f |-> IF c \in DOMAIN dates THEN [f[c] EXCEPT !.expiry = dates[c]]
                                            ELSE f[c]]

(* Mistake: traffic is taken off the counters. *)
TakenOff(rows, counts) ==
  [c \in DOMAIN rows |-> IF c \in DOMAIN counts
                           THEN [rows[c] EXCEPT !.used = @ - counts[c]]
                           ELSE rows[c]]

(* Rows with the traffic of a batch. *)
Charged(rows, counts) ==
  [c \in DOMAIN rows |-> IF c \in DOMAIN counts
                           THEN [rows[c] EXCEPT !.used = @ + counts[c],
                                                !.all = @ + counts[c]]
                           ELSE rows[c]]

(* Rows of which those of S start again. *)
Afresh(rows, S) ==
  [c \in DOMAIN rows |-> IF c \in S
                           THEN [rows[c] EXCEPT !.used = 0, !.enable = TRUE]
                           ELSE rows[c]]

(* Entries or rows without S. *)
Disabled(f, S) ==
  [c \in DOMAIN f |-> IF c \in S THEN [f[c] EXCEPT !.enable = FALSE] ELSE f[c]]

(* adjustTraffics: a duration becomes a date when the client is first seen. *)
(* The duration is the entry's, the test is on the row.                     *)
Adjust(w, seen) ==
  LET starting == {c \in seen : w.row[c].expiry < 0 /\ c \in DOMAIN w.inb.ent}
      dates == [c \in starting |-> clock - w.inb.ent[c].expiry]
  IN [w EXCEPT !.inb.ent = Dated(@, dates), !.row = Dated(@, dates)]

(* addInboundTraffic and addClientTraffic: traffic of a client that has no  *)
(* row, and of an inbound that is gone, is charged to nobody.               *)
Count(w, counters) ==
  LET v == Adjust(w, DOMAIN counters.clients \cap DOMAIN w.row)
  IN [v EXCEPT !.inb.used = IF w.inb.there THEN @ + counters.inbound ELSE @,
               !.row = Charged(@, counters.clients)]

(* Mistake: a renewal counts from now. *)
FromNow(expiry, period, now) == now + period

(* The first date not before now, whole periods after an expiry. *)
NextExpiry(expiry, period, now) ==
  expiry + period * ((now - expiry + period - 1) \div period)

(* autoRenewClients renews in the row and the entry together.  It enables   *)
(* the row; the entry, if disabled, stays so.                               *)
AutoRenewClients(w, ok) ==
  LET due == {c \in DOMAIN w.row : w.row[c].reset > 0 /\ Expired(w.row[c], clock)}
      renewed == due \cap DOMAIN w.inb.ent
      dates == [c \in renewed |->
                  NextExpiry(w.row[c].expiry, w.row[c].reset, clock)]
      v == [w EXCEPT !.inb.ent = Dated(@, dates),
                     !.row = Afresh(Dated(@, dates), renewed),
                     !.flag = @ \/ (due # {} /\ ~ok)]
  IN AddUsers(v, {c \in renewed : ~w.row[c].enable}, ok)

(* disableInvalidClients: in Xray, the row and the entry. *)
DisableInvalidClients(w, ok) ==
  LET S == {c \in DOMAIN w.row : w.row[c].enable /\ Depleted(w.row[c], clock)}
      v == [w EXCEPT !.inb.ent = Disabled(@, S), !.row = Disabled(@, S)]
  IN RemoveUsers(v, S, ok)

(* disableInvalidInbounds *)
DisableInvalidInbounds(w, ok) ==
  IF /\ w.inb.there
     /\ w.inb.on
     /\ w.inb.total > 0
     /\ w.inb.used >= w.inb.total
    THEN LET v == [w EXCEPT !.inb.on = FALSE]
         IN IF ok /\ w.x.hosted THEN DropInbound(v, ok)
                                ELSE [v EXCEPT !.flag = TRUE]
    ELSE w

(* Mistake: clients are renewed after they have been disabled. *)
RenewsLast(w, counters, ok) ==
  DisableInvalidInbounds(
    AutoRenewClients(
      DisableInvalidClients(Count(w, counters), ok), ok), ok)

AddTraffic(w, counters, ok) ==
  DisableInvalidInbounds(
    DisableInvalidClients(
      AutoRenewClients(Count(w, counters), ok), ok), ok)

-----------------------------------------------------------------------------
(* Xray, the traffic job and restarts *)

Answers(ok) ==
  \/ ok = x.up /\ UNCHANGED faults
  \/ ~ok /\ x.up /\ faults > 0 /\ faults' = faults - 1

Tick ==
  /\ clock < MaxClock
  /\ clock' = clock + 1
  /\ UNCHANGED <<inb, row, x, flag, job, req, form, budget>>

Counted(counters, c) ==
  [inbound |-> counters.inbound + 1,
   clients |-> Put(counters.clients, c,
                   1 + IF c \in DOMAIN counters.clients
                         THEN counters.clients[c] ELSE 0)]

(* A served client moves a unit of traffic; Xray makes its counter. *)
Use(c) ==
  /\ x.up
  /\ c \in x.served
  /\ fuel > 0
  /\ fuel' = fuel - 1
  /\ x' = [x EXCEPT !.live = Counted(@, c)]
  /\ UNCHANGED <<inb, row, flag, job, req, form, clock, faults, requests>>

Crash ==
  /\ x.up
  /\ faults > 0
  /\ faults' = faults - 1
  /\ x' = [x EXCEPT !.up = FALSE, !.hosted = FALSE, !.served = {},
                    !.live = NoCounters]
  /\ UNCHANGED <<inb, row, flag, job, req, form, clock, fuel, requests>>

(* Mistake: the counters are read without reset. *)
ReadsWithoutReset ==
  /\ x.up
  /\ ~reading
  /\ reading' = TRUE
  /\ batch' = x.live
  /\ UNCHANGED <<inb, row, x, flag, req, form, clock, budget>>

Zeroed(counters) ==
  [inbound |-> 0, clients |-> [c \in DOMAIN counters.clients |-> 0]]

(* XrayTrafficJob reads every counter and sets it to zero. *)
ReadCounters ==
  /\ x.up
  /\ ~reading
  /\ reading' = TRUE
  /\ batch' = x.live
  /\ x' = [x EXCEPT !.live = Zeroed(@)]
  /\ UNCHANGED <<inb, row, flag, req, form, clock, budget>>

(* The transaction of AddTraffic, with its API calls. *)
CommitTraffic ==
  /\ reading
  /\ \E ok \in BOOLEAN :
       Answers(ok) /\ Becomes(AddTraffic(World, batch, ok))
  /\ reading' = FALSE
  /\ batch' = NoCounters
  /\ UNCHANGED <<req, form, clock, fuel, requests>>

(* It fails before it calls anybody; the job logs that. *)
LoseTraffic ==
  /\ reading
  /\ faults > 0
  /\ faults' = faults - 1
  /\ reading' = FALSE
  /\ batch' = NoCounters
  /\ UNCHANGED <<inb, row, x, flag, req, form, clock, fuel, requests>>

(* GetXrayConfig first calls AddTraffic without traffic and discards what   *)
(* it says of a restart. *)
Settled(ok) == [AddTraffic(World, NoCounters, ok) EXCEPT !.flag = flag]

Load(w) ==
  LET conf == Config(w.inb, w.row)
  IN [w EXCEPT !.x = [up |-> TRUE, hosted |-> conf.hosted,
                      served |-> conf.served, conf |-> conf,
                      live |-> NoCounters]]

(* RestartXray(true), and the watchdog's restart of an Xray that is down. *)
Restart ==
  /\ x.up => requests > 0
  /\ requests' = IF x.up THEN requests - 1 ELSE requests
  /\ \E ok \in BOOLEAN : Answers(ok) /\ Becomes(Load(Settled(ok)))
  /\ UNCHANGED <<job, req, form, clock, fuel>>

(* Every 30 seconds web.go takes the flag and asks for a restart, which is  *)
(* skipped if the configuration is the one Xray was started with.           *)
RestartIfNeeded ==
  /\ flag
  /\ \E ok \in BOOLEAN :
       LET w == [Settled(ok) EXCEPT !.flag = FALSE]
       IN /\ Answers(ok)
          /\ Becomes(IF x.up /\ x.conf = Config(w.inb, w.row) THEN w ELSE Load(w))
  /\ UNCHANGED <<job, req, form, clock, fuel, requests>>

-----------------------------------------------------------------------------
(* Requests: Ask... is what a handler reads before it writes, the other     *)
(* actions are the rest of it. `seen' is the inbound it has read.           *)

Ask(r) ==
  /\ req = Idle
  /\ requests > 0
  /\ requests' = requests - 1
  /\ req' = r
  /\ UNCHANGED <<inb, row, x, flag, job, form, clock, fuel, faults>>

(* A handler ends and leaves w; the controller sets the flag if asked to. *)
End(w) ==
  /\ Becomes(w)
  /\ req' = Idle
  /\ UNCHANGED <<job, form, clock, fuel, requests>>

Fails == End(World) /\ UNCHANGED faults

AskAdd ==
  \E c \in Emails \ DOMAIN inb.ent, d \in Clients :
    inb.there /\ Ask([kind |-> "add", email |-> c, client |-> d, seen |-> inb])

(* AddInboundClient.  The error of AddClientStat, if there is a row of that *)
(* email already, is ignored.                                               *)
AddInboundClient ==
  /\ req.kind = "add"
  /\ LET c == req.email
         d == req.client
         v == IF c \in DOMAIN row THEN World
              ELSE [World EXCEPT !.row = Put(@, c, AddClientStat(d))]
     IN \E ok \in BOOLEAN :
          LET w == AddUsers(v, IF d.enable THEN {c} ELSE {}, ok)
          IN /\ Answers(ok)
             /\ End([w EXCEPT !.inb = [req.seen EXCEPT !.ent = Put(@, c, d)]])

AskUpdateClient ==
  \E c \in DOMAIN inb.ent, d \in Clients :
    \E to \in {c} \cup (Emails \ DOMAIN inb.ent) :
      Ask([kind |-> "edit", email |-> c, to |-> to, client |-> d, seen |-> inb])

(* UpdateInboundClient, which may rename the client.  It removes the user   *)
(* from Xray only if the entry it read was enabled.                         *)
UpdateInboundClient ==
  /\ req.kind = "edit"
  /\ LET c == req.email
         d == req.client
         v == IF c \in DOMAIN row
                THEN [World EXCEPT !.row = Put(Without(@, {c}), req.to,
                                               UpdateClientStat(@[c], d))]
                ELSE World
         old == IF req.seen.ent[c].enable THEN {c} ELSE {}
         new == IF d.enable THEN {req.to} ELSE {}
     IN IF c \in DOMAIN row /\ req.to # c /\ req.to \in DOMAIN row
          THEN Fails
          ELSE \E ok \in BOOLEAN :
                 LET w == AddUsers(RemoveUsers(v, old, ok), new, ok)
                 IN /\ Answers(ok)
                    /\ End([w EXCEPT !.inb =
                         [req.seen EXCEPT !.ent = Put(Without(@, {c}), req.to, d)]])

AskDelClient ==
  \E c \in DOMAIN inb.ent :
    DOMAIN inb.ent # {c} /\ Ask([kind |-> "del", email |-> c, seen |-> inb])

(* DelInboundClient has no transaction: it deletes the row and removes the  *)
(* user from Xray, then saves the inbound.                                  *)
DelClientStat ==
  /\ req.kind = "del"
  /\ LET c == req.email
         off == req.seen.ent[c].enable /\ row[c].enable
         v == [World EXCEPT !.row = Without(@, {c})]
     IN IF c \notin DOMAIN row
          THEN Fails
          ELSE \E ok \in BOOLEAN :
                 LET w == RemoveUsers([v EXCEPT !.flag = FALSE],
                                      IF off THEN {c} ELSE {}, ok)
                 IN /\ Answers(ok)
                    /\ Becomes([w EXCEPT !.flag = flag])
                    /\ req' = [kind |-> "delSave", email |-> c,
                               seen |-> req.seen, restart |-> w.flag]
                    /\ UNCHANGED <<job, form, clock, fuel, requests>>

(* Mistake: the inbound is saved as it was read. *)
SavesWithClient ==
  /\ req.kind = "delSave"
  /\ End([World EXCEPT !.inb = req.seen, !.flag = @ \/ req.restart])
  /\ UNCHANGED faults

SaveWithoutClient ==
  /\ req.kind = "delSave"
  /\ End([World EXCEPT !.inb = [req.seen EXCEPT !.ent = Without(@, {req.email})],
                       !.flag = @ \/ req.restart])
  /\ UNCHANGED faults

AskResetClient ==
  \E c \in DOMAIN inb.ent \cap DOMAIN row :
    Ask([kind |-> "reset", email |-> c, seen |-> row[c]])

(* ResetClientTraffic saves the whole row it read. *)
ResetClientTraffic ==
  /\ req.kind = "reset"
  /\ LET c == req.email
         back == ~req.seen.enable /\ c \in DOMAIN inb.ent /\ inb.ent[c].enable
     IN \E ok \in BOOLEAN :
          LET w == AddUsers(World, IF back THEN {c} ELSE {}, ok)
          IN /\ Answers(ok)
             /\ End([w EXCEPT !.row =
                       Put(@, c, [req.seen EXCEPT !.used = 0, !.enable = TRUE])])

(* DelDepletedClients finds the depleted clients, then removes them from    *)
(* the inbound and deletes the rows that are depleted by then.  It tells    *)
(* Xray only when it deletes the inbound with its last client.              *)
DepletedForGood(now) ==
  {c \in DOMAIN row : row[c].reset = 0 /\ Depleted(row[c], now)}

AskDelDepleted ==
  inb.there /\ Ask([kind |-> "depleted", emails |-> DepletedForGood(clock),
                    now |-> clock, seen |-> inb])

NoInbound ==
  [there |-> FALSE, on |-> FALSE, total |-> 0, used |-> 0, ent |-> NoClients]

(* DelInbound tells Xray first, then deletes rows and inbound. *)
DelInbound(w, ok) ==
  LET v == IF w.inb.on
             THEN IF ok /\ w.x.hosted THEN DropInbound(w, ok)
                                      ELSE [w EXCEPT !.flag = TRUE]
             ELSE w
  IN [v EXCEPT !.row = NoClients, !.inb = NoInbound]

DelDepletedClients ==
  /\ req.kind = "depleted"
  /\ LET left == Without(req.seen.ent, req.emails)
         rows == Without(row, DepletedForGood(req.now))
     IN \/ /\ req.emails = {} \/ DOMAIN left # {}
           /\ End([World EXCEPT
                     !.row = rows,
                     !.inb = IF req.emails = {} THEN @
                             ELSE [req.seen EXCEPT !.ent = left]])
           /\ UNCHANGED faults
        \/ /\ req.emails # {} /\ DOMAIN left = {}
           /\ \E ok \in BOOLEAN :
                /\ Answers(ok)
                /\ End([DelInbound(World, ok) EXCEPT !.flag = flag])

(* The page loads the inbound to edit it; the form is sent much later. *)
OpenForm ==
  /\ inb.there
  /\ requests > 0
  /\ form = NoInbound
  /\ form' = inb
  /\ UNCHANGED <<inb, row, x, flag, job, req, clock, budget>>

AskUpdateInbound ==
  /\ form.there
  /\ inb.there
  /\ req = Idle
  /\ requests > 0
  /\ requests' = requests - 1
  /\ \E on \in BOOLEAN :
       req' = [kind |-> "update", form |-> [form EXCEPT !.on = on], seen |-> inb]
  /\ form' = NoInbound
  /\ UNCHANGED <<inb, row, x, flag, job, clock, fuel, faults>>

(* UpdateInbound makes the inbound what the form says, counters and clients *)
(* included; rows come and go with the emails. That Xray could not be told  *)
(* to drop the old inbound counts for nothing.                              *)
UpdateInbound ==
  /\ req.kind = "update"
  /\ LET f == req.form
         gone == DOMAIN req.seen.ent \ DOMAIN f.ent
         new == DOMAIN f.ent \ DOMAIN req.seen.ent
         kept == Without(row, gone)
         rows == [c \in DOMAIN kept \cup new |->
                    IF c \in DOMAIN kept THEN kept[c] ELSE AddClientStat(f.ent[c])]
         v == [World EXCEPT !.row = rows, !.inb = f]
     IN IF new \cap DOMAIN kept # {}
          THEN Fails
          ELSE \E ok \in BOOLEAN :
                 LET w == DropInbound(v, ok)
                 IN /\ Answers(ok)
                    /\ End(IF f.on THEN HostInbound(w, Eligible(f.ent, rows), ok)
                                   ELSE w)

AskSetEnable ==
  inb.there /\ Ask([kind |-> "switch", on |-> ~inb.on, seen |-> inb])

(* SetInboundEnable writes one column and hosts the clients it read. *)
SetInboundEnable ==
  /\ req.kind = "switch"
  /\ \E ok \in BOOLEAN :
       LET v == [World EXCEPT !.inb.on = req.on, !.flag = @ \/ ~ok]
           w == DropInbound(v, ok)
       IN /\ Answers(ok)
          /\ End(IF req.on THEN HostInbound(w, Eligible(req.seen.ent, row), ok)
                           ELSE w)

(* Requests of one step. *)
Request ==
  /\ req = Idle
  /\ requests > 0
  /\ requests' = requests - 1
  /\ UNCHANGED <<job, req, form, clock, fuel>>

AddInbound ==
  /\ Request
  /\ ~inb.there
  /\ \E S \in SUBSET Emails \ {{}}, p \in Plans, t \in Totals, ok \in BOOLEAN :
       LET ent == [c \in S |-> Client(p, TRUE)]
           rows == [c \in S |-> AddClientStat(ent[c])]
           w == [World EXCEPT !.row = rows,
                              !.inb = [there |-> TRUE, on |-> TRUE, total |-> t,
                                       used |-> 0, ent |-> ent]]
       IN Answers(ok) /\ Becomes(HostInbound(w, S, ok))

DeleteInbound ==
  /\ Request
  /\ inb.there
  /\ \E ok \in BOOLEAN : Answers(ok) /\ Becomes(DelInbound(World, ok))

(* ResetAllClientTraffics, whose controller asks for a restart. *)
ResetAllClientTraffics ==
  /\ Request
  /\ Becomes([World EXCEPT !.row = Afresh(@, DOMAIN @), !.flag = TRUE])
  /\ UNCHANGED faults

(* PeriodicTrafficResetJob does the same and resets the inbound; it asks    *)
(* for nothing.                                                             *)
PeriodicTrafficReset ==
  /\ requests > 0
  /\ requests' = requests - 1
  /\ Becomes([World EXCEPT !.row = Afresh(@, DOMAIN @), !.inb.used = 0])
  /\ UNCHANGED <<job, req, form, clock, fuel, faults>>

(* UpdateClientTrafficByEmail *)
UpdateClientTraffic ==
  /\ Request
  /\ \E c \in DOMAIN row, v \in 0 .. 1 :
       Becomes([World EXCEPT
                  !.row[c].used = v,
                  !.row[c].all = IF @ < v THEN v ELSE @])
  /\ UNCHANGED faults

-----------------------------------------------------------------------------
Init ==
  \E S \in SUBSET Emails : \E plan \in [S -> Plans], t \in Totals :
    LET ent == [c \in S |-> Client(plan[c], TRUE)]
    IN /\ inb = IF S = {} THEN NoInbound
                ELSE [there |-> TRUE, on |-> TRUE, total |-> t, used |-> 0,
                      ent |-> ent]
       /\ row = [c \in S |-> AddClientStat(ent[c])]
       /\ x = [up |-> TRUE, hosted |-> S # {}, served |-> S, live |-> NoCounters,
               conf |-> [hosted |-> S # {}, served |-> S]]
       /\ flag = FALSE
       /\ reading = FALSE
       /\ batch = NoCounters
       /\ req = Idle
       /\ form = NoInbound
       /\ clock = 1
       /\ fuel = MaxFuel
       /\ faults = MaxFaults
       /\ requests = MaxRequests

Requesting ==
  \/ AskAdd \/ AskUpdateClient \/ AskDelClient \/ AskResetClient
  \/ AskDelDepleted \/ AskUpdateInbound \/ AskSetEnable
  \/ AddInbound \/ DeleteInbound \/ ResetAllClientTraffics \/ UpdateClientTraffic

Writing ==
  \/ AddInboundClient \/ UpdateInboundClient \/ DelClientStat
  \/ SaveWithoutClient \/ ResetClientTraffic \/ DelDepletedClients
  \/ UpdateInbound \/ SetInboundEnable

Next ==
  \/ Tick \/ Crash \/ ReadCounters \/ CommitTraffic \/ LoseTraffic
  \/ Restart \/ RestartIfNeeded \/ OpenForm \/ PeriodicTrafficReset
  \/ Requesting \/ Writing
  \/ \E c \in Emails : Use(c)

Spec == Init /\ [][Next]_vars

-----------------------------------------------------------------------------
IsTable(f, T) == DOMAIN f \subseteq Emails /\ f \in [DOMAIN f -> T]

IsInbound(i) ==
  /\ i \in [there : BOOLEAN, on : BOOLEAN, total : Nat, used : Nat, ent : {i.ent}]
  /\ IsTable(i.ent, ClientType)

AreCounters(n) ==
  /\ n \in [inbound : Nat, clients : {n.clients}]
  /\ IsTable(n.clients, Nat)

IsXray(y) ==
  /\ y \in [up : BOOLEAN, hosted : BOOLEAN, served : SUBSET Emails,
            conf : [hosted : BOOLEAN, served : SUBSET Emails], live : {y.live}]
  /\ AreCounters(y.live)

(* The types of the database and of Xray. *)
TypeOK ==
  /\ IsInbound(inb)
  /\ IsInbound(form)
  /\ IsTable(row, RowType)
  /\ IsXray(x)
  /\ {flag, reading} \subseteq BOOLEAN
  /\ AreCounters(batch)
  /\ {clock, fuel, faults, requests} \subseteq Nat

Metered(c) == c \in DOMAIN row /\ row[c].enable

(* Clients whose entry has no row: nothing is charged to them. *)
Unmetered == DOMAIN inb.ent \ DOMAIN row

BeingDeleted(c) == req.kind = "delSave" /\ req.email = c

(* A restart is asked for, or will be when the handler returns. *)
WillRestart == flag \/ (req.kind = "delSave" /\ req.restart)

(* The handler is about to save an inbound that has changed since it read   *)
(* it, or to delete other rows than it has found.                           *)
Overtaken ==
  \/ /\ req.kind \in {"add", "edit", "delSave", "depleted", "update", "switch"}
     /\ req.seen # inb
  \/ /\ req.kind = "depleted"
     /\ req.emails # DepletedForGood(req.now)

(* Where the code lets a client go on.  DelDepletedClients does not call    *)
(* Xray; a handler that finds the entry disabled believes Xray does not     *)
(* serve the client, though autoRenewClients may have given it back; a new  *)
(* client gets the row left by an old one, disabled or not; and that Xray   *)
(* does not drop an inbound matters neither to UpdateInbound nor, if the    *)
(* inbound is disabled, to DelInbound.                                      *)
Overlooked(c) ==
  /\ req' # req
  /\ \/ req.kind = "depleted"
     \/ req.kind = "edit" /\ req.email \in Unmetered
     \/ /\ req.kind \in {"del", "edit"}
        /\ req.email = c
        /\ ~req.seen.ent[c].enable
     \/ req.kind = "add" /\ req.email = c /\ c \in DOMAIN row
     \/ req.kind = "update" /\ ~req.form.on

(* What a step owes to whom it leaves served. *)
EveryRideIsPaid ==
  \A c \in x'.served :
    \/ Metered(c)'
    \/ WillRestart'
    \/ c \in x.served /\ ~Metered(c)
    \/ c \in Unmetered
    \/ Overlooked(c)
    \/ RestartIfNeeded /\ x'.conf = x.conf
    \/ DeleteInbound /\ ~inb.on

(* Nobody is served for free: no step starts to serve a client whose row is *)
(* gone or disabled, or takes or disables the row of a client that stays    *)
(* served, unless a restart is asked for.  Excepted are the places above,   *)
(* the restart that is skipped because the configuration is the one Xray    *)
(* started with, a disabled inbound deleted, and a client that has an entry *)
(* without a row.                                                           *)
NoFreeRide == [][EveryRideIsPaid]_vars

(* The clients the next configuration of Xray would hold. *)
Entitled == {c \in Config(inb, row).served : ~BeingDeleted(c)}

(* What a step owes to whom it leaves entitled. *)
TheEntitledAreServed ==
  x'.up =>
    \A c \in Entitled' :
      \/ c \in x'.served
      \/ WillRestart'
      \/ x.up /\ c \in Entitled \ x.served
      \/ Overtaken
      \/ PeriodicTrafficReset
      \/ RestartIfNeeded

(* Nobody is left out: no step withdraws a client from the running Xray, or *)
(* grants it access in the database only, without asking for a restart.     *)
(* Excepted are a handler that writes back what it read before somebody     *)
(* changed it, the periodic reset, which asks for nothing, and the restart  *)
(* that is skipped because the configuration is the one Xray started with.  *)
NobodyLeftOut == [][TheEntitledAreServed]_vars

(* Why an entry may be without its row after a step. *)
NoRowIsLost ==
  \A c \in Unmetered' :
    \/ c \in Unmetered /\ ~BeingDeleted(c)
    \/ BeingDeleted(c)'
    \/ req.kind = "edit" /\ req.email \in Unmetered
    \/ req.kind = "depleted" /\ req.emails # DepletedForGood(req.now)

(* No step leaves an entry without its row, which would never be charged,   *)
(* expire or be deletable, but the deletion of a client half done, the      *)
(* renaming of a client that had none, and a deletion of depleted clients   *)
(* that the traffic job overtakes.                                          *)
EntriesHaveRows == [][NoRowIsLost]_vars

(* What a pass of the job does to the depleted. *)
ThePassEnforcesLimits ==
  reading /\ ~reading' /\ CommitTraffic =>
    \A c \in DOMAIN row' :
      Depleted(row'[c], clock) =>
        /\ ~row'[c].enable
        /\ c \in x'.served => WillRestart' \/ ~Metered(c)

(* Each pass of the traffic job leaves no client enabled that is over its   *)
(* quota or its date, counting the traffic and the renewals of that very    *)
(* pass, and none of those it disables served, unless it asks for a restart.*)
LimitsAreEnforced == [][ThePassEnforcesLimits]_vars

(* How a step that is no handler's may move a date. *)
DatesMoveByPeriods ==
  req' = req =>
    \A c \in DOMAIN row \cap DOMAIN row' :
      LET old == row[c]
          new == row'[c].expiry
      IN new # old.expiry =>
           /\ c \in DOMAIN inb'.ent
           /\ inb'.ent[c].expiry = new
           /\ old.expiry >= 0 => /\ Expired(old, clock)
                                 /\ old.reset > 0
                                 /\ (new - old.expiry) % old.reset = 0
                                 /\ new \in clock .. clock + old.reset - 1

(* The date of a client moves, in row and entry alike, by whole periods,    *)
(* when it has come and to the first date not past; or it is set at the     *)
(* first use.  Only handlers set it otherwise.                              *)
KeepsPeriods == [][DatesMoveByPeriods]_vars

(* What Xray has carried for a client is in Xray's counter, in the batch of *)
(* the job or in the row: once, and until somebody takes it away.           *)
At(f, c) == IF c \in DOMAIN f THEN f[c] ELSE 0
Ledger(c) == At(x.live.clients, c) + At(batch.clients, c) + row[c].all

(* Which steps may change what is on record of a client. *)
TheLedgerIsKept ==
  \A c \in DOMAIN row \cap DOMAIN row' :
    \/ Ledger(c)' = Ledger(c)
    \/ Use(c)
    \/ x.live # NoCounters /\ x'.live = NoCounters
    \/ LoseTraffic
    \/ req.kind = "reset" /\ req.email = c /\ req.seen # row[c]
    \/ UpdateClientTraffic

(* No traffic is charged twice, and none is lost but with an Xray that ends,*)
(* a transaction that fails and a reset that saves a row read before the    *)
(* job changed it.                                                          *)
TrafficIsKept == [][TheLedgerIsKept]_vars

=============================================================================
