---------------------- MODULE ClientAccountingStepProofs ----------------------
(***************************************************************************)
(* What the steps of ClientAccounting may never do: the six action         *)
(* properties, from the invariant and the effects of the handlers that     *)
(* ClientAccountingProofs shows.  Each comes in a lemma about the writes   *)
(* of the handlers, one about all steps, and the theorem.                  *)
(***************************************************************************)
EXTENDS ClientAccountingProofs

(* What each action leaves alone, for the properties of its steps. *)
Quiet == UNCHANGED <<inb, row, x, flag, reading, batch>>

(* A handler that reads changes nothing yet.                                *)
LEMMA AskQuiet ==
  ASSUME AskAdd \/ AskUpdateClient \/ AskDelClient \/ AskResetClient
         \/ AskDelDepleted \/ AskUpdateInbound \/ AskSetEnable
  PROVE  Quiet /\ req = Idle /\ req'.kind # "delSave"
<1>1. \A r : Ask(r) => Quiet /\ req = Idle /\ req' = r
  BY DEF Ask, job, Quiet
<1>2. CASE AskAdd BY <1>1, <1>2 DEF AskAdd
<1>3. CASE AskUpdateClient BY <1>1, <1>3 DEF AskUpdateClient
<1>4. CASE AskDelClient BY <1>1, <1>4 DEF AskDelClient
<1>5. CASE AskResetClient BY <1>1, <1>5 DEF AskResetClient
<1>6. CASE AskDelDepleted BY <1>1, <1>6 DEF AskDelDepleted
<1>7. CASE AskUpdateInbound BY <1>7 DEF AskUpdateInbound, job, Quiet
<1>8. CASE AskSetEnable BY <1>1, <1>8 DEF AskSetEnable
<1>9. QED BY <1>2, <1>3, <1>4, <1>5, <1>6, <1>7, <1>8

(* A handler that fails changes nothing.                                    *)
LEMMA FailsQuiet ==
  ASSUME Fails
  PROVE  Quiet /\ req' = Idle
BY DEF Fails, End, Becomes, World, job, Quiet

LEMMA TickQuiet ==
  ASSUME Tick \/ OpenForm \/ UNCHANGED vars
  PROVE  Quiet /\ req' = req
BY DEF Tick, OpenForm, job, vars, Quiet

LEMMA WorldFields ==
  /\ World.inb = inb /\ World.row = row /\ World.x = x /\ World.flag = flag
  /\ World'.inb = inb' /\ World'.row = row' /\ World'.x = x' /\ World'.flag = flag'
BY DEF World

-----------------------------------------------------------------------------
(* Entries have rows *)

(* Where no client and no row comes or goes there is nothing to show.        *)
LEMMA SameRows ==
  ASSUME DOMAIN inb'.ent = DOMAIN inb.ent, DOMAIN row' = DOMAIN row,
         req' = req \/ req.kind # "delSave"
  PROVE  NoRowIsLost
BY DEF NoRowIsLost, Unmetered, BeingDeleted

(* One case per write of a handler.                                         *)
LEMMA HandlersKeepRows ==
  ASSUME IInv, Writing
  PROVE  NoRowIsLost
<1>1. /\ IsInbound(inb) /\ IsTable(row, RowType)
      /\ World.inb = inb /\ World.row = row /\ World'.inb = inb' /\ World'.row = row'
  BY WorldOK, WorldFields DEF IInv
<1>2. CASE AddInboundClient
  <2>1. PICK ok \in BOOLEAN : Added(World', World, req, ok)
    BY <1>2, AddInboundClientOK
  <2>2. req.kind = "add" BY <1>2 DEF AddInboundClient
  <2>3. IsInbound(req.seen) /\ DOMAIN req.seen.ent = DOMAIN inb.ent
    BY <2>2 DEF IInv, RequestOK, Handlers
  <2>4. DOMAIN inb'.ent = DOMAIN inb.ent \cup {req.email}
    BY <1>1, <2>1, <2>3 DEF Added, Put, IsInbound
  <2>5. DOMAIN row' = DOMAIN row \cup {req.email}
    BY <1>1, <2>1 DEF Added, Put
  <2>6. QED BY <2>2, <2>4, <2>5 DEF NoRowIsLost, Unmetered, BeingDeleted
<1>3. CASE UpdateInboundClient
  <2>1. req.kind = "edit" BY <1>3 DEF UpdateInboundClient
  <2>2. IsInbound(req.seen) /\ DOMAIN req.seen.ent = DOMAIN inb.ent
        /\ req.email \in DOMAIN inb.ent
    BY <2>1 DEF IInv, RequestOK, Handlers
  <2>3. CASE Fails
    <3>1. Quiet BY <2>3, FailsQuiet
    <3>2. QED BY <2>1, <3>1, SameRows DEF Quiet
  <2>4. ASSUME NEW ok \in BOOLEAN, Edited(World', World, req, ok)
        PROVE  NoRowIsLost
    <3>1. DOMAIN inb'.ent = (DOMAIN inb.ent \ {req.email}) \cup {req.to}
      BY <1>1, <2>2, <2>4 DEF Edited, Renamed, Put, Without, IsInbound
    <3>2. CASE req.email \in DOMAIN row
      <4>1. DOMAIN row' = (DOMAIN row \ {req.email}) \cup {req.to}
        BY <1>1, <2>4, <3>2 DEF Edited, Put, Without
      <4>2. QED BY <2>1, <3>1, <4>1 DEF NoRowIsLost, Unmetered, BeingDeleted
    <3>3. CASE req.email \notin DOMAIN row
      BY <2>1, <2>2, <3>3 DEF NoRowIsLost, Unmetered
    <3>4. QED BY <3>2, <3>3
  <2>5. QED BY <1>3, <2>3, <2>4, UpdateInboundClientOK
<1>4. CASE DelClientStat
  <2>1. req.kind = "del" BY <1>4 DEF DelClientStat
  <2>2. CASE Fails
    <3>1. Quiet BY <2>2, FailsQuiet
    <3>2. QED BY <2>1, <3>1, SameRows DEF Quiet
  <2>3. ASSUME NEW ok \in BOOLEAN, Deleted(World', World, req, req', ok)
        PROVE  NoRowIsLost
    <3>1. inb' = inb /\ DOMAIN row' = DOMAIN row \ {req.email}
      BY <1>1, <2>3 DEF Deleted, Without
    <3>2. req'.kind = "delSave" /\ req'.email = req.email
      BY <2>3 DEF Deleted
    <3>3. QED BY <2>1, <3>1, <3>2 DEF NoRowIsLost, Unmetered, BeingDeleted
  <2>4. QED BY <1>4, <2>2, <2>3, DelClientStatOK
<1>5. CASE SaveWithoutClient
  <2>1. Saved(World', World, req) BY <1>5, SaveWithoutClientOK
  <2>2. req.kind = "delSave" BY <1>5 DEF SaveWithoutClient
  <2>3. IsInbound(req.seen) /\ DOMAIN req.seen.ent = DOMAIN inb.ent
    BY <2>2 DEF IInv, RequestOK, Handlers
  <2>4. DOMAIN inb'.ent = DOMAIN inb.ent \ {req.email} /\ row' = row
    BY <1>1, <2>1, <2>3 DEF Saved, Without, IsInbound
  <2>5. QED BY <2>4 DEF NoRowIsLost, Unmetered, BeingDeleted
<1>6. CASE ResetClientTraffic
  <2>1. PICK ok \in BOOLEAN : Reset(World', World, req, ok)
    BY <1>6, ResetClientTrafficOK
  <2>2. req.kind = "reset" BY <1>6 DEF ResetClientTraffic
  <2>3. inb' = inb /\ DOMAIN row' = DOMAIN row \cup {req.email}
    BY <1>1, <2>1 DEF Reset, Put
  <2>4. QED BY <2>2, <2>3 DEF NoRowIsLost, Unmetered, BeingDeleted
<1>7. CASE DelDepletedClients
  <2>1. req.kind = "depleted" BY <1>7 DEF DelDepletedClients
  <2>2. IsInbound(req.seen) /\ DOMAIN req.seen.ent = DOMAIN inb.ent
    BY <2>1 DEF IInv, RequestOK, Handlers
  <2>3. CASE Pruned(World', World, req)
    <3>1. DOMAIN row' = DOMAIN row \ DepletedForGood(req.now)
      BY <1>1, <2>3 DEF Pruned, Without
    <3>2. DOMAIN inb'.ent = DOMAIN inb.ent \ req.emails
      BY <1>1, <2>2, <2>3 DEF Pruned, Without, IsInbound
    <3>3. QED BY <2>1, <3>1, <3>2 DEF NoRowIsLost, Unmetered, BeingDeleted
  <2>4. CASE InboundDeleted(World', World)
    <3>1. DOMAIN inb'.ent = {}
      BY <1>1, <2>4, NoInboundOK, NoClientsOK DEF InboundDeleted
    <3>2. QED BY <3>1 DEF NoRowIsLost, Unmetered
  <2>5. QED BY <1>7, <2>3, <2>4, DelDepletedClientsOK
<1>8. CASE UpdateInbound
  <2>1. req.kind = "update" BY <1>8 DEF UpdateInbound
  <2>2. DOMAIN req.seen.ent = DOMAIN inb.ent
    BY <2>1 DEF IInv, RequestOK, Handlers
  <2>3. CASE Fails
    <3>1. Quiet BY <2>3, FailsQuiet
    <3>2. QED BY <2>1, <3>1, SameRows DEF Quiet
  <2>4. ASSUME NEW ok \in BOOLEAN, Updated(World', World, req, ok)
        PROVE  NoRowIsLost
    <3>1. inb'.ent = req.form.ent BY <1>1, <2>4 DEF Updated
    <3>2. DOMAIN row' = (DOMAIN row \ (DOMAIN inb.ent \ DOMAIN req.form.ent))
                          \cup (DOMAIN req.form.ent \ DOMAIN inb.ent)
      BY <1>1, <2>2, <2>4 DEF Updated, Kept, Come, Without
    <3>3. QED BY <2>1, <3>1, <3>2 DEF NoRowIsLost, Unmetered, BeingDeleted
  <2>5. QED BY <1>8, <2>3, <2>4, UpdateInboundOK
<1>9. CASE SetInboundEnable
  <2>1. PICK ok \in BOOLEAN : Switched(World', World, req, ok)
    BY <1>9, SetInboundEnableOK
  <2>2. req.kind = "switch" BY <1>9 DEF SetInboundEnable
  <2>3. inb'.ent = inb.ent /\ row' = row
    BY <1>1, <2>1 DEF Switched, IsInbound
  <2>4. QED BY <2>2, <2>3, SameRows
<1>10. QED
  BY <1>2, <1>3, <1>4, <1>5, <1>6, <1>7, <1>8, <1>9 DEF Writing

(* The other actions leave the tables their keys, or make both anew.        *)
LEMMA StepsKeepRows == IInv /\ [Next]_vars => NoRowIsLost
<1> SUFFICES ASSUME IInv, [Next]_vars PROVE NoRowIsLost OBVIOUS
<1>1. World.inb = inb /\ World.row = row /\ World'.inb = inb' /\ World'.row = row'
  BY WorldFields
<1>2. CASE Tick \/ OpenForm \/ UNCHANGED vars
  <2>1. Quiet /\ req' = req BY <1>2, TickQuiet
  <2>2. QED BY <2>1, SameRows DEF Quiet
<1>3. CASE Crash BY <1>3, SameRows DEF Crash
<1>4. CASE ReadCounters BY <1>4, SameRows DEF ReadCounters
<1>5. CASE CommitTraffic
  <2>1. PICK ok, a, b, d : ok \in BOOLEAN /\ Passes(a, b, d, World', World, batch, ok)
    BY <1>5, CommitTrafficOK
  <2>2. Keeps(World', World) BY <2>1, PassesKeep
  <2>3. req' = req BY <1>5 DEF CommitTraffic
  <2>4. QED BY <1>1, <2>2, <2>3, SameRows DEF Keeps
<1>6. CASE LoseTraffic BY <1>6, SameRows DEF LoseTraffic
<1>7. CASE Restart
  <2>1. PICK ok, u : ok \in BOOLEAN /\ Settles(u, World, ok) /\ Reloaded(World', u)
    BY <1>7, RestartOK
  <2>2. req' = req BY <1>7 DEF Restart
  <2>3. QED BY <1>1, <2>1, <2>2, SameRows DEF Settles, Keeps, Reloaded
<1>8. CASE RestartIfNeeded
  <2>1. PICK ok, u : ok \in BOOLEAN /\ Settles(u, World, ok) /\ LoadedOrKept(World', u)
    BY <1>8, RestartIfNeededOK
  <2>2. req' = req BY <1>8 DEF RestartIfNeeded
  <2>3. QED BY <1>1, <2>1, <2>2, SameRows DEF Settles, Keeps, LoadedOrKept, Reloaded
<1>9. CASE PeriodicTrafficReset
  <2>1. inb'.ent = inb.ent /\ row' = Afresh(row, DOMAIN row) BY <1>9, PeriodicTrafficResetOK
  <2>2. req' = req BY <1>9 DEF PeriodicTrafficReset
  <2>3. QED BY <2>1, <2>2, SameRows DEF Afresh
<1>10. CASE Requesting
  <2>1. CASE AskAdd \/ AskUpdateClient \/ AskDelClient \/ AskResetClient
             \/ AskDelDepleted \/ AskUpdateInbound \/ AskSetEnable
    <3>1. Quiet /\ req = Idle BY <2>1, AskQuiet
    <3>2. QED BY <3>1, SameRows DEF Quiet, Idle
  <2>2. CASE AddInbound
    <3>1. PICK S, ent : InboundAdded(World', World, S, ent) BY <2>2, AddInboundOK
    <3>2. DOMAIN inb'.ent = DOMAIN row' BY <1>1, <3>1 DEF InboundAdded
    <3>3. QED BY <3>2 DEF NoRowIsLost, Unmetered
  <2>3. CASE DeleteInbound
    <3>1. InboundDeleted(World', World) BY <2>3, DeleteInboundOK
    <3>2. DOMAIN inb'.ent = {}
      BY <1>1, <3>1, NoInboundOK, NoClientsOK DEF InboundDeleted
    <3>3. QED BY <3>2 DEF NoRowIsLost, Unmetered
  <2>4. CASE ResetAllClientTraffics
    <3>1. inb' = inb /\ row' = Afresh(row, DOMAIN row) BY <2>4, ResetAllOK
    <3>2. req' = req BY <2>4 DEF ResetAllClientTraffics, Request
    <3>3. QED BY <3>1, <3>2, SameRows DEF Afresh
  <2>5. CASE UpdateClientTraffic
    <3>1. inb' = inb /\ DOMAIN row' = DOMAIN row BY <2>5, UpdateClientTrafficOK
    <3>2. req' = req BY <2>5 DEF UpdateClientTraffic, Request
    <3>3. QED BY <3>1, <3>2, SameRows
  <2>6. QED BY <1>10, <2>1, <2>2, <2>3, <2>4, <2>5 DEF Requesting
<1>11. CASE Writing BY <1>11, HandlersKeepRows
<1>12. CASE \E c \in Emails : Use(c) BY <1>12, SameRows DEF Use
<1>13. QED
  BY <1>2, <1>3, <1>4, <1>5, <1>6, <1>7, <1>8, <1>9, <1>10, <1>11, <1>12 DEF Next

(* No step leaves an entry without its row, but a deletion under way and    *)
(* the steps EntriesHaveRows names.                                         *)
THEOREM RowsAreKept == Spec => EntriesHaveRows
BY StepsKeepRows, Invariance, PTL DEF Spec, EntriesHaveRows

-----------------------------------------------------------------------------
(* Limits *)

(* After the passes a depleted row is disabled, and its client out of Xray  *)
(* or a restart due.                                                        *)
LEMMA PassEnforces == IInv /\ [Next]_vars => ThePassEnforcesLimits
<1> SUFFICES ASSUME IInv, CommitTraffic, NEW c \in DOMAIN row', Depleted(row'[c], clock)
             PROVE  /\ ~row'[c].enable
                    /\ c \in x'.served => WillRestart' \/ ~Metered(c)
  BY DEF ThePassEnforcesLimits
<1>1. PICK ok, a, b, d : ok \in BOOLEAN /\ Passes(a, b, d, World', World, batch, ok)
  BY CommitTrafficOK
<1>2. PICK v : v = World' OBVIOUS
<1>3. PICK w : w = World OBVIOUS
<1>4. v.row = row' /\ v.x = x' /\ (v.flag <=> flag') /\ w.row = row
  BY <1>2, <1>3, WorldFields
<1>5. Passes(a, b, d, v, w, batch, ok)
  BY <1>1, <1>2, <1>3
<1>6. c \in DOMAIN w.row /\ DOMAIN b.row = DOMAIN w.row
  BY <1>1, <1>4, <1>5, PassesKeep DEF Keeps
<1>7. /\ On(a.row, c) <=> On(w.row, c)
      /\ c \in Renewed(a) => On(b.row, c)
      /\ c \notin Renewed(a) => b.row[c] = a.row[c]
      /\ c \in Invalid(b) => ~On(v.row, c)
      /\ c \notin Invalid(b) => v.row[c] = b.row[c]
  BY <1>1, <1>5, <1>6, RowPasses
<1>8. CASE c \in Invalid(b)
  <2>1. ~row'[c].enable BY <1>4, <1>7, <1>8 DEF On
  <2>2. v.flag \/ c \notin v.x.served
    BY <1>1, <1>5, <1>8, UsersPass
  <2>3. QED BY <1>4, <2>1, <2>2 DEF WillRestart
<1>9. CASE c \notin Invalid(b)
  <2>1. row'[c] = b.row[c] /\ ~b.row[c].enable
    BY <1>4, <1>6, <1>7, <1>9 DEF Invalid
  <2>2. ~On(w.row, c)
    BY <1>7, <2>1 DEF On
  <2>3. QED BY <1>4, <2>1, <2>2 DEF Metered, On
<1>10. QED BY <1>8, <1>9

(* Each commit of the traffic job enforces every limit that is reached.     *)
THEOREM PassesEnforceLimits == Spec => LimitsAreEnforced
BY PassEnforces, Invariance, PTL DEF Spec, LimitsAreEnforced

-----------------------------------------------------------------------------
(* The ledger *)

LEMMA AtOK ==
  ASSUME NEW f, IsTable(f, Nat), NEW c
  PROVE  At(f, c) \in Nat
BY DEF IsTable, At

LEMMA AllOK ==
  ASSUME NEW f, IsTable(f, RowType), NEW c \in DOMAIN f
  PROVE  f[c].all \in Nat
BY DEF IsTable, RowType

(* The passes add to a row what the batch has for it, and nothing else.     *)
LEMMA AllPasses ==
  ASSUME NEW a, NEW b, NEW d, NEW v, NEW w, NEW n, NEW ok \in BOOLEAN,
         Passes(a, b, d, v, w, n, ok), NEW c \in DOMAIN w.row
  PROVE  v.row[c].all = w.row[c].all + At(n.clients, c)
<1>1. c \in DOMAIN a.row /\ c \in DOMAIN b.row
  BY PassesKeep DEF Keeps
<1>2. IsTable(w.row, RowType) /\ IsTable(a.row, RowType) /\ IsTable(b.row, RowType)
      /\ IsTable(n.clients, Nat)
  BY DEF Passes, IsWorld, AreCounters
<1>3. a.row[c].all = w.row[c].all + At(n.clients, c)
  <2>1. PICK dates : dates = StartDates(w, Seen(w, n)) OBVIOUS
  <2>2. PICK g : g = Dated(w.row, dates) OBVIOUS
  <2>3. a.row = Charged(g, n.clients)
    BY <2>1, <2>2 DEF Passes, Accounted
  <2>4. \A k \in DOMAIN dates : dates[k] \in Int
    <3>1. IsWorld(w) /\ Seen(w, n) \subseteq DOMAIN w.row /\ clock \in Nat
      BY DEF Passes, Seen
    <3>2. QED BY <2>1, <3>1, StartDatesOK
  <2>5. IsTable(g, RowType) BY <1>2, <2>2, <2>4, DatedOK
  <2>6. c \in DOMAIN g BY <2>2 DEF Dated
  <2>7. g[c].all = w.row[c].all BY <1>2, <2>2, DatedRowFields
  <2>8. a.row[c].all = g[c].all + At(n.clients, c) BY <1>2, <2>3, <2>5, <2>6, ChargedFields
  <2>9. QED BY <2>7, <2>8
<1>4. b.row[c].all = a.row[c].all
  <2>1. PICK dates : dates = NewDates(a) OBVIOUS
  <2>2. PICK g : g = Dated(a.row, dates) OBVIOUS
  <2>3. b.row = Afresh(g, Renewed(a)) BY <2>1, <2>2 DEF Passes, AutoRenewed
  <2>4. \A k \in DOMAIN dates : dates[k] \in Int
    BY <2>1, NewDatesOK DEF Passes
  <2>5. IsTable(g, RowType) BY <1>2, <2>2, <2>4, DatedOK
  <2>6. c \in DOMAIN g BY <1>1, <2>2 DEF Dated
  <2>7. g[c].all = a.row[c].all BY <1>1, <1>2, <2>2, DatedRowFields
  <2>8. b.row[c].all = g[c].all BY <2>3, <2>5, <2>6, AfreshFields
  <2>9. QED BY <2>7, <2>8
<1>5. v.row[c].all = b.row[c].all
  <2>1. v.row = Disabled(b.row, Invalid(b))
    BY DEF Passes, ClientsDisabled, InboundsDisabled
  <2>2. QED BY <1>1, <1>2, <2>1, DisabledRowFields
<1>6. QED BY <1>3, <1>4, <1>5

(* Where neither Xray, nor the batch, nor a total changes.                  *)
LEMMA SameLedger ==
  ASSUME x'.live = x.live, batch' = batch,
         \A c \in DOMAIN row \cap DOMAIN row' :
           \/ row'[c].all = row[c].all
           \/ req.kind = "reset" /\ req.email = c /\ req.seen # row[c]
  PROVE  TheLedgerIsKept
BY DEF TheLedgerIsKept, Ledger

(* The passes that prepare a configuration charge nobody.                   *)
LEMMA SettledAll ==
  ASSUME NEW ok \in BOOLEAN, NEW u, Settles(u, World, ok), NEW c \in DOMAIN row,
         IInv
  PROVE  u.row[c].all = row[c].all
<1>1. PICK w : w = World OBVIOUS
<1>2. PICK z, a, b, d : Passes(a, b, d, z, w, NoCounters, ok) /\ u.row = z.row
  BY <1>1 DEF Settles
<1>3. w.row = row BY <1>1 DEF World
<1>4. z.row[c].all = w.row[c].all + At(NoCounters.clients, c)
  BY <1>2, <1>3, AllPasses
<1>5. At(NoCounters.clients, c) = 0
  BY NoCountersOK, NoClientsOK DEF At
<1>6. w.row[c].all \in Nat
  BY <1>3, AllOK, WorldOK DEF IInv
<1>7. QED BY <1>2, <1>3, <1>4, <1>5, <1>6

(* An Xray that ends takes its counters with it. *)
LEMMA NewLedger ==
  ASSUME x'.live = NoCounters, batch' = batch,
         \A c \in DOMAIN row \cap DOMAIN row' : row'[c].all = row[c].all
  PROVE  TheLedgerIsKept
<1>1. CASE x.live = NoCounters BY <1>1, SameLedger
<1>2. CASE x.live # NoCounters BY <1>2 DEF TheLedgerIsKept
<1>3. QED BY <1>1, <1>2

(* One case per write of a handler.                                         *)
LEMMA HandlersKeepLedger ==
  ASSUME IInv, Writing
  PROVE  TheLedgerIsKept
<1>1. /\ IsInbound(inb) /\ IsTable(row, RowType)
      /\ World.row = row /\ World'.row = row' /\ World.x = x /\ World'.x = x'
  BY WorldOK, WorldFields DEF IInv
<1>2. CASE AddInboundClient
  <2>1. PICK ok \in BOOLEAN : Added(World', World, req, ok)
    BY <1>2, AddInboundClientOK
  <2>2. batch' = batch BY <1>2 DEF AddInboundClient, End, job
  <2>3. x'.live = x.live BY <1>1, <2>1 DEF Added, Told
  <2>4. \A c \in DOMAIN row : row'[c] = row[c]
    BY <1>1, <2>1 DEF Added, Put
  <2>5. QED BY <2>2, <2>3, <2>4, SameLedger
<1>3. CASE UpdateInboundClient
  <2>1. batch' = batch BY <1>3 DEF UpdateInboundClient, End, Fails, job
  <2>2. CASE Fails
    <3>1. Quiet BY <2>2, FailsQuiet
    <3>2. QED BY <3>1, SameLedger DEF Quiet
  <2>3. ASSUME NEW ok \in BOOLEAN, Edited(World', World, req, ok)
        PROVE  TheLedgerIsKept
    <3>1. x'.live = x.live BY <1>1, <2>3 DEF Edited, Told
    <3>2. CASE req.email \in DOMAIN row
      <4>1. PICK s : s = UpdateClientStat(row[req.email], req.client) OBVIOUS
      <4>2. s.all = row[req.email].all
        <5>1. req.kind = "edit" BY <1>3 DEF UpdateInboundClient
        <5>2. req.client \in ClientType BY <5>1 DEF IInv, RequestOK
        <5>3. row[req.email] \in RowType BY <1>1, <3>2 DEF IsTable
        <5>4. QED BY <4>1, <5>2, <5>3, UpdateClientStatOK
      <4>3. /\ row' = Put(Without(row, {req.email}), req.to, s)
            /\ req.to = req.email \/ req.to \notin DOMAIN row
        BY <1>1, <2>3, <3>2, <4>1 DEF Edited
      <4>4. ASSUME NEW c \in DOMAIN row, c \in DOMAIN row'
            PROVE  row'[c].all = row[c].all
        <5>1. CASE c = req.to BY <4>2, <4>3, <5>1 DEF Put, Without
        <5>2. CASE c # req.to BY <4>3, <4>4, <5>2 DEF Put, Without
        <5>3. QED BY <5>1, <5>2
      <4>5. QED BY <2>1, <3>1, <4>4, SameLedger
    <3>3. CASE req.email \notin DOMAIN row
      <4>1. row' = row BY <1>1, <2>3, <3>3 DEF Edited
      <4>2. QED BY <2>1, <3>1, <4>1, SameLedger
    <3>4. QED BY <3>2, <3>3
  <2>4. QED BY <1>3, <2>2, <2>3, UpdateInboundClientOK
<1>4. CASE DelClientStat
  <2>1. CASE Fails
    <3>1. Quiet BY <2>1, FailsQuiet
    <3>2. QED BY <3>1, SameLedger DEF Quiet
  <2>2. ASSUME NEW ok \in BOOLEAN, Deleted(World', World, req, req', ok)
        PROVE  TheLedgerIsKept
    <3>1. batch' = batch BY <1>4 DEF DelClientStat, End, Fails, job
    <3>2. x'.live = x.live /\ row' = Without(row, {req.email})
      BY <1>1, <2>2 DEF Deleted
    <3>3. QED BY <3>1, <3>2, SameLedger DEF Without
  <2>3. QED BY <1>4, <2>1, <2>2, DelClientStatOK
<1>5. CASE SaveWithoutClient
  <2>1. Saved(World', World, req) BY <1>5, SaveWithoutClientOK
  <2>2. batch' = batch BY <1>5 DEF SaveWithoutClient, End, job
  <2>3. x' = x /\ row' = row BY <1>1, <2>1 DEF Saved
  <2>4. QED BY <2>2, <2>3, SameLedger
<1>6. CASE ResetClientTraffic
  <2>1. PICK ok \in BOOLEAN : Reset(World', World, req, ok)
    BY <1>6, ResetClientTrafficOK
  <2>2. req.kind = "reset" BY <1>6 DEF ResetClientTraffic
  <2>3. batch' = batch BY <1>6 DEF ResetClientTraffic, End, job
  <2>4. PICK s : s = [req.seen EXCEPT !.used = 0, !.enable = TRUE] OBVIOUS
  <2>5. s.all = req.seen.all
    <3>1. req.seen \in RowType BY <2>2 DEF IInv, RequestOK
    <3>2. QED BY <2>4, <3>1 DEF RowType
  <2>6. x'.live = x.live /\ row' = Put(row, req.email, s)
    BY <1>1, <2>1, <2>4 DEF Reset, Told
  <2>7. ASSUME NEW c \in DOMAIN row, c # req.email
        PROVE  row'[c] = row[c]
    BY <2>6, <2>7 DEF Put
  <2>8. row'[req.email] = s
    BY <2>6 DEF Put
  <2>9. \A c \in DOMAIN row : row'[c].all = row[c].all \/ (req.email = c /\ req.seen # row[c])
    BY <2>5, <2>7, <2>8
  <2>10. QED BY <2>2, <2>3, <2>6, <2>9, SameLedger
<1>7. CASE DelDepletedClients
  <2>1. batch' = batch BY <1>7 DEF DelDepletedClients, End, job
  <2>2. CASE Pruned(World', World, req)
    <3>1. x' = x /\ row' = Without(row, DepletedForGood(req.now))
      BY <1>1, <2>2 DEF Pruned
    <3>2. QED BY <2>1, <3>1, SameLedger DEF Without
  <2>3. CASE InboundDeleted(World', World)
    <3>1. DOMAIN row' = {} BY <1>1, <2>3, NoClientsOK DEF InboundDeleted
    <3>2. QED BY <3>1 DEF TheLedgerIsKept
  <2>4. QED BY <1>7, <2>2, <2>3, DelDepletedClientsOK
<1>8. CASE UpdateInbound
  <2>1. batch' = batch BY <1>8 DEF UpdateInbound, Fails, End, job
  <2>2. CASE Fails
    <3>1. Quiet BY <2>2, FailsQuiet
    <3>2. QED BY <3>1, SameLedger DEF Quiet
  <2>3. ASSUME NEW ok \in BOOLEAN, Updated(World', World, req, ok)
        PROVE  TheLedgerIsKept
    <3>1. x'.live = x.live BY <1>1, <2>3 DEF Updated, Rehosted
    <3>2. ASSUME NEW c \in DOMAIN row, c \in DOMAIN row' PROVE row'[c] = row[c]
      <4>1. PICK kept : kept = Kept(World, req) OBVIOUS
      <4>2. row' = [e \in DOMAIN kept \cup Come(req) |->
                     IF e \in DOMAIN kept THEN kept[e] ELSE AddClientStat(req.form.ent[e])]
        BY <1>1, <2>3, <4>1 DEF Updated
      <4>3. kept = Without(row, DOMAIN req.seen.ent \ DOMAIN req.form.ent)
        BY <1>1, <4>1 DEF Kept
      <4>4. c \in DOMAIN kept
        BY <3>2, <4>2, <4>3 DEF Without, Come
      <4>5. row'[c] = kept[c] BY <4>2, <4>4
      <4>6. QED BY <4>3, <4>4, <4>5 DEF Without
    <3>3. QED BY <2>1, <3>1, <3>2, SameLedger
  <2>4. QED BY <1>8, <2>2, <2>3, UpdateInboundOK
<1>9. CASE SetInboundEnable
  <2>1. PICK ok \in BOOLEAN : Switched(World', World, req, ok)
    BY <1>9, SetInboundEnableOK
  <2>2. batch' = batch BY <1>9 DEF SetInboundEnable, End, job
  <2>3. x'.live = x.live /\ row' = row BY <1>1, <2>1 DEF Switched, Rehosted
  <2>4. QED BY <2>2, <2>3, SameLedger
<1>10. QED
  BY <1>2, <1>3, <1>4, <1>5, <1>6, <1>7, <1>8, <1>9 DEF Writing

(* Traffic moves from Xray to the batch and from the batch to the rows.     *)
LEMMA StepsKeepLedger == IInv /\ [Next]_vars => TheLedgerIsKept
<1> SUFFICES ASSUME IInv, [Next]_vars PROVE TheLedgerIsKept OBVIOUS
<1>1. /\ World.row = row /\ World'.row = row' /\ World.x = x /\ World'.x = x'
      /\ IsTable(row, RowType) /\ AreCounters(batch) /\ IsXray(x)
      /\ (~reading => batch = NoCounters)
  BY WorldFields, WorldOK DEF IInv, BatchOK
<1>2. CASE Tick \/ OpenForm \/ UNCHANGED vars
  <2>1. Quiet /\ req' = req BY <1>2, TickQuiet
  <2>2. QED BY <2>1, SameLedger DEF Quiet
<1>3. CASE Crash
  <2>1. x'.live = NoCounters /\ batch' = batch /\ row' = row
    BY <1>1, <1>3 DEF Crash, job, IsXray
  <2>2. QED BY <2>1, NewLedger
<1>4. CASE ReadCounters
  <2>1. /\ batch = NoCounters /\ batch' = x.live /\ row' = row
        /\ x' = [x EXCEPT !.live = Zeroed(@)]
    BY <1>1, <1>4 DEF ReadCounters
  <2>2. x'.live = Zeroed(x.live) BY <1>1, <2>1 DEF IsXray
  <2>3. ASSUME NEW c \in DOMAIN row PROVE Ledger(c)' = Ledger(c)
    <3>1. At(x'.live.clients, c) = 0 /\ At(batch.clients, c) = 0
      <4>1. At(x'.live.clients, c) = 0 BY <1>1, <2>2, ZeroedOK DEF IsXray
      <4>2. At(batch.clients, c) = 0 BY <2>1, NoCountersOK, NoClientsOK DEF At
      <4>3. QED BY <4>1, <4>2
    <3>2. At(x.live.clients, c) \in Nat /\ row[c].all \in Nat
      <4>1. At(x.live.clients, c) \in Nat BY <1>1, AtOK DEF IsXray, AreCounters
      <4>2. row[c].all \in Nat BY <1>1, AllOK
      <4>3. QED BY <4>1, <4>2
    <3>3. Ledger(c) = At(x.live.clients, c) + 0 + row[c].all
      BY <3>1 DEF Ledger
    <3>4. Ledger(c)' = 0 + At(x.live.clients, c) + row[c].all
      BY <2>1, <3>1 DEF Ledger
    <3>5. QED BY <3>2, <3>3, <3>4
  <2>4. QED BY <2>1, <2>3 DEF TheLedgerIsKept
<1>5. CASE CommitTraffic
  <2>1. PICK ok, a, b, d : ok \in BOOLEAN /\ Passes(a, b, d, World', World, batch, ok)
    BY <1>5, CommitTrafficOK
  <2>2. x'.live = x.live /\ DOMAIN row' = DOMAIN row
    BY <1>1, <2>1, PassesKeep DEF Keeps
  <2>3. batch' = NoCounters BY <1>5 DEF CommitTraffic
  <2>4. ASSUME NEW c \in DOMAIN row PROVE Ledger(c)' = Ledger(c)
    <3>1. row'[c].all = row[c].all + At(batch.clients, c)
      BY <1>1, <2>1, AllPasses
    <3>2. At(batch'.clients, c) = 0 BY <2>3, NoCountersOK, NoClientsOK DEF At
    <3>3. At(x.live.clients, c) \in Nat /\ row[c].all \in Nat /\ At(batch.clients, c) \in Nat
      <4>1. At(x.live.clients, c) \in Nat BY <1>1, AtOK DEF IsXray, AreCounters
      <4>2. row[c].all \in Nat BY <1>1, AllOK
      <4>3. At(batch.clients, c) \in Nat BY <1>1, AtOK DEF AreCounters
      <4>4. QED BY <4>1, <4>2, <4>3
    <3>4. Ledger(c)' = At(x.live.clients, c) + 0 + (row[c].all + At(batch.clients, c))
      BY <2>2, <3>1, <3>2 DEF Ledger
    <3>5. QED BY <3>3, <3>4 DEF Ledger
  <2>5. QED BY <2>2, <2>4 DEF TheLedgerIsKept
<1>6. CASE LoseTraffic BY <1>6 DEF TheLedgerIsKept
<1>7. CASE Restart
  <2>1. PICK ok, u : ok \in BOOLEAN /\ Settles(u, World, ok) /\ Reloaded(World', u)
    BY <1>7, RestartOK
  <2>2. batch' = batch BY <1>7 DEF Restart, job
  <2>3. x'.live = NoCounters /\ row' = u.row
    BY <1>1, <2>1 DEF Reloaded
  <2>4. \A c \in DOMAIN row : row'[c].all = row[c].all
    BY <2>1, <2>3, SettledAll
  <2>5. QED BY <2>2, <2>3, <2>4, NewLedger
<1>8. CASE RestartIfNeeded
  <2>1. PICK ok, u : ok \in BOOLEAN /\ Settles(u, World, ok) /\ LoadedOrKept(World', u)
    BY <1>8, RestartIfNeededOK
  <2>2. batch' = batch BY <1>8 DEF RestartIfNeeded, job
  <2>3. row' = u.row BY <1>1, <2>1 DEF Reloaded, LoadedOrKept
  <2>4. \A c \in DOMAIN row : row'[c].all = row[c].all
    BY <2>1, <2>3, SettledAll
  <2>5. CASE Reloaded(World', u)
    <3>1. x'.live = NoCounters BY <1>1, <2>5 DEF Reloaded
    <3>2. QED BY <2>2, <2>4, <3>1, NewLedger
  <2>6. CASE World'.x = u.x
    <3>1. x'.live = x.live BY <1>1, <2>1, <2>6 DEF Settles, Keeps
    <3>2. QED BY <2>2, <2>4, <3>1, SameLedger
  <2>7. QED BY <2>1, <2>5, <2>6 DEF LoadedOrKept
<1>9. ASSUME row' = Afresh(row, DOMAIN row), x' = x, batch' = batch
      PROVE  TheLedgerIsKept
  <2>1. \A c \in DOMAIN row : row'[c].all = row[c].all
    BY <1>1, <1>9, AfreshFields
  <2>2. QED BY <1>9, <2>1, SameLedger
<1>10. CASE PeriodicTrafficReset
  <2>1. row' = Afresh(row, DOMAIN row) /\ x' = x BY <1>10, PeriodicTrafficResetOK
  <2>2. batch' = batch BY <1>10 DEF PeriodicTrafficReset, job
  <2>3. QED BY <1>9, <2>1, <2>2
<1>11. CASE Requesting
  <2>1. CASE AskAdd \/ AskUpdateClient \/ AskDelClient \/ AskResetClient
             \/ AskDelDepleted \/ AskUpdateInbound \/ AskSetEnable
    <3>1. Quiet BY <2>1, AskQuiet
    <3>2. QED BY <3>1, SameLedger DEF Quiet
  <2>2. CASE AddInbound
    <3>1. DOMAIN row = {} BY <2>2, AddInboundOK
    <3>2. QED BY <3>1 DEF TheLedgerIsKept
  <2>3. CASE DeleteInbound
    <3>1. InboundDeleted(World', World) BY <2>3, DeleteInboundOK
    <3>2. DOMAIN row' = {} BY <1>1, <3>1, NoClientsOK DEF InboundDeleted
    <3>3. QED BY <3>2 DEF TheLedgerIsKept
  <2>4. CASE ResetAllClientTraffics
    <3>1. x' = x /\ row' = Afresh(row, DOMAIN row) BY <2>4, ResetAllOK
    <3>2. batch' = batch BY <2>4 DEF ResetAllClientTraffics, Request, job
    <3>3. QED BY <1>9, <3>1, <3>2
  <2>5. CASE UpdateClientTraffic BY <2>5 DEF TheLedgerIsKept
  <2>6. QED BY <1>11, <2>1, <2>2, <2>3, <2>4, <2>5 DEF Requesting
<1>12. CASE Writing BY <1>12, HandlersKeepLedger
<1>13. CASE \E c \in Emails : Use(c)
  <2>1. PICK e \in Emails : Use(e) BY <1>13
  <2>2. PICK n : n = Counted(x.live, e) OBVIOUS
  <2>3. x' = [x EXCEPT !.live = n] /\ row' = row /\ batch' = batch
    BY <2>1, <2>2 DEF Use, job
  <2>4. x'.live = n BY <1>1, <2>3 DEF IsXray
  <2>5. ASSUME NEW c, c # e PROVE At(n.clients, c) = At(x.live.clients, c)
    <3>1. \E k : n.clients = Put(x.live.clients, e, k)
      BY <2>2 DEF Counted
    <3>2. QED BY <2>5, <3>1 DEF At, Put
  <2>6. \A c \in DOMAIN row : c # e => Ledger(c)' = Ledger(c)
    BY <2>3, <2>4, <2>5 DEF Ledger
  <2>7. QED BY <2>1, <2>3, <2>6 DEF TheLedgerIsKept
<1>14. QED
  BY <1>2, <1>3, <1>4, <1>5, <1>6, <1>7, <1>8, <1>10, <1>11, <1>12, <1>13 DEF Next

(* No traffic of a row is lost or counted twice between Xray, the job and   *)
(* the database, but where TrafficIsKept says so.                           *)
THEOREM NoTrafficIsLost == Spec => TrafficIsKept
BY StepsKeepLedger, Invariance, PTL DEF Spec, TrafficIsKept

-----------------------------------------------------------------------------
(* Dates *)

(* The new date of a row after the passes, next to the old one. *)
DateMoved(v, w, c) ==
  /\ c \in DOMAIN v.inb.ent
  /\ v.inb.ent[c].expiry = v.row[c].expiry
  /\ w.row[c].expiry >= 0 =>
       /\ Expired(w.row[c], clock)
       /\ w.row[c].reset > 0
       /\ (v.row[c].expiry - w.row[c].expiry) % w.row[c].reset = 0
       /\ v.row[c].expiry \in clock .. clock + w.row[c].reset - 1

(* A date that the passes have moved was due, and has moved by whole        *)
(* periods to the first date that is not past, in the row and the entry.    *)
LEMMA DatesPass ==
  ASSUME NEW a, NEW b, NEW d, NEW v, NEW w, NEW n, NEW ok \in BOOLEAN,
         Passes(a, b, d, v, w, n, ok), NEW c \in DOMAIN w.row
  PROVE  v.row[c].expiry = w.row[c].expiry \/ DateMoved(v, w, c)
<1>1. c \in DOMAIN a.row /\ c \in DOMAIN b.row
      /\ DOMAIN a.inb.ent = DOMAIN w.inb.ent /\ DOMAIN b.inb.ent = DOMAIN w.inb.ent
      /\ DOMAIN v.inb.ent = DOMAIN w.inb.ent
  BY PassesKeep DEF Keeps
<1>2. IsTable(w.row, RowType) /\ IsTable(a.row, RowType) /\ IsTable(b.row, RowType)
      /\ IsTable(n.clients, Nat)
      /\ IsTable(w.inb.ent, ClientType) /\ IsTable(a.inb.ent, ClientType)
      /\ IsTable(b.inb.ent, ClientType) /\ clock \in Nat /\ IsWorld(w) /\ IsWorld(a)
  BY DEF Passes, IsWorld, AreCounters, IsInbound
(* Durations that become dates. *)
<1>3. PICK started : started = StartDates(w, Seen(w, n)) OBVIOUS
<1>4. /\ \A k \in DOMAIN started : started[k] \in Int
      /\ c \in DOMAIN started => w.row[c].expiry < 0 /\ c \in DOMAIN w.inb.ent
  <2>1. Seen(w, n) \subseteq DOMAIN w.row BY DEF Seen
  <2>2. \A k \in DOMAIN started : started[k] \in Int BY <1>2, <1>3, <2>1, StartDatesOK
  <2>3. c \in DOMAIN started => w.row[c].expiry < 0 /\ c \in DOMAIN w.inb.ent
    BY <1>3 DEF StartDates, Starting
  <2>4. QED BY <2>2, <2>3
<1>5. /\ c \in DOMAIN started => a.row[c].expiry = started[c]
      /\ c \notin DOMAIN started => a.row[c].expiry = w.row[c].expiry
      /\ a.row[c].reset = w.row[c].reset
  <2>1. PICK g : g = Dated(w.row, started) OBVIOUS
  <2>2. a.row = Charged(g, n.clients) BY <1>3, <2>1 DEF Passes, Accounted
  <2>3. IsTable(g, RowType) BY <1>2, <1>4, <2>1, DatedOK
  <2>4. c \in DOMAIN g BY <2>1 DEF Dated
  <2>5. /\ c \in DOMAIN started => g[c].expiry = started[c]
        /\ c \notin DOMAIN started => g[c] = w.row[c]
    BY <1>2, <2>1, DatedFields
  <2>6. g[c].reset = w.row[c].reset BY <1>2, <2>1, DatedRowFields
  <2>7. a.row[c].expiry = g[c].expiry /\ a.row[c].reset = g[c].reset
    BY <1>2, <2>2, <2>3, <2>4, ChargedFields
  <2>8. QED BY <2>5, <2>6, <2>7
<1>6. c \in DOMAIN started => a.inb.ent[c].expiry = started[c]
  <2>1. a.inb.ent = Dated(w.inb.ent, started) BY <1>3 DEF Passes, Accounted
  <2>2. QED BY <1>2, <1>4, <2>1, DatedFields
(* Renewals. *)
<1>7. PICK renewed : renewed = NewDates(a) OBVIOUS
<1>8. /\ \A k \in DOMAIN renewed : renewed[k] \in Int
      /\ c \in DOMAIN renewed =>
           /\ c \in DOMAIN a.inb.ent
           /\ a.row[c].reset > 0
           /\ Expired(a.row[c], clock)
           /\ renewed[c] = NextExpiry(a.row[c].expiry, a.row[c].reset, clock)
  <2>1. \A k \in DOMAIN renewed : renewed[k] \in Int BY <1>2, <1>7, NewDatesOK
  <2>2. QED BY <1>7, <2>1 DEF NewDates, Renewed, Due
<1>9. /\ c \in DOMAIN renewed => b.row[c].expiry = renewed[c]
      /\ c \notin DOMAIN renewed => b.row[c].expiry = a.row[c].expiry
  <2>1. PICK g : g = Dated(a.row, renewed) OBVIOUS
  <2>2. b.row = Afresh(g, Renewed(a)) BY <1>7, <2>1 DEF Passes, AutoRenewed
  <2>3. IsTable(g, RowType) BY <1>2, <1>8, <2>1, DatedOK
  <2>4. c \in DOMAIN g BY <1>1, <2>1 DEF Dated
  <2>5. /\ c \in DOMAIN renewed => g[c].expiry = renewed[c]
        /\ c \notin DOMAIN renewed => g[c] = a.row[c]
    BY <1>1, <1>2, <2>1, DatedFields
  <2>6. b.row[c].expiry = g[c].expiry BY <2>2, <2>3, <2>4, AfreshFields
  <2>7. QED BY <2>5, <2>6
<1>10. ASSUME c \in DOMAIN w.inb.ent
       PROVE  /\ c \in DOMAIN renewed => b.inb.ent[c].expiry = renewed[c]
              /\ c \notin DOMAIN renewed => b.inb.ent[c].expiry = a.inb.ent[c].expiry
  <2>1. b.inb.ent = Dated(a.inb.ent, renewed) BY <1>7 DEF Passes, AutoRenewed
  <2>2. c \in DOMAIN a.inb.ent BY <1>1, <1>10
  <2>3. QED BY <1>2, <2>1, <2>2, DatedFields
(* Disabling moves no date. *)
<1>11. v.row[c].expiry = b.row[c].expiry
  <2>1. v.row = Disabled(b.row, Invalid(b))
    BY DEF Passes, ClientsDisabled, InboundsDisabled
  <2>2. QED BY <1>1, <1>2, <2>1, DisabledFields
<1>12. c \in DOMAIN w.inb.ent => v.inb.ent[c].expiry = b.inb.ent[c].expiry
  <2>1. v.inb.ent = Disabled(b.inb.ent, Invalid(b))
    BY DEF Passes, ClientsDisabled, InboundsDisabled
  <2>2. QED BY <1>1, <1>2, <2>1, DisabledFields
<1>13. CASE c \in DOMAIN renewed
  <2>1. c \in DOMAIN w.inb.ent BY <1>1, <1>8, <1>13
  <2>2. v.row[c].expiry = renewed[c] /\ v.inb.ent[c].expiry = renewed[c]
    BY <1>9, <1>10, <1>11, <1>12, <1>13, <2>1
  <2>3. ASSUME w.row[c].expiry >= 0
        PROVE  /\ Expired(w.row[c], clock)
               /\ w.row[c].reset > 0
               /\ (v.row[c].expiry - w.row[c].expiry) % w.row[c].reset = 0
               /\ v.row[c].expiry \in clock .. clock + w.row[c].reset - 1
    <3>1. w.row[c] \in RowType BY <1>2 DEF IsTable
    <3>2. w.row[c].expiry \in Int /\ w.row[c].reset \in Nat BY <3>1 DEF RowType
    <3>3. c \notin DOMAIN started BY <1>4, <2>3, <3>2
    <3>4. a.row[c].expiry = w.row[c].expiry /\ a.row[c].reset = w.row[c].reset
      BY <1>5, <3>3
    <3>5. Expired(w.row[c], clock) /\ w.row[c].reset > 0 /\ w.row[c].expiry <= clock
      BY <1>8, <1>13, <3>4 DEF Expired
    <3>6. renewed[c] = NextExpiry(w.row[c].expiry, w.row[c].reset, clock)
      BY <1>8, <1>13, <3>4
    <3>7. /\ (renewed[c] - w.row[c].expiry) % w.row[c].reset = 0
          /\ renewed[c] \in clock .. clock + w.row[c].reset - 1
      BY <1>2, <3>2, <3>5, <3>6, NextExpiryOK
    <3>8. QED BY <2>2, <3>5, <3>7
  <2>4. QED BY <1>1, <2>1, <2>2, <2>3 DEF DateMoved
<1>14. CASE c \notin DOMAIN renewed /\ c \in DOMAIN started
  <2>1. v.row[c].expiry = started[c] /\ v.inb.ent[c].expiry = started[c]
        /\ c \in DOMAIN v.inb.ent
    BY <1>1, <1>4, <1>5, <1>6, <1>9, <1>10, <1>11, <1>12, <1>14
  <2>2. ~(w.row[c].expiry >= 0)
    <3>1. w.row[c] \in RowType BY <1>2 DEF IsTable
    <3>2. w.row[c].expiry \in Int BY <3>1 DEF RowType
    <3>3. QED BY <1>4, <1>14, <3>2
  <2>3. QED BY <2>1, <2>2 DEF DateMoved
<1>15. CASE c \notin DOMAIN renewed /\ c \notin DOMAIN started
  BY <1>5, <1>9, <1>11, <1>15
<1>16. QED BY <1>13, <1>14, <1>15

LEMMA SameDates ==
  ASSUME \A c \in DOMAIN row \cap DOMAIN row' : row'[c].expiry = row[c].expiry
  PROVE  DatesMoveByPeriods
BY DEF DatesMoveByPeriods

LEMMA DatesMoved ==
  ASSUME \A c \in DOMAIN row :
           row'[c].expiry = row[c].expiry \/ DateMoved(World', World, c)
  PROVE  DatesMoveByPeriods
<1>1. World.row = row /\ World'.row = row' /\ World'.inb = inb'
  BY WorldFields
<1>2. QED BY <1>1 DEF DatesMoveByPeriods, DateMoved

(* So it is with the passes that prepare a configuration.                   *)
LEMMA SettledDates ==
  ASSUME NEW ok \in BOOLEAN, NEW u, Settles(u, World, ok), NEW v,
         v.inb = u.inb, v.row = u.row, NEW c \in DOMAIN row
  PROVE  v.row[c].expiry = row[c].expiry \/ DateMoved(v, World, c)
<1>1. PICK w : w = World OBVIOUS
<1>2. PICK z, a, b, d : Passes(a, b, d, z, w, NoCounters, ok)
                        /\ u.row = z.row /\ u.inb = z.inb
  BY <1>1 DEF Settles
<1>3. w.row = row BY <1>1 DEF World
<1>4. z.row[c].expiry = w.row[c].expiry \/ DateMoved(z, w, c)
  BY <1>2, <1>3, DatesPass
<1>5. QED BY <1>1, <1>2, <1>3, <1>4 DEF DateMoved

(* Every write of a handler ends the request or takes it further.           *)
LEMMA WritingEnds == IInv /\ Writing => req' # req
<1> SUFFICES ASSUME IInv, Writing PROVE req' # req OBVIOUS
<1>1. Idle.kind = "idle" BY DEF Idle
<1>2. ASSUME AddInboundClient PROVE req' # req
  <2>1. req.kind = "add" BY <1>2 DEF AddInboundClient
  <2>2. req' = Idle BY <1>2 DEF AddInboundClient, End
  <2>3. QED BY <1>1, <2>1, <2>2
<1>3. ASSUME UpdateInboundClient PROVE req' # req
  <2>1. req.kind = "edit" BY <1>3 DEF UpdateInboundClient
  <2>2. req' = Idle BY <1>3 DEF UpdateInboundClient, End, Fails
  <2>3. QED BY <1>1, <2>1, <2>2
<1>4. ASSUME DelClientStat PROVE req' # req
  <2>1. req.kind = "del" BY <1>4 DEF DelClientStat
  <2>2. req' = Idle \/ req'.kind = "delSave"
    BY <1>4, DelClientStatOK, FailsQuiet DEF Deleted
  <2>3. QED BY <1>1, <2>1, <2>2
<1>5. ASSUME SaveWithoutClient PROVE req' # req
  <2>1. req.kind = "delSave" BY <1>5 DEF SaveWithoutClient
  <2>2. req' = Idle BY <1>5 DEF SaveWithoutClient, End
  <2>3. QED BY <1>1, <2>1, <2>2
<1>6. ASSUME ResetClientTraffic PROVE req' # req
  <2>1. req.kind = "reset" BY <1>6 DEF ResetClientTraffic
  <2>2. req' = Idle BY <1>6 DEF ResetClientTraffic, End
  <2>3. QED BY <1>1, <2>1, <2>2
<1>7. ASSUME DelDepletedClients PROVE req' # req
  <2>1. req.kind = "depleted" BY <1>7 DEF DelDepletedClients
  <2>2. req' = Idle BY <1>7 DEF DelDepletedClients, End
  <2>3. QED BY <1>1, <2>1, <2>2
<1>8. ASSUME UpdateInbound PROVE req' # req
  <2>1. req.kind = "update" BY <1>8 DEF UpdateInbound
  <2>2. req' = Idle BY <1>8 DEF UpdateInbound, End, Fails
  <2>3. QED BY <1>1, <2>1, <2>2
<1>9. ASSUME SetInboundEnable PROVE req' # req
  <2>1. req.kind = "switch" BY <1>9 DEF SetInboundEnable
  <2>2. req' = Idle BY <1>9 DEF SetInboundEnable, End
  <2>3. QED BY <1>1, <2>1, <2>2
<1>10. QED BY <1>2, <1>3, <1>4, <1>5, <1>6, <1>7, <1>8, <1>9 DEF Writing

(* No other step moves a date, but a handler at work on the client.         *)
LEMMA StepsKeepDates == IInv /\ [Next]_vars => DatesMoveByPeriods
<1> SUFFICES ASSUME IInv, [Next]_vars PROVE DatesMoveByPeriods OBVIOUS
<1>1. /\ World.row = row /\ World'.row = row' /\ World'.inb = inb'
      /\ IsTable(row, RowType)
  BY WorldFields, WorldOK DEF IInv
<1>2. CASE row' = row BY <1>2, SameDates
<1>3. CASE Tick \/ OpenForm \/ UNCHANGED vars BY <1>2, <1>3, TickQuiet DEF Quiet
<1>4. CASE Crash \/ ReadCounters \/ LoseTraffic
  BY <1>2, <1>4 DEF Crash, ReadCounters, LoseTraffic
<1>5. CASE CommitTraffic
  <2>1. PICK ok, a, b, d : ok \in BOOLEAN /\ Passes(a, b, d, World', World, batch, ok)
    BY <1>5, CommitTrafficOK
  <2>2. \A c \in DOMAIN row :
          row'[c].expiry = row[c].expiry \/ DateMoved(World', World, c)
    BY <1>1, <2>1, DatesPass
  <2>3. QED BY <2>2, DatesMoved
<1>6. CASE Restart
  <2>1. PICK ok, u : ok \in BOOLEAN /\ Settles(u, World, ok) /\ Reloaded(World', u)
    BY <1>6, RestartOK
  <2>2. PICK v : v = World' OBVIOUS
  <2>3. v.inb = u.inb /\ v.row = u.row BY <2>1, <2>2 DEF Reloaded
  <2>4. \A c \in DOMAIN row : v.row[c].expiry = row[c].expiry \/ DateMoved(v, World, c)
    BY <2>1, <2>3, SettledDates
  <2>5. QED BY <1>1, <2>2, <2>4, DatesMoved
<1>7. CASE RestartIfNeeded
  <2>1. PICK ok, u : ok \in BOOLEAN /\ Settles(u, World, ok) /\ LoadedOrKept(World', u)
    BY <1>7, RestartIfNeededOK
  <2>2. PICK v : v = World' OBVIOUS
  <2>3. v.inb = u.inb /\ v.row = u.row BY <2>1, <2>2 DEF Reloaded, LoadedOrKept
  <2>4. \A c \in DOMAIN row : v.row[c].expiry = row[c].expiry \/ DateMoved(v, World, c)
    BY <2>1, <2>3, SettledDates
  <2>5. QED BY <1>1, <2>2, <2>4, DatesMoved
<1>8. ASSUME row' = Afresh(row, DOMAIN row) PROVE DatesMoveByPeriods
  <2>1. \A c \in DOMAIN row : row'[c].expiry = row[c].expiry
    BY <1>1, <1>8, AfreshFields
  <2>2. QED BY <2>1, SameDates
<1>9. CASE PeriodicTrafficReset BY <1>8, <1>9, PeriodicTrafficResetOK
<1>10. CASE Requesting
  <2>1. CASE AskAdd \/ AskUpdateClient \/ AskDelClient \/ AskResetClient
             \/ AskDelDepleted \/ AskUpdateInbound \/ AskSetEnable
    BY <1>2, <2>1, AskQuiet DEF Quiet
  <2>2. CASE AddInbound
    <3>1. DOMAIN row = {} BY <2>2, AddInboundOK
    <3>2. QED BY <3>1 DEF DatesMoveByPeriods
  <2>3. CASE DeleteInbound
    <3>1. InboundDeleted(World', World) BY <2>3, DeleteInboundOK
    <3>2. DOMAIN row' = {} BY <1>1, <3>1, NoClientsOK DEF InboundDeleted
    <3>3. QED BY <3>2 DEF DatesMoveByPeriods
  <2>4. CASE ResetAllClientTraffics BY <1>8, <2>4, ResetAllOK
  <2>5. CASE UpdateClientTraffic
    <3>1. \A c \in DOMAIN row : CounterSet(row[c], row'[c]) BY <2>5, UpdateClientTrafficOK
    <3>2. QED BY <3>1, SameDates DEF CounterSet
  <2>6. QED BY <1>10, <2>1, <2>2, <2>3, <2>4, <2>5 DEF Requesting
<1>11. CASE Writing BY <1>11, WritingEnds DEF DatesMoveByPeriods
<1>12. CASE \E c \in Emails : Use(c) BY <1>2, <1>12 DEF Use
<1>13. QED
  BY <1>3, <1>4, <1>5, <1>6, <1>7, <1>9, <1>10, <1>11, <1>12 DEF Next

(* Renewals keep the period of a client, in row and entry alike.            *)
THEOREM PeriodsAreKept == Spec => KeepsPeriods
BY StepsKeepDates, Invariance, PTL DEF Spec, KeepsPeriods

-----------------------------------------------------------------------------
(* Nobody is served for free *)

(* Why client c may be served after a step.                                 *)
Paid(c) ==
  \/ Metered(c)'
  \/ WillRestart'
  \/ c \in x.served /\ ~Metered(c)
  \/ c \in Unmetered
  \/ Overlooked(c)

LEMMA PaidEnough ==
  ASSUME \A c \in x'.served : Paid(c)
  PROVE  EveryRideIsPaid
BY DEF Paid, EveryRideIsPaid

(* Nobody new is served and nobody metered is not any more.                 *)
LEMMA SameRide ==
  ASSUME x'.served \subseteq x.served,
         \A c : Metered(c) => Metered(c)'
  PROVE  EveryRideIsPaid
BY PaidEnough DEF Paid

(* The users of a configuration. *)
LEMMA ConfigUsers ==
  ASSUME NEW i, NEW rows, NEW c \in Config(i, rows).served
  PROVE  /\ i.there /\ i.on
         /\ c \in DOMAIN i.ent /\ On(i.ent, c)
         /\ c \in DOMAIN rows => On(rows, c)
BY DEF Config, Eligible, On

LEMMA UsersOfConfig ==
  ASSUME NEW i, NEW rows, NEW c, i.there, i.on, c \in DOMAIN i.ent, On(i.ent, c),
         c \in DOMAIN rows => On(rows, c)
  PROVE  c \in Config(i, rows).served
BY DEF Config, Eligible, On

(* One case per write of a handler.                                         *)
LEMMA HandlersArePaid ==
  ASSUME IInv, Writing
  PROVE  EveryRideIsPaid
<1>1. /\ IsInbound(inb) /\ IsTable(row, RowType)
      /\ World.row = row /\ World'.row = row' /\ World.x = x /\ World'.x = x'
      /\ World'.inb = inb' /\ World.inb = inb
  BY WorldOK, WorldFields DEF IInv
<1>2. req' # req BY WritingEnds
<1>3. CASE Fails
  BY <1>3, FailsQuiet, SameRide DEF Quiet, Metered
<1>4. CASE AddInboundClient
  <2>1. PICK ok \in BOOLEAN : Added(World', World, req, ok)
    BY <1>4, AddInboundClientOK
  <2>2. req.kind = "add" BY <1>4 DEF AddInboundClient
  <2>3. x'.served \subseteq x.served \cup If(req.client.enable, req.email)
    BY <1>1, <2>1 DEF Added, Told
  <2>4. CASE req.email \in DOMAIN row
    <3>1. row' = row BY <1>1, <2>1, <2>4 DEF Added
    <3>2. ASSUME NEW c \in x'.served PROVE Paid(c)
      <4>1. CASE c = req.email BY <1>2, <2>2, <2>4, <4>1 DEF Paid, Overlooked
      <4>2. CASE c # req.email
        <5>1. c \in x.served BY <2>3, <3>2, <4>2 DEF If
        <5>2. QED BY <3>1, <5>1 DEF Paid, Metered
      <4>3. QED BY <4>1, <4>2
    <3>3. QED BY <3>2, PaidEnough
  <2>5. CASE req.email \notin DOMAIN row
    <3>1. PICK s : s = AddClientStat(req.client) OBVIOUS
    <3>2. req.client.enable => s.enable
      <4>1. req.client \in ClientType BY <2>2 DEF IInv, RequestOK
      <4>2. QED BY <3>1, <4>1, AddClientStatOK
    <3>3. row' = Put(row, req.email, s) BY <1>1, <2>1, <2>5, <3>1 DEF Added
    <3>4. ASSUME NEW c \in x'.served PROVE Paid(c)
      <4>1. CASE c \in If(req.client.enable, req.email)
        <5>1. c = req.email /\ req.client.enable BY <4>1 DEF If
        <5>2. Metered(c)' BY <3>2, <3>3, <5>1 DEF Metered, Put
        <5>3. QED BY <5>2 DEF Paid
      <4>2. CASE c \notin If(req.client.enable, req.email)
        <5>1. c \in x.served BY <2>3, <3>4, <4>2
        <5>2. CASE c = req.email BY <2>5, <5>1, <5>2 DEF Paid, Metered
        <5>3. CASE c # req.email BY <3>3, <5>1, <5>3 DEF Paid, Metered, Put
        <5>4. QED BY <5>2, <5>3
      <4>3. QED BY <4>1, <4>2
    <3>5. QED BY <3>4, PaidEnough
  <2>6. QED BY <2>4, <2>5
<1>5. CASE UpdateInboundClient
  <2>1. req.kind = "edit" BY <1>5 DEF UpdateInboundClient
  <2>2. req.email \in DOMAIN inb.ent /\ req.client \in ClientType
    BY <2>1 DEF IInv, RequestOK, Handlers
  <2>3. ASSUME NEW ok \in BOOLEAN, Edited(World', World, req, ok)
        PROVE  EveryRideIsPaid
    <3>1. PICK old : old = If(req.seen.ent[req.email].enable, req.email) OBVIOUS
    <3>2. PICK new : new = If(req.client.enable, req.to) OBVIOUS
    <3>3. Told(World', World, old \cup new, (x.served \ old) \cup new, ok)
      BY <1>1, <2>3, <3>1, <3>2 DEF Edited
    <3>4. \/ x'.served = (x.served \ old) \cup new
          \/ x'.served = x.served /\ old = {} /\ new = {}
          \/ flag'
      <4>1. World'.flag <=> flag' BY WorldFields
      <4>2. CASE Reaches(World, ok) BY <1>1, <3>3, <4>2 DEF Told
      <4>3. CASE ~Reaches(World, ok)
        <5>1. x'.served = x.served /\ (old \cup new # {} => flag')
          BY <1>1, <3>3, <4>1, <4>3 DEF Told
        <5>2. QED BY <5>1
      <4>4. QED BY <4>2, <4>3
    <3>5. CASE req.email \notin DOMAIN row
      <4>1. req.email \in Unmetered BY <2>2, <3>5 DEF Unmetered
      <4>2. \A c : Overlooked(c) BY <1>2, <2>1, <4>1 DEF Overlooked
      <4>3. QED BY <4>2, PaidEnough DEF Paid
    <3>6. CASE req.email \in DOMAIN row
      <4>1. PICK s : s = UpdateClientStat(row[req.email], req.client) OBVIOUS
      <4>2. req.client.enable => s.enable
        <5>1. row[req.email] \in RowType BY <1>1, <3>6 DEF IsTable
        <5>2. QED BY <2>2, <4>1, <5>1, UpdateClientStatOK
      <4>3. /\ row' = Put(Without(row, {req.email}), req.to, s)
            /\ req.to = req.email \/ req.to \notin DOMAIN row
        BY <1>1, <2>3, <3>6, <4>1 DEF Edited
      <4>4. ASSUME NEW c \in x'.served, ~flag' PROVE Paid(c)
        <5>1. CASE c \in new
          <6>1. c = req.to /\ req.client.enable BY <3>2, <5>1 DEF If
          <6>2. Metered(c)' BY <4>2, <4>3, <6>1 DEF Metered, Put
          <6>3. QED BY <6>2 DEF Paid
        <5>2. CASE c \notin new
          <6>1. c \in x.served /\ c \notin old BY <3>4, <4>4, <5>2
          <6>2. CASE c = req.email
            <7>1. ~req.seen.ent[req.email].enable BY <3>1, <6>1, <6>2 DEF If
            <7>2. Overlooked(c) BY <1>2, <2>1, <6>2, <7>1 DEF Overlooked
            <7>3. QED BY <7>2 DEF Paid
          <6>3. CASE c # req.email /\ c = req.to
            BY <4>3, <6>1, <6>3 DEF Paid, Metered
          <6>4. CASE c # req.email /\ c # req.to
            <7>1. Metered(c) => Metered(c)'
              BY <4>3, <6>4 DEF Metered, Put, Without
            <7>2. QED BY <6>1, <7>1 DEF Paid
          <6>5. QED BY <6>2, <6>3, <6>4
        <5>3. QED BY <5>1, <5>2
      <4>5. CASE flag'
        BY <4>5, PaidEnough DEF Paid, WillRestart
      <4>6. QED BY <4>4, <4>5, PaidEnough
    <3>7. QED BY <3>5, <3>6
  <2>4. QED BY <1>3, <1>5, <2>3, UpdateInboundClientOK
<1>6. CASE DelClientStat
  <2>1. req.kind = "del" BY <1>6 DEF DelClientStat
  <2>2. ASSUME NEW ok \in BOOLEAN, Deleted(World', World, req, req', ok)
        PROVE  EveryRideIsPaid
    <3>1. row' = Without(row, {req.email}) BY <1>1, <2>2 DEF Deleted
    <3>2. ASSUME NEW c \in x'.served PROVE Paid(c)
      <4>1. PICK off : off = (req.seen.ent[req.email].enable /\ On(row, req.email)) OBVIOUS
      <4>2. /\ Reaches(World, ok) => x'.served = x.served \ If(off, req.email)
            /\ ~Reaches(World, ok) => x'.served = x.served
            /\ off /\ ~Reaches(World, ok) => req'.restart
            /\ req'.kind = "delSave"
        BY <1>1, <2>2, <4>1 DEF Deleted
      <4>3. c \in x.served BY <3>2, <4>2
      <4>4. CASE c # req.email
        <5>1. Metered(c) => Metered(c)' BY <3>1, <4>4 DEF Metered, Without
        <5>2. QED BY <4>3, <5>1 DEF Paid
      <4>5. CASE c = req.email /\ off
        <5>1. ~Reaches(World, ok) BY <3>2, <4>2, <4>5 DEF If
        <5>2. WillRestart' BY <4>2, <4>5, <5>1 DEF WillRestart
        <5>3. QED BY <5>2 DEF Paid
      <4>6. CASE c = req.email /\ ~off
        <5>1. ~req.seen.ent[req.email].enable \/ ~On(row, req.email) BY <4>1, <4>6
        <5>2. CASE ~req.seen.ent[req.email].enable
          BY <1>2, <2>1, <4>6, <5>2 DEF Paid, Overlooked
        <5>3. CASE ~On(row, req.email)
          BY <4>3, <4>6, <5>3 DEF Paid, Metered, On
        <5>4. QED BY <5>1, <5>2, <5>3
      <4>7. QED BY <4>4, <4>5, <4>6
    <3>3. QED BY <3>2, PaidEnough
  <2>3. QED BY <1>3, <1>6, <2>2, DelClientStatOK
<1>7. CASE SaveWithoutClient
  <2>1. x' = x /\ row' = row BY <1>1, <1>7, SaveWithoutClientOK DEF Saved
  <2>2. QED BY <2>1, SameRide DEF Metered
<1>8. CASE ResetClientTraffic
  <2>1. PICK ok \in BOOLEAN : Reset(World', World, req, ok)
    BY <1>8, ResetClientTrafficOK
  <2>2. req.kind = "reset" BY <1>8 DEF ResetClientTraffic
  <2>3. x'.served \subseteq x.served \cup {req.email}
    BY <1>1, <2>1 DEF Reset, Told, If
  <2>4. PICK s : s = [req.seen EXCEPT !.used = 0, !.enable = TRUE] OBVIOUS
  <2>5. s.enable
    <3>1. req.seen \in RowType BY <2>2 DEF IInv, RequestOK
    <3>2. QED BY <2>4, <3>1 DEF RowType
  <2>6. row' = Put(row, req.email, s) BY <1>1, <2>1, <2>4 DEF Reset
  <2>7. PICK e : e = req.email OBVIOUS
  <2>8. Metered(e)' BY <2>5, <2>6, <2>7 DEF Metered, Put
  <2>9. \A c : c # e => (Metered(c) => Metered(c)')
    BY <2>6, <2>7 DEF Metered, Put
  <2>10. \A c \in x'.served : Paid(c)
    BY <2>3, <2>7, <2>8, <2>9 DEF Paid
  <2>11. QED BY <2>10, PaidEnough
<1>9. CASE DelDepletedClients
  <2>1. req.kind = "depleted" BY <1>9 DEF DelDepletedClients
  <2>2. QED BY <1>2, <2>1, PaidEnough DEF Paid, Overlooked
<1>10. CASE UpdateInbound
  <2>1. req.kind = "update" BY <1>10 DEF UpdateInbound
  <2>2. DOMAIN req.seen.ent = DOMAIN inb.ent
    BY <2>1 DEF IInv, RequestOK, Handlers
  <2>3. ASSUME NEW ok \in BOOLEAN, Updated(World', World, req, ok)
        PROVE  EveryRideIsPaid
    <3>1. CASE ~req.form.on BY <1>2, <2>1, <3>1, PaidEnough DEF Paid, Overlooked
    <3>2. CASE req.form.on /\ ~ok
      <4>1. flag' BY <2>3, <3>2, WorldFields DEF Updated, Rehosted
      <4>2. QED BY <4>1, PaidEnough DEF Paid, WillRestart
    <3>3. CASE req.form.on /\ ok
      <4>1. x'.served = Eligible(req.form.ent, row')
        BY <1>1, <2>3, <3>3 DEF Updated, Rehosted
      <4>2. DOMAIN row' = (DOMAIN row \ (DOMAIN inb.ent \ DOMAIN req.form.ent))
                            \cup (DOMAIN req.form.ent \ DOMAIN inb.ent)
        BY <1>1, <2>2, <2>3 DEF Updated, Kept, Come, Without
      <4>3. ASSUME NEW c \in x'.served PROVE Paid(c)
        <5>1. c \in DOMAIN req.form.ent /\ (c \in DOMAIN row' => row'[c].enable)
          BY <4>1, <4>3 DEF Eligible
        <5>2. CASE c \in DOMAIN row' BY <5>1, <5>2 DEF Paid, Metered
        <5>3. CASE c \notin DOMAIN row'
          <6>1. c \in Unmetered BY <4>2, <5>1, <5>3 DEF Unmetered
          <6>2. QED BY <6>1 DEF Paid
        <5>4. QED BY <5>2, <5>3
      <4>4. QED BY <4>3, PaidEnough
    <3>4. QED BY <3>1, <3>2, <3>3
  <2>4. QED BY <1>3, <1>10, <2>3, UpdateInboundOK
<1>11. CASE SetInboundEnable
  <2>1. PICK ok \in BOOLEAN : Switched(World', World, req, ok)
    BY <1>11, SetInboundEnableOK
  <2>2. req.kind = "switch" BY <1>11 DEF SetInboundEnable
  <2>3. DOMAIN req.seen.ent = DOMAIN inb.ent BY <2>2 DEF IInv, RequestOK, Handlers
  <2>4. row' = row BY <1>1, <2>1 DEF Switched
  <2>5. CASE ~ok
    <3>1. flag' BY <2>1, <2>5, WorldFields DEF Switched
    <3>2. QED BY <3>1, PaidEnough DEF Paid, WillRestart
  <2>6. CASE ok /\ ~req.on
    <3>1. x'.served = {} BY <1>1, <2>1, <2>6 DEF Switched, Rehosted
    <3>2. QED BY <3>1, PaidEnough
  <2>7. CASE ok /\ req.on
    <3>1. x'.served = Eligible(req.seen.ent, row) BY <1>1, <2>1, <2>7 DEF Switched, Rehosted
    <3>2. ASSUME NEW c \in x'.served PROVE Paid(c)
      <4>1. c \in DOMAIN inb.ent /\ (c \in DOMAIN row => row[c].enable)
        BY <2>3, <3>1, <3>2 DEF Eligible
      <4>2. QED BY <2>4, <4>1 DEF Paid, Metered, Unmetered
    <3>3. QED BY <3>2, PaidEnough
  <2>8. QED BY <2>5, <2>6, <2>7
<1>12. QED
  BY <1>4, <1>5, <1>6, <1>7, <1>8, <1>9, <1>10, <1>11 DEF Writing

(* Xray started with the configuration of a settled database. *)
LEMMA ReloadedIsPaid ==
  ASSUME NEW ok \in BOOLEAN, NEW u, Settles(u, World, ok), Reloaded(World', u)
  PROVE  EveryRideIsPaid
<1>1. /\ x'.served = Config(inb', row').served
      /\ DOMAIN inb'.ent = DOMAIN inb.ent /\ DOMAIN row' = DOMAIN row
  BY WorldFields DEF Settles, Keeps, Reloaded
<1>2. ASSUME NEW c \in x'.served PROVE Paid(c)
  <2>1. c \in DOMAIN inb'.ent /\ (c \in DOMAIN row' => On(row', c))
    BY <1>1, <1>2, ConfigUsers
  <2>2. CASE c \in DOMAIN row' BY <2>1, <2>2 DEF Paid, Metered, On
  <2>3. CASE c \notin DOMAIN row'
    BY <1>1, <2>1, <2>3 DEF Paid, Unmetered
  <2>4. QED BY <2>2, <2>3
<1>3. QED BY <1>2, PaidEnough

(* The passes take depleted clients out, restarts take what is enabled.     *)
LEMMA StepsArePaid == IInv /\ [Next]_vars => EveryRideIsPaid
<1> SUFFICES ASSUME IInv, [Next]_vars PROVE EveryRideIsPaid OBVIOUS
<1>1. /\ World.row = row /\ World'.row = row' /\ World.x = x /\ World'.x = x'
      /\ World.inb = inb /\ World'.inb = inb'
      /\ IsTable(row, RowType) /\ IsXray(x)
  BY WorldFields, WorldOK DEF IInv
<1>2. CASE row' = row /\ x'.served \subseteq x.served BY <1>2, SameRide DEF Metered
<1>3. CASE Tick \/ OpenForm \/ UNCHANGED vars BY <1>2, <1>3, TickQuiet DEF Quiet
<1>4. CASE Crash
  <2>1. x'.served = {} /\ row' = row BY <1>1, <1>4 DEF Crash, IsXray
  <2>2. QED BY <1>2, <2>1
<1>5. CASE ReadCounters \/ LoseTraffic
  <2>1. x'.served = x.served /\ row' = row
    BY <1>1, <1>5 DEF ReadCounters, LoseTraffic, IsXray
  <2>2. QED BY <1>2, <2>1
<1>6. CASE CommitTraffic
  <2>1. PICK ok, a, b, d : ok \in BOOLEAN /\ Passes(a, b, d, World', World, batch, ok)
    BY <1>6, CommitTrafficOK
  <2>2. PICK v : v = World' OBVIOUS
  <2>3. PICK w : w = World OBVIOUS
  <2>4. v.row = row' /\ v.x = x' /\ (v.flag <=> flag') /\ w.row = row /\ w.x = x
    BY <2>2, <2>3, WorldFields
  <2>5. Passes(a, b, d, v, w, batch, ok) BY <2>1, <2>2, <2>3
  <2>6. /\ v.x.served \subseteq w.x.served \cup GivenBack(a)
        /\ v.flag \/ v.x.served \cap Invalid(b) = {}
    BY <2>1, <2>5, UsersPass
  <2>7. DOMAIN a.row = DOMAIN w.row /\ DOMAIN v.row = DOMAIN w.row
    BY <2>1, <2>5, PassesKeep DEF Keeps
  <2>8. ASSUME NEW c \in x'.served, ~flag', c \in DOMAIN row, c \in Renewed(a) \/ On(row, c)
        PROVE  Metered(c)'
    <3>1. /\ On(a.row, c) <=> On(w.row, c)
          /\ c \in Renewed(a) => On(b.row, c)
          /\ c \notin Renewed(a) => b.row[c] = a.row[c]
          /\ c \notin Invalid(b) => v.row[c] = b.row[c]
      BY <2>1, <2>4, <2>5, <2>8, RowPasses
    <3>2. c \notin Invalid(b) BY <2>4, <2>6, <2>8
    <3>3. On(b.row, c) BY <2>4, <2>8, <3>1 DEF On
    <3>4. QED BY <2>4, <2>7, <2>8, <3>1, <3>2, <3>3 DEF Metered, On
  <2>9. ASSUME NEW c \in x'.served, ~flag' PROVE Paid(c)
    <3>1. CASE c \in GivenBack(a)
      <4>1. c \in Renewed(a) /\ c \in DOMAIN a.row
        BY <3>1 DEF GivenBack, Renewed, Due
      <4>2. Metered(c)' BY <2>4, <2>7, <2>8, <2>9, <4>1
      <4>3. QED BY <4>2 DEF Paid
    <3>2. CASE c \in x.served /\ Metered(c)
      <4>1. c \in DOMAIN row /\ On(row, c) BY <3>2 DEF Metered, On
      <4>2. Metered(c)' BY <2>8, <2>9, <4>1
      <4>3. QED BY <4>2 DEF Paid
    <3>3. CASE c \in x.served /\ ~Metered(c) BY <3>3 DEF Paid
    <3>4. QED BY <2>4, <2>6, <2>9, <3>1, <3>2, <3>3
  <2>10. CASE flag' BY <2>10, PaidEnough DEF Paid, WillRestart
  <2>11. QED BY <2>9, <2>10, PaidEnough
<1>7. CASE Restart BY <1>7, RestartOK, ReloadedIsPaid
<1>8. CASE RestartIfNeeded
  <2>1. PICK ok, u : ok \in BOOLEAN /\ Settles(u, World, ok) /\ LoadedOrKept(World', u)
    BY <1>8, RestartIfNeededOK
  <2>2. CASE Reloaded(World', u) BY <2>1, <2>2, ReloadedIsPaid
  <2>3. CASE World'.x = u.x
    <3>1. x'.conf = x.conf BY <1>1, <2>1, <2>3 DEF Settles, Keeps
    <3>2. QED BY <1>8, <3>1 DEF EveryRideIsPaid
  <2>4. QED BY <2>1, <2>2, <2>3 DEF LoadedOrKept
<1>9. ASSUME row' = Afresh(row, DOMAIN row), x' = x
      PROVE  EveryRideIsPaid
  <2>1. \A c \in DOMAIN row : On(row', c) BY <1>1, <1>9, AfreshFields
  <2>2. DOMAIN row' = DOMAIN row BY <1>9 DEF Afresh
  <2>3. QED BY <1>9, <2>1, <2>2, SameRide DEF Metered, On
<1>10. CASE PeriodicTrafficReset BY <1>9, <1>10, PeriodicTrafficResetOK
<1>11. CASE Requesting
  <2>1. CASE AskAdd \/ AskUpdateClient \/ AskDelClient \/ AskResetClient
             \/ AskDelDepleted \/ AskUpdateInbound \/ AskSetEnable
    BY <1>2, <2>1, AskQuiet DEF Quiet
  <2>2. CASE AddInbound
    <3>1. PICK S, ent : InboundAdded(World', World, S, ent) BY <2>2, AddInboundOK
    <3>2. /\ DOMAIN row' = S /\ \A c \in S : On(row', c)
          /\ x'.served = S \/ World'.flag
      BY <1>1, <3>1 DEF InboundAdded
    <3>3. CASE x'.served = S
      BY <3>2, <3>3, PaidEnough DEF Paid, Metered, On
    <3>4. CASE World'.flag
      <4>1. flag' BY <3>4, WorldFields
      <4>2. QED BY <4>1, PaidEnough DEF Paid, WillRestart
    <3>5. QED BY <3>2, <3>3, <3>4
  <2>3. CASE DeleteInbound
    <3>1. x'.served = {} \/ flag' \/ ~inb.on BY <2>3, DeleteInboundOK
    <3>2. QED BY <2>3, <3>1 DEF EveryRideIsPaid, WillRestart
  <2>4. CASE ResetAllClientTraffics BY <1>9, <2>4, ResetAllOK
  <2>5. CASE UpdateClientTraffic
    <3>1. /\ x' = x /\ DOMAIN row' = DOMAIN row
          /\ \A c \in DOMAIN row : CounterSet(row[c], row'[c])
      BY <2>5, UpdateClientTrafficOK
    <3>2. QED BY <3>1, SameRide DEF CounterSet, Metered
  <2>6. QED BY <1>11, <2>1, <2>2, <2>3, <2>4, <2>5 DEF Requesting
<1>12. CASE Writing BY <1>12, HandlersArePaid
<1>13. CASE \E c \in Emails : Use(c)
  <2>1. PICK e \in Emails : Use(e) BY <1>13
  <2>2. x'.served = x.served /\ row' = row BY <1>1, <2>1 DEF Use, IsXray
  <2>3. QED BY <1>2, <2>2
<1>14. QED
  BY <1>3, <1>4, <1>5, <1>6, <1>7, <1>8, <1>10, <1>11, <1>12, <1>13 DEF Next

(* Whom a step lets Xray serve has an enabled row, or a restart is due, or  *)
(* it is one of the cases NoFreeRide names.                                 *)
THEOREM NobodyRidesFree == Spec => NoFreeRide
BY StepsArePaid, Invariance, PTL DEF Spec, NoFreeRide

-----------------------------------------------------------------------------
(* Nobody is left out *)

(* Why client c is as served after a step as it has to be.                  *)
Served(c) ==
  \/ c \in x'.served
  \/ WillRestart'
  \/ x.up /\ c \in Entitled \ x.served
  \/ Overtaken

LEMMA ServedEnough ==
  ASSUME x'.up => \A c \in Entitled' : Served(c)
  PROVE  TheEntitledAreServed
BY DEF Served, TheEntitledAreServed

LEMMA EntitledIs ==
  ASSUME NEW c \in Entitled'
  PROVE  /\ inb'.there /\ inb'.on
         /\ c \in DOMAIN inb'.ent /\ On(inb'.ent, c)
         /\ c \in DOMAIN row' => On(row', c)
         /\ ~BeingDeleted(c)'
<1>1. c \in Config(inb', row').served /\ ~BeingDeleted(c)'
  BY DEF Entitled
<1>2. QED BY <1>1, ConfigUsers

(* Who was entitled before and is as served as before. *)
LEMMA StillServed ==
  ASSUME NEW c, x.up, inb.there, inb.on, c \in DOMAIN inb.ent, On(inb.ent, c),
         c \in DOMAIN row => On(row, c), ~BeingDeleted(c),
         c \in x.served => c \in x'.served \/ WillRestart'
  PROVE  Served(c)
<1>1. c \in Config(inb, row).served BY UsersOfConfig
<1>2. c \in Entitled BY <1>1 DEF Entitled
<1>3. QED BY <1>2 DEF Served

(* Nobody is newly entitled and everybody is served who was.                *)
LEMMA SameEntitled ==
  ASSUME inb'.there => inb.there, inb'.on => inb.on, inb'.ent = inb.ent,
         DOMAIN row' = DOMAIN row, \A c \in DOMAIN row : On(row', c) => On(row, c),
         x.served \subseteq x'.served, x'.up => x.up,
         req' = req \/ req.kind # "delSave"
  PROVE  TheEntitledAreServed
<1>1. ASSUME x'.up, NEW c \in Entitled' PROVE Served(c)
  <2>1. /\ inb.there /\ inb.on /\ c \in DOMAIN inb.ent /\ On(inb.ent, c)
        /\ c \in DOMAIN row => On(row, c)
        /\ ~BeingDeleted(c)'
    BY <1>1, EntitledIs
  <2>2. ~BeingDeleted(c) BY <2>1 DEF BeingDeleted
  <2>3. QED BY <1>1, <2>1, <2>2, StillServed
<1>2. QED BY <1>1, ServedEnough

LEMMA QuietServes ==
  ASSUME Quiet, req' = req \/ req.kind # "delSave"
  PROVE  TheEntitledAreServed
BY SameEntitled DEF Quiet

LEMMA FlagServes ==
  ASSUME flag' PROVE TheEntitledAreServed
BY ServedEnough DEF Served, WillRestart

(* One case per write of a handler.                                         *)
LEMMA HandlersServe ==
  ASSUME IInv, Writing
  PROVE  TheEntitledAreServed
<1>1. /\ IsInbound(inb) /\ IsTable(row, RowType)
      /\ World.row = row /\ World'.row = row' /\ World.x = x /\ World'.x = x'
      /\ World'.inb = inb' /\ World.inb = inb /\ (World'.flag <=> flag')
      /\ IsTable(inb.ent, ClientType)
  <2>1. IsInbound(inb) /\ IsTable(row, RowType) BY WorldOK DEF IInv
  <2>2. QED BY <2>1, WorldFields DEF IsInbound
<1>2. CASE AddInboundClient
  <2>1. PICK ok \in BOOLEAN : Added(World', World, req, ok)
    BY <1>2, AddInboundClientOK
  <2>2. req.kind = "add" BY <1>2 DEF AddInboundClient
  <2>3. CASE req.seen # inb BY <2>2, <2>3, ServedEnough DEF Served, Overtaken
  <2>4. CASE req.seen = inb
    <3>1. inb' = [inb EXCEPT !.ent = Put(inb.ent, req.email, req.client)]
      BY <1>1, <2>1, <2>4 DEF Added
    <3>2. /\ (inb'.there <=> inb.there) /\ (inb'.on <=> inb.on)
          /\ inb'.ent = Put(inb.ent, req.email, req.client)
      BY <1>1, <3>1 DEF IsInbound
    <3>3. PICK S : S = If(req.client.enable, req.email) OBVIOUS
    <3>4. /\ x'.up = x.up
          /\ x'.served = x.served \cup S \/ (x'.served = x.served /\ (S = {} \/ flag'))
      BY <1>1, <2>1, <3>3 DEF Added, Told
    <3>5. ASSUME x'.up, NEW c \in Entitled', ~flag' PROVE Served(c)
      <4>1. /\ inb.there /\ inb.on /\ c \in DOMAIN inb'.ent /\ On(inb'.ent, c)
            /\ c \in DOMAIN row' => On(row', c)
        BY <3>2, <3>5, EntitledIs
      <4>2. CASE c = req.email
        <5>1. req.client.enable BY <3>2, <4>1, <4>2 DEF On, Put
        <5>2. c \in x'.served BY <3>3, <3>4, <3>5, <4>2, <5>1 DEF If
        <5>3. QED BY <5>2 DEF Served
      <4>3. CASE c # req.email
        <5>1. c \in DOMAIN inb.ent /\ On(inb.ent, c)
          BY <3>2, <4>1, <4>3 DEF On, Put
        <5>2. c \in DOMAIN row => On(row, c)
          BY <1>1, <2>1, <4>1, <4>3 DEF Added, On, Put
        <5>3. QED BY <2>2, <3>4, <3>5, <4>1, <5>1, <5>2, StillServed DEF BeingDeleted
      <4>4. QED BY <4>2, <4>3
    <3>6. QED BY <3>5, FlagServes, ServedEnough
  <2>5. QED BY <2>3, <2>4
<1>3. CASE UpdateInboundClient
  <2>1. req.kind = "edit" BY <1>3 DEF UpdateInboundClient
  <2>2. CASE Fails
    BY <2>1, <2>2, FailsQuiet, QuietServes
  <2>3. CASE req.seen # inb BY <2>1, <2>3, ServedEnough DEF Served, Overtaken
  <2>4. ASSUME req.seen = inb, NEW ok \in BOOLEAN, Edited(World', World, req, ok)
        PROVE  TheEntitledAreServed
    <3>1. PICK ent : ent = Put(Without(inb.ent, {req.email}), req.to, req.client) OBVIOUS
    <3>2. inb' = [inb EXCEPT !.ent = ent]
      BY <1>1, <2>4, <3>1 DEF Edited, Renamed
    <3>3. (inb'.there <=> inb.there) /\ (inb'.on <=> inb.on) /\ inb'.ent = ent
      BY <1>1, <3>2 DEF IsInbound
    <3>4. PICK old : old = If(req.seen.ent[req.email].enable, req.email) OBVIOUS
    <3>5. PICK new : new = If(req.client.enable, req.to) OBVIOUS
    <3>6. Told(World', World, old \cup new, (x.served \ old) \cup new, ok)
      BY <1>1, <2>4, <3>4, <3>5 DEF Edited
    <3>7. /\ x'.up = x.up
          /\ \/ x'.served = (x.served \ old) \cup new
             \/ x'.served = x.served /\ old \cup new = {}
             \/ flag'
      <4>1. CASE Reaches(World, ok) BY <1>1, <3>6, <4>1 DEF Told
      <4>2. CASE ~Reaches(World, ok) BY <1>1, <3>6, <4>2 DEF Told
      <4>3. QED BY <4>1, <4>2
    <3>8. ASSUME x'.up, NEW c \in Entitled', ~flag' PROVE Served(c)
      <4>1. /\ inb.there /\ inb.on /\ c \in DOMAIN inb'.ent /\ On(inb'.ent, c)
            /\ c \in DOMAIN row' => On(row', c)
        BY <3>3, <3>8, EntitledIs
      <4>2. CASE c = req.to
        <5>1. req.client.enable BY <3>1, <3>3, <4>1, <4>2 DEF On, Put
        <5>2. c \in x'.served BY <3>5, <3>7, <3>8, <4>2, <5>1 DEF If
        <5>3. QED BY <5>2 DEF Served
      <4>3. CASE c # req.to
        <5>1. c # req.email /\ c \in DOMAIN inb.ent /\ On(inb.ent, c)
          BY <3>1, <3>3, <4>1, <4>3 DEF On, Put, Without
        <5>2. c \in DOMAIN row => On(row, c)
          <6>1. CASE req.email \notin DOMAIN row
            BY <1>1, <2>4, <4>1, <6>1 DEF Edited
          <6>2. CASE req.email \in DOMAIN row
            <7>1. PICK s : row' = Put(Without(row, {req.email}), req.to, s)
              BY <1>1, <2>4, <6>2 DEF Edited
            <7>2. QED BY <4>1, <4>3, <5>1, <7>1 DEF On, Put, Without
          <6>3. QED BY <6>1, <6>2
        <5>3. c \notin old BY <3>4, <5>1 DEF If
        <5>4. c \in x.served => c \in x'.served BY <3>7, <3>8, <5>3
        <5>5. QED BY <2>1, <3>7, <3>8, <4>1, <5>1, <5>2, <5>4, StillServed DEF BeingDeleted
      <4>4. QED BY <4>2, <4>3
    <3>9. QED BY <3>8, FlagServes, ServedEnough
  <2>5. QED BY <1>3, <2>2, <2>3, <2>4, UpdateInboundClientOK
<1>4. CASE DelClientStat
  <2>1. req.kind = "del" BY <1>4 DEF DelClientStat
  <2>2. CASE Fails
    BY <2>1, <2>2, FailsQuiet, QuietServes
  <2>3. ASSUME NEW ok \in BOOLEAN, Deleted(World', World, req, req', ok)
        PROVE  TheEntitledAreServed
    <3>1. inb' = inb /\ row' = Without(row, {req.email}) /\ x'.up = x.up
          /\ req'.kind = "delSave" /\ req'.email = req.email
      BY <1>1, <2>3 DEF Deleted
    <3>2. x.served \ {req.email} \subseteq x'.served
      BY <1>1, <2>3 DEF Deleted, If
    <3>3. ASSUME x'.up, NEW c \in Entitled' PROVE Served(c)
      <4>1. /\ inb.there /\ inb.on /\ c \in DOMAIN inb.ent /\ On(inb.ent, c)
            /\ c \in DOMAIN row' => On(row', c)
            /\ c # req.email
        BY <3>1, <3>3, EntitledIs DEF BeingDeleted
      <4>2. c \in DOMAIN row => On(row, c) BY <3>1, <4>1 DEF Without, On
      <4>3. QED BY <2>1, <3>1, <3>2, <3>3, <4>1, <4>2, StillServed DEF BeingDeleted
    <3>4. QED BY <3>3, ServedEnough
  <2>4. QED BY <1>4, <2>2, <2>3, DelClientStatOK
<1>5. CASE SaveWithoutClient
  <2>1. Saved(World', World, req) BY <1>5, SaveWithoutClientOK
  <2>2. req.kind = "delSave" BY <1>5 DEF SaveWithoutClient
  <2>3. CASE req.seen # inb BY <2>2, <2>3, ServedEnough DEF Served, Overtaken
  <2>4. CASE req.seen = inb
    <3>1. PICK ent : ent = Without(inb.ent, {req.email}) OBVIOUS
    <3>2. inb' = [inb EXCEPT !.ent = ent] /\ x' = x /\ row' = row
      BY <1>1, <2>1, <2>4, <3>1 DEF Saved
    <3>3. (inb'.there <=> inb.there) /\ (inb'.on <=> inb.on) /\ inb'.ent = ent
      BY <1>1, <3>2 DEF IsInbound
    <3>4. ASSUME x'.up, NEW c \in Entitled' PROVE Served(c)
      <4>1. /\ inb.there /\ inb.on /\ c \in DOMAIN ent /\ On(ent, c)
            /\ c \in DOMAIN row => On(row, c)
        BY <3>2, <3>3, <3>4, EntitledIs
      <4>2. c # req.email /\ c \in DOMAIN inb.ent /\ On(inb.ent, c)
        BY <3>1, <4>1 DEF Without, On
      <4>3. QED BY <3>2, <3>4, <4>1, <4>2, StillServed DEF BeingDeleted
    <3>5. QED BY <3>4, ServedEnough
  <2>5. QED BY <2>3, <2>4
<1>6. CASE ResetClientTraffic
  <2>1. PICK ok \in BOOLEAN : Reset(World', World, req, ok)
    BY <1>6, ResetClientTrafficOK
  <2>2. req.kind = "reset" BY <1>6 DEF ResetClientTraffic
  <2>3. PICK back : back = (/\ ~req.seen.enable
                            /\ req.email \in DOMAIN inb.ent
                            /\ On(inb.ent, req.email))
    OBVIOUS
  <2>4. Told(World', World, If(back, req.email), x.served \cup If(back, req.email), ok)
    BY <1>1, <2>1, <2>3 DEF Reset
  <2>5. /\ x'.up = x.up
        /\ x.served \subseteq x'.served
        /\ back => req.email \in x'.served \/ flag'
    <3>1. CASE Reaches(World, ok) BY <1>1, <2>4, <3>1 DEF Told, If
    <3>2. CASE ~Reaches(World, ok) BY <1>1, <2>4, <3>2 DEF Told, If
    <3>3. QED BY <3>1, <3>2
  <2>6. PICK s : inb' = inb /\ row' = Put(row, req.email, s)
    BY <1>1, <2>1 DEF Reset
  <2>7. ASSUME x'.up, NEW c \in Entitled', ~flag' PROVE Served(c)
    <3>1. /\ inb.there /\ inb.on /\ c \in DOMAIN inb.ent /\ On(inb.ent, c)
          /\ c \in DOMAIN row' => On(row', c)
      BY <2>6, <2>7, EntitledIs
    <3>2. CASE c = req.email /\ back
      BY <2>5, <2>7, <3>2 DEF Served
    <3>3. CASE c = req.email /\ ~back
      <4>1. req.seen.enable BY <2>3, <3>1, <3>3
      <4>2. c \in DOMAIN row /\ On(row, c)
        BY <2>2, <3>1, <3>3, <4>1 DEF IInv, ResetOK
      <4>3. QED BY <2>2, <2>5, <2>7, <3>1, <4>2, StillServed DEF BeingDeleted
    <3>4. CASE c # req.email
      <4>1. c \in DOMAIN row => On(row, c) BY <2>6, <3>1, <3>4 DEF On, Put
      <4>2. QED BY <2>2, <2>5, <2>7, <3>1, <4>1, StillServed DEF BeingDeleted
    <3>5. QED BY <3>2, <3>3, <3>4
  <2>8. QED BY <2>7, FlagServes, ServedEnough
<1>7. CASE DelDepletedClients
  <2>1. req.kind = "depleted" BY <1>7 DEF DelDepletedClients
  <2>2. CASE Overtaken BY <2>2, ServedEnough DEF Served
  <2>3. CASE Pruned(World', World, req) /\ ~Overtaken
    <3>1. req.seen = inb /\ req.emails = DepletedForGood(req.now)
      BY <2>1, <2>3 DEF Overtaken
    <3>2. row' = Without(row, req.emails) /\ x' = x
      BY <1>1, <2>3, <3>1 DEF Pruned
    <3>3. /\ (inb'.there <=> inb.there) /\ (inb'.on <=> inb.on)
          /\ DOMAIN inb'.ent = DOMAIN inb.ent \ req.emails
          /\ \A c \in DOMAIN inb'.ent : inb'.ent[c] = inb.ent[c]
      <4>1. CASE req.emails = {} BY <1>1, <2>3, <4>1 DEF Pruned
      <4>2. CASE req.emails # {}
        <5>1. inb' = [inb EXCEPT !.ent = Without(inb.ent, req.emails)]
          BY <1>1, <2>3, <3>1, <4>2 DEF Pruned
        <5>2. QED BY <1>1, <5>1 DEF IsInbound, Without
      <4>3. QED BY <4>1, <4>2
    <3>4. ASSUME x'.up, NEW c \in Entitled' PROVE Served(c)
      <4>1. /\ inb.there /\ inb.on /\ c \in DOMAIN inb'.ent /\ On(inb'.ent, c)
            /\ c \in DOMAIN row' => On(row', c)
        BY <3>3, <3>4, EntitledIs
      <4>2. c \in DOMAIN inb.ent /\ On(inb.ent, c) /\ c \notin req.emails
        BY <3>3, <4>1 DEF On
      <4>3. c \in DOMAIN row => On(row, c)
        BY <3>2, <4>1, <4>2 DEF Without, On
      <4>4. QED BY <2>1, <3>2, <3>4, <4>1, <4>2, <4>3, StillServed DEF BeingDeleted
    <3>5. QED BY <3>4, ServedEnough
  <2>4. CASE InboundDeleted(World', World)
    <3>1. ~inb'.there BY <1>1, <2>4, NoInboundOK DEF InboundDeleted
    <3>2. QED BY <3>1, EntitledIs, ServedEnough
  <2>5. QED BY <1>7, <2>2, <2>3, <2>4, DelDepletedClientsOK
<1>8. CASE UpdateInbound
  <2>1. req.kind = "update" BY <1>8 DEF UpdateInbound
  <2>2. CASE Fails
    BY <2>1, <2>2, FailsQuiet, QuietServes
  <2>3. ASSUME NEW ok \in BOOLEAN, Updated(World', World, req, ok)
        PROVE  TheEntitledAreServed
    <3>1. inb' = req.form BY <1>1, <2>3 DEF Updated
    <3>2. CASE ~req.form.on
      <4>1. Entitled' = {} BY <3>1, <3>2, EntitledIs
      <4>2. QED BY <4>1, ServedEnough
    <3>3. CASE req.form.on /\ ~ok
      <4>1. flag' BY <1>1, <2>3, <3>3 DEF Updated, Rehosted
      <4>2. QED BY <4>1, FlagServes
    <3>4. CASE req.form.on /\ ok
      <4>1. x'.served = Eligible(inb'.ent, row')
        BY <1>1, <2>3, <3>1, <3>4 DEF Updated, Rehosted
      <4>2. ASSUME NEW c \in Entitled' PROVE Served(c)
        BY <4>1, <4>2, EntitledIs DEF Served, Eligible, On
      <4>3. QED BY <4>2, ServedEnough
    <3>5. QED BY <3>2, <3>3, <3>4
  <2>4. QED BY <1>8, <2>2, <2>3, UpdateInboundOK
<1>9. CASE SetInboundEnable
  <2>1. PICK ok \in BOOLEAN : Switched(World', World, req, ok)
    BY <1>9, SetInboundEnableOK
  <2>2. req.kind = "switch" BY <1>9 DEF SetInboundEnable
  <2>3. CASE req.seen # inb BY <2>2, <2>3, ServedEnough DEF Served, Overtaken
  <2>4. CASE ~ok
    <3>1. flag' BY <1>1, <2>1, <2>4 DEF Switched
    <3>2. QED BY <3>1, FlagServes
  <2>5. CASE req.seen = inb /\ ok
    <3>1. inb' = [inb EXCEPT !.on = req.on] /\ row' = row
      BY <1>1, <2>1 DEF Switched
    <3>2. inb'.ent = inb.ent /\ (inb'.on <=> req.on)
      <4>1. req.on \in BOOLEAN BY <2>2 DEF IInv, RequestOK
      <4>2. QED BY <1>1, <3>1, <4>1 DEF IsInbound
    <3>3. req.on => x'.served = Eligible(inb.ent, row)
      BY <1>1, <2>1, <2>5 DEF Switched, Rehosted
    <3>4. ASSUME NEW c \in Entitled' PROVE Served(c)
      BY <3>1, <3>2, <3>3, <3>4, EntitledIs DEF Served, Eligible, On
    <3>5. QED BY <3>4, ServedEnough
  <2>6. QED BY <2>1, <2>3, <2>4, <2>5
<1>10. QED
  BY <1>2, <1>3, <1>4, <1>5, <1>6, <1>7, <1>8, <1>9 DEF Writing

(* The passes take out only whom they disable, or ask for a restart.        *)
LEMMA CommitServes ==
  ASSUME IInv, CommitTraffic
  PROVE  TheEntitledAreServed
<1>1. PICK ok, a, b, d : ok \in BOOLEAN /\ Passes(a, b, d, World', World, batch, ok)
  BY CommitTrafficOK
<1>2. PICK v : v = World' OBVIOUS
<1>3. PICK w : w = World OBVIOUS
<1>4. /\ v.row = row' /\ v.x = x' /\ (v.flag <=> flag') /\ v.inb = inb'
      /\ w.row = row /\ w.x = x /\ w.inb = inb
  BY <1>2, <1>3, WorldFields
<1>5. Passes(a, b, d, v, w, batch, ok) BY <1>1, <1>2, <1>3
<1>6. req' = req BY DEF CommitTraffic
<1>7. /\ v.x.up = w.x.up /\ v.inb.there = w.inb.there
      /\ DOMAIN v.row = DOMAIN w.row /\ DOMAIN a.row = DOMAIN w.row
      /\ DOMAIN b.row = DOMAIN w.row
      /\ DOMAIN v.inb.ent = DOMAIN w.inb.ent
      /\ DOMAIN a.inb.ent = DOMAIN w.inb.ent
  BY <1>1, <1>5, PassesKeep DEF Keeps
<1>8. v.flag \/ ~v.inb.on \/ (w.x.served \cup GivenBack(a)) \ Invalid(b) \subseteq v.x.served
  BY <1>1, <1>5, UsersPass
<1>9. v.inb.on => w.inb.on
  <2>1. v.inb.on => v = d BY <1>5 DEF Passes, InboundsDisabled
  <2>2. d.inb.on = b.inb.on /\ b.inb.on = a.inb.on /\ a.inb.on = w.inb.on
    BY <1>5 DEF Passes, ClientsDisabled, AutoRenewed, Accounted
  <2>3. QED BY <2>1, <2>2
<1>10. ASSUME x'.up, NEW c \in Entitled', ~flag' PROVE Served(c)
  <2>1. /\ inb'.there /\ inb'.on /\ c \in DOMAIN inb'.ent /\ On(inb'.ent, c)
        /\ c \in DOMAIN row' => On(row', c)
        /\ ~BeingDeleted(c)'
    BY <1>10, EntitledIs
  <2>2. inb.there /\ inb.on /\ c \in DOMAIN inb.ent /\ x.up
    BY <1>4, <1>7, <1>9, <1>10, <2>1
  <2>3. c \in DOMAIN w.inb.ent BY <1>4, <2>2
  <2>4. /\ On(b.inb.ent, c) <=> On(w.inb.ent, c)
        /\ c \in Invalid(b) => ~On(v.inb.ent, c)
        /\ c \notin Invalid(b) => v.inb.ent[c] = b.inb.ent[c]
    BY <1>1, <1>5, <2>3, EntryPasses
  <2>5. c \notin Invalid(b) /\ On(inb.ent, c)
    BY <1>4, <2>1, <2>4 DEF On
  <2>6. (c \in x.served \/ c \in GivenBack(a)) => c \in x'.served
    BY <1>4, <1>8, <1>10, <2>1, <2>5
  <2>7. ~BeingDeleted(c) BY <1>6, <2>1 DEF BeingDeleted
  <2>8. CASE c \in DOMAIN row /\ ~On(row, c)
    <3>1. /\ On(a.row, c) <=> On(w.row, c)
          /\ c \notin Renewed(a) => b.row[c] = a.row[c]
          /\ c \notin Invalid(b) => v.row[c] = b.row[c]
      BY <1>1, <1>4, <1>5, <2>8, RowPasses
    <3>2. On(v.row, c) BY <1>4, <1>7, <2>1, <2>8
    <3>3. ~On(a.row, c) /\ On(b.row, c) BY <1>4, <2>5, <2>8, <3>1, <3>2 DEF On
    <3>4. c \in Renewed(a) BY <3>1, <3>3 DEF On
    <3>5. c \in GivenBack(a) BY <3>3, <3>4 DEF GivenBack, On
    <3>6. QED BY <2>6, <3>5 DEF Served
  <2>9. CASE c \in DOMAIN row => On(row, c)
    BY <2>2, <2>5, <2>6, <2>7, <2>9, StillServed
  <2>10. QED BY <2>8, <2>9
<1>11. QED BY <1>10, FlagServes, ServedEnough

(* The other actions.                                                       *)
LEMMA StepsServe == IInv /\ [Next]_vars => TheEntitledAreServed
<1> SUFFICES ASSUME IInv, [Next]_vars PROVE TheEntitledAreServed OBVIOUS
<1>1. /\ World.row = row /\ World'.row = row' /\ World.x = x /\ World'.x = x'
      /\ World.inb = inb /\ World'.inb = inb' /\ (World'.flag <=> flag')
      /\ IsXray(x)
  BY WorldFields, WorldOK DEF IInv
<1>2. CASE Tick \/ OpenForm \/ UNCHANGED vars BY <1>2, TickQuiet, QuietServes
<1>3. CASE Crash
  <2>1. ~x'.up BY <1>1, <1>3 DEF Crash, IsXray
  <2>2. QED BY <2>1, ServedEnough
<1>4. CASE ReadCounters
  <2>1. /\ x'.served = x.served /\ x'.up = x.up
        /\ row' = row /\ inb' = inb /\ req' = req
    BY <1>1, <1>4 DEF ReadCounters, IsXray
  <2>2. QED BY <2>1, SameEntitled
<1>5. CASE LoseTraffic
  <2>1. x' = x /\ row' = row /\ inb' = inb /\ req' = req BY <1>5 DEF LoseTraffic
  <2>2. QED BY <2>1, SameEntitled
<1>6. CASE CommitTraffic BY <1>6, CommitServes
<1>7. CASE Restart
  <2>1. PICK ok, u : ok \in BOOLEAN /\ Settles(u, World, ok) /\ Reloaded(World', u)
    BY <1>7, RestartOK
  <2>2. x'.served = Config(inb', row').served BY <1>1, <2>1 DEF Reloaded
  <2>3. \A c \in Entitled' : c \in x'.served BY <2>2 DEF Entitled
  <2>4. QED BY <2>3, ServedEnough DEF Served
<1>8. CASE RestartIfNeeded BY <1>8 DEF TheEntitledAreServed
<1>9. CASE PeriodicTrafficReset BY <1>9 DEF TheEntitledAreServed
<1>10. CASE Requesting
  <2>1. CASE AskAdd \/ AskUpdateClient \/ AskDelClient \/ AskResetClient
             \/ AskDelDepleted \/ AskUpdateInbound \/ AskSetEnable
    <3>1. Quiet /\ req = Idle BY <2>1, AskQuiet
    <3>2. QED BY <3>1, QuietServes DEF Idle
  <2>2. CASE AddInbound
    <3>1. PICK S, ent : InboundAdded(World', World, S, ent) BY <2>2, AddInboundOK
    <3>2. DOMAIN inb'.ent = S /\ (x'.served = S \/ flag')
      BY <1>1, <3>1 DEF InboundAdded
    <3>3. CASE x'.served = S
      <4>1. \A c \in Entitled' : c \in x'.served BY <3>2, <3>3, EntitledIs
      <4>2. QED BY <4>1, ServedEnough DEF Served
    <3>4. QED BY <3>2, <3>3, FlagServes
  <2>3. CASE DeleteInbound
    <3>1. InboundDeleted(World', World) BY <2>3, DeleteInboundOK
    <3>2. ~inb'.there BY <1>1, <3>1, NoInboundOK DEF InboundDeleted
    <3>3. QED BY <3>2, EntitledIs, ServedEnough
  <2>4. CASE ResetAllClientTraffics BY <2>4, ResetAllOK, FlagServes
  <2>5. CASE UpdateClientTraffic
    <3>1. /\ inb' = inb /\ x' = x /\ DOMAIN row' = DOMAIN row
          /\ \A c \in DOMAIN row : CounterSet(row[c], row'[c])
      BY <2>5, UpdateClientTrafficOK
    <3>2. req' = req BY <2>5 DEF UpdateClientTraffic, Request
    <3>3. QED BY <3>1, <3>2, SameEntitled DEF CounterSet, On
  <2>6. QED BY <1>10, <2>1, <2>2, <2>3, <2>4, <2>5 DEF Requesting
<1>11. CASE Writing BY <1>11, HandlersServe
<1>12. CASE \E c \in Emails : Use(c)
  <2>1. PICK e \in Emails : Use(e) BY <1>12
  <2>2. /\ x'.served = x.served /\ x'.up = x.up
        /\ row' = row /\ inb' = inb /\ req' = req
    BY <1>1, <2>1 DEF Use, IsXray
  <2>3. QED BY <2>2, SameEntitled
<1>13. QED
  BY <1>2, <1>3, <1>4, <1>5, <1>6, <1>7, <1>8, <1>9, <1>10, <1>11, <1>12 DEF Next

(* Whom the database entitles is served after each step, or a restart is    *)
(* due, or it is one of the cases NobodyLeftOut names.                      *)
THEOREM EverybodyIsServed == Spec => NobodyLeftOut
BY StepsServe, Invariance, PTL DEF Spec, NobodyLeftOut
==============================================================================
