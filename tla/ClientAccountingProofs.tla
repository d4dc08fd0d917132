------------------------ MODULE ClientAccountingProofs ------------------------
(***************************************************************************)
(* The inductive invariant of ClientAccounting, for any emails, plans and  *)
(* bounds.                                                                 *)
(*                                                                         *)
(* The database, Xray and the flag make a world; the passes of AddTraffic  *)
(* and the calls of Xray are functions of worlds.  The proof follows them: *)
(*   1. lemmas on the calls of the API and on the tables;                  *)
(*   2. one lemma per pass, and what the four do to one client (Passes);   *)
(*   3. one lemma per handler, which shows that it keeps the invariant and *)
(*      names its effect (Added, Edited, Deleted, Saved, Reset, Pruned,    *)
(*      Updated, Switched ...), which ClientAccountingStepProofs uses;     *)
(*   4. the steps that may come between a handler's read and its write     *)
(*      spare what the handler has read (Spares).                          *)
(* The invariant adds to the types that what is down serves nobody, that a *)
(* deleted inbound leaves nothing behind, that no client comes or goes     *)
(* while a handler works on what it has read, and that a row which was     *)
(* enabled when its reset began is disabled only together with its entry.  *)
(***************************************************************************)
EXTENDS ClientAccounting, TLAPS

(* A world of the right types: the tables of the database, Xray, the flag.  *)
IsWorld(w) ==
  /\ w \in [inb : {w.inb}, row : {w.row}, x : {w.x}, flag : BOOLEAN]
  /\ IsInbound(w.inb)
  /\ IsTable(w.row, RowType)
  /\ IsXray(w.x)

(* A call about users reaches the inbound in Xray. *)
Reaches(w, ok) == ok /\ w.x.hosted

(* What a call of the API of Xray about users leaves alone. *)
SameButUsers(v, w) ==
  /\ v.inb = w.inb
  /\ v.row = w.row
  /\ v.x.up = w.x.up
  /\ v.x.hosted = w.x.hosted
  /\ v.x.conf = w.x.conf
  /\ v.x.live = w.x.live

(* S have become T among the users, or a restart is asked for. *)
CalledFor(v, w, S, T, ok) ==
  /\ SameButUsers(v, w)
  /\ Reaches(w, ok) => v.x.served = T
  /\ ~Reaches(w, ok) => v.x.served = w.x.served
  /\ w.flag => v.flag
  /\ S # {} /\ ~Reaches(w, ok) => v.flag

(* AddUser for a set of users: they are served, or a restart is due.        *)
LEMMA AddUsersOK ==
  ASSUME NEW w, IsWorld(w), NEW S \in SUBSET Emails, NEW ok \in BOOLEAN,
         NEW v, v = AddUsers(w, S, ok)
  PROVE  IsWorld(v) /\ CalledFor(v, w, S, w.x.served \cup S, ok)
BY DEF CalledFor, Reaches, AddUsers, IsWorld, SameButUsers, IsXray

(* RemoveUser for a set of users.                                           *)
LEMMA RemoveUsersOK ==
  ASSUME NEW w, IsWorld(w), NEW S \in SUBSET Emails, NEW ok \in BOOLEAN,
         NEW v, v = RemoveUsers(w, S, ok)
  PROVE  IsWorld(v) /\ CalledFor(v, w, S, w.x.served \ S, ok)
BY DEF CalledFor, Reaches, RemoveUsers, IsWorld, SameButUsers, IsXray

Dropped(v, w, ok) ==
  /\ v.inb = w.inb
  /\ v.row = w.row
  /\ v.flag = w.flag
  /\ v.x.up = w.x.up
  /\ v.x.conf = w.x.conf
  /\ v.x.live = w.x.live
  /\ ok => ~v.x.hosted /\ v.x.served = {}
  /\ ~ok => v.x = w.x

(* DelInbound of the API.                                                   *)
LEMMA DropInboundOK ==
  ASSUME NEW w, IsWorld(w), NEW ok \in BOOLEAN, NEW v, v = DropInbound(w, ok)
  PROVE  IsWorld(v) /\ Dropped(v, w, ok)
BY DEF Dropped, DropInbound, IsWorld, IsXray

HostedWith(v, w, S, ok) ==
  /\ v.inb = w.inb
  /\ v.row = w.row
  /\ v.x.up = w.x.up
  /\ v.x.conf = w.x.conf
  /\ v.x.live = w.x.live
  /\ ok /\ ~w.x.hosted => v.x.hosted /\ v.x.served = S /\ v.flag = w.flag
  /\ ~ok \/ w.x.hosted => v.x = w.x /\ v.flag

(* AddInbound of the API, refused when the tag is taken.                     *)
LEMMA HostInboundOK ==
  ASSUME NEW w, IsWorld(w), NEW S \in SUBSET Emails, NEW ok \in BOOLEAN,
         NEW v, v = HostInbound(w, S, ok)
  PROVE  IsWorld(v) /\ HostedWith(v, w, S, ok)
BY DEF HostedWith, HostInbound, IsWorld, IsXray

-----------------------------------------------------------------------------
(* Tables *)

(* A function whose values have the type is a table of that type.            *)
LEMMA TableOK ==
  ASSUME NEW T, NEW f, IsTable(f, T), NEW g, g = [c \in DOMAIN f |-> g[c]],
         \A c \in DOMAIN f : g[c] \in T
  PROVE  IsTable(g, T)
BY DEF IsTable

(* What changes a table keeps its type and its keys.                         *)
LEMMA DatedOK ==
  ASSUME NEW T \in {ClientType, RowType}, NEW f, IsTable(f, T), NEW dates,
         \A c \in DOMAIN dates : dates[c] \in Int
  PROVE  IsTable(Dated(f, dates), T)
<1> DEFINE g == Dated(f, dates)
<1>1. ASSUME NEW c \in DOMAIN f PROVE g[c] \in T
  <2>1. f[c] \in T BY DEF IsTable
  <2>2. CASE c \in DOMAIN dates
    <3>1. g[c] = [f[c] EXCEPT !.expiry = dates[c]] /\ dates[c] \in Int
      BY <2>2 DEF Dated
    <3>2. CASE T = ClientType BY <2>1, <3>1, <3>2 DEF ClientType
    <3>3. CASE T = RowType BY <2>1, <3>1, <3>3 DEF RowType
    <3>4. QED BY <3>2, <3>3
  <2>3. CASE c \notin DOMAIN dates
    BY <2>1, <2>3 DEF Dated
  <2>4. QED BY <2>2, <2>3
<1>2. g = [c \in DOMAIN f |-> g[c]]
  BY DEF Dated
<1> HIDE DEF g
<1>3. IsTable(g, T) BY <1>1, <1>2, TableOK
<1>4. QED BY <1>3 DEF g

LEMMA ChargedOK ==
  ASSUME NEW rows, IsTable(rows, RowType), NEW counts, IsTable(counts, Nat)
  PROVE  IsTable(Charged(rows, counts), RowType)
<1> DEFINE g == Charged(rows, counts)
<1>1. ASSUME NEW c \in DOMAIN rows PROVE g[c] \in RowType
  <2>1. rows[c] \in RowType BY DEF IsTable
  <2>2. CASE c \in DOMAIN counts
    <3>1. g[c] = [rows[c] EXCEPT !.used = @ + counts[c], !.all = @ + counts[c]]
      BY <2>2 DEF Charged
    <3>2. counts[c] \in Nat BY <2>2 DEF IsTable
    <3>3. rows[c].used + counts[c] \in Nat /\ rows[c].all + counts[c] \in Nat
      BY <2>1, <3>2 DEF RowType
    <3>4. QED BY <2>1, <3>1, <3>3 DEF RowType
  <2>3. CASE c \notin DOMAIN counts
    BY <2>1, <2>3 DEF Charged
  <2>4. QED BY <2>2, <2>3
<1>2. g = [c \in DOMAIN rows |-> g[c]]
  BY DEF Charged
<1> HIDE DEF g
<1>3. IsTable(g, RowType) BY <1>1, <1>2, TableOK
<1>4. QED BY <1>3 DEF g

LEMMA AfreshOK ==
  ASSUME NEW rows, IsTable(rows, RowType), NEW S
  PROVE  IsTable(Afresh(rows, S), RowType)
<1> DEFINE g == Afresh(rows, S)
<1>1. ASSUME NEW c \in DOMAIN rows PROVE g[c] \in RowType
  <2>1. rows[c] \in RowType BY DEF IsTable
  <2>2. QED BY <2>1 DEF Afresh, RowType
<1>2. g = [c \in DOMAIN rows |-> g[c]]
  BY DEF Afresh
<1> HIDE DEF g
<1>3. IsTable(g, RowType) BY <1>1, <1>2, TableOK
<1>4. QED BY <1>3 DEF g

LEMMA DisabledOK ==
  ASSUME NEW T \in {ClientType, RowType}, NEW f, IsTable(f, T), NEW S
  PROVE  IsTable(Disabled(f, S), T)
<1> DEFINE g == Disabled(f, S)
<1>1. ASSUME NEW c \in DOMAIN f PROVE g[c] \in T
  <2>1. f[c] \in T BY DEF IsTable
  <2>2. CASE T = ClientType BY <2>1, <2>2 DEF Disabled, ClientType
  <2>3. CASE T = RowType BY <2>1, <2>3 DEF Disabled, RowType
  <2>4. QED BY <2>2, <2>3
<1>2. g = [c \in DOMAIN f |-> g[c]]
  BY DEF Disabled
<1> HIDE DEF g
<1>3. IsTable(g, T) BY <1>1, <1>2, TableOK
<1>4. QED BY <1>3 DEF g

LEMMA PutOK ==
  ASSUME NEW T, NEW f, IsTable(f, T), NEW c \in Emails, NEW e \in T
  PROVE  /\ IsTable(Put(f, c, e), T)
         /\ DOMAIN Put(f, c, e) = DOMAIN f \cup {c}
         /\ Put(f, c, e)[c] = e
         /\ \A d \in DOMAIN f : d # c => Put(f, c, e)[d] = f[d]
BY DEF Put, IsTable

LEMMA WithoutOK ==
  ASSUME NEW T, NEW f, IsTable(f, T), NEW S
  PROVE  /\ IsTable(Without(f, S), T)
         /\ DOMAIN Without(f, S) = DOMAIN f \ S
         /\ \A d \in DOMAIN f \ S : Without(f, S)[d] = f[d]
BY DEF Without, IsTable

LEMMA NoClientsOK ==
  ASSUME NEW T PROVE IsTable(NoClients, T) /\ DOMAIN NoClients = {}
BY DEF NoClients, IsTable

LEMMA NoInboundOK == IsInbound(NoInbound) /\ NoInbound.ent = NoClients /\ ~NoInbound.there
BY NoClientsOK DEF NoInbound, IsInbound

LEMMA NoCountersOK == AreCounters(NoCounters) /\ NoCounters.clients = NoClients
BY NoClientsOK DEF NoCounters, AreCounters

-----------------------------------------------------------------------------
(* The passes of AddTraffic *)

(* Clients and rows are those that were, in the same inbound. *)
Keeps(v, w) ==
  /\ v.inb.there = w.inb.there
  /\ v.inb.total = w.inb.total
  /\ DOMAIN v.inb.ent = DOMAIN w.inb.ent
  /\ DOMAIN v.row = DOMAIN w.row
  /\ v.x.up = w.x.up
  /\ v.x.conf = w.x.conf
  /\ v.x.live = w.x.live
  /\ w.flag => v.flag

(* Clients seen for the first time, whose period begins with their traffic. *)
Starting(w, seen) == {c \in seen : w.row[c].expiry < 0 /\ c \in DOMAIN w.inb.ent}

StartDates(w, seen) == [c \in Starting(w, seen) |-> clock - w.inb.ent[c].expiry]

LEMMA StartDatesOK ==
  ASSUME NEW w, IsWorld(w), NEW seen, seen \subseteq DOMAIN w.row, clock \in Nat,
         NEW dates, dates = StartDates(w, seen)
  PROVE  \A c \in DOMAIN dates : dates[c] \in Int
<1>1. ASSUME NEW c \in DOMAIN dates PROVE dates[c] \in Int
  <2>1. c \in DOMAIN w.inb.ent /\ dates[c] = clock - w.inb.ent[c].expiry
    BY DEF StartDates, Starting
  <2>2. w.inb.ent[c] \in ClientType
    BY <2>1 DEF IsWorld, IsInbound, IsTable
  <2>3. w.inb.ent[c].expiry \in Int
    BY <2>2 DEF ClientType
  <2>4. QED BY <2>1, <2>3
<1>2. QED BY <1>1

(* adjustTraffics: the row and the entry are given the same date.           *)
LEMMA AdjustOK ==
  ASSUME NEW w, IsWorld(w), NEW seen, seen \subseteq DOMAIN w.row, clock \in Nat,
         NEW v, v = Adjust(w, seen)
  PROVE  /\ IsWorld(v)
         /\ Keeps(v, w)
         /\ v.inb.on = w.inb.on
         /\ v.inb.ent = Dated(w.inb.ent, StartDates(w, seen))
         /\ v.row = Dated(w.row, StartDates(w, seen))
         /\ v.x = w.x
<1> DEFINE dates == StartDates(w, seen)
<1>1. \A c \in DOMAIN dates : dates[c] \in Int
  BY StartDatesOK
<1>2. v = [w EXCEPT !.inb.ent = Dated(@, dates), !.row = Dated(@, dates)]
  BY DEF Adjust, StartDates, Starting
<1> HIDE DEF dates
<1>3. IsTable(Dated(w.inb.ent, dates), ClientType)
  BY <1>1, DatedOK DEF IsWorld, IsInbound
<1>4. IsTable(Dated(w.row, dates), RowType)
  BY <1>1, DatedOK DEF IsWorld
<1>5. /\ v.inb.ent = Dated(w.inb.ent, dates)
      /\ v.row = Dated(w.row, dates)
      /\ v.x = w.x /\ v.flag = w.flag
      /\ v.inb = [w.inb EXCEPT !.ent = Dated(w.inb.ent, dates)]
  BY <1>2 DEF IsWorld, IsInbound
<1>6. v \in [inb : {v.inb}, row : {v.row}, x : {v.x}, flag : BOOLEAN]
  BY <1>2 DEF IsWorld
<1>7. IsInbound(v.inb) /\ v.inb.on = w.inb.on /\ v.inb.there = w.inb.there
                       /\ v.inb.total = w.inb.total
  BY <1>3, <1>5 DEF IsWorld, IsInbound
<1>8. DOMAIN v.inb.ent = DOMAIN w.inb.ent /\ DOMAIN v.row = DOMAIN w.row
  BY <1>5 DEF Dated
<1>9. QED BY <1>4, <1>5, <1>6, <1>7, <1>8 DEF IsWorld, Keeps, dates

Seen(w, n) == DOMAIN n.clients \cap DOMAIN w.row

(* What Count has made of world w: dates and charges, and nothing else.      *)
Accounted(v, w, n) ==
  /\ Keeps(v, w)
  /\ v.inb.on = w.inb.on
  /\ v.inb.ent = Dated(w.inb.ent, StartDates(w, Seen(w, n)))
  /\ v.row = Charged(Dated(w.row, StartDates(w, Seen(w, n))), n.clients)
  /\ v.x = w.x

LEMMA CountOK ==
  ASSUME NEW w, IsWorld(w), NEW n, AreCounters(n), clock \in Nat,
         NEW v, v = Count(w, n)
  PROVE  IsWorld(v) /\ Accounted(v, w, n)
<1>1. PICK u : u = Adjust(w, Seen(w, n)) OBVIOUS
<1>2. /\ IsWorld(u) /\ Keeps(u, w) /\ u.inb.on = w.inb.on /\ u.x = w.x
      /\ u.inb.ent = Dated(w.inb.ent, StartDates(w, Seen(w, n)))
      /\ u.row = Dated(w.row, StartDates(w, Seen(w, n)))
  <2>1. Seen(w, n) \subseteq DOMAIN w.row BY DEF Seen
  <2>2. QED BY <1>1, <2>1, AdjustOK
<1>3. v = [u EXCEPT !.inb.used = IF w.inb.there THEN @ + n.inbound ELSE @,
                    !.row = Charged(@, n.clients)]
  BY <1>1 DEF Count, Seen
<1>4. PICK t : t = IF w.inb.there THEN u.inb.used + n.inbound ELSE u.inb.used OBVIOUS
<1>5. t \in Nat
  <2>1. u.inb.used \in Nat /\ n.inbound \in Nat
    BY <1>2 DEF IsWorld, IsInbound, AreCounters
  <2>2. QED BY <2>1, <1>4
<1>6. v = [u EXCEPT !.inb.used = t, !.row = Charged(@, n.clients)]
  BY <1>3, <1>4, <1>2 DEF IsWorld, IsInbound
<1>7. IsTable(Charged(u.row, n.clients), RowType)
  BY <1>2, ChargedOK DEF IsWorld, AreCounters
<1>8. /\ v.inb = [u.inb EXCEPT !.used = t]
      /\ v.row = Charged(u.row, n.clients)
      /\ v.x = u.x /\ v.flag = u.flag
      /\ v \in [inb : {v.inb}, row : {v.row}, x : {v.x}, flag : BOOLEAN]
  BY <1>6, <1>2 DEF IsWorld, IsInbound
<1>9. /\ IsInbound(v.inb) /\ v.inb.on = u.inb.on /\ v.inb.there = u.inb.there
      /\ v.inb.total = u.inb.total /\ v.inb.ent = u.inb.ent
  BY <1>2, <1>5, <1>8 DEF IsWorld, IsInbound
<1>10. DOMAIN v.row = DOMAIN u.row
  BY <1>8 DEF Charged
<1>11. IsWorld(v)
  BY <1>2, <1>7, <1>8, <1>9 DEF IsWorld
<1>12. QED BY <1>2, <1>8, <1>9, <1>10, <1>11 DEF Keeps, Accounted

(* A renewal moves a date that has come by whole periods, to the first date *)
(* not past.                                                                *)
LEMMA NextExpiryOK ==
  ASSUME NEW e \in Int, NEW p \in Nat, NEW now \in Nat, p > 0, e <= now,
         NEW d, d = NextExpiry(e, p, now)
  PROVE  /\ d \in Int
         /\ (d - e) % p = 0
         /\ d \in now .. now + p - 1
<1> DEFINE m == now - e + p - 1
           q == m \div p
<1>1. m \in Nat /\ p \in Nat \ {0}
  OBVIOUS
<1> HIDE DEF m
<1>2. q \in Int /\ p * q <= m /\ m < p * q + p
  BY <1>1
<1>3. d = e + p * q
  BY DEF NextExpiry, m
<1> HIDE DEF q
<1>4. PICK k : k = p * q OBVIOUS
<1>5. k \in Int /\ k <= m /\ m < k + p
  BY <1>1, <1>2, <1>4
<1>6. d = e + k
  BY <1>3, <1>4
<1>7. d \in Int /\ d - e = k
  BY <1>5, <1>6
<1>8. d \in now .. now + p - 1
  BY <1>5, <1>6, <1>7 DEF m
<1>9. k % p = 0
  BY <1>1, <1>2, <1>4
<1>10. QED BY <1>7, <1>8, <1>9

Due(w) == {c \in DOMAIN w.row : w.row[c].reset > 0 /\ Expired(w.row[c], clock)}

Renewed(w) == Due(w) \cap DOMAIN w.inb.ent

NewDates(w) ==
  [c \in Renewed(w) |-> NextExpiry(w.row[c].expiry, w.row[c].reset, clock)]

LEMMA NewDatesOK ==
  ASSUME NEW w, IsWorld(w), clock \in Nat, NEW dates, dates = NewDates(w)
  PROVE  \A c \in DOMAIN dates : dates[c] \in Int
<1>1. ASSUME NEW c \in DOMAIN dates PROVE dates[c] \in Int
  <2>1. c \in DOMAIN w.row /\ w.row[c].reset > 0 /\ Expired(w.row[c], clock)
    BY DEF NewDates, Renewed, Due
  <2>2. w.row[c] \in RowType
    BY <2>1 DEF IsWorld, IsTable
  <2>3. w.row[c].expiry \in Int /\ w.row[c].reset \in Nat /\ w.row[c].expiry <= clock
    BY <2>1, <2>2 DEF RowType, Expired
  <2>4. dates[c] = NextExpiry(w.row[c].expiry, w.row[c].reset, clock)
    BY DEF NewDates
  <2>5. QED BY <2>1, <2>3, <2>4, NextExpiryOK
<1>2. QED BY <1>1

(* Those who are given back to Xray. *)
GivenBack(w) == {c \in Renewed(w) : ~w.row[c].enable}

AutoRenewed(v, w, ok) ==
  /\ Keeps(v, w)
  /\ v.inb.on = w.inb.on
  /\ v.inb.ent = Dated(w.inb.ent, NewDates(w))
  /\ v.row = Afresh(Dated(w.row, NewDates(w)), Renewed(w))
  /\ v.x.hosted = w.x.hosted
  /\ Reaches(w, ok) => v.x.served = w.x.served \cup GivenBack(w)
  /\ ~Reaches(w, ok) => v.x.served = w.x.served
  /\ GivenBack(w) # {} /\ ~Reaches(w, ok) => v.flag

(* autoRenewClients: rows afresh, entries as they were but for the date.    *)
LEMMA AutoRenewOK ==
  ASSUME NEW w, IsWorld(w), NEW ok \in BOOLEAN, clock \in Nat,
         NEW v, v = AutoRenewClients(w, ok)
  PROVE  IsWorld(v) /\ AutoRenewed(v, w, ok)
<1> DEFINE dates == NewDates(w)
           S == Renewed(w)
<1>1. \A c \in DOMAIN dates : dates[c] \in Int
  BY NewDatesOK
<1>2. PICK u : u = [w EXCEPT !.inb.ent = Dated(@, dates),
                             !.row = Afresh(Dated(@, dates), S),
                             !.flag = @ \/ (Due(w) # {} /\ ~ok)]
  OBVIOUS
<1>3. PICK B : B = GivenBack(w)
  OBVIOUS
<1>31. v = AddUsers(u, B, ok)
  BY <1>2, <1>3 DEF AutoRenewClients, Due, Renewed, NewDates, GivenBack
<1> HIDE DEF dates, S
<1>4. IsTable(Dated(w.inb.ent, dates), ClientType)
  BY <1>1, DatedOK DEF IsWorld, IsInbound
<1>5. IsTable(Afresh(Dated(w.row, dates), S), RowType)
  BY <1>1, DatedOK, AfreshOK DEF IsWorld
<1>6. /\ u.inb.ent = Dated(w.inb.ent, dates)
      /\ u.row = Afresh(Dated(w.row, dates), S)
      /\ u.x = w.x
      /\ u.inb = [w.inb EXCEPT !.ent = Dated(w.inb.ent, dates)]
  BY <1>2 DEF IsWorld, IsInbound
<1>7. u \in [inb : {u.inb}, row : {u.row}, x : {u.x}, flag : BOOLEAN]
      /\ (w.flag => u.flag)
  BY <1>2 DEF IsWorld
<1>8. IsInbound(u.inb) /\ u.inb.on = w.inb.on /\ u.inb.there = w.inb.there
                       /\ u.inb.total = w.inb.total
  BY <1>4, <1>6 DEF IsWorld, IsInbound
<1>9. DOMAIN u.inb.ent = DOMAIN w.inb.ent /\ DOMAIN u.row = DOMAIN w.row
  BY <1>6 DEF Dated, Afresh
<1>10. IsWorld(u)
  BY <1>5, <1>6, <1>7, <1>8 DEF IsWorld
<1>101. Keeps(u, w)
  BY <1>6, <1>7, <1>8, <1>9 DEF Keeps
<1>11. B \in SUBSET Emails
  BY <1>3 DEF GivenBack, Renewed, Due, IsWorld, IsTable
<1>12. IsWorld(v) /\ CalledFor(v, u, B, u.x.served \cup B, ok)
  BY <1>31, <1>10, <1>11, AddUsersOK
<1>13. Keeps(v, w)
  BY <1>101, <1>12 DEF Keeps, CalledFor, SameButUsers
<1>14. v.inb = u.inb /\ v.row = u.row /\ v.x.hosted = w.x.hosted
  BY <1>6, <1>12 DEF CalledFor, SameButUsers
<1>15. Reaches(u, ok) = Reaches(w, ok)
  BY <1>6 DEF Reaches
<1>16. /\ Reaches(w, ok) => v.x.served = w.x.served \cup GivenBack(w)
       /\ ~Reaches(w, ok) => v.x.served = w.x.served
       /\ GivenBack(w) # {} /\ ~Reaches(w, ok) => v.flag
  BY <1>3, <1>6, <1>12, <1>15 DEF CalledFor
<1>17. /\ v.inb.on = w.inb.on
       /\ v.inb.ent = Dated(w.inb.ent, NewDates(w))
       /\ v.row = Afresh(Dated(w.row, NewDates(w)), Renewed(w))
  BY <1>6, <1>8, <1>14 DEF dates, S
<1>18. QED
  BY <1>12, <1>13, <1>14, <1>16, <1>17 DEF AutoRenewed

Invalid(w) == {c \in DOMAIN w.row : w.row[c].enable /\ Depleted(w.row[c], clock)}

ClientsDisabled(v, w, ok) ==
  /\ Keeps(v, w)
  /\ v.inb.on = w.inb.on
  /\ v.inb.ent = Disabled(w.inb.ent, Invalid(w))
  /\ v.row = Disabled(w.row, Invalid(w))
  /\ v.x.hosted = w.x.hosted
  /\ Reaches(w, ok) => v.x.served = w.x.served \ Invalid(w)
  /\ ~Reaches(w, ok) => v.x.served = w.x.served
  /\ Invalid(w) # {} /\ ~Reaches(w, ok) => v.flag

(* disableInvalidClients: row and entry are disabled together.              *)
LEMMA DisableInvalidClientsOK ==
  ASSUME NEW w, IsWorld(w), NEW ok \in BOOLEAN,
         NEW v, v = DisableInvalidClients(w, ok)
  PROVE  IsWorld(v) /\ ClientsDisabled(v, w, ok)
<1> DEFINE S == Invalid(w)
<1>1. PICK u : u = [w EXCEPT !.inb.ent = Disabled(@, S), !.row = Disabled(@, S)]
  OBVIOUS
<1>2. v = RemoveUsers(u, S, ok)
  BY <1>1 DEF DisableInvalidClients, Invalid
<1>3. S \in SUBSET Emails
  BY DEF Invalid, IsWorld, IsTable
<1> HIDE DEF S
<1>4. IsTable(Disabled(w.inb.ent, S), ClientType) /\ IsTable(Disabled(w.row, S), RowType)
  BY DisabledOK DEF IsWorld, IsInbound
<1>5. /\ u.inb.ent = Disabled(w.inb.ent, S)
      /\ u.row = Disabled(w.row, S)
      /\ u.x = w.x /\ u.flag = w.flag
      /\ u.inb = [w.inb EXCEPT !.ent = Disabled(w.inb.ent, S)]
      /\ u \in [inb : {u.inb}, row : {u.row}, x : {u.x}, flag : BOOLEAN]
  BY <1>1 DEF IsWorld, IsInbound
<1>6. IsInbound(u.inb) /\ u.inb.on = w.inb.on /\ u.inb.there = w.inb.there
                       /\ u.inb.total = w.inb.total
  BY <1>4, <1>5 DEF IsWorld, IsInbound
<1>7. DOMAIN u.inb.ent = DOMAIN w.inb.ent /\ DOMAIN u.row = DOMAIN w.row
  BY <1>5 DEF Disabled
<1>8. IsWorld(u) /\ Keeps(u, w)
  BY <1>4, <1>5, <1>6, <1>7 DEF IsWorld, Keeps
<1>9. IsWorld(v) /\ CalledFor(v, u, S, u.x.served \ S, ok)
  BY <1>2, <1>3, <1>8, RemoveUsersOK
<1>10. Keeps(v, w)
  BY <1>8, <1>9 DEF Keeps, CalledFor, SameButUsers
<1>11. v.inb = u.inb /\ v.row = u.row /\ v.x.hosted = w.x.hosted
  BY <1>5, <1>9 DEF CalledFor, SameButUsers
<1>12. Reaches(u, ok) = Reaches(w, ok)
  BY <1>5 DEF Reaches
<1>13. /\ Reaches(w, ok) => v.x.served = w.x.served \ S
       /\ ~Reaches(w, ok) => v.x.served = w.x.served
       /\ S # {} /\ ~Reaches(w, ok) => v.flag
  BY <1>5, <1>9, <1>12 DEF CalledFor
<1>14. v.inb.on = w.inb.on /\ v.inb.ent = Disabled(w.inb.ent, S) /\ v.row = Disabled(w.row, S)
  BY <1>5, <1>6, <1>11
<1>15. QED
  BY <1>9, <1>10, <1>11, <1>13, <1>14 DEF S, ClientsDisabled

InboundsDisabled(v, w) ==
  /\ Keeps(v, w)
  /\ v.inb.ent = w.inb.ent
  /\ v.row = w.row
  /\ \/ v = w
     \/ ~v.inb.on /\ v.x = w.x /\ v.flag
     \/ ~v.inb.on /\ ~v.x.hosted /\ v.x.served = {}

(* disableInvalidInbounds: the inbound is switched off, clients stay.       *)
LEMMA DisableInvalidInboundsOK ==
  ASSUME NEW w, IsWorld(w), NEW ok \in BOOLEAN,
         NEW v, v = DisableInvalidInbounds(w, ok)
  PROVE  IsWorld(v) /\ InboundsDisabled(v, w)
<1>1. CASE v = w
  BY <1>1 DEF Keeps, InboundsDisabled
<1>2. CASE v # w
  <2>1. PICK u : u = [w EXCEPT !.inb.on = FALSE] OBVIOUS
  <2>2. /\ u.inb = [w.inb EXCEPT !.on = FALSE]
        /\ u.row = w.row /\ u.x = w.x /\ u.flag = w.flag
        /\ u \in [inb : {u.inb}, row : {u.row}, x : {u.x}, flag : BOOLEAN]
    BY <2>1 DEF IsWorld, IsInbound
  <2>3. IsInbound(u.inb) /\ ~u.inb.on /\ u.inb.there = w.inb.there
          /\ u.inb.total = w.inb.total /\ u.inb.ent = w.inb.ent
    BY <2>2 DEF IsWorld, IsInbound
  <2>4. IsWorld(u)
    BY <2>2, <2>3 DEF IsWorld
  <2>5. v = IF ok /\ w.x.hosted THEN DropInbound(u, ok) ELSE [u EXCEPT !.flag = TRUE]
    BY <1>2, <2>1 DEF DisableInvalidInbounds
  <2>6. CASE ok /\ w.x.hosted
    <3>1. v = DropInbound(u, ok) /\ ok
      BY <2>5, <2>6
    <3>2. IsWorld(v) /\ Dropped(v, u, ok)
      BY <2>4, <3>1, DropInboundOK
    <3>3. Keeps(v, w)
      BY <3>2, <2>2, <2>3 DEF Keeps, Dropped
    <3>4. v.inb.ent = w.inb.ent /\ v.row = w.row /\ ~v.inb.on
      BY <3>2, <2>2, <2>3 DEF Dropped
    <3>5. ~v.x.hosted /\ v.x.served = {}
      BY <3>1, <3>2 DEF Dropped
    <3>6. QED BY <3>2, <3>3, <3>4, <3>5 DEF InboundsDisabled
  <2>7. CASE ~(ok /\ w.x.hosted)
    <3>1. v = [u EXCEPT !.flag = TRUE] BY <2>5, <2>7
    <3>2. IsWorld(v) /\ v.inb = u.inb /\ v.row = u.row /\ v.x = u.x /\ v.flag
      BY <3>1, <2>4 DEF IsWorld
    <3>3. QED BY <3>2, <2>2, <2>3 DEF Keeps, InboundsDisabled
  <2>8. QED BY <2>6, <2>7
<1>3. QED BY <1>1, <1>2

-----------------------------------------------------------------------------
(* What the passes do to one client *)

On(f, c) == f[c].enable

LEMMA DatedFields ==
  ASSUME NEW T \in {ClientType, RowType}, NEW f, IsTable(f, T), NEW dates,
         NEW c \in DOMAIN f, NEW g, g = Dated(f, dates)
  PROVE  /\ On(g, c) <=> On(f, c)
         /\ c \in DOMAIN dates => g[c].expiry = dates[c]
         /\ c \notin DOMAIN dates => g[c] = f[c]
<1>1. f[c] \in T
  BY DEF IsTable
<1>2. CASE c \notin DOMAIN dates
  BY <1>2 DEF Dated, On
<1>3. CASE c \in DOMAIN dates
  <2>1. g[c] = [f[c] EXCEPT !.expiry = dates[c]]
    BY <1>3 DEF Dated
  <2>2. CASE T = ClientType
    BY <1>1, <1>3, <2>1, <2>2 DEF ClientType, On
  <2>3. CASE T = RowType
    BY <1>1, <1>3, <2>1, <2>3 DEF RowType, On
  <2>4. QED BY <2>2, <2>3
<1>4. QED BY <1>2, <1>3

LEMMA DatedRowFields ==
  ASSUME NEW f, IsTable(f, RowType), NEW dates,
         NEW c \in DOMAIN f, NEW g, g = Dated(f, dates)
  PROVE  /\ g[c].quota = f[c].quota
         /\ g[c].reset = f[c].reset
         /\ g[c].used = f[c].used
         /\ g[c].all = f[c].all
<1>1. f[c] \in RowType
  BY DEF IsTable
<1>2. QED BY <1>1 DEF Dated, RowType

LEMMA ChargedFields ==
  ASSUME NEW f, IsTable(f, RowType), NEW counts, IsTable(counts, Nat),
         NEW c \in DOMAIN f, NEW g, g = Charged(f, counts)
  PROVE  /\ On(g, c) <=> On(f, c)
         /\ g[c].expiry = f[c].expiry
         /\ g[c].quota = f[c].quota
         /\ g[c].reset = f[c].reset
         /\ g[c].all = f[c].all + At(counts, c)
<1>1. f[c] \in RowType
  BY DEF IsTable
<1>2. CASE c \notin DOMAIN counts
  <2>1. g[c] = f[c] /\ At(counts, c) = 0
    BY <1>2 DEF Charged, At
  <2>2. f[c].all + 0 = f[c].all
    BY <1>1 DEF RowType
  <2>3. QED BY <2>1, <2>2 DEF On
<1>3. CASE c \in DOMAIN counts
  <2>1. g[c] = [f[c] EXCEPT !.used = @ + counts[c], !.all = @ + counts[c]]
    BY <1>3 DEF Charged
  <2>2. At(counts, c) = counts[c]
    BY <1>3 DEF At
  <2>3. QED BY <1>1, <2>1, <2>2 DEF RowType, On
<1>4. QED BY <1>2, <1>3

LEMMA AfreshFields ==
  ASSUME NEW f, IsTable(f, RowType), NEW S,
         NEW c \in DOMAIN f, NEW g, g = Afresh(f, S)
  PROVE  /\ c \in S => On(g, c)
         /\ c \notin S => g[c] = f[c]
         /\ g[c].expiry = f[c].expiry
         /\ g[c].quota = f[c].quota
         /\ g[c].reset = f[c].reset
         /\ g[c].all = f[c].all
<1>1. f[c] \in RowType
  BY DEF IsTable
<1>2. QED BY <1>1 DEF Afresh, RowType, On

LEMMA DisabledFields ==
  ASSUME NEW T \in {ClientType, RowType}, NEW f, IsTable(f, T), NEW S,
         NEW c \in DOMAIN f, NEW g, g = Disabled(f, S)
  PROVE  /\ c \in S => ~On(g, c)
         /\ c \notin S => g[c] = f[c]
         /\ g[c].expiry = f[c].expiry
<1>1. f[c] \in T
  BY DEF IsTable
<1>2. CASE T = ClientType
  BY <1>1, <1>2 DEF Disabled, ClientType, On
<1>3. CASE T = RowType
  BY <1>1, <1>3 DEF Disabled, RowType, On
<1>4. QED BY <1>2, <1>3

LEMMA DisabledRowFields ==
  ASSUME NEW f, IsTable(f, RowType), NEW S,
         NEW c \in DOMAIN f, NEW g, g = Disabled(f, S)
  PROVE  /\ Depleted(g[c], clock) = Depleted(f[c], clock)
         /\ g[c].all = f[c].all
<1>1. f[c] \in RowType
  BY DEF IsTable
<1>2. QED BY <1>1 DEF Disabled, RowType, Depleted, Expired

-----------------------------------------------------------------------------
(* AddTraffic, from world w to world v *)

Passes(a, b, d, v, w, n, ok) ==
  /\ IsWorld(w) /\ IsWorld(a) /\ IsWorld(b) /\ IsWorld(d) /\ IsWorld(v)
  /\ AreCounters(n)
  /\ clock \in Nat
  /\ Accounted(a, w, n)
  /\ AutoRenewed(b, a, ok)
  /\ ClientsDisabled(d, b, ok)
  /\ InboundsDisabled(v, d)

(* AddTraffic is the four passes one after the other.                       *)
LEMMA AddTrafficPasses ==
  ASSUME NEW w, IsWorld(w), NEW n, AreCounters(n), NEW ok \in BOOLEAN,
         clock \in Nat, NEW v, v = AddTraffic(w, n, ok)
  PROVE  \E a, b, d : Passes(a, b, d, v, w, n, ok)
<1>1. PICK a : a = Count(w, n) OBVIOUS
<1>2. PICK b : b = AutoRenewClients(a, ok) OBVIOUS
<1>3. PICK d : d = DisableInvalidClients(b, ok) OBVIOUS
<1>4. v = DisableInvalidInbounds(d, ok)
  BY <1>1, <1>2, <1>3 DEF AddTraffic
<1>5. IsWorld(a) /\ Accounted(a, w, n)
  BY <1>1, CountOK
<1>6. IsWorld(b) /\ AutoRenewed(b, a, ok)
  BY <1>2, <1>5, AutoRenewOK
<1>7. IsWorld(d) /\ ClientsDisabled(d, b, ok)
  BY <1>3, <1>6, DisableInvalidClientsOK
<1>8. IsWorld(v) /\ InboundsDisabled(v, d)
  BY <1>4, <1>7, DisableInvalidInboundsOK
<1>9. QED BY <1>5, <1>6, <1>7, <1>8 DEF Passes

LEMMA PassesKeep ==
  ASSUME NEW a, NEW b, NEW d, NEW v, NEW w, NEW n, NEW ok \in BOOLEAN,
         Passes(a, b, d, v, w, n, ok)
  PROVE  Keeps(a, w) /\ Keeps(b, w) /\ Keeps(d, w) /\ Keeps(v, w)
<1>1. Keeps(a, w) /\ Keeps(b, a) /\ Keeps(d, b) /\ Keeps(v, d)
  BY DEF Passes, Accounted, AutoRenewed, ClientsDisabled, InboundsDisabled
<1>2. \A p, q, r : Keeps(p, q) /\ Keeps(q, r) => Keeps(p, r)
  BY DEF Keeps
<1>3. QED BY <1>1, <1>2

(* One row through the passes. *)
LEMMA RowPasses ==
  ASSUME NEW a, NEW b, NEW d, NEW v, NEW w, NEW n, NEW ok \in BOOLEAN,
         Passes(a, b, d, v, w, n, ok), NEW c \in DOMAIN w.row
  PROVE  /\ c \in DOMAIN a.row /\ c \in DOMAIN b.row
         /\ On(a.row, c) <=> On(w.row, c)
         /\ c \in Renewed(a) => On(b.row, c)
         /\ c \notin Renewed(a) => b.row[c] = a.row[c]
         /\ c \in Invalid(b) => ~On(v.row, c)
         /\ c \notin Invalid(b) => v.row[c] = b.row[c]
<1>1. c \in DOMAIN a.row /\ c \in DOMAIN b.row
  BY PassesKeep DEF Keeps
<1>2. On(a.row, c) <=> On(w.row, c)
  <2>1. PICK dates : dates = StartDates(w, Seen(w, n)) OBVIOUS
  <2>2. PICK g : g = Dated(w.row, dates) OBVIOUS
  <2>3. /\ IsTable(w.row, RowType)
        /\ IsTable(n.clients, Nat)
        /\ a.row = Charged(g, n.clients)
    BY <2>1, <2>2 DEF Passes, Accounted, IsWorld, AreCounters
  <2>4. \A k \in DOMAIN dates : dates[k] \in Int
    <3>1. IsWorld(w) /\ Seen(w, n) \subseteq DOMAIN w.row /\ clock \in Nat
      BY DEF Passes, Seen
    <3>2. QED BY <2>1, <3>1, StartDatesOK
  <2>5. IsTable(g, RowType) /\ c \in DOMAIN g
    <3>1. IsTable(g, RowType) BY <2>2, <2>3, <2>4, DatedOK
    <3>2. c \in DOMAIN g BY <2>2 DEF Dated
    <3>3. QED BY <3>1, <3>2
  <2>6. On(g, c) <=> On(w.row, c)
    BY <2>2, <2>3, DatedFields
  <2>7. On(a.row, c) <=> On(g, c)
    BY <2>3, <2>5, ChargedFields
  <2>8. QED BY <2>6, <2>7
<1>3. /\ c \in Renewed(a) => On(b.row, c)
      /\ c \notin Renewed(a) => b.row[c] = a.row[c]
  <2>1. PICK g : g = Dated(a.row, NewDates(a)) OBVIOUS
  <2>2. IsTable(a.row, RowType) /\ b.row = Afresh(g, Renewed(a))
    BY <2>1 DEF Passes, AutoRenewed, IsWorld
  <2>3. IsTable(g, RowType) /\ c \in DOMAIN g
    <3>1. PICK dates : dates = NewDates(a) OBVIOUS
    <3>2. \A k \in DOMAIN dates : dates[k] \in Int
      BY <3>1, NewDatesOK DEF Passes
    <3>3. IsTable(g, RowType) BY <2>1, <2>2, <3>1, <3>2, DatedOK
    <3>4. c \in DOMAIN g BY <1>1, <2>1 DEF Dated
    <3>5. QED BY <3>3, <3>4
  <2>4. c \notin Renewed(a) => g[c] = a.row[c]
    BY <1>1, <2>1 DEF Dated, NewDates
  <2>5. QED BY <2>2, <2>3, <2>4, AfreshFields
<1>4. /\ c \in Invalid(b) => ~On(v.row, c)
      /\ c \notin Invalid(b) => v.row[c] = b.row[c]
  <2>1. IsTable(b.row, RowType) /\ v.row = Disabled(b.row, Invalid(b))
    BY DEF Passes, ClientsDisabled, InboundsDisabled, IsWorld
  <2>2. QED BY <1>1, <2>1, DisabledFields
<1>5. QED BY <1>1, <1>2, <1>3, <1>4

(* One entry through the passes. *)
LEMMA EntryPasses ==
  ASSUME NEW a, NEW b, NEW d, NEW v, NEW w, NEW n, NEW ok \in BOOLEAN,
         Passes(a, b, d, v, w, n, ok), NEW c \in DOMAIN w.inb.ent
  PROVE  /\ c \in DOMAIN a.inb.ent /\ c \in DOMAIN b.inb.ent
         /\ On(b.inb.ent, c) <=> On(w.inb.ent, c)
         /\ c \in Invalid(b) => ~On(v.inb.ent, c)
         /\ c \notin Invalid(b) => v.inb.ent[c] = b.inb.ent[c]
<1>1. c \in DOMAIN a.inb.ent /\ c \in DOMAIN b.inb.ent
  BY PassesKeep DEF Keeps
<1>2. /\ IsTable(w.inb.ent, ClientType)
      /\ IsTable(a.inb.ent, ClientType)
      /\ IsTable(b.inb.ent, ClientType)
  BY DEF Passes, IsWorld, IsInbound
<1>3. On(a.inb.ent, c) <=> On(w.inb.ent, c)
  <2>1. PICK dates : dates = StartDates(w, Seen(w, n)) OBVIOUS
  <2>2. a.inb.ent = Dated(w.inb.ent, dates)
    BY <2>1 DEF Passes, Accounted
  <2>3. QED BY <1>2, <2>2, DatedFields
<1>4. On(b.inb.ent, c) <=> On(a.inb.ent, c)
  <2>1. PICK dates : dates = NewDates(a) OBVIOUS
  <2>2. b.inb.ent = Dated(a.inb.ent, dates)
    BY <2>1 DEF Passes, AutoRenewed
  <2>3. QED BY <1>1, <1>2, <2>2, DatedFields
<1>5. v.inb.ent = Disabled(b.inb.ent, Invalid(b))
  BY DEF Passes, ClientsDisabled, InboundsDisabled
<1>6. /\ c \in Invalid(b) => ~On(v.inb.ent, c)
      /\ c \notin Invalid(b) => v.inb.ent[c] = b.inb.ent[c]
  BY <1>1, <1>2, <1>5, DisabledFields
<1>7. QED BY <1>1, <1>3, <1>4, <1>6

(* The users of Xray after the passes: those who were and who are given     *)
(* back, without the invalid, unless a restart is asked for.                *)
LEMMA UsersPass ==
  ASSUME NEW a, NEW b, NEW d, NEW v, NEW w, NEW n, NEW ok \in BOOLEAN,
         Passes(a, b, d, v, w, n, ok)
  PROVE  /\ v.x.served \subseteq w.x.served \cup GivenBack(a)
         /\ v.flag \/ v.x.served \cap Invalid(b) = {}
         /\ v.flag \/ ~v.inb.on \/ (w.x.served \cup GivenBack(a)) \ Invalid(b) \subseteq v.x.served
<1>1. /\ a.x = w.x
      /\ b.x.hosted = a.x.hosted /\ d.x.hosted = b.x.hosted
      /\ d.flag => v.flag
      /\ b.flag => d.flag
  BY DEF Passes, Accounted, AutoRenewed, ClientsDisabled, InboundsDisabled, Keeps
<1>2. /\ Reaches(a, ok) => b.x.served = w.x.served \cup GivenBack(a)
      /\ ~Reaches(a, ok) => b.x.served = w.x.served
      /\ GivenBack(a) # {} /\ ~Reaches(a, ok) => v.flag
  BY <1>1 DEF Passes, AutoRenewed
<1>3. /\ Reaches(b, ok) => d.x.served = b.x.served \ Invalid(b)
      /\ ~Reaches(b, ok) => d.x.served = b.x.served
      /\ Invalid(b) # {} /\ ~Reaches(b, ok) => v.flag
  BY <1>1 DEF Passes, ClientsDisabled
<1>4. \/ v.x.served = d.x.served
      \/ ~v.inb.on /\ v.x.served = {}
  BY DEF Passes, InboundsDisabled
<1>5. v.x.served \subseteq d.x.served
  BY <1>4
<1>6. d.x.served \subseteq w.x.served \cup GivenBack(a)
  BY <1>2, <1>3
<1>7. v.flag \/ d.x.served \cap Invalid(b) = {}
  BY <1>2, <1>3
<1>8. v.flag \/ (w.x.served \cup GivenBack(a)) \ Invalid(b) \subseteq d.x.served
  BY <1>2, <1>3
<1>9. QED BY <1>4, <1>5, <1>6, <1>7, <1>8

-----------------------------------------------------------------------------
(* The invariant *)

(* A world of the right types in which an Xray that is down serves nobody   *)
(* and a deleted inbound has neither clients nor rows.                      *)
Sound(w) ==
  /\ IsWorld(w)
  /\ ~w.x.up => ~w.x.hosted
  /\ ~w.x.hosted => w.x.served = {}
  /\ ~w.inb.there => DOMAIN w.row = {} /\ DOMAIN w.inb.ent = {}

Handlers == {"add", "edit", "del", "delSave", "depleted", "update", "switch"}

(* What a handler has read is of the right type, and no client has come or  *)
(* gone since.                                                              *)
RequestOK ==
  /\ req.kind \in Handlers \cup {"idle", "reset"}
  /\ req.kind # "idle" => inb.there
  /\ req.kind \in Handlers =>
       /\ IsInbound(req.seen)
       /\ req.seen.there
       /\ DOMAIN req.seen.ent = DOMAIN inb.ent
  /\ req.kind \in {"add", "edit", "del", "delSave", "reset"} => req.email \in Emails
  /\ req.kind \in {"add", "edit"} => req.client \in ClientType
  /\ req.kind \in {"edit", "del", "delSave", "reset"} => req.email \in DOMAIN inb.ent
  /\ req.kind = "edit" => req.to \in Emails
  /\ req.kind = "delSave" => req.restart \in BOOLEAN
  /\ req.kind = "switch" => req.on \in BOOLEAN
  /\ req.kind = "update" => IsInbound(req.form) /\ req.form.there
  /\ req.kind = "reset" => req.seen \in RowType

(* A row that was enabled when its reset began, and whose entry is enabled, *)
(* is enabled still.                                                        *)
ResetOK ==
  (req.kind = "reset" /\ req.seen.enable) =>
    (req.email \in DOMAIN inb.ent /\ On(inb.ent, req.email) =>
       req.email \in DOMAIN row /\ On(row, req.email))

BatchOK == reading \in BOOLEAN /\ AreCounters(batch) /\ (~reading => batch = NoCounters)

BoundsOK == clock \in Nat /\ fuel \in Nat /\ faults \in Nat /\ requests \in Nat

(* The inductive invariant.                                                 *)
IInv ==
  /\ Sound(World)
  /\ IsInbound(form)
  /\ RequestOK
  /\ ResetOK
  /\ BatchOK
  /\ BoundsOK

LEMMA IInvTypeOK == IInv => TypeOK
BY DEF IInv, Sound, IsWorld, World, BatchOK, BoundsOK, TypeOK

LEMMA BecomesOK ==
  ASSUME NEW w, Sound(w), Becomes(w)
  PROVE  /\ Sound(World')
         /\ World' = w
<1>1. World' = w
  BY DEF Sound, IsWorld, World, Becomes
<1>2. QED BY <1>1

(* AddTraffic leaves a sound world.                                         *)
LEMMA AddTrafficOK ==
  ASSUME NEW w, Sound(w), NEW n, AreCounters(n), NEW ok \in BOOLEAN,
         clock \in Nat, NEW v, v = AddTraffic(w, n, ok)
  PROVE  /\ Sound(v)
         /\ Keeps(v, w)
<1>1. IsWorld(w) BY DEF Sound
<1>2. PICK a, b, d : Passes(a, b, d, v, w, n, ok)
  BY <1>1, AddTrafficPasses
<1>3. Keeps(v, w)
  BY <1>2, PassesKeep
<1>4. IsWorld(v)
  BY <1>2 DEF Passes
<1>5. d.x.hosted = w.x.hosted
  BY <1>2 DEF Passes, Accounted, AutoRenewed, ClientsDisabled
<1>6. ~v.x.hosted => v.x.served = {}
  <2>1. ~w.x.hosted => d.x.served = {}
    <3>1. /\ a.x = w.x /\ b.x.hosted = w.x.hosted
          /\ ~Reaches(a, ok) => b.x.served = a.x.served
          /\ ~Reaches(b, ok) => d.x.served = b.x.served
      BY <1>2 DEF Passes, Accounted, AutoRenewed, ClientsDisabled
    <3>2. QED BY <3>1 DEF Reaches, Sound
  <2>2. v = d \/ v.x = d.x \/ v.x.served = {}
    BY <1>2 DEF Passes, InboundsDisabled
  <2>3. QED BY <1>5, <2>1, <2>2
<1>7. ~v.x.up => ~v.x.hosted
  <2>1. v = d \/ v.x = d.x \/ ~v.x.hosted
    BY <1>2 DEF Passes, InboundsDisabled
  <2>2. v.x.up = w.x.up
    BY <1>3 DEF Keeps
  <2>3. QED BY <1>5, <2>1, <2>2 DEF Sound
<1>8. QED BY <1>3, <1>4, <1>6, <1>7 DEF Sound, Keeps

(* No pass disables a row and leaves its entry enabled. *)
LEMMA AddTrafficDisablesBoth ==
  ASSUME NEW w, Sound(w), NEW n, AreCounters(n), NEW ok \in BOOLEAN,
         clock \in Nat, NEW v, v = AddTraffic(w, n, ok),
         NEW c \in DOMAIN w.inb.ent
  PROVE  /\ On(v.inb.ent, c) => On(w.inb.ent, c)
         /\ On(v.inb.ent, c) /\ c \in DOMAIN w.row /\ On(w.row, c) => On(v.row, c)
<1>1. PICK a, b, d : Passes(a, b, d, v, w, n, ok)
  BY AddTrafficPasses DEF Sound
<1>2. /\ On(b.inb.ent, c) <=> On(w.inb.ent, c)
      /\ c \in Invalid(b) => ~On(v.inb.ent, c)
      /\ c \notin Invalid(b) => v.inb.ent[c] = b.inb.ent[c]
  BY <1>1, EntryPasses
<1>3. On(v.inb.ent, c) => c \notin Invalid(b) /\ On(w.inb.ent, c)
  BY <1>2 DEF On
<1>4. ASSUME c \in DOMAIN w.row, On(w.row, c), c \notin Invalid(b)
      PROVE  On(v.row, c)
  <2>1. On(a.row, c) /\ (c \in Renewed(a) => On(b.row, c))
        /\ (c \notin Renewed(a) => b.row[c] = a.row[c])
        /\ v.row[c] = b.row[c]
    BY <1>1, <1>4, RowPasses
  <2>2. QED BY <2>1 DEF On
<1>5. QED BY <1>3, <1>4

LEMMA EligibleOK ==
  ASSUME NEW i, IsInbound(i), NEW rows
  PROVE  Eligible(i.ent, rows) \in SUBSET Emails
BY DEF Eligible, IsInbound, IsTable

(* The configuration of an inbound: what is not hosted serves nobody.        *)
LEMMA ConfigOK ==
  ASSUME NEW i, IsInbound(i), NEW rows, NEW conf, conf = Config(i, rows)
  PROVE  /\ conf \in [hosted : BOOLEAN, served : SUBSET Emails]
         /\ ~conf.hosted => conf.served = {}
<1>1. Eligible(i.ent, rows) \in SUBSET Emails
  BY EligibleOK
<1>2. i.there \in BOOLEAN /\ i.on \in BOOLEAN
  BY DEF IsInbound
<1>3. QED BY <1>1, <1>2 DEF Config

Loaded(v, w) ==
  /\ v.inb = w.inb
  /\ v.row = w.row
  /\ v.flag = w.flag
  /\ v.x = [up |-> TRUE, hosted |-> Config(w.inb, w.row).hosted,
            served |-> Config(w.inb, w.row).served,
            conf |-> Config(w.inb, w.row), live |-> NoCounters]

(* An Xray that starts takes its configuration from the database.           *)
LEMMA LoadOK ==
  ASSUME NEW w, Sound(w), NEW v, v = Load(w)
  PROVE  Sound(v) /\ Loaded(v, w)
<1>1. PICK conf : conf = Config(w.inb, w.row) OBVIOUS
<1>2. /\ conf \in [hosted : BOOLEAN, served : SUBSET Emails]
      /\ ~conf.hosted => conf.served = {}
  BY <1>1, ConfigOK DEF Sound, IsWorld
<1>3. PICK y : y = [up |-> TRUE, hosted |-> conf.hosted, served |-> conf.served,
                    conf |-> conf, live |-> NoCounters]
  OBVIOUS
<1>4. v = [w EXCEPT !.x = y]
  BY <1>1, <1>3 DEF Load
<1>5. /\ v.inb = w.inb /\ v.row = w.row /\ v.flag = w.flag /\ v.x = y
      /\ v \in [inb : {v.inb}, row : {v.row}, x : {v.x}, flag : BOOLEAN]
  BY <1>4 DEF Sound, IsWorld
<1>6. IsXray(y) /\ y.up /\ (~y.hosted => y.served = {})
  BY <1>2, <1>3, NoCountersOK DEF IsXray
<1>7. Sound(v)
  BY <1>5, <1>6 DEF Sound, IsWorld
<1>8. QED BY <1>1, <1>3, <1>5, <1>7 DEF Loaded

(* GetXrayConfig runs the passes with no traffic, before Xray is loaded.   *)
LEMMA SettledOK ==
  ASSUME Sound(World), NEW ok \in BOOLEAN, clock \in Nat, NEW v, v = Settled(ok)
  PROVE  \E u : /\ u = AddTraffic(World, NoCounters, ok)
                /\ v = [u EXCEPT !.flag = flag]
                /\ Sound(u)
                /\ Sound(v)
                /\ v.inb = u.inb /\ v.row = u.row /\ v.x = u.x /\ v.flag = flag
                /\ Keeps(v, World)
<1>1. PICK u : u = AddTraffic(World, NoCounters, ok) OBVIOUS
<1>2. PICK w : w = World OBVIOUS
<1>3. Sound(u) /\ Keeps(u, w)
  BY <1>1, <1>2, NoCountersOK, AddTrafficOK
<1>4. v = [u EXCEPT !.flag = flag]
  BY <1>1 DEF Settled
<1>5. flag \in BOOLEAN /\ w.flag = flag
  BY <1>2 DEF Sound, IsWorld, World
<1>6. /\ v.inb = u.inb /\ v.row = u.row /\ v.x = u.x /\ v.flag = flag
      /\ v \in [inb : {v.inb}, row : {v.row}, x : {v.x}, flag : BOOLEAN]
  BY <1>3, <1>4, <1>5 DEF Sound, IsWorld
<1>7. Sound(v)
  BY <1>3, <1>6 DEF Sound, IsWorld
<1>8. Keeps(v, w)
  BY <1>3, <1>5, <1>6 DEF Keeps
<1>9. QED BY <1>1, <1>2, <1>3, <1>4, <1>6, <1>7, <1>8

LEMMA ClientOK ==
  ASSUME NEW p \in Plans, NEW e \in BOOLEAN
  PROVE  Client(p, e) \in ClientType /\ Client(p, e).enable = e
BY PlanAssumption DEF Client, ClientType, PlanType

LEMMA ClientsOK == Clients \subseteq ClientType
BY ClientOK DEF Clients

LEMMA AddClientStatOK ==
  ASSUME NEW d \in ClientType
  PROVE  /\ AddClientStat(d) \in RowType
         /\ AddClientStat(d).enable = d.enable
         /\ AddClientStat(d).all = 0
BY DEF AddClientStat, ClientType, RowType

LEMMA UpdateClientStatOK ==
  ASSUME NEW d \in ClientType, NEW r \in RowType
  PROVE  /\ UpdateClientStat(r, d) \in RowType
         /\ UpdateClientStat(r, d).enable = d.enable
         /\ UpdateClientStat(r, d).all = r.all
BY DEF UpdateClientStat, AddClientStat, ClientType, RowType

LEMMA AnswersOK ==
  ASSUME NEW ok \in BOOLEAN, Answers(ok), faults \in Nat
  PROVE  faults' \in Nat /\ (ok => x.up)
BY DEF Answers

(* The invariant holds of what the program finds at its start.              *)
LEMMA InitOK == Init => IInv
<1> SUFFICES ASSUME Init PROVE IInv OBVIOUS
<1>00. PICK S \in SUBSET Emails : \E plan \in [S -> Plans], t \in Totals :
        /\ inb = IF S = {} THEN NoInbound
                 ELSE [there |-> TRUE, on |-> TRUE, total |-> t, used |-> 0,
                       ent |-> [c \in S |-> Client(plan[c], TRUE)]]
        /\ row = [c \in S |-> AddClientStat([d \in S |-> Client(plan[d], TRUE)][c])]
        /\ x = [up |-> TRUE, hosted |-> S # {}, served |-> S, live |-> NoCounters,
                conf |-> [hosted |-> S # {}, served |-> S]]
        /\ flag = FALSE /\ reading = FALSE /\ batch = NoCounters
        /\ req = Idle /\ form = NoInbound
        /\ clock = 1 /\ fuel = MaxFuel /\ faults = MaxFaults /\ requests = MaxRequests
  BY DEF Init
<1>01. PICK plan \in [S -> Plans], t \in Totals :
        /\ inb = IF S = {} THEN NoInbound
                 ELSE [there |-> TRUE, on |-> TRUE, total |-> t, used |-> 0,
                       ent |-> [c \in S |-> Client(plan[c], TRUE)]]
        /\ row = [c \in S |-> AddClientStat([d \in S |-> Client(plan[d], TRUE)][c])]
        /\ x = [up |-> TRUE, hosted |-> S # {}, served |-> S, live |-> NoCounters,
                conf |-> [hosted |-> S # {}, served |-> S]]
        /\ flag = FALSE /\ reading = FALSE /\ batch = NoCounters
        /\ req = Idle /\ form = NoInbound
        /\ clock = 1 /\ fuel = MaxFuel /\ faults = MaxFaults /\ requests = MaxRequests
  BY <1>00
<1>02. PICK ent : ent = [c \in S |-> Client(plan[c], TRUE)]
  OBVIOUS
<1>1. \A c \in S : ent[c] \in ClientType
  BY <1>02, ClientOK
<1>2. IsTable(ent, ClientType)
  BY <1>1, <1>02 DEF IsTable
<1>3. \A c \in S : row[c] \in RowType
  <2>1. \A c \in S : row[c] = AddClientStat(ent[c])
    BY <1>01, <1>02
  <2>2. QED BY <1>1, <2>1, AddClientStatOK
<1>4. IsTable(row, RowType) /\ DOMAIN row = S
  BY <1>01, <1>3 DEF IsTable
<1>5. IsInbound(inb) /\ (~inb.there => S = {} /\ DOMAIN inb.ent = {})
  <2>1. CASE S = {}
    BY <2>1, <1>01, NoInboundOK, NoClientsOK
  <2>2. CASE S # {}
    <3>1. t \in Nat BY TotalAssumption
    <3>2. inb = [there |-> TRUE, on |-> TRUE, total |-> t, used |-> 0, ent |-> ent]
      BY <1>01, <1>02, <2>2
    <3>3. inb.there /\ inb.ent = ent
      BY <3>2
    <3>4. inb \in [there : BOOLEAN, on : BOOLEAN, total : Nat, used : Nat, ent : {inb.ent}]
      BY <3>1, <3>2
    <3>5. QED BY <1>2, <3>3, <3>4 DEF IsInbound
  <2>3. QED BY <2>1, <2>2
<1>6. IsXray(x) /\ x.up /\ (~x.hosted => x.served = {})
  BY <1>01, NoCountersOK DEF IsXray
<1>7. World \in [inb : {World.inb}, row : {World.row}, x : {World.x}, flag : BOOLEAN]
      /\ World.inb = inb /\ World.row = row /\ World.x = x
  BY <1>01 DEF World
<1>8. Sound(World)
  BY <1>4, <1>5, <1>6, <1>7 DEF Sound, IsWorld
<1>9. RequestOK /\ ResetOK
  BY <1>01 DEF Idle, RequestOK, ResetOK, Handlers
<1>10. BatchOK /\ BoundsOK
  BY <1>01, NoCountersOK, BoundAssumption DEF BatchOK, BoundsOK
<1>11. QED BY <1>01, <1>8, <1>9, <1>10, NoInboundOK DEF IInv

-----------------------------------------------------------------------------
(* Steps that touch neither the database nor the request *)

LEMMA KeptOK ==
  ASSUME RequestOK, ResetOK, UNCHANGED <<inb, row, req>>
  PROVE  RequestOK' /\ ResetOK'
BY DEF RequestOK, ResetOK, On

LEMMA CountedOK ==
  ASSUME NEW n, AreCounters(n), NEW c \in Emails
  PROVE  AreCounters(Counted(n, c))
<1>1. n.inbound + 1 \in Nat /\ IsTable(n.clients, Nat)
  BY DEF AreCounters
<1>2. PICK k : k = 1 + IF c \in DOMAIN n.clients THEN n.clients[c] ELSE 0 OBVIOUS
<1>3. k \in Nat
  <2>1. c \in DOMAIN n.clients => n.clients[c] \in Nat
    BY <1>1 DEF IsTable
  <2>2. QED BY <1>2, <2>1
<1>4. IsTable(Put(n.clients, c, k), Nat)
  BY <1>1, <1>3, PutOK
<1>5. Counted(n, c) = [inbound |-> n.inbound + 1, clients |-> Put(n.clients, c, k)]
  BY <1>2 DEF Counted
<1>6. QED BY <1>1, <1>4, <1>5 DEF AreCounters

LEMMA ZeroedOK ==
  ASSUME NEW n, AreCounters(n)
  PROVE  /\ AreCounters(Zeroed(n))
         /\ \A c : At(Zeroed(n).clients, c) = 0
BY DEF Zeroed, AreCounters, IsTable, At

(* What a step does to Xray alone. *)
LEMMA XrayStepOK ==
  ASSUME Sound(World), UNCHANGED <<inb, row, flag>>, IsXray(x'),
         ~x'.up => ~x'.hosted, ~x'.hosted => x'.served = {}
  PROVE  Sound(World')
BY DEF Sound, IsWorld, World

LEMMA UseOK ==
  ASSUME IInv, NEW c \in Emails, Use(c)
  PROVE  IInv'
<1>1. IsXray(x) /\ fuel \in Nat /\ (~x.up => ~x.hosted) /\ (~x.hosted => x.served = {})
  BY DEF IInv, Sound, IsWorld, World, BoundsOK
<1>2. PICK n : n = Counted(x.live, c) OBVIOUS
<1>3. AreCounters(n)
  BY <1>1, <1>2, CountedOK DEF IsXray
<1>4. x' = [x EXCEPT !.live = n]
  BY <1>2 DEF Use
<1>5. IsXray(x') /\ (~x'.up => ~x'.hosted) /\ (~x'.hosted => x'.served = {})
  BY <1>1, <1>3, <1>4 DEF IsXray
<1>6. UNCHANGED <<inb, row, flag, reading, batch, req, form, clock, faults, requests>>
      /\ fuel > 0 /\ fuel' = fuel - 1
  BY DEF Use, job
<1>7. Sound(World')
  BY <1>5, <1>6, XrayStepOK DEF IInv
<1>8. fuel' \in Nat
  BY <1>1, <1>6
<1>9. RequestOK' /\ ResetOK'
  BY <1>6, KeptOK DEF IInv
<1>10. QED BY <1>6, <1>7, <1>8, <1>9 DEF IInv, BatchOK, BoundsOK

LEMMA CrashOK ==
  ASSUME IInv, Crash
  PROVE  IInv'
<1>1. IsXray(x) /\ faults \in Nat
  BY DEF IInv, Sound, IsWorld, World, BoundsOK
<1>2. x' = [x EXCEPT !.up = FALSE, !.hosted = FALSE, !.served = {}, !.live = NoCounters]
  BY DEF Crash
<1>3. IsXray(x') /\ ~x'.up /\ ~x'.hosted /\ x'.served = {}
  BY <1>1, <1>2, NoCountersOK DEF IsXray
<1>4. UNCHANGED <<inb, row, flag, reading, batch, req, form, clock, fuel, requests>>
      /\ faults > 0 /\ faults' = faults - 1
  BY DEF Crash, job
<1>5. Sound(World')
  BY <1>3, <1>4, XrayStepOK DEF IInv
<1>6. faults' \in Nat
  BY <1>1, <1>4
<1>7. RequestOK' /\ ResetOK'
  BY <1>4, KeptOK DEF IInv
<1>8. QED BY <1>4, <1>5, <1>6, <1>7 DEF IInv, BatchOK, BoundsOK

LEMMA ReadCountersOK ==
  ASSUME IInv, ReadCounters
  PROVE  IInv'
<1>1. IsXray(x) /\ (~x.up => ~x.hosted) /\ (~x.hosted => x.served = {})
  BY DEF IInv, Sound, IsWorld, World
<1>2. PICK n : n = Zeroed(x.live) OBVIOUS
<1>3. AreCounters(n)
  BY <1>1, <1>2, ZeroedOK DEF IsXray
<1>4. x' = [x EXCEPT !.live = n]
  BY <1>2 DEF ReadCounters
<1>5. IsXray(x') /\ (~x'.up => ~x'.hosted) /\ (~x'.hosted => x'.served = {})
  BY <1>1, <1>3, <1>4 DEF IsXray
<1>6. UNCHANGED <<inb, row, flag, req, form, clock, fuel, faults, requests>>
      /\ reading' = TRUE /\ batch' = x.live
  BY DEF ReadCounters, budget
<1>7. Sound(World')
  BY <1>5, <1>6, XrayStepOK DEF IInv
<1>8. BatchOK'
  BY <1>1, <1>6 DEF BatchOK, IsXray
<1>9. RequestOK' /\ ResetOK'
  BY <1>6, KeptOK DEF IInv
<1>10. QED BY <1>6, <1>7, <1>8, <1>9 DEF IInv, BoundsOK

LEMMA TickOK ==
  ASSUME IInv, Tick
  PROVE  IInv'
<1>1. UNCHANGED <<inb, row, x, flag, reading, batch, req, form, fuel, faults, requests>>
      /\ clock' = clock + 1
  BY DEF Tick, budget, job
<1>2. Sound(World')
  BY <1>1 DEF IInv, World
<1>3. RequestOK' /\ ResetOK'
  BY <1>1, KeptOK DEF IInv
<1>4. BoundsOK'
  BY <1>1 DEF IInv, BoundsOK
<1>5. QED BY <1>1, <1>2, <1>3, <1>4 DEF IInv, BatchOK

LEMMA LoseTrafficOK ==
  ASSUME IInv, LoseTraffic
  PROVE  IInv'
<1>1. UNCHANGED <<inb, row, x, flag, req, form, clock, fuel, requests>>
      /\ reading' = FALSE /\ batch' = NoCounters /\ faults > 0 /\ faults' = faults - 1
  BY DEF LoseTraffic
<1>2. Sound(World')
  BY <1>1 DEF IInv, World
<1>3. RequestOK' /\ ResetOK'
  BY <1>1, KeptOK DEF IInv
<1>4. BoundsOK'
  BY <1>1 DEF IInv, BoundsOK
<1>5. BatchOK'
  BY <1>1, NoCountersOK DEF BatchOK
<1>6. QED BY <1>1, <1>2, <1>3, <1>4, <1>5 DEF IInv

LEMMA OpenFormOK ==
  ASSUME IInv, OpenForm
  PROVE  IInv'
<1>1. UNCHANGED <<inb, row, x, flag, reading, batch, req, clock, fuel, faults, requests>>
      /\ form' = inb
  BY DEF OpenForm, budget, job
<1>2. Sound(World') /\ IsInbound(inb)
  BY <1>1 DEF IInv, Sound, IsWorld, World
<1>3. RequestOK' /\ ResetOK'
  BY <1>1, KeptOK DEF IInv
<1>4. QED BY <1>1, <1>2, <1>3 DEF IInv, BatchOK, BoundsOK

LEMMA StutterOK ==
  ASSUME IInv, UNCHANGED vars
  PROVE  IInv'
<1>1. UNCHANGED <<inb, row, x, flag, reading, batch, req, form, clock, fuel, faults, requests>>
  BY DEF vars
<1>2. Sound(World')
  BY <1>1 DEF IInv, World
<1>3. RequestOK' /\ ResetOK'
  BY <1>1, KeptOK DEF IInv
<1>4. QED BY <1>1, <1>2, <1>3 DEF IInv, BatchOK, BoundsOK

-----------------------------------------------------------------------------
(* Steps of the handlers *)

SameButInb(v, w) == v.row = w.row /\ v.x = w.x /\ v.flag = w.flag
SameButRow(v, w) == v.inb = w.inb /\ v.x = w.x /\ v.flag = w.flag
SameButFlag(v, w) == v.inb = w.inb /\ v.row = w.row /\ v.x = w.x

LEMMA WithInb ==
  ASSUME NEW w, Sound(w), NEW i, IsInbound(i), i.there, NEW v, v = [w EXCEPT !.inb = i]
  PROVE  Sound(v) /\ v.inb = i /\ SameButInb(v, w)
BY DEF Sound, IsWorld, SameButInb

LEMMA WithRow ==
  ASSUME NEW w, Sound(w), w.inb.there, NEW r, IsTable(r, RowType),
         NEW v, v = [w EXCEPT !.row = r]
  PROVE  Sound(v) /\ v.row = r /\ SameButRow(v, w)
BY DEF Sound, IsWorld, SameButRow

LEMMA WithFlag ==
  ASSUME NEW w, Sound(w), NEW b \in BOOLEAN, NEW v, v = [w EXCEPT !.flag = b]
  PROVE  Sound(v) /\ (v.flag <=> b) /\ SameButFlag(v, w)
BY DEF Sound, IsWorld, SameButFlag

LEMMA AddUsersSound ==
  ASSUME NEW w, Sound(w), NEW S \in SUBSET Emails, NEW ok \in BOOLEAN,
         NEW v, v = AddUsers(w, S, ok)
  PROVE  Sound(v) /\ CalledFor(v, w, S, w.x.served \cup S, ok)
<1>1. IsWorld(v) /\ CalledFor(v, w, S, w.x.served \cup S, ok)
  BY AddUsersOK DEF Sound
<1>2. QED BY <1>1 DEF Sound, CalledFor, SameButUsers, Reaches

LEMMA RemoveUsersSound ==
  ASSUME NEW w, Sound(w), NEW S \in SUBSET Emails, NEW ok \in BOOLEAN,
         NEW v, v = RemoveUsers(w, S, ok)
  PROVE  Sound(v) /\ CalledFor(v, w, S, w.x.served \ S, ok)
<1>1. IsWorld(v) /\ CalledFor(v, w, S, w.x.served \ S, ok)
  BY RemoveUsersOK DEF Sound
<1>2. QED BY <1>1 DEF Sound, CalledFor, SameButUsers, Reaches

LEMMA DropInboundSound ==
  ASSUME NEW w, Sound(w), NEW ok \in BOOLEAN, NEW v, v = DropInbound(w, ok)
  PROVE  Sound(v) /\ Dropped(v, w, ok)
<1>1. IsWorld(v) /\ Dropped(v, w, ok)
  BY DropInboundOK DEF Sound
<1>2. QED BY <1>1 DEF Sound, Dropped

LEMMA HostInboundSound ==
  ASSUME NEW w, Sound(w), NEW S \in SUBSET Emails, NEW ok \in BOOLEAN, ok => w.x.up,
         NEW v, v = HostInbound(w, S, ok)
  PROVE  Sound(v) /\ HostedWith(v, w, S, ok)
<1>1. IsWorld(v) /\ HostedWith(v, w, S, ok)
  BY HostInboundOK DEF Sound
<1>2. QED BY <1>1 DEF Sound, HostedWith

LEMMA WorldOK ==
  ASSUME Sound(World), NEW w, w = World
  PROVE  /\ Sound(w)
         /\ w.inb = inb /\ w.row = row /\ w.x = x /\ w.flag = flag
         /\ IsInbound(inb) /\ IsTable(row, RowType) /\ IsXray(x)
         /\ flag \in BOOLEAN
BY DEF Sound, IsWorld, World

(* A handler that ends in a sound world. *)
LEMMA EndOK ==
  ASSUME IInv, NEW w, Sound(w), End(w), faults' \in Nat
  PROVE  IInv' /\ World' = w
<1>1. Sound(World') /\ World' = w
  BY BecomesOK DEF End
<1>2. UNCHANGED <<reading, batch, form, clock, fuel, requests>> /\ req' = Idle
  BY DEF End, job
<1>3. RequestOK' /\ ResetOK'
  BY <1>2 DEF Idle, RequestOK, ResetOK, Handlers
<1>4. BoundsOK'
  BY <1>2 DEF BoundsOK, IInv
<1>5. BatchOK' /\ IsInbound(form')
  BY <1>2 DEF BatchOK, IInv
<1>6. QED BY <1>1, <1>3, <1>4, <1>5 DEF IInv

LEMMA FailsOK ==
  ASSUME IInv, Fails
  PROVE  IInv'
<1>1. PICK w : w = World OBVIOUS
<1>2. Sound(w) /\ End(w) BY <1>1 DEF IInv, Fails
<1>3. faults' \in Nat BY DEF IInv, BoundsOK, Fails
<1>4. QED BY <1>2, <1>3, EndOK

(* An inbound as it was read, with other clients. *)
LEMMA ReadInboundOK ==
  ASSUME NEW i, IsInbound(i), NEW ent, IsTable(ent, ClientType),
         NEW j, j = [i EXCEPT !.ent = ent]
  PROVE  IsInbound(j) /\ j.ent = ent /\ (j.there <=> i.there) /\ (j.on <=> i.on)
BY DEF IsInbound

(* What a handler has told Xray about users. *)
Told(v, w, S, T, ok) ==
  /\ v.x.up = w.x.up
  /\ v.x.hosted = w.x.hosted
  /\ v.x.conf = w.x.conf
  /\ v.x.live = w.x.live
  /\ Reaches(w, ok) => v.x.served = T
  /\ ~Reaches(w, ok) => v.x.served = w.x.served
  /\ w.flag => v.flag
  /\ S # {} /\ ~Reaches(w, ok) => v.flag

If(b, c) == IF b THEN {c} ELSE {}

(* What AddInboundClient does to the clients of the inbound it has read, to *)
(* the rows there are now, and to Xray.                                     *)
Added(v, w, r, ok) ==
  /\ v.inb = [r.seen EXCEPT !.ent = Put(r.seen.ent, r.email, r.client)]
  /\ v.row = IF r.email \in DOMAIN w.row THEN w.row
                ELSE Put(w.row, r.email, AddClientStat(r.client))
  /\ Told(v, w, If(r.client.enable, r.email),
          w.x.served \cup If(r.client.enable, r.email), ok)

(* A step of AddInboundClient keeps the invariant and does just that.       *)
LEMMA AddInboundClientOK ==
  ASSUME IInv, AddInboundClient
  PROVE  /\ IInv'
         /\ \E ok \in BOOLEAN : Added(World', World, req, ok)
<1>1. PICK w : w = World OBVIOUS
<1>2. PICK r : r = req OBVIOUS
<1>3. /\ w.inb = inb /\ w.row = row /\ w.x = x /\ Sound(w)
      /\ inb.there /\ IsInbound(r.seen) /\ r.seen.there
      /\ r.email \in Emails /\ r.client \in ClientType
      /\ IsTable(r.seen.ent, ClientType)
      /\ IsTable(w.row, RowType)
  <2>1. r.kind = "add" BY <1>2 DEF AddInboundClient
  <2>2. /\ inb.there /\ IsInbound(r.seen) /\ r.seen.there
        /\ r.email \in Emails /\ r.client \in ClientType
    BY <1>2, <2>1 DEF IInv, RequestOK, Handlers
  <2>3. /\ w.inb = inb /\ w.row = row /\ w.x = x /\ Sound(w) /\ IsTable(w.row, RowType)
    BY <1>1, WorldOK DEF IInv
  <2>4. QED BY <2>2, <2>3 DEF IsInbound
<1>4. PICK rows : rows = IF r.email \in DOMAIN w.row THEN w.row
                         ELSE Put(w.row, r.email, AddClientStat(r.client))
  OBVIOUS
<1>5. IsTable(rows, RowType)
  <2>1. AddClientStat(r.client) \in RowType BY <1>3, AddClientStatOK
  <2>2. IsTable(Put(w.row, r.email, AddClientStat(r.client)), RowType)
    BY <1>3, <2>1, PutOK
  <2>3. QED BY <1>3, <1>4, <2>2
<1>6. PICK v : v = [w EXCEPT !.row = rows] OBVIOUS
<1>7. Sound(v) /\ v.row = rows /\ SameButRow(v, w)
  BY <1>3, <1>5, <1>6, WithRow
<1>8. PICK S : S = If(r.client.enable, r.email) OBVIOUS
<1>9. S \in SUBSET Emails
  BY <1>3, <1>8 DEF If
<1>10. PICK i : i = [r.seen EXCEPT !.ent = Put(r.seen.ent, r.email, r.client)] OBVIOUS
<1>11. IsInbound(i) /\ i.there
  <2>1. IsTable(Put(r.seen.ent, r.email, r.client), ClientType)
    BY <1>3, PutOK
  <2>2. QED BY <1>3, <1>10, <2>1, ReadInboundOK
<1>12. PICK ok \in BOOLEAN :
         /\ Answers(ok)
         /\ End([AddUsers(v, S, ok) EXCEPT !.inb = i])
  <2>1. v = IF r.email \in DOMAIN row THEN w
            ELSE [w EXCEPT !.row = Put(@, r.email, AddClientStat(r.client))]
    BY <1>3, <1>4, <1>6 DEF Sound, IsWorld
  <2>2. i = [r.seen EXCEPT !.ent = Put(@, r.email, r.client)]
    BY <1>3, <1>10 DEF IsInbound
  <2>3. QED BY <1>1, <1>2, <1>8, <2>1, <2>2 DEF AddInboundClient, If
<1>13. PICK u : u = AddUsers(v, S, ok) OBVIOUS
<1>14. Sound(u) /\ CalledFor(u, v, S, v.x.served \cup S, ok)
  BY <1>7, <1>9, <1>13, AddUsersSound
<1>15. PICK z : z = [u EXCEPT !.inb = i] OBVIOUS
<1>16. Sound(z) /\ z.inb = i /\ SameButInb(z, u)
  BY <1>11, <1>14, <1>15, WithInb
<1>17. IInv' /\ World' = z
  <2>1. faults' \in Nat BY <1>12, AnswersOK DEF IInv, BoundsOK
  <2>2. End(z) BY <1>12, <1>13, <1>15
  <2>3. QED BY <1>16, <2>1, <2>2, EndOK
<1>18. Told(z, w, S, w.x.served \cup S, ok)
  BY <1>7, <1>14, <1>16 DEF SameButRow, SameButInb, CalledFor, SameButUsers, Told, Reaches
<1>19. z.row = rows
  BY <1>7, <1>14, <1>16 DEF SameButInb, CalledFor, SameButUsers
<1>20. Added(z, w, r, ok)
  BY <1>4, <1>8, <1>10, <1>16, <1>18, <1>19 DEF Added
<1>21. QED BY <1>1, <1>2, <1>12, <1>17, <1>20

Renamed(r) == Put(Without(r.seen.ent, {r.email}), r.to, r.client)

(* What UpdateInboundClient does: the row moves with the email, unless there*)
(* is none or the new email has one.                                        *)
Edited(v, w, r, ok) ==
  /\ v.inb = [r.seen EXCEPT !.ent = Renamed(r)]
  /\ r.email \notin DOMAIN w.row => v.row = w.row
  /\ r.email \in DOMAIN w.row =>
       /\ v.row = Put(Without(w.row, {r.email}), r.to,
                      UpdateClientStat(w.row[r.email], r.client))
       /\ r.to = r.email \/ r.to \notin DOMAIN w.row
  /\ LET old == If(r.seen.ent[r.email].enable, r.email)
         new == If(r.client.enable, r.to)
     IN Told(v, w, old \cup new, (w.x.served \ old) \cup new, ok)

(* It does that, or fails and leaves everything as it was.                  *)
LEMMA UpdateInboundClientOK ==
  ASSUME IInv, UpdateInboundClient
  PROVE  /\ IInv'
         /\ \/ Fails
            \/ \E ok \in BOOLEAN : Edited(World', World, req, ok)
<1>1. PICK w : w = World OBVIOUS
<1>2. PICK r : r = req OBVIOUS
<1>3. /\ w.inb = inb /\ w.row = row /\ w.x = x /\ Sound(w)
      /\ w.inb.there /\ IsInbound(r.seen) /\ r.seen.there
      /\ r.email \in Emails /\ r.client \in ClientType /\ r.to \in Emails
      /\ IsTable(r.seen.ent, ClientType)
      /\ IsTable(w.row, RowType)
  <2>1. r.kind = "edit" BY <1>2 DEF UpdateInboundClient
  <2>2. /\ inb.there /\ IsInbound(r.seen) /\ r.seen.there
        /\ r.email \in Emails /\ r.client \in ClientType /\ r.to \in Emails
    BY <1>2, <2>1 DEF IInv, RequestOK, Handlers
  <2>3. /\ w.inb = inb /\ w.row = row /\ w.x = x /\ Sound(w) /\ IsTable(w.row, RowType)
    BY <1>1, WorldOK DEF IInv
  <2>4. QED BY <2>2, <2>3 DEF IsInbound
<1>4. CASE r.email \in DOMAIN w.row /\ r.to # r.email /\ r.to \in DOMAIN w.row
  <2>1. Fails
    BY <1>2, <1>3, <1>4 DEF UpdateInboundClient
  <2>2. QED BY <2>1, FailsOK
<1>5. CASE ~(r.email \in DOMAIN w.row /\ r.to # r.email /\ r.to \in DOMAIN w.row)
  <2>1. PICK rows : rows = IF r.email \in DOMAIN w.row
                             THEN Put(Without(w.row, {r.email}), r.to,
                                      UpdateClientStat(w.row[r.email], r.client))
                             ELSE w.row
    OBVIOUS
  <2>2. IsTable(rows, RowType)
    <3>1. CASE r.email \in DOMAIN w.row
      <4>1. w.row[r.email] \in RowType BY <1>3, <3>1 DEF IsTable
      <4>2. UpdateClientStat(w.row[r.email], r.client) \in RowType
        BY <1>3, <4>1, UpdateClientStatOK
      <4>3. IsTable(Without(w.row, {r.email}), RowType) BY <1>3, WithoutOK
      <4>4. IsTable(Put(Without(w.row, {r.email}), r.to,
                        UpdateClientStat(w.row[r.email], r.client)), RowType)
        BY <1>3, <4>2, <4>3, PutOK
      <4>5. QED BY <2>1, <3>1, <4>4
    <3>2. CASE r.email \notin DOMAIN w.row BY <1>3, <2>1, <3>2
    <3>3. QED BY <3>1, <3>2
  <2>3. PICK v : v = [w EXCEPT !.row = rows] OBVIOUS
  <2>4. Sound(v) /\ v.row = rows /\ SameButRow(v, w)
    BY <1>3, <2>2, <2>3, WithRow
  <2>5. PICK old : old = If(r.seen.ent[r.email].enable, r.email) OBVIOUS
  <2>6. PICK new : new = If(r.client.enable, r.to) OBVIOUS
  <2>7. old \in SUBSET Emails /\ new \in SUBSET Emails
    BY <1>3, <2>5, <2>6 DEF If
  <2>8. PICK i : i = [r.seen EXCEPT !.ent = Renamed(r)] OBVIOUS
  <2>9. IsInbound(i) /\ i.there
    <3>1. IsTable(Without(r.seen.ent, {r.email}), ClientType)
      BY <1>3, WithoutOK
    <3>2. IsTable(Renamed(r), ClientType)
      BY <1>3, <3>1, PutOK DEF Renamed
    <3>3. QED BY <1>3, <2>8, <3>2, ReadInboundOK
  <2>10. PICK ok \in BOOLEAN :
           /\ Answers(ok)
           /\ End([AddUsers(RemoveUsers(v, old, ok), new, ok) EXCEPT !.inb = i])
    <3>1. v = IF r.email \in DOMAIN row
                THEN [w EXCEPT !.row = Put(Without(@, {r.email}), r.to,
                                           UpdateClientStat(@[r.email], r.client))]
                ELSE w
      BY <1>3, <2>1, <2>3 DEF Sound, IsWorld
    <3>2. i = [r.seen EXCEPT !.ent = Put(Without(@, {r.email}), r.to, r.client)]
      BY <1>3, <2>8 DEF IsInbound, Renamed
    <3>3. ~(r.email \in DOMAIN row /\ r.to # r.email /\ r.to \in DOMAIN row)
      BY <1>3, <1>5
    <3>4. QED BY <1>1, <1>2, <2>5, <2>6, <3>1, <3>2, <3>3 DEF UpdateInboundClient, If
  <2>11. PICK t : t = RemoveUsers(v, old, ok) OBVIOUS
  <2>12. Sound(t) /\ CalledFor(t, v, old, v.x.served \ old, ok)
    BY <2>4, <2>7, <2>10, <2>11, RemoveUsersSound
  <2>13. PICK u : u = AddUsers(t, new, ok) OBVIOUS
  <2>14. Sound(u) /\ CalledFor(u, t, new, t.x.served \cup new, ok)
    BY <2>7, <2>10, <2>12, <2>13, AddUsersSound
  <2>15. PICK z : z = [u EXCEPT !.inb = i] OBVIOUS
  <2>16. Sound(z) /\ z.inb = i /\ SameButInb(z, u)
    BY <2>9, <2>14, <2>15, WithInb
  <2>17. IInv' /\ World' = z
    <3>1. faults' \in Nat BY <2>10, AnswersOK DEF IInv, BoundsOK
    <3>2. End(z) BY <2>10, <2>11, <2>13, <2>15
    <3>3. QED BY <2>16, <3>1, <3>2, EndOK
  <2>18. Told(z, w, old \cup new, (w.x.served \ old) \cup new, ok)
    <3>1. Reaches(v, ok) = Reaches(w, ok) /\ Reaches(t, ok) = Reaches(w, ok)
      BY <2>4, <2>12 DEF SameButRow, CalledFor, SameButUsers, Reaches
    <3>2. z.x = u.x /\ z.flag = u.flag /\ v.x = w.x /\ v.flag = w.flag
      BY <2>4, <2>16 DEF SameButRow, SameButInb
    <3>3. /\ u.x.up = w.x.up /\ u.x.hosted = w.x.hosted /\ u.x.conf = w.x.conf
          /\ u.x.live = w.x.live
      BY <2>12, <2>14, <3>2 DEF CalledFor, SameButUsers
    <3>4. CASE Reaches(w, ok)
      <4>1. t.x.served = v.x.served \ old /\ u.x.served = t.x.served \cup new
            /\ (v.flag => t.flag) /\ (t.flag => u.flag)
        BY <2>12, <2>14, <3>1, <3>4 DEF CalledFor
      <4>2. QED BY <3>2, <3>3, <3>4, <4>1 DEF Told
    <3>5. CASE ~Reaches(w, ok)
      <4>1. t.x.served = v.x.served /\ u.x.served = t.x.served
            /\ (v.flag => t.flag) /\ (t.flag => u.flag)
            /\ (old # {} => t.flag) /\ (new # {} => u.flag)
        BY <2>12, <2>14, <3>1, <3>5 DEF CalledFor
      <4>2. QED BY <3>2, <3>3, <3>5, <4>1 DEF Told
    <3>6. QED BY <3>4, <3>5
  <2>19. z.row = rows
    BY <2>4, <2>12, <2>14, <2>16 DEF SameButInb, CalledFor, SameButUsers
  <2>20. Edited(z, w, r, ok)
    BY <1>5, <2>1, <2>5, <2>6, <2>8, <2>16, <2>18, <2>19 DEF Edited
  <2>21. QED BY <1>1, <1>2, <2>10, <2>17, <2>20
<1>6. QED BY <1>4, <1>5

(* What DelInboundClient has told Xray: the restart is asked for when it has*)
(* saved the inbound.                                                       *)
Deleted(v, w, r, q, ok) ==
  /\ v.inb = w.inb
  /\ v.row = Without(w.row, {r.email})
  /\ v.flag = w.flag
  /\ r.email \in DOMAIN w.row
  /\ q.kind = "delSave" /\ q.email = r.email /\ q.seen = r.seen
  /\ v.x.up = w.x.up
  /\ v.x.conf = w.x.conf
  /\ v.x.live = w.x.live
  /\ LET off == r.seen.ent[r.email].enable /\ On(w.row, r.email)
     IN /\ Reaches(w, ok) => v.x.served = w.x.served \ If(off, r.email)
        /\ ~Reaches(w, ok) => v.x.served = w.x.served
        /\ off /\ ~Reaches(w, ok) => q.restart

(* The first write of DelInboundClient.                                     *)
LEMMA DelClientStatOK ==
  ASSUME IInv, DelClientStat
  PROVE  /\ IInv'
         /\ \/ Fails
            \/ \E ok \in BOOLEAN : Deleted(World', World, req, req', ok)
<1>1. PICK w : w = World OBVIOUS
<1>2. PICK r : r = req OBVIOUS
<1>3. /\ w.inb = inb /\ w.row = row /\ w.x = x /\ w.flag = flag /\ Sound(w)
      /\ w.inb.there /\ IsInbound(r.seen) /\ r.seen.there
      /\ DOMAIN r.seen.ent = DOMAIN inb.ent
      /\ r.email \in Emails /\ r.email \in DOMAIN inb.ent
      /\ IsTable(w.row, RowType) /\ flag \in BOOLEAN
  <2>1. r.kind = "del" BY <1>2 DEF DelClientStat
  <2>2. /\ inb.there /\ IsInbound(r.seen) /\ r.seen.there
        /\ r.email \in Emails /\ DOMAIN r.seen.ent = DOMAIN inb.ent
        /\ r.email \in DOMAIN inb.ent
    BY <1>2, <2>1 DEF IInv, RequestOK, Handlers
  <2>3. /\ w.inb = inb /\ w.row = row /\ w.x = x /\ Sound(w) /\ IsTable(w.row, RowType)
    BY <1>1, WorldOK DEF IInv
  <2>4. w.flag = flag /\ flag \in BOOLEAN
    BY <1>1, WorldOK DEF IInv
  <2>5. QED BY <2>2, <2>3, <2>4 DEF IsInbound
<1>4. CASE r.email \notin DOMAIN w.row
  <2>1. Fails
    BY <1>2, <1>3, <1>4 DEF DelClientStat
  <2>2. QED BY <2>1, FailsOK
<1>5. CASE r.email \in DOMAIN w.row
  <2>1. PICK rows : rows = Without(w.row, {r.email}) OBVIOUS
  <2>2. IsTable(rows, RowType) BY <1>3, <2>1, WithoutOK
  <2>3. PICK v : v = [w EXCEPT !.row = rows] OBVIOUS
  <2>4. Sound(v) /\ v.row = rows /\ SameButRow(v, w)
    BY <1>3, <2>2, <2>3, WithRow
  <2>5. PICK S : S = If(r.seen.ent[r.email].enable /\ On(w.row, r.email), r.email)
    OBVIOUS
  <2>6. S \in SUBSET Emails
    BY <1>3, <2>5 DEF If
  <2>7. PICK t : t = [v EXCEPT !.flag = FALSE] OBVIOUS
  <2>8. Sound(t) /\ SameButFlag(t, v)
    BY <2>4, <2>7, WithFlag
  <2>9. PICK ok \in BOOLEAN :
          /\ Answers(ok)
          /\ Becomes([RemoveUsers(t, S, ok) EXCEPT !.flag = flag])
          /\ req' = [kind |-> "delSave", email |-> r.email, seen |-> r.seen,
                     restart |-> RemoveUsers(t, S, ok).flag]
          /\ UNCHANGED <<job, form, clock, fuel, requests>>
    <3>1. v = [w EXCEPT !.row = Without(@, {r.email})]
      BY <2>1, <2>3 DEF Sound, IsWorld
    <3>2. QED BY <1>1, <1>2, <1>3, <1>5, <2>5, <2>7, <3>1 DEF DelClientStat, If, On
  <2>10. PICK u : u = RemoveUsers(t, S, ok) OBVIOUS
  <2>11. Sound(u) /\ CalledFor(u, t, S, t.x.served \ S, ok)
    BY <2>6, <2>8, <2>9, <2>10, RemoveUsersSound
  <2>12. PICK z : z = [u EXCEPT !.flag = flag] OBVIOUS
  <2>13. Sound(z) /\ SameButFlag(z, u) /\ z.flag = flag
    <3>1. Sound(z) /\ SameButFlag(z, u) BY <1>3, <2>11, <2>12, WithFlag
    <3>2. z.flag = flag BY <2>11, <2>12 DEF Sound, IsWorld
    <3>3. QED BY <3>1, <3>2
  <2>14. Sound(World') /\ World' = z
    BY <2>9, <2>10, <2>12, <2>13, BecomesOK
  <2>15. inb' = inb
    <3>1. z.inb = w.inb
      BY <2>4, <2>8, <2>11, <2>13 DEF SameButFlag, SameButRow, CalledFor, SameButUsers
    <3>2. inb' = z.inb BY <2>9, <2>10, <2>12 DEF Becomes
    <3>3. QED BY <1>3, <3>1, <3>2
  <2>16. /\ req'.kind = "delSave" /\ req'.email = r.email /\ req'.seen = r.seen
         /\ req'.restart = u.flag
    BY <2>9, <2>10
  <2>17. RequestOK' /\ ResetOK'
    <3>1. u.flag \in BOOLEAN BY <2>11 DEF Sound, IsWorld
    <3>2. QED BY <1>3, <2>15, <2>16, <3>1 DEF RequestOK, ResetOK, Handlers
  <2>18. BoundsOK'
    <3>1. faults' \in Nat BY <2>9, AnswersOK DEF IInv, BoundsOK
    <3>2. UNCHANGED <<form, clock, fuel, requests>> BY <2>9
    <3>3. QED BY <3>1, <3>2 DEF IInv, BoundsOK
  <2>19. BatchOK' /\ IsInbound(form')
    <3>1. UNCHANGED <<reading, batch, form>> BY <2>9 DEF job
    <3>2. QED BY <3>1 DEF IInv, BatchOK
  <2>20. IInv'
    BY <2>14, <2>17, <2>18, <2>19 DEF IInv
  <2>21. Deleted(z, w, r, req', ok)
    <3>1. z.row = rows /\ z.inb = w.inb
      BY <2>4, <2>8, <2>11, <2>13 DEF SameButFlag, SameButRow, CalledFor, SameButUsers
    <3>2. /\ z.x = u.x /\ t.x = w.x
      BY <2>4, <2>8, <2>13 DEF SameButFlag, SameButRow
    <3>3. /\ z.x.up = w.x.up /\ z.x.conf = w.x.conf /\ z.x.live = w.x.live
      BY <2>11, <3>2 DEF CalledFor, SameButUsers
    <3>4. /\ Reaches(w, ok) => z.x.served = w.x.served \ S
          /\ ~Reaches(w, ok) => z.x.served = w.x.served
          /\ S # {} /\ ~Reaches(w, ok) => u.flag
      BY <2>11, <3>2 DEF CalledFor, Reaches
    <3>5. z.flag = w.flag BY <1>3, <2>13
    <3>6. r.seen.ent[r.email].enable /\ On(w.row, r.email) => S # {}
      BY <2>5 DEF If
    <3>7. QED BY <1>5, <2>1, <2>5, <2>16, <3>1, <3>3, <3>4, <3>5, <3>6 DEF Deleted
  <2>22. QED BY <1>1, <1>2, <2>9, <2>14, <2>20, <2>21
<1>6. QED BY <1>4, <1>5

(* What the second write does: the inbound as it was read, without a client.*)
Saved(v, w, r) ==
  /\ v.inb = [r.seen EXCEPT !.ent = Without(r.seen.ent, {r.email})]
  /\ v.row = w.row
  /\ v.x = w.x
  /\ v.flag <=> w.flag \/ r.restart

(* The second write of DelInboundClient.                                    *)
LEMMA SaveWithoutClientOK ==
  ASSUME IInv, SaveWithoutClient
  PROVE  IInv' /\ Saved(World', World, req)
<1>1. PICK w : w = World OBVIOUS
<1>2. PICK r : r = req OBVIOUS
<1>3. /\ Sound(w) /\ IsInbound(r.seen) /\ r.seen.there /\ r.restart \in BOOLEAN
      /\ IsTable(r.seen.ent, ClientType)
  <2>1. r.kind = "delSave" BY <1>2 DEF SaveWithoutClient
  <2>2. IsInbound(r.seen) /\ r.seen.there /\ r.restart \in BOOLEAN
    BY <1>2, <2>1 DEF IInv, RequestOK, Handlers
  <2>3. Sound(w) BY <1>1 DEF IInv
  <2>4. QED BY <2>2, <2>3 DEF IsInbound
<1>4. PICK i : i = [r.seen EXCEPT !.ent = Without(r.seen.ent, {r.email})] OBVIOUS
<1>5. IsInbound(i) /\ i.there
  <2>1. IsTable(Without(r.seen.ent, {r.email}), ClientType) BY <1>3, WithoutOK
  <2>2. QED BY <1>3, <1>4, <2>1, ReadInboundOK
<1>6. PICK v : v = [w EXCEPT !.inb = i] OBVIOUS
<1>7. Sound(v) /\ v.inb = i /\ SameButInb(v, w)
  BY <1>3, <1>5, <1>6, WithInb
<1>8. PICK b : b = (w.flag \/ r.restart) OBVIOUS
<1>9. b \in BOOLEAN
  BY <1>8
<1>10. PICK z : z = [v EXCEPT !.flag = b] OBVIOUS
<1>11. Sound(z) /\ (z.flag <=> b) /\ SameButFlag(z, v)
  BY <1>7, <1>9, <1>10, WithFlag
<1>12. End(z) /\ UNCHANGED faults
  <2>1. z = [w EXCEPT !.inb = [r.seen EXCEPT !.ent = Without(@, {r.email})],
                      !.flag = @ \/ r.restart]
    BY <1>3, <1>4, <1>6, <1>8, <1>10 DEF Sound, IsWorld, IsInbound
  <2>2. QED BY <1>1, <1>2, <2>1 DEF SaveWithoutClient
<1>13. faults' \in Nat BY <1>12 DEF IInv, BoundsOK
<1>14. IInv' /\ World' = z BY <1>11, <1>12, <1>13, EndOK
<1>15. z.inb = i /\ z.row = w.row /\ z.x = w.x
  BY <1>7, <1>11 DEF SameButInb, SameButFlag
<1>16. Saved(z, w, r)
  BY <1>4, <1>8, <1>11, <1>15 DEF Saved
<1>17. QED BY <1>1, <1>2, <1>14, <1>16

(* What ResetClientTraffic does: the row it has read, at zero and enabled,  *)
(* and a user given back to Xray if the row it has read was disabled.       *)
Reset(v, w, r, ok) ==
  /\ v.inb = w.inb
  /\ v.row = Put(w.row, r.email, [r.seen EXCEPT !.used = 0, !.enable = TRUE])
  /\ LET back == /\ ~r.seen.enable
                 /\ r.email \in DOMAIN w.inb.ent
                 /\ On(w.inb.ent, r.email)
     IN Told(v, w, If(back, r.email), w.x.served \cup If(back, r.email), ok)

(* The write of ResetClientTraffic.                                         *)
LEMMA ResetClientTrafficOK ==
  ASSUME IInv, ResetClientTraffic
  PROVE  /\ IInv'
         /\ \E ok \in BOOLEAN : Reset(World', World, req, ok)
<1>1. PICK w : w = World OBVIOUS
<1>2. PICK r : r = req OBVIOUS
<1>3. /\ w.inb = inb /\ w.row = row /\ w.x = x /\ Sound(w)
      /\ w.inb.there /\ r.seen \in RowType /\ r.email \in Emails
      /\ IsTable(w.row, RowType)
  <2>1. r.kind = "reset" BY <1>2 DEF ResetClientTraffic
  <2>2. inb.there /\ r.seen \in RowType /\ r.email \in Emails
    BY <1>2, <2>1 DEF IInv, RequestOK, Handlers
  <2>3. /\ w.inb = inb /\ w.row = row /\ w.x = x /\ Sound(w) /\ IsTable(w.row, RowType)
    BY <1>1, WorldOK DEF IInv
  <2>4. QED BY <2>2, <2>3
<1>4. PICK S : S = If(/\ ~r.seen.enable
                      /\ r.email \in DOMAIN w.inb.ent
                      /\ On(w.inb.ent, r.email), r.email)
  OBVIOUS
<1>5. S \in SUBSET Emails BY <1>3, <1>4 DEF If
<1>6. PICK new : new = [r.seen EXCEPT !.used = 0, !.enable = TRUE] OBVIOUS
<1>7. new \in RowType BY <1>3, <1>6 DEF RowType
<1>8. PICK ok \in BOOLEAN :
        /\ Answers(ok)
        /\ End([AddUsers(w, S, ok) EXCEPT !.row = Put(@, r.email, new)])
  BY <1>1, <1>2, <1>3, <1>4, <1>6 DEF ResetClientTraffic, If, On
<1>9. PICK u : u = AddUsers(w, S, ok) OBVIOUS
<1>10. Sound(u) /\ CalledFor(u, w, S, w.x.served \cup S, ok)
  BY <1>3, <1>5, <1>8, <1>9, AddUsersSound
<1>11. u.row = w.row /\ u.inb = w.inb
  BY <1>10 DEF CalledFor, SameButUsers
<1>12. PICK rows : rows = Put(w.row, r.email, new) OBVIOUS
<1>13. IsTable(rows, RowType) BY <1>3, <1>7, <1>12, PutOK
<1>14. PICK z : z = [u EXCEPT !.row = rows] OBVIOUS
<1>15. Sound(z) /\ z.row = rows /\ SameButRow(z, u)
  BY <1>3, <1>10, <1>11, <1>13, <1>14, WithRow
<1>16. End(z)
  <2>1. z = [u EXCEPT !.row = Put(@, r.email, new)]
    BY <1>10, <1>11, <1>12, <1>14 DEF Sound, IsWorld
  <2>2. QED BY <1>8, <1>9, <2>1
<1>17. faults' \in Nat BY <1>8, AnswersOK DEF IInv, BoundsOK
<1>18. IInv' /\ World' = z BY <1>15, <1>16, <1>17, EndOK
<1>19. Told(z, w, S, w.x.served \cup S, ok)
  BY <1>10, <1>15 DEF SameButRow, CalledFor, SameButUsers, Told
<1>20. z.inb = w.inb /\ z.row = rows
  BY <1>11, <1>15 DEF SameButRow
<1>21. Reset(z, w, r, ok)
  BY <1>4, <1>6, <1>12, <1>19, <1>20 DEF Reset
<1>22. QED BY <1>1, <1>2, <1>8, <1>18, <1>21

(* The inbound is gone, with clients and rows. *)
InboundDeleted(v, w) ==
  /\ v.inb = NoInbound
  /\ v.row = NoClients
  /\ v.x.up = w.x.up
  /\ v.x.conf = w.x.conf
  /\ v.x.live = w.x.live

(* DelInbound: Xray drops the inbound, or a restart is due, or it was off.  *)
LEMMA DelInboundOK ==
  ASSUME NEW w, Sound(w), NEW ok \in BOOLEAN, NEW v, v = DelInbound(w, ok)
  PROVE  /\ Sound(v)
         /\ InboundDeleted(v, w)
         /\ v.x.served = {} \/ v.flag \/ ~w.inb.on
<1>1. PICK u : u = IF w.inb.on
                     THEN IF ok /\ w.x.hosted THEN DropInbound(w, ok)
                                              ELSE [w EXCEPT !.flag = TRUE]
                     ELSE w
  OBVIOUS
<1>2. Sound(u) /\ u.x.up = w.x.up /\ u.x.conf = w.x.conf /\ u.x.live = w.x.live
      /\ (u.x.served = {} \/ u.flag \/ ~w.inb.on)
  <2>1. CASE ~w.inb.on BY <1>1, <2>1
  <2>2. CASE w.inb.on /\ ok /\ w.x.hosted
    <3>1. u = DropInbound(w, ok) BY <1>1, <2>2
    <3>2. Sound(u) /\ Dropped(u, w, ok) BY <3>1, DropInboundSound
    <3>3. QED BY <2>2, <3>2 DEF Dropped
  <2>3. CASE w.inb.on /\ ~(ok /\ w.x.hosted)
    <3>1. u = [w EXCEPT !.flag = TRUE] BY <1>1, <2>3
    <3>2. Sound(u) /\ u.flag /\ SameButFlag(u, w) BY <3>1, WithFlag
    <3>3. QED BY <3>2 DEF SameButFlag
  <2>4. QED BY <2>1, <2>2, <2>3
<1>3. v = [u EXCEPT !.row = NoClients, !.inb = NoInbound]
  BY <1>1 DEF DelInbound
<1>4. v.inb = NoInbound /\ v.row = NoClients /\ v.x = u.x /\ v.flag = u.flag
      /\ v \in [inb : {v.inb}, row : {v.row}, x : {v.x}, flag : BOOLEAN]
  BY <1>2, <1>3 DEF Sound, IsWorld
<1>5. IsInbound(v.inb) /\ IsTable(v.row, RowType) /\ DOMAIN v.row = {} /\ DOMAIN v.inb.ent = {}
  BY <1>4, NoInboundOK, NoClientsOK
<1>6. Sound(v) BY <1>2, <1>4, <1>5 DEF Sound, IsWorld
<1>7. QED BY <1>2, <1>4, <1>6 DEF InboundDeleted

(* DelDepletedClients when it leaves the inbound. *)
Pruned(v, w, r) ==
  /\ v.row = Without(w.row, DepletedForGood(r.now))
  /\ r.emails = {} => v.inb = w.inb
  /\ r.emails # {} => v.inb = [r.seen EXCEPT !.ent = Without(r.seen.ent, r.emails)]
  /\ v.x = w.x
  /\ v.flag = w.flag

(* The write of DelDepletedClients, which may leave no client.              *)
LEMMA DelDepletedClientsOK ==
  ASSUME IInv, DelDepletedClients
  PROVE  /\ IInv'
         /\ \/ Pruned(World', World, req)
            \/ InboundDeleted(World', World)
<1>1. PICK w : w = World OBVIOUS
<1>2. PICK r : r = req OBVIOUS
<1>3. /\ w.inb = inb /\ w.row = row /\ w.x = x /\ w.flag = flag /\ Sound(w)
      /\ w.inb.there /\ IsInbound(r.seen) /\ r.seen.there
      /\ IsTable(r.seen.ent, ClientType)
      /\ IsTable(w.row, RowType) /\ flag \in BOOLEAN
  <2>1. r.kind = "depleted" BY <1>2 DEF DelDepletedClients
  <2>2. inb.there /\ IsInbound(r.seen) /\ r.seen.there
    BY <1>2, <2>1 DEF IInv, RequestOK, Handlers
  <2>3. /\ w.inb = inb /\ w.row = row /\ w.x = x /\ Sound(w) /\ IsTable(w.row, RowType)
    BY <1>1, WorldOK DEF IInv
  <2>4. w.flag = flag /\ flag \in BOOLEAN
    BY <1>1, WorldOK DEF IInv
  <2>5. QED BY <2>2, <2>3, <2>4 DEF IsInbound
<1>4. PICK left : left = Without(r.seen.ent, r.emails) OBVIOUS
<1>5. PICK rows : rows = Without(w.row, DepletedForGood(r.now)) OBVIOUS
<1>6. IsTable(left, ClientType) /\ IsTable(rows, RowType)
  BY <1>3, <1>4, <1>5, WithoutOK
<1>7. PICK i : i = IF r.emails = {} THEN w.inb ELSE [r.seen EXCEPT !.ent = left] OBVIOUS
<1>8. IsInbound(i) /\ i.there
  <2>1. IsInbound(w.inb) BY <1>3 DEF Sound, IsWorld
  <2>2. QED BY <1>3, <1>6, <1>7, <2>1, ReadInboundOK
<1>9. CASE /\ r.emails = {} \/ DOMAIN left # {}
           /\ End([w EXCEPT !.row = rows, !.inb = i])
           /\ UNCHANGED faults
  <2>1. PICK v : v = [w EXCEPT !.row = rows] OBVIOUS
  <2>2. Sound(v) /\ v.row = rows /\ SameButRow(v, w)
    BY <1>3, <1>6, <2>1, WithRow
  <2>3. PICK z : z = [v EXCEPT !.inb = i] OBVIOUS
  <2>4. Sound(z) /\ z.inb = i /\ SameButInb(z, v)
    BY <1>8, <2>2, <2>3, WithInb
  <2>5. End(z)
    <3>1. z = [w EXCEPT !.row = rows, !.inb = i]
      BY <2>1, <2>3, <1>3 DEF Sound, IsWorld
    <3>2. QED BY <1>9, <3>1
  <2>6. faults' \in Nat BY <1>9 DEF IInv, BoundsOK
  <2>7. IInv' /\ World' = z BY <2>4, <2>5, <2>6, EndOK
  <2>8. z.row = rows /\ z.x = w.x /\ z.flag = w.flag
    BY <2>2, <2>4 DEF SameButRow, SameButInb
  <2>9. Pruned(z, w, r)
    BY <1>4, <1>5, <1>7, <2>4, <2>8 DEF Pruned
  <2>10. QED BY <1>1, <1>2, <2>7, <2>9
<1>10. CASE /\ r.emails # {} /\ DOMAIN left = {}
            /\ \E ok \in BOOLEAN :
                 Answers(ok) /\ End([DelInbound(w, ok) EXCEPT !.flag = flag])
  <2>1. PICK ok \in BOOLEAN : Answers(ok) /\ End([DelInbound(w, ok) EXCEPT !.flag = flag])
    BY <1>10
  <2>2. PICK u : u = DelInbound(w, ok) OBVIOUS
  <2>3. Sound(u) /\ InboundDeleted(u, w) BY <1>3, <2>1, <2>2, DelInboundOK
  <2>4. PICK z : z = [u EXCEPT !.flag = flag] OBVIOUS
  <2>5. Sound(z) /\ SameButFlag(z, u) BY <1>3, <2>3, <2>4, WithFlag
  <2>6. End(z) BY <2>1, <2>2, <2>4
  <2>7. faults' \in Nat BY <2>1, AnswersOK DEF IInv, BoundsOK
  <2>8. IInv' /\ World' = z BY <2>5, <2>6, <2>7, EndOK
  <2>9. InboundDeleted(z, w)
    BY <2>3, <2>5 DEF SameButFlag, InboundDeleted
  <2>10. QED BY <1>1, <2>8, <2>9
<1>11. QED
  <2>1. i = IF r.emails = {} THEN w.inb ELSE [r.seen EXCEPT !.ent = left]
    BY <1>7
  <2>2. [w EXCEPT !.row = rows, !.inb = i]
          = [w EXCEPT !.row = rows,
                      !.inb = IF r.emails = {} THEN @ ELSE [r.seen EXCEPT !.ent = left]]
    BY <1>3, <1>7 DEF Sound, IsWorld
  <2>3. QED BY <1>1, <1>2, <1>3, <1>4, <1>5, <1>9, <1>10, <2>2 DEF DelDepletedClients

(* Xray is told to drop the inbound and, if it is on, to host it anew. *)
Rehosted(v, w, on, S, ok) ==
  /\ v.x.up = w.x.up
  /\ v.x.conf = w.x.conf
  /\ v.x.live = w.x.live
  /\ w.flag => v.flag
  /\ on /\ ok => v.x.served = S
  /\ on /\ ~ok => v.flag
  /\ ~on /\ ok => v.x.served = {}
  /\ ~ok => v.x.served = w.x.served

(* An inbound dropped and hosted anew with the users S.                     *)
LEMMA RehostOK ==
  ASSUME NEW w, Sound(w), NEW S \in SUBSET Emails, NEW ok \in BOOLEAN, ok => w.x.up,
         NEW on \in BOOLEAN, NEW u, u = DropInbound(w, ok),
         NEW v, v = IF on THEN HostInbound(u, S, ok) ELSE u
  PROVE  /\ Sound(v)
         /\ v.inb = w.inb /\ v.row = w.row
         /\ Rehosted(v, w, on, S, ok)
<1>1. Sound(u) /\ Dropped(u, w, ok)
  BY DropInboundSound
<1>2. CASE on
  <2>1. Sound(v) /\ HostedWith(v, u, S, ok)
    <3>1. v = HostInbound(u, S, ok) BY <1>2
    <3>2. ok => u.x.up BY <1>1 DEF Dropped
    <3>3. QED BY <1>1, <3>1, <3>2, HostInboundSound
  <2>2. /\ v.inb = w.inb /\ v.row = w.row
        /\ v.x.up = w.x.up /\ v.x.conf = w.x.conf /\ v.x.live = w.x.live
    BY <1>1, <2>1 DEF Dropped, HostedWith
  <2>3. CASE ok
    <3>1. v.x.served = S /\ v.flag = u.flag /\ u.flag = w.flag
      BY <1>1, <2>1, <2>3 DEF Dropped, HostedWith
    <3>2. QED BY <1>2, <2>1, <2>2, <2>3, <3>1 DEF Rehosted
  <2>4. CASE ~ok
    <3>1. v.x = w.x /\ v.flag
      BY <1>1, <2>1, <2>4 DEF Dropped, HostedWith
    <3>2. QED BY <1>2, <2>1, <2>2, <2>4, <3>1 DEF Rehosted
  <2>5. QED BY <2>3, <2>4
<1>3. CASE ~on
  <2>1. v = u BY <1>3
  <2>2. QED BY <1>1, <1>3, <2>1 DEF Dropped, Rehosted
<1>4. QED BY <1>2, <1>3

(* The rows and clients of the form, and which emails have come. *)
Come(r) == DOMAIN r.form.ent \ DOMAIN r.seen.ent
Kept(w, r) == Without(w.row, DOMAIN r.seen.ent \ DOMAIN r.form.ent)

(* What UpdateInbound does: the inbound of the form, rows for the emails    *)
(* that have come, none for those that have gone.                           *)
Updated(v, w, r, ok) ==
  /\ Come(r) \cap DOMAIN Kept(w, r) = {}
  /\ v.inb = r.form
  /\ v.row = [c \in DOMAIN Kept(w, r) \cup Come(r) |->
                IF c \in DOMAIN Kept(w, r) THEN Kept(w, r)[c]
                                           ELSE AddClientStat(r.form.ent[c])]
  /\ Rehosted(v, w, r.form.on, Eligible(r.form.ent, v.row), ok)

(* It does that, or fails and leaves everything as it was.                  *)
LEMMA UpdateInboundOK ==
  ASSUME IInv, UpdateInbound
  PROVE  /\ IInv'
         /\ \/ Fails
            \/ \E ok \in BOOLEAN : Updated(World', World, req, ok)
<1>1. PICK w : w = World OBVIOUS
<1>2. PICK r : r = req OBVIOUS
<1>3. /\ w.inb = inb /\ w.row = row /\ w.x = x /\ Sound(w)
      /\ w.inb.there /\ IsInbound(r.seen) /\ IsInbound(r.form) /\ r.form.there
      /\ IsTable(r.form.ent, ClientType)
      /\ IsTable(w.row, RowType)
      /\ r.form.on \in BOOLEAN
  <2>1. r.kind = "update" BY <1>2 DEF UpdateInbound
  <2>2. inb.there /\ IsInbound(r.seen) /\ IsInbound(r.form) /\ r.form.there
    BY <1>2, <2>1 DEF IInv, RequestOK, Handlers
  <2>3. /\ w.inb = inb /\ w.row = row /\ w.x = x /\ Sound(w) /\ IsTable(w.row, RowType)
    BY <1>1, WorldOK DEF IInv
  <2>4. r.form.on \in BOOLEAN BY <2>2 DEF IsInbound
  <2>5. QED BY <2>2, <2>3, <2>4 DEF IsInbound
<1>4. PICK kept : kept = Kept(w, r) OBVIOUS
<1>5. PICK new : new = Come(r) OBVIOUS
<1>6. CASE new \cap DOMAIN kept # {}
  <2>1. Fails BY <1>2, <1>3, <1>4, <1>5, <1>6 DEF UpdateInbound, Kept, Come
  <2>2. QED BY <2>1, FailsOK
<1>7. CASE new \cap DOMAIN kept = {}
  <2>1. PICK rows : rows = [c \in DOMAIN kept \cup new |->
                              IF c \in DOMAIN kept THEN kept[c]
                                                   ELSE AddClientStat(r.form.ent[c])]
    OBVIOUS
  <2>2. IsTable(rows, RowType)
    <3>1. IsTable(kept, RowType) BY <1>3, <1>4, WithoutOK DEF Kept
    <3>2. ASSUME NEW c \in DOMAIN rows PROVE rows[c] \in RowType
      <4>1. CASE c \in DOMAIN kept BY <2>1, <3>1, <4>1 DEF IsTable
      <4>2. CASE c \notin DOMAIN kept
        <5>1. c \in DOMAIN r.form.ent BY <1>5, <2>1, <4>2 DEF Come
        <5>2. r.form.ent[c] \in ClientType BY <1>3, <5>1 DEF IsTable
        <5>3. AddClientStat(r.form.ent[c]) \in RowType BY <5>2, AddClientStatOK
        <5>4. QED BY <2>1, <4>2, <5>3
      <4>3. QED BY <4>1, <4>2
    <3>3. DOMAIN rows \subseteq Emails
      BY <1>3, <1>5, <2>1, <3>1 DEF IsTable, Come
    <3>4. QED BY <2>1, <3>2, <3>3 DEF IsTable
  <2>3. PICK v : v = [w EXCEPT !.row = rows, !.inb = r.form] OBVIOUS
  <2>4. Sound(v) /\ v.row = rows /\ v.inb = r.form /\ v.x = w.x /\ v.flag = w.flag
    <3>1. PICK t : t = [w EXCEPT !.row = rows] OBVIOUS
    <3>2. Sound(t) /\ t.row = rows /\ SameButRow(t, w)
      BY <1>3, <2>2, <3>1, WithRow
    <3>3. v = [t EXCEPT !.inb = r.form] BY <2>3, <3>1, <1>3 DEF Sound, IsWorld
    <3>4. Sound(v) /\ v.inb = r.form /\ SameButInb(v, t) BY <1>3, <3>2, <3>3, WithInb
    <3>5. QED BY <3>2, <3>4 DEF SameButRow, SameButInb
  <2>5. PICK S : S = Eligible(r.form.ent, rows) OBVIOUS
  <2>6. S \in SUBSET Emails BY <1>3, <2>5, EligibleOK
  <2>7. PICK ok \in BOOLEAN :
          /\ Answers(ok)
          /\ End(IF r.form.on THEN HostInbound(DropInbound(v, ok), S, ok)
                              ELSE DropInbound(v, ok))
    <3>1. \E ok \in BOOLEAN :
            LET u == DropInbound(v, ok)
            IN Answers(ok) /\ End(IF r.form.on THEN HostInbound(u, S, ok) ELSE u)
      BY <1>1, <1>2, <1>3, <1>4, <1>5, <1>7, <2>1, <2>3, <2>5 DEF UpdateInbound, Kept, Come
    <3>2. QED BY <3>1
  <2>8. PICK u : u = DropInbound(v, ok) OBVIOUS
  <2>9. PICK z : z = IF r.form.on THEN HostInbound(u, S, ok) ELSE u OBVIOUS
  <2>10. faults' \in Nat /\ (ok => v.x.up)
    <3>1. faults' \in Nat /\ (ok => x.up)
      BY <2>7, AnswersOK DEF IInv, BoundsOK
    <3>2. QED BY <1>3, <2>4, <3>1
  <2>11. Sound(z) /\ z.inb = v.inb /\ z.row = v.row /\ Rehosted(z, v, r.form.on, S, ok)
    BY <1>3, <2>4, <2>6, <2>7, <2>8, <2>9, <2>10, RehostOK
  <2>12. IInv' /\ World' = z
    BY <2>7, <2>8, <2>9, <2>10, <2>11, EndOK
  <2>13. Rehosted(z, w, r.form.on, S, ok)
    BY <2>4, <2>11 DEF Rehosted
  <2>14. Updated(z, w, r, ok)
    BY <1>4, <1>5, <1>7, <2>1, <2>4, <2>5, <2>11, <2>13 DEF Updated
  <2>15. QED BY <1>1, <1>2, <2>7, <2>12, <2>14
<1>8. QED BY <1>6, <1>7

Switched(v, w, r, ok) ==
  /\ v.inb = [w.inb EXCEPT !.on = r.on]
  /\ v.row = w.row
  /\ ~ok => v.flag
  /\ Rehosted(v, w, r.on, Eligible(r.seen.ent, w.row), ok)

(* The write of SetInboundEnable.                                           *)
LEMMA SetInboundEnableOK ==
  ASSUME IInv, SetInboundEnable
  PROVE  /\ IInv'
         /\ \E ok \in BOOLEAN : Switched(World', World, req, ok)
<1>1. PICK w : w = World OBVIOUS
<1>2. PICK r : r = req OBVIOUS
<1>3. /\ w.inb = inb /\ w.row = row /\ w.x = x /\ Sound(w)
      /\ w.inb.there /\ IsInbound(r.seen) /\ r.on \in BOOLEAN
      /\ IsInbound(w.inb)
  <2>1. r.kind = "switch" BY <1>2 DEF SetInboundEnable
  <2>2. inb.there /\ IsInbound(r.seen) /\ r.on \in BOOLEAN
    BY <1>2, <2>1 DEF IInv, RequestOK, Handlers
  <2>3. /\ w.inb = inb /\ w.row = row /\ w.x = x /\ Sound(w)
    BY <1>1, WorldOK DEF IInv
  <2>4. IsInbound(w.inb) BY <2>3 DEF Sound, IsWorld
  <2>5. QED BY <2>2, <2>3, <2>4
<1>4. PICK S : S = Eligible(r.seen.ent, row) OBVIOUS
<1>5. S \in SUBSET Emails BY <1>3, <1>4, EligibleOK
<1>6. PICK ok \in BOOLEAN :
        LET v == [w EXCEPT !.inb.on = r.on, !.flag = @ \/ ~ok]
            u == DropInbound(v, ok)
        IN /\ Answers(ok)
           /\ End(IF r.on THEN HostInbound(u, S, ok) ELSE u)
  BY <1>1, <1>2, <1>4 DEF SetInboundEnable
<1>7. PICK i : i = [w.inb EXCEPT !.on = r.on] OBVIOUS
<1>8. IsInbound(i) /\ i.there
  BY <1>3, <1>7 DEF IsInbound
<1>9. PICK t : t = [w EXCEPT !.inb = i] OBVIOUS
<1>10. Sound(t) /\ t.inb = i /\ SameButInb(t, w)
  BY <1>3, <1>8, <1>9, WithInb
<1>11. PICK b : b = (w.flag \/ ~ok) OBVIOUS
<1>12. b \in BOOLEAN BY <1>11
<1>13. PICK v : v = [t EXCEPT !.flag = b] OBVIOUS
<1>14. Sound(v) /\ (v.flag <=> b) /\ SameButFlag(v, t)
  BY <1>10, <1>12, <1>13, WithFlag
<1>15. v = [w EXCEPT !.inb.on = r.on, !.flag = @ \/ ~ok]
  BY <1>3, <1>7, <1>9, <1>11, <1>13 DEF Sound, IsWorld
<1>16. PICK u : u = DropInbound(v, ok) OBVIOUS
<1>17. PICK z : z = IF r.on THEN HostInbound(u, S, ok) ELSE u OBVIOUS
<1>18. Answers(ok) /\ End(z)
  BY <1>6, <1>15, <1>16, <1>17
<1>19. faults' \in Nat /\ (ok => v.x.up)
  <2>1. faults' \in Nat /\ (ok => x.up)
    BY <1>6, <1>18, AnswersOK DEF IInv, BoundsOK
  <2>2. v.x = x BY <1>3, <1>10, <1>14 DEF SameButInb, SameButFlag
  <2>3. QED BY <2>1, <2>2
<1>20. Sound(z) /\ z.inb = v.inb /\ z.row = v.row /\ Rehosted(z, v, r.on, S, ok)
  <2>1. ok \in BOOLEAN /\ r.on \in BOOLEAN BY <1>3, <1>6
  <2>2. Sound(v) /\ (ok => v.x.up) BY <1>14, <1>19
  <2>3. QED BY <1>5, <1>16, <1>17, <2>1, <2>2, RehostOK
<1>21. IInv' /\ World' = z
  BY <1>18, <1>19, <1>20, EndOK
<1>22. v.inb = i /\ v.row = w.row /\ v.x = w.x
  BY <1>10, <1>14 DEF SameButInb, SameButFlag
<1>23. (w.flag => v.flag) /\ (~ok => v.flag)
  BY <1>11, <1>14
<1>24. Rehosted(z, w, r.on, S, ok) /\ (~ok => z.flag)
  BY <1>20, <1>22, <1>23 DEF Rehosted
<1>25. Switched(z, w, r, ok)
  BY <1>3, <1>4, <1>7, <1>20, <1>22, <1>24 DEF Switched
<1>26. QED BY <1>1, <1>2, <1>6, <1>21, <1>25

-----------------------------------------------------------------------------
(* Requests *)

(* A handler that has read the database keeps the invariant.                *)
LEMMA AskOK ==
  ASSUME IInv, NEW r, Ask(r),
         r.kind \in Handlers => r.seen = inb,
         r.kind \in Handlers \cup {"reset"}, inb.there,
         r.kind \in {"add", "edit", "del", "delSave", "reset"} => r.email \in Emails,
         r.kind \in {"add", "edit"} => r.client \in ClientType,
         r.kind \in {"edit", "del", "delSave", "reset"} => r.email \in DOMAIN inb.ent,
         r.kind = "edit" => r.to \in Emails,
         r.kind = "switch" => r.on \in BOOLEAN,
         r.kind \notin {"delSave", "update"},
         r.kind = "reset" => r.email \in DOMAIN row /\ r.seen = row[r.email]
  PROVE  IInv'
<1>1. UNCHANGED <<inb, row, x, flag, reading, batch, form, clock, fuel, faults>>
      /\ requests > 0 /\ requests' = requests - 1 /\ req' = r
  BY DEF Ask, job
<1>2. Sound(World') BY <1>1 DEF IInv, World
<1>3. IsInbound(inb) /\ IsTable(row, RowType)
  BY WorldOK DEF IInv
<1>4. r.kind = "reset" => r.seen \in RowType
  BY <1>3 DEF IsTable
<1>5. RequestOK' BY <1>1, <1>3, <1>4 DEF RequestOK, Handlers
<1>6. ResetOK' BY <1>1 DEF ResetOK, On
<1>7. BoundsOK' BY <1>1 DEF IInv, BoundsOK
<1>8. QED BY <1>1, <1>2, <1>5, <1>6, <1>7 DEF IInv, BatchOK

LEMMA ThereOK ==
  ASSUME IInv
  PROVE  /\ DOMAIN inb.ent \subseteq Emails /\ DOMAIN row \subseteq Emails
         /\ ~inb.there => DOMAIN inb.ent = {} /\ DOMAIN row = {}
         /\ inb.on \in BOOLEAN
         /\ IsInbound(inb)
BY DEF IInv, Sound, IsWorld, World, IsInbound, IsTable

LEMMA AskAddOK == ASSUME IInv, AskAdd PROVE IInv'
<1>1. PICK c \in Emails \ DOMAIN inb.ent, d \in Clients :
        inb.there /\ Ask([kind |-> "add", email |-> c, client |-> d, seen |-> inb])
  BY DEF AskAdd
<1>2. PICK r : r = [kind |-> "add", email |-> c, client |-> d, seen |-> inb] OBVIOUS
<1>3. d \in ClientType BY ClientsOK
<1>4. QED BY <1>1, <1>2, <1>3, AskOK DEF Handlers

LEMMA AskUpdateClientOK == ASSUME IInv, AskUpdateClient PROVE IInv'
<1>1. PICK c \in DOMAIN inb.ent, d \in Clients :
        \E to \in {c} \cup (Emails \ DOMAIN inb.ent) :
          Ask([kind |-> "edit", email |-> c, to |-> to, client |-> d, seen |-> inb])
  BY DEF AskUpdateClient
<1>2. PICK to \in {c} \cup (Emails \ DOMAIN inb.ent) :
        Ask([kind |-> "edit", email |-> c, to |-> to, client |-> d, seen |-> inb])
  BY <1>1
<1>3. PICK r : r = [kind |-> "edit", email |-> c, to |-> to, client |-> d, seen |-> inb]
  OBVIOUS
<1>4. d \in ClientType /\ c \in Emails /\ to \in Emails /\ inb.there
  BY <1>1, <1>2, ClientsOK, ThereOK
<1>5. QED BY <1>2, <1>3, <1>4, AskOK DEF Handlers

LEMMA AskDelClientOK == ASSUME IInv, AskDelClient PROVE IInv'
<1>1. PICK c \in DOMAIN inb.ent : Ask([kind |-> "del", email |-> c, seen |-> inb])
  BY DEF AskDelClient
<1>2. PICK r : r = [kind |-> "del", email |-> c, seen |-> inb] OBVIOUS
<1>3. c \in Emails /\ inb.there BY <1>1, ThereOK
<1>4. QED BY <1>1, <1>2, <1>3, AskOK DEF Handlers

LEMMA AskResetClientOK == ASSUME IInv, AskResetClient PROVE IInv'
<1>1. PICK c \in DOMAIN inb.ent \cap DOMAIN row :
        Ask([kind |-> "reset", email |-> c, seen |-> row[c]])
  BY DEF AskResetClient
<1>2. PICK r : r = [kind |-> "reset", email |-> c, seen |-> row[c]] OBVIOUS
<1>3. c \in Emails /\ inb.there BY <1>1, ThereOK
<1>4. QED BY <1>1, <1>2, <1>3, AskOK DEF Handlers

LEMMA AskDelDepletedOK == ASSUME IInv, AskDelDepleted PROVE IInv'
<1>1. PICK r : r = [kind |-> "depleted", emails |-> DepletedForGood(clock),
                    now |-> clock, seen |-> inb]
  OBVIOUS
<1>2. inb.there /\ Ask(r) BY <1>1 DEF AskDelDepleted
<1>3. QED BY <1>1, <1>2, AskOK DEF Handlers

LEMMA AskSetEnableOK == ASSUME IInv, AskSetEnable PROVE IInv'
<1>1. PICK r : r = [kind |-> "switch", on |-> ~inb.on, seen |-> inb] OBVIOUS
<1>2. inb.there /\ Ask(r) BY <1>1 DEF AskSetEnable
<1>3. r.on \in BOOLEAN BY <1>1
<1>4. QED BY <1>1, <1>2, <1>3, AskOK DEF Handlers

LEMMA AskUpdateInboundOK == ASSUME IInv, AskUpdateInbound PROVE IInv'
<1>1. PICK on \in BOOLEAN :
        req' = [kind |-> "update", form |-> [form EXCEPT !.on = on], seen |-> inb]
  BY DEF AskUpdateInbound
<1>2. UNCHANGED <<inb, row, x, flag, reading, batch, clock, fuel, faults>>
      /\ requests > 0 /\ requests' = requests - 1 /\ form' = NoInbound
      /\ form.there /\ inb.there
  BY DEF AskUpdateInbound, job
<1>3. Sound(World') BY <1>2 DEF IInv, World
<1>4. PICK f : f = [form EXCEPT !.on = on] OBVIOUS
<1>5. IsInbound(f) /\ f.there
  BY <1>1, <1>2, <1>4 DEF IInv, IsInbound
<1>6. req'.kind = "update" /\ req'.form = f /\ req'.seen = inb
  BY <1>1, <1>4
<1>7. RequestOK'
  BY <1>2, <1>5, <1>6, ThereOK DEF RequestOK, Handlers
<1>8. ResetOK' BY <1>6 DEF ResetOK
<1>9. BoundsOK' BY <1>2 DEF IInv, BoundsOK
<1>10. IsInbound(form') BY <1>2, NoInboundOK
<1>11. QED BY <1>2, <1>3, <1>7, <1>8, <1>9, <1>10 DEF IInv, BatchOK

(* A request of one step that ends in a sound world. *)
LEMMA OneStepOK ==
  ASSUME IInv, Request, NEW w, Sound(w), Becomes(w), faults' \in Nat
  PROVE  IInv' /\ World' = w
<1>1. Sound(World') /\ World' = w BY BecomesOK
<1>2. UNCHANGED <<reading, batch, req, form, clock, fuel>>
      /\ requests > 0 /\ requests' = requests - 1 /\ req = Idle
  BY DEF Request, job
<1>3. RequestOK' /\ ResetOK'
  BY <1>2 DEF Idle, RequestOK, ResetOK, Handlers
<1>4. BoundsOK' BY <1>2 DEF IInv, BoundsOK
<1>5. BatchOK' /\ IsInbound(form') BY <1>2 DEF IInv, BatchOK
<1>6. QED BY <1>1, <1>3, <1>4, <1>5 DEF IInv

(* An inbound with the clients S, all enabled.                              *)
InboundAdded(v, w, S, ent) ==
  /\ v.inb.there /\ v.inb.on
  /\ v.inb.ent = ent
  /\ DOMAIN ent = S
  /\ DOMAIN v.row = S
  /\ \A c \in S : On(ent, c) /\ On(v.row, c)
  /\ v.x.up = w.x.up
  /\ v.x.conf = w.x.conf
  /\ v.x.live = w.x.live
  /\ v.x.served = S \/ (v.x.served = w.x.served /\ v.flag)
  /\ w.flag => v.flag

(* AddInbound, of which the emails must be free.                            *)
LEMMA AddInboundOK ==
  ASSUME IInv, AddInbound
  PROVE  /\ IInv'
         /\ DOMAIN row = {} /\ DOMAIN inb.ent = {}
         /\ \E S, ent : InboundAdded(World', World, S, ent)
<1>1. PICK w : w = World OBVIOUS
<1>2. Sound(w) /\ w.x = x BY <1>1, WorldOK DEF IInv
<1>3. ~inb.there /\ DOMAIN row = {} /\ DOMAIN inb.ent = {}
  BY ThereOK DEF AddInbound
<1>4. PICK S \in SUBSET Emails, p \in Plans, t \in Totals, ok \in BOOLEAN :
        LET ent == [c \in S |-> Client(p, TRUE)]
            rows == [c \in S |-> AddClientStat(ent[c])]
            v == [w EXCEPT !.row = rows,
                           !.inb = [there |-> TRUE, on |-> TRUE, total |-> t,
                                    used |-> 0, ent |-> ent]]
        IN Answers(ok) /\ Becomes(HostInbound(v, S, ok))
  BY <1>1 DEF AddInbound
<1>5. PICK ent : ent = [c \in S |-> Client(p, TRUE)] OBVIOUS
<1>6. PICK rows : rows = [c \in S |-> AddClientStat(ent[c])] OBVIOUS
<1>7. PICK i : i = [there |-> TRUE, on |-> TRUE, total |-> t, used |-> 0, ent |-> ent]
  OBVIOUS
<1>8. \A c \in S : ent[c] \in ClientType /\ On(ent, c)
  BY <1>5, ClientOK DEF On
<1>9. \A c \in S : rows[c] \in RowType /\ On(rows, c)
  <2>1. \A c \in S : rows[c] = AddClientStat(ent[c]) BY <1>6
  <2>2. QED BY <1>8, <2>1, AddClientStatOK DEF On
<1>10. IsTable(ent, ClientType) /\ IsTable(rows, RowType) /\ DOMAIN ent = S /\ DOMAIN rows = S
  BY <1>5, <1>6, <1>8, <1>9 DEF IsTable
<1>11. IsInbound(i) /\ i.there /\ i.on /\ i.ent = ent
  <2>1. t \in Nat BY TotalAssumption
  <2>2. i.there /\ i.on /\ i.ent = ent BY <1>7
  <2>3. i \in [there : BOOLEAN, on : BOOLEAN, total : Nat, used : Nat, ent : {i.ent}]
    BY <1>7, <2>1
  <2>4. QED BY <1>10, <2>2, <2>3 DEF IsInbound
<1>12. PICK u : u = [w EXCEPT !.inb = i] OBVIOUS
<1>13. Sound(u) /\ u.inb = i /\ SameButInb(u, w)
  BY <1>2, <1>11, <1>12, WithInb
<1>14. PICK v : v = [u EXCEPT !.row = rows] OBVIOUS
<1>15. Sound(v) /\ v.row = rows /\ SameButRow(v, u)
  BY <1>10, <1>11, <1>13, <1>14, WithRow
<1>16. v = [w EXCEPT !.row = rows, !.inb = i]
  BY <1>2, <1>12, <1>14 DEF Sound, IsWorld
<1>17. Answers(ok) /\ Becomes(HostInbound(v, S, ok))
  BY <1>4, <1>5, <1>6, <1>7, <1>16
<1>18. v.x = w.x /\ v.inb = i /\ v.flag = w.flag
  BY <1>13, <1>15 DEF SameButInb, SameButRow
<1>19. faults' \in Nat /\ (ok => v.x.up)
  <2>1. faults' \in Nat /\ (ok => x.up)
    BY <1>4, <1>17, AnswersOK DEF IInv, BoundsOK
  <2>2. QED BY <1>2, <1>18, <2>1
<1>20. PICK z : z = HostInbound(v, S, ok) OBVIOUS
<1>21. Sound(z) /\ HostedWith(z, v, S, ok)
  BY <1>4, <1>15, <1>19, <1>20, HostInboundSound
<1>22. IInv' /\ World' = z
  BY <1>17, <1>19, <1>20, <1>21, OneStepOK DEF AddInbound
<1>23. /\ z.inb = i /\ z.row = rows
       /\ z.x.up = w.x.up /\ z.x.conf = w.x.conf /\ z.x.live = w.x.live
  BY <1>15, <1>18, <1>21 DEF HostedWith
<1>24. CASE ok /\ ~v.x.hosted
  <2>1. z.x.served = S /\ z.flag = w.flag BY <1>18, <1>21, <1>24 DEF HostedWith
  <2>2. InboundAdded(z, w, S, ent)
    BY <1>8, <1>9, <1>10, <1>11, <1>23, <2>1 DEF InboundAdded
  <2>3. QED BY <1>1, <1>3, <1>22, <2>2
<1>25. CASE ~(ok /\ ~v.x.hosted)
  <2>1. z.x.served = w.x.served /\ z.flag BY <1>18, <1>21, <1>25 DEF HostedWith
  <2>2. InboundAdded(z, w, S, ent)
    BY <1>8, <1>9, <1>10, <1>11, <1>23, <2>1 DEF InboundAdded
  <2>3. QED BY <1>1, <1>3, <1>22, <2>2
<1>26. QED BY <1>24, <1>25

(* DelInbound from the panel.                                               *)
LEMMA DeleteInboundOK ==
  ASSUME IInv, DeleteInbound
  PROVE  /\ IInv'
         /\ InboundDeleted(World', World)
         /\ x'.served = {} \/ flag' \/ ~inb.on
<1>1. PICK w : w = World OBVIOUS
<1>2. Sound(w) /\ w.inb = inb BY <1>1, WorldOK DEF IInv
<1>3. PICK ok \in BOOLEAN : Answers(ok) /\ Becomes(DelInbound(w, ok))
  BY <1>1 DEF DeleteInbound
<1>4. PICK z : z = DelInbound(w, ok) OBVIOUS
<1>5. Sound(z) /\ InboundDeleted(z, w) /\ (z.x.served = {} \/ z.flag \/ ~w.inb.on)
  BY <1>2, <1>3, <1>4, DelInboundOK
<1>6. faults' \in Nat BY <1>3, AnswersOK DEF IInv, BoundsOK
<1>7. IInv' /\ World' = z
  BY <1>3, <1>4, <1>5, <1>6, OneStepOK DEF DeleteInbound
<1>8. x' = z.x /\ flag' = z.flag BY <1>3, <1>4 DEF Becomes
<1>9. QED BY <1>1, <1>2, <1>5, <1>7, <1>8

(* ResetAllClientTraffics: every row afresh, and a restart is asked for.    *)
LEMMA ResetAllOK ==
  ASSUME IInv, ResetAllClientTraffics
  PROVE  /\ IInv'
         /\ inb' = inb /\ x' = x /\ flag'
         /\ row' = Afresh(row, DOMAIN row)
<1>1. PICK w : w = World OBVIOUS
<1>2. Sound(w) /\ w.inb = inb /\ w.row = row /\ w.x = x /\ IsTable(row, RowType)
  BY <1>1, WorldOK DEF IInv
<1>3. PICK z : z = [w EXCEPT !.row = Afresh(row, DOMAIN row), !.flag = TRUE] OBVIOUS
<1>4. z = [w EXCEPT !.row = Afresh(@, DOMAIN @), !.flag = TRUE]
  BY <1>2, <1>3 DEF Sound, IsWorld
<1>5. Becomes(z) /\ Request /\ UNCHANGED faults
  BY <1>1, <1>4 DEF ResetAllClientTraffics
<1>6. IsTable(Afresh(row, DOMAIN row), RowType) /\ DOMAIN Afresh(row, DOMAIN row) = DOMAIN row
  <2>1. IsTable(Afresh(row, DOMAIN row), RowType) BY <1>2, AfreshOK
  <2>2. QED BY <2>1 DEF Afresh
<1>7. /\ z.inb = w.inb /\ z.row = Afresh(row, DOMAIN row) /\ z.x = w.x /\ z.flag
      /\ z \in [inb : {z.inb}, row : {z.row}, x : {z.x}, flag : BOOLEAN]
  BY <1>2, <1>3 DEF Sound, IsWorld
<1>8. Sound(z) BY <1>2, <1>6, <1>7 DEF Sound, IsWorld
<1>9. faults' \in Nat BY <1>5 DEF IInv, BoundsOK
<1>10. IInv' BY <1>5, <1>8, <1>9, OneStepOK
<1>11. inb' = inb /\ x' = x /\ flag' /\ row' = Afresh(row, DOMAIN row)
  BY <1>2, <1>5, <1>7 DEF Becomes
<1>12. QED BY <1>10, <1>11

(* One counter of a row set by hand. *)
CounterSet(r, s) ==
  /\ s \in RowType
  /\ s.enable <=> r.enable
  /\ s.expiry = r.expiry

(* The counters of one row set from outside.                                *)
LEMMA UpdateClientTrafficOK ==
  ASSUME IInv, UpdateClientTraffic
  PROVE  /\ IInv'
         /\ UNCHANGED <<inb, x, flag>>
         /\ DOMAIN row' = DOMAIN row
         /\ \A c \in DOMAIN row : CounterSet(row[c], row'[c])
<1>1. PICK w : w = World OBVIOUS
<1>2. Sound(w) /\ w.inb = inb /\ w.row = row /\ w.x = x /\ w.flag = flag
      /\ IsTable(row, RowType)
  BY <1>1, WorldOK DEF IInv
<1>3. PICK c \in DOMAIN row, k \in 0 .. 1 :
        Becomes([w EXCEPT !.row[c].used = k, !.row[c].all = IF @ < k THEN k ELSE @])
  BY <1>1 DEF UpdateClientTraffic
<1>4. row[c] \in RowType BY <1>2, <1>3 DEF IsTable
<1>5. PICK s : s = [row[c] EXCEPT !.used = k, !.all = IF @ < k THEN k ELSE @] OBVIOUS
<1>6. s \in RowType /\ (s.enable <=> row[c].enable) /\ s.expiry = row[c].expiry
  <2>1. k \in Nat BY <1>3
  <2>2. PICK m : m = IF row[c].all < k THEN k ELSE row[c].all OBVIOUS
  <2>3. m \in Nat BY <1>4, <2>1, <2>2 DEF RowType
  <2>4. s = [row[c] EXCEPT !.used = k, !.all = m] BY <1>4, <1>5, <2>2 DEF RowType
  <2>5. QED BY <1>4, <2>1, <2>3, <2>4 DEF RowType
<1>7. PICK rows : rows = [row EXCEPT ![c] = s] OBVIOUS
<1>8. IsTable(rows, RowType) /\ DOMAIN rows = DOMAIN row
      /\ \A d \in DOMAIN row : CounterSet(row[d], rows[d])
  <2>1. DOMAIN rows = DOMAIN row BY <1>7
  <2>2. ASSUME NEW d \in DOMAIN row PROVE rows[d] \in RowType /\ CounterSet(row[d], rows[d])
    <3>1. row[d] \in RowType BY <1>2 DEF IsTable
    <3>2. CASE d = c
      <4>1. rows[d] = s BY <1>7, <3>2
      <4>2. QED BY <1>6, <3>2, <4>1 DEF CounterSet
    <3>3. CASE d # c
      <4>1. rows[d] = row[d] BY <1>7, <3>3
      <4>2. QED BY <3>1, <4>1 DEF CounterSet
    <3>4. QED BY <3>2, <3>3
  <2>3. rows = [d \in DOMAIN rows |-> rows[d]] BY <1>7
  <2>4. IsTable(rows, RowType)
    BY <1>2, <2>1, <2>2, <2>3 DEF IsTable
  <2>5. QED BY <2>1, <2>2, <2>4
<1>9. PICK z : z = [w EXCEPT !.row = rows] OBVIOUS
<1>10. Sound(z) /\ z.row = rows /\ SameButRow(z, w)
  <2>1. w.inb.there BY <1>2, <1>3 DEF Sound
  <2>2. QED BY <1>2, <1>8, <1>9, <2>1, WithRow
<1>11. z = [w EXCEPT !.row[c].used = k, !.row[c].all = IF @ < k THEN k ELSE @]
  BY <1>2, <1>3, <1>4, <1>5, <1>7, <1>9 DEF Sound, IsWorld, IsTable, RowType
<1>12. Becomes(z) /\ Request /\ UNCHANGED faults
  BY <1>3, <1>11 DEF UpdateClientTraffic
<1>13. faults' \in Nat BY <1>12 DEF IInv, BoundsOK
<1>14. IInv' BY <1>10, <1>12, <1>13, OneStepOK
<1>15. UNCHANGED <<inb, x, flag>> /\ row' = rows
  BY <1>2, <1>10, <1>12 DEF Becomes, SameButRow
<1>16. QED BY <1>8, <1>14, <1>15

-----------------------------------------------------------------------------
(* Steps of the job and restarts, which may come between a handler's read   *)
(* and its write                                                            *)

(* No client comes or goes, and no row is disabled of which the entry is    *)
(* left enabled.                                                            *)
Spares(v, w) ==
  /\ v.inb.there = w.inb.there
  /\ DOMAIN v.inb.ent = DOMAIN w.inb.ent
  /\ DOMAIN v.row = DOMAIN w.row
  /\ \A c \in DOMAIN w.inb.ent :
       On(v.inb.ent, c) =>
         /\ On(w.inb.ent, c)
         /\ c \in DOMAIN w.row /\ On(w.row, c) => On(v.row, c)

(* AddTraffic disables row and entry together.                              *)
LEMMA AddTrafficSpares ==
  ASSUME NEW w, Sound(w), NEW n, AreCounters(n), NEW ok \in BOOLEAN,
         clock \in Nat, NEW v, v = AddTraffic(w, n, ok)
  PROVE  Sound(v) /\ Keeps(v, w) /\ Spares(v, w)
<1>1. Sound(v) /\ Keeps(v, w) BY AddTrafficOK
<1>2. \A c \in DOMAIN w.inb.ent :
        On(v.inb.ent, c) =>
          /\ On(w.inb.ent, c)
          /\ c \in DOMAIN w.row /\ On(w.row, c) => On(v.row, c)
  BY AddTrafficDisablesBoth
<1>3. QED BY <1>1, <1>2 DEF Keeps, Spares

(* A step that spares the clients and leaves the request as it is keeps the *)
(* invariant, whatever the handler under way has read.                      *)
LEMMA SparesOK ==
  ASSUME IInv, NEW w, Sound(w), Becomes(w), Spares(w, World),
         UNCHANGED <<req, form>>,
         \/ reading' = FALSE /\ batch' = NoCounters
         \/ UNCHANGED <<reading, batch>>,
         clock' \in Nat, fuel' \in Nat, faults' \in Nat, requests' \in Nat
  PROVE  IInv' /\ World' = w
<1>1. Sound(World') /\ World' = w BY BecomesOK
<1>2. /\ (inb'.there <=> inb.there) /\ DOMAIN inb'.ent = DOMAIN inb.ent
      /\ DOMAIN row' = DOMAIN row
      /\ \A c \in DOMAIN inb.ent :
           On(inb'.ent, c) =>
             /\ On(inb.ent, c)
             /\ c \in DOMAIN row /\ On(row, c) => On(row', c)
  BY WorldOK DEF IInv, Becomes, Spares
<1>3. RequestOK' BY <1>2 DEF IInv, RequestOK
<1>4. ResetOK' BY <1>2 DEF IInv, ResetOK
<1>5. BatchOK' BY NoCountersOK DEF IInv, BatchOK
<1>6. BoundsOK' BY DEF BoundsOK
<1>7. IsInbound(form') BY DEF IInv
<1>8. QED BY <1>1, <1>3, <1>4, <1>5, <1>6, <1>7 DEF IInv

(* The traffic job commits the batch it has read through the passes.        *)
LEMMA CommitTrafficOK ==
  ASSUME IInv, CommitTraffic
  PROVE  /\ IInv'
         /\ \E ok, a, b, d : ok \in BOOLEAN /\ Passes(a, b, d, World', World, batch, ok)
<1>1. PICK w : w = World OBVIOUS
<1>2. Sound(w) BY <1>1, WorldOK DEF IInv
<1>3. AreCounters(batch) /\ clock \in Nat BY DEF IInv, BatchOK, BoundsOK
<1>4. PICK ok \in BOOLEAN : Answers(ok) /\ Becomes(AddTraffic(w, batch, ok))
  BY <1>1 DEF CommitTraffic
<1>5. PICK z : z = AddTraffic(w, batch, ok) OBVIOUS
<1>6. Sound(z) /\ Spares(z, w)
  BY <1>2, <1>3, <1>4, <1>5, AddTrafficSpares
<1>7. faults' \in Nat BY <1>4, AnswersOK DEF IInv, BoundsOK
<1>8. UNCHANGED <<req, form, clock, fuel, requests>> /\ reading' = FALSE /\ batch' = NoCounters
  BY DEF CommitTraffic
<1>9. clock' \in Nat /\ fuel' \in Nat /\ requests' \in Nat
  BY <1>8 DEF IInv, BoundsOK
<1>10. IInv' /\ World' = z
  BY <1>1, <1>4, <1>5, <1>6, <1>7, <1>8, <1>9, SparesOK
<1>11. \E a, b, d : Passes(a, b, d, z, w, batch, ok)
  BY <1>2, <1>3, <1>4, <1>5, AddTrafficPasses DEF Sound
<1>12. QED BY <1>1, <1>4, <1>10, <1>11

(* The world in which GetXrayConfig finds the clients. *)
Settles(v, w, ok) ==
  /\ Sound(v)
  /\ Keeps(v, w)
  /\ Spares(v, w)
  /\ \E u, a, b, d :
       /\ Passes(a, b, d, u, w, NoCounters, ok)
       /\ v.inb = u.inb /\ v.row = u.row /\ v.x = u.x
  /\ v.flag <=> w.flag

LEMMA SettledSpares ==
  ASSUME IInv, NEW ok \in BOOLEAN, NEW v, v = Settled(ok)
  PROVE  Settles(v, World, ok)
<1>1. clock \in Nat /\ Sound(World) BY DEF IInv, BoundsOK
<1>2. PICK u : /\ u = AddTraffic(World, NoCounters, ok)
               /\ Sound(u) /\ Sound(v)
               /\ v.inb = u.inb /\ v.row = u.row /\ v.x = u.x /\ v.flag = flag
               /\ Keeps(v, World)
  BY <1>1, SettledOK
<1>3. PICK w : w = World OBVIOUS
<1>4. Spares(u, w)
  BY <1>1, <1>2, <1>3, NoCountersOK, AddTrafficSpares
<1>5. Spares(v, w) BY <1>2, <1>4 DEF Spares
<1>6. \E a, b, d : Passes(a, b, d, u, w, NoCounters, ok)
  BY <1>1, <1>2, <1>3, NoCountersOK, AddTrafficPasses DEF Sound
<1>7. v.flag <=> w.flag BY <1>1, <1>2, <1>3, WorldOK
<1>8. QED BY <1>2, <1>3, <1>5, <1>6, <1>7 DEF Settles

(* Xray has been started anew with the configuration of the database, or    *)
(* goes on as it is because it was started with this one.                   *)
Reloaded(v, u) ==
  /\ v.inb = u.inb
  /\ v.row = u.row
  /\ v.x = [up |-> TRUE, hosted |-> Config(u.inb, u.row).hosted,
            served |-> Config(u.inb, u.row).served,
            conf |-> Config(u.inb, u.row), live |-> NoCounters]

LoadedOrKept(v, u) ==
  \/ Reloaded(v, u)
  \/ v.inb = u.inb /\ v.row = u.row /\ v.x = u.x

(* A restart from the panel.                                                *)
LEMMA RestartOK ==
  ASSUME IInv, Restart
  PROVE  /\ IInv'
         /\ \E ok, u : /\ ok \in BOOLEAN
                       /\ Settles(u, World, ok)
                       /\ Reloaded(World', u)
                       /\ flag' <=> flag
<1>1. PICK ok \in BOOLEAN : Answers(ok) /\ Becomes(Load(Settled(ok)))
  BY DEF Restart
<1>2. PICK u : u = Settled(ok) OBVIOUS
<1>3. PICK w : w = World OBVIOUS
<1>4. Settles(u, w, ok) BY <1>1, <1>2, <1>3, SettledSpares
<1>5. PICK z : z = Load(u) OBVIOUS
<1>6. Sound(z) /\ Loaded(z, u)
  BY <1>4, <1>5, LoadOK DEF Settles
<1>7. Reloaded(z, u) /\ Spares(z, w)
  BY <1>4, <1>6 DEF Settles, Loaded, Spares, Reloaded
<1>8. UNCHANGED <<reading, batch, req, form, clock, fuel>>
      /\ requests' = (IF x.up THEN requests - 1 ELSE requests) /\ (x.up => requests > 0)
  BY DEF Restart, job
<1>9. clock' \in Nat /\ fuel' \in Nat /\ requests' \in Nat
  BY <1>8 DEF IInv, BoundsOK
<1>10. faults' \in Nat BY <1>1, AnswersOK DEF IInv, BoundsOK
<1>11. IInv' /\ World' = z
  BY <1>1, <1>2, <1>3, <1>5, <1>6, <1>7, <1>8, <1>9, <1>10, SparesOK
<1>12. flag' <=> flag
  <2>1. u.flag <=> w.flag BY <1>4 DEF Settles
  <2>2. z.flag = u.flag BY <1>6 DEF Loaded
  <2>3. flag' = z.flag BY <1>1, <1>2, <1>5 DEF Becomes
  <2>4. w.flag = flag BY <1>3 DEF World
  <2>5. QED BY <2>1, <2>2, <2>3, <2>4
<1>13. QED BY <1>1, <1>3, <1>4, <1>7, <1>11, <1>12

(* The restart every 30 seconds, when a handler has asked for one.          *)
LEMMA RestartIfNeededOK ==
  ASSUME IInv, RestartIfNeeded
  PROVE  /\ IInv'
         /\ \E ok, u : /\ ok \in BOOLEAN
                       /\ Settles(u, World, ok)
                       /\ LoadedOrKept(World', u)
<1>1. PICK ok \in BOOLEAN :
        LET t == [Settled(ok) EXCEPT !.flag = FALSE]
        IN /\ Answers(ok)
           /\ Becomes(IF x.up /\ x.conf = Config(t.inb, t.row) THEN t ELSE Load(t))
  BY DEF RestartIfNeeded
<1>2. PICK u : u = Settled(ok) OBVIOUS
<1>3. PICK w : w = World OBVIOUS
<1>4. Settles(u, w, ok) BY <1>1, <1>2, <1>3, SettledSpares
<1>5. PICK t : t = [u EXCEPT !.flag = FALSE] OBVIOUS
<1>6. Sound(t) /\ SameButFlag(t, u)
  BY <1>4, <1>5, WithFlag DEF Settles
<1>7. PICK z : z = IF x.up /\ x.conf = Config(t.inb, t.row) THEN t ELSE Load(t) OBVIOUS
<1>8. Sound(z) /\ LoadedOrKept(z, u)
  <2>1. CASE z = t BY <1>6, <2>1 DEF SameButFlag, LoadedOrKept
  <2>2. CASE z = Load(t)
    <3>1. Sound(z) /\ Loaded(z, t) BY <1>6, <2>2, LoadOK
    <3>2. QED BY <1>6, <3>1 DEF Loaded, SameButFlag, Reloaded, LoadedOrKept
  <2>3. QED BY <1>7, <2>1, <2>2
<1>9. Spares(z, w)
  BY <1>4, <1>8 DEF Settles, LoadedOrKept, Reloaded, Spares
<1>10. UNCHANGED <<reading, batch, req, form, clock, fuel, requests>>
  BY DEF RestartIfNeeded, job
<1>11. clock' \in Nat /\ fuel' \in Nat /\ requests' \in Nat
  BY <1>10 DEF IInv, BoundsOK
<1>12. Answers(ok) /\ Becomes(z)
  BY <1>1, <1>2, <1>5, <1>7
<1>13. faults' \in Nat BY <1>1, <1>12, AnswersOK DEF IInv, BoundsOK
<1>14. IInv' /\ World' = z
  BY <1>3, <1>8, <1>9, <1>10, <1>11, <1>12, <1>13, SparesOK
<1>15. QED BY <1>1, <1>3, <1>4, <1>8, <1>14

(* The periodic reset: counters at zero, entries and Xray as they were.     *)
LEMMA PeriodicTrafficResetOK ==
  ASSUME IInv, PeriodicTrafficReset
  PROVE  /\ IInv'
         /\ inb'.ent = inb.ent /\ x' = x /\ (flag' <=> flag)
         /\ row' = Afresh(row, DOMAIN row)
<1>1. PICK w : w = World OBVIOUS
<1>2. Sound(w) /\ w.inb = inb /\ w.row = row /\ w.x = x /\ IsTable(row, RowType)
      /\ IsInbound(inb) /\ w.flag = flag
  BY <1>1, WorldOK DEF IInv
<1>3. PICK rows : rows = Afresh(row, DOMAIN row) OBVIOUS
<1>4. IsTable(rows, RowType) /\ DOMAIN rows = DOMAIN row
      /\ \A c \in DOMAIN row : On(rows, c)
  <2>1. IsTable(rows, RowType) BY <1>2, <1>3, AfreshOK
  <2>2. \A c \in DOMAIN row : On(rows, c) BY <1>2, <1>3, AfreshFields
  <2>3. QED BY <1>3, <2>1, <2>2 DEF Afresh
<1>5. PICK i : i = [inb EXCEPT !.used = 0] OBVIOUS
<1>6. IsInbound(i) /\ i.ent = inb.ent /\ (i.there <=> inb.there)
  BY <1>2, <1>5 DEF IsInbound
<1>7. PICK z : z = [w EXCEPT !.row = rows, !.inb = i] OBVIOUS
<1>8. z = [w EXCEPT !.row = Afresh(@, DOMAIN @), !.inb.used = 0]
  BY <1>2, <1>3, <1>5, <1>7 DEF Sound, IsWorld
<1>9. Becomes(z) /\ UNCHANGED <<reading, batch, req, form, clock, fuel, faults>>
      /\ requests > 0 /\ requests' = requests - 1
  BY <1>1, <1>8 DEF PeriodicTrafficReset, job
<1>10. /\ z.inb = i /\ z.row = rows /\ z.x = w.x /\ (z.flag = w.flag)
       /\ z \in [inb : {z.inb}, row : {z.row}, x : {z.x}, flag : BOOLEAN]
  BY <1>2, <1>7 DEF Sound, IsWorld
<1>11. Sound(z)
  BY <1>2, <1>4, <1>6, <1>10 DEF Sound, IsWorld
<1>12. Spares(z, w)
  <2>1. z.inb.there = w.inb.there
    BY <1>2, <1>6, <1>10 DEF IsInbound
  <2>2. QED BY <1>2, <1>4, <1>6, <1>10, <2>1 DEF Spares
<1>13. clock' \in Nat /\ fuel' \in Nat /\ requests' \in Nat /\ faults' \in Nat
  BY <1>9 DEF IInv, BoundsOK
<1>14. IInv' BY <1>1, <1>9, <1>11, <1>12, <1>13, SparesOK
<1>15. inb' = i /\ row' = rows /\ x' = x /\ flag' = flag
  BY <1>2, <1>9, <1>10 DEF Becomes
<1>16. QED BY <1>3, <1>6, <1>14, <1>15

(* Every step keeps the invariant: one case per action.                     *)
LEMMA InvariantKept == IInv /\ [Next]_vars => IInv'
<1> SUFFICES ASSUME IInv, [Next]_vars PROVE IInv' OBVIOUS
<1>1. CASE UNCHANGED vars BY <1>1, StutterOK
<1>2. CASE Tick BY <1>2, TickOK
<1>3. CASE Crash BY <1>3, CrashOK
<1>4. CASE ReadCounters BY <1>4, ReadCountersOK
<1>5. CASE CommitTraffic BY <1>5, CommitTrafficOK
<1>6. CASE LoseTraffic BY <1>6, LoseTrafficOK
<1>7. CASE Restart BY <1>7, RestartOK
<1>8. CASE RestartIfNeeded BY <1>8, RestartIfNeededOK
<1>9. CASE OpenForm BY <1>9, OpenFormOK
<1>10. CASE PeriodicTrafficReset BY <1>10, PeriodicTrafficResetOK
<1>11. CASE Requesting
  <2>1. CASE AskAdd BY <2>1, AskAddOK
  <2>2. CASE AskUpdateClient BY <2>2, AskUpdateClientOK
  <2>3. CASE AskDelClient BY <2>3, AskDelClientOK
  <2>4. CASE AskResetClient BY <2>4, AskResetClientOK
  <2>5. CASE AskDelDepleted BY <2>5, AskDelDepletedOK
  <2>6. CASE AskUpdateInbound BY <2>6, AskUpdateInboundOK
  <2>7. CASE AskSetEnable BY <2>7, AskSetEnableOK
  <2>8. CASE AddInbound BY <2>8, AddInboundOK
  <2>9. CASE DeleteInbound BY <2>9, DeleteInboundOK
  <2>10. CASE ResetAllClientTraffics BY <2>10, ResetAllOK
  <2>11. CASE UpdateClientTraffic BY <2>11, UpdateClientTrafficOK
  <2>12. QED BY <1>11, <2>1, <2>2, <2>3, <2>4, <2>5, <2>6, <2>7, <2>8, <2>9, <2>10,
                <2>11 DEF Requesting
<1>12. CASE Writing
  <2>1. CASE AddInboundClient BY <2>1, AddInboundClientOK
  <2>2. CASE UpdateInboundClient BY <2>2, UpdateInboundClientOK
  <2>3. CASE DelClientStat BY <2>3, DelClientStatOK
  <2>4. CASE SaveWithoutClient BY <2>4, SaveWithoutClientOK
  <2>5. CASE ResetClientTraffic BY <2>5, ResetClientTrafficOK
  <2>6. CASE DelDepletedClients BY <2>6, DelDepletedClientsOK
  <2>7. CASE UpdateInbound BY <2>7, UpdateInboundOK
  <2>8. CASE SetInboundEnable BY <2>8, SetInboundEnableOK
  <2>9. QED BY <1>12, <2>1, <2>2, <2>3, <2>4, <2>5, <2>6, <2>7, <2>8 DEF Writing
<1>13. CASE \E c \in Emails : Use(c) BY <1>13, UseOK
<1>14. QED
  BY <1>1, <1>2, <1>3, <1>4, <1>5, <1>6, <1>7, <1>8, <1>9, <1>10, <1>11, <1>12, <1>13
  DEF Next

(* The invariant holds in every reachable state.                            *)
THEOREM Invariance == Spec => []IInv
BY InitOK, InvariantKept, PTL DEF Spec

(* The database, Xray, the flag, the batch of the traffic job and the       *)
(* bounds keep their types; in particular no counter falls below zero.      *)
THEOREM TypeCorrect == Spec => []TypeOK
BY Invariance, IInvTypeOK, PTL
==============================================================================
