-------------------------- MODULE VpnGateTaskProofs --------------------------
(***************************************************************************)
(* Proofs about VpnGateTask, for any numbers of attempts, failovers and    *)
(* requests.                                                               *)
(*                                                                         *)
(* NeverStuck and ConnectedIsWatched depend on two facts about goroutines: *)
(* an attempt that has not begun is known to nobody, so that a new context *)
(* is not canceled already, and the waiter begins when its connector has   *)
(* returned, so that the end of one does not undo the other.               *)
(***************************************************************************)
EXTENDS VpnGateTask, TLAPS

(* An attempt that has not begun is known to nobody; the connector of one    *)
(* whose openvpn is waited for has returned.                                *)
ConnInv ==
  \A c \in Conns :
    /\ pc[c] = "new" => ~done[c] /\ c # cancel /\ c \notin lost
    /\ waiter[c] => pc[c] = "idle"

(* Somebody is at work on the task, or its attempt was given up silently. *)
Covered == (\E g \in Goros : AtWork(g)) \/ \E c \in lost : tid[c] = id

(* Somebody watches over the task or is at work on it. *)
Guarded == (\E c \in Conns : Watched(c)) \/ \E g \in Goros : AtWork(g)

IInv == TypeOK /\ ConnInv /\ NeverStuck /\ ConnectedIsWatched

(* What stopLocked leaves. *)
LEMMA StopTypes ==
  TypeOK /\ Stop => /\ done' \in [Conns -> BOOLEAN]
                    /\ proc' \in [Conns -> {"none", "up", "tun", "dead"}]
                    /\ cancel' = None /\ cmd' = None
  BY DEF TypeOK, Stop

(* Every step keeps the types. *)
LEMMA TypeOKNext == TypeOK /\ [Next]_vars => TypeOK'
<1> SUFFICES ASSUME TypeOK, [Next]_vars PROVE TypeOK'
  OBVIOUS
<1> USE GorosAssumption, FuelAssumption
        DEF TypeOK, Goros, taskVars, connVars, Goto, Spend, Phases, Waiting, Busy, Places
<1>1. ASSUME NEW c \in Conns, Install(c) PROVE TypeOK'
  BY <1>1 DEF Install, SetTask
<1>2. ASSUME NEW c \in Conns, Prepare(c) PROVE TypeOK'
  BY <1>2 DEF Prepare, SetTask, SpendUnless
<1>3. ASSUME NEW c \in Conns, Configure(c) PROVE TypeOK'
  BY <1>3 DEF Configure, SetTask, Active
<1>4. ASSUME NEW c \in Conns, Spawn(c) PROVE TypeOK'
  BY <1>4 DEF Spawn, SpendUnless
<1>5. ASSUME NEW c \in Conns, Abandon(c) PROVE TypeOK'
  BY <1>5 DEF Abandon
<1>6. ASSUME NEW c \in Conns, Adopt(c) PROVE TypeOK'
  BY <1>6 DEF Adopt
<1>7. ASSUME NEW c \in Conns, Canceled(c) PROVE TypeOK'
  BY <1>7 DEF Canceled
<1>8. ASSUME NEW c \in Conns, ExitSeen(c) PROVE TypeOK'
  BY <1>8 DEF ExitSeen, Exited, SpawnFailover
<1>9. ASSUME NEW c \in Conns, GiveUp(c) PROVE TypeOK'
  BY <1>9 DEF GiveUp
<1>10. ASSUME NEW c \in Conns, Detect(c) PROVE TypeOK'
  BY <1>10 DEF Detect, Active
<1>11. ASSUME NEW c \in Conns, UpdateOutbound(c) PROVE TypeOK'
  BY <1>11 DEF UpdateOutbound
<1>12. ASSUME NEW c \in Conns, Connected(c) PROVE TypeOK'
  <2>1. pc' \in [Goros -> Places]
    BY <1>12 DEF Connected
  <2>2. waiter' \in [Conns -> BOOLEAN]
    BY <1>12 DEF Connected
  <2>3. checker' \in [Conns -> {"off", "armed", "pinging"}]
    BY <1>12 DEF Connected
  <2>4. arg' \in [Goros -> Conns \cup {None}]
    BY <1>12 DEF Connected
  <2> QED
    BY <1>12, <2>1, <2>2, <2>3, <2>4 DEF Connected
<1>13. ASSUME NEW c \in Conns, Disconnected(c) PROVE TypeOK'
  BY <1>13 DEF Disconnected, Exited, SpawnFailover
<1>14. ASSUME NEW c \in Conns, CheckerTick(c) PROVE TypeOK'
  BY <1>14 DEF CheckerTick
<1>15. ASSUME NEW c \in Conns, CheckerStops(c) PROVE TypeOK'
  BY <1>15 DEF CheckerStops
<1>16. ASSUME NEW c \in Conns, PingDone(c) PROVE TypeOK'
  BY <1>16 DEF PingDone, SpendUnless, SpawnFailover
<1>17. ASSUME NEW c \in Conns, TunUp(c) PROVE TypeOK'
  BY <1>17 DEF TunUp
<1>18. ASSUME NEW c \in Conns, Dies(c) PROVE TypeOK'
  BY <1>18 DEF Dies
<1>19. ASSUME NEW f \in Failovers, FailoverStart(f) PROVE TypeOK'
  <2>1. pc' \in [Goros -> Places]
    BY <1>19 DEF FailoverStart
  <2>2. /\ done' \in [Conns -> BOOLEAN]
        /\ proc' \in [Conns -> {"none", "up", "tun", "dead"}]
        /\ {cancel', cmd'} \subseteq Conns \cup {None}
    <3>1. Stop \/ UNCHANGED <<cancel, cmd, done, proc>>
      BY <1>19 DEF FailoverStart
    <3> QED
      BY <3>1, StopTypes
  <2>3. ask' \in [Failovers -> BOOLEAN]
    BY <1>19 DEF FailoverStart
  <2> QED
    BY <1>19, <2>1, <2>2, <2>3 DEF FailoverStart
<1>20. ASSUME NEW f \in Failovers, ListServers(f) PROVE TypeOK'
  BY <1>20 DEF ListServers
<1>21. ASSUME NEW f \in Failovers, Choose(f) PROVE TypeOK'
  BY <1>21 DEF Choose, Fresh
<1>22. ASSUME NEW r \in Requests, StartVPNGate(r) PROVE TypeOK'
  <2>1. pc' \in [Goros -> Places]
    BY <1>22 DEF StartVPNGate, Fresh
  <2>2. tid' \in [Goros -> Nat]
    BY <1>22 DEF StartVPNGate, Fresh
  <2>3. fallback' \in BOOLEAN /\ global' \in BOOLEAN
    BY <1>22 DEF StartVPNGate, Fresh
  <2>4. done' \in [Conns -> BOOLEAN]
    BY <1>22 DEF StartVPNGate, Fresh
  <2>5. proc' \in [Conns -> {"none", "up", "tun", "dead"}]
    BY <1>22 DEF StartVPNGate, Fresh
  <2> QED
    BY <1>22, <2>1, <2>2, <2>3, <2>4, <2>5 DEF StartVPNGate, Fresh
<1>23. ASSUME NEW r \in Requests, ContinueVPNGateWithAll(r) PROVE TypeOK'
  BY <1>23 DEF ContinueVPNGateWithAll, SpawnFailover
<1>24. ASSUME NEW r \in Requests, CancelVPNGate(r) PROVE TypeOK'
  BY <1>24 DEF CancelVPNGate, Stop
<1>25. ASSUME NEW r \in Requests, UninstallVPNGate(r) PROVE TypeOK'
  BY <1>25 DEF UninstallVPNGate, Stop
<1>26. ASSUME NEW r \in Requests, Ask(r) PROVE TypeOK'
  BY <1>26 DEF Ask
<1>27. ASSUME NEW r \in Requests, VPNGateStatus(r) PROVE TypeOK'
  BY <1>27 DEF VPNGateStatus
<1>28. ASSUME NEW r \in Requests, Probe(r) PROVE TypeOK'
  BY <1>28 DEF Probe
<1>29. ASSUME NEW r \in Requests, Lookup(r) PROVE TypeOK'
  BY <1>29 DEF Lookup
<1>30. ASSUME NEW r \in Requests, Infer(r) PROVE TypeOK'
  <2>1. pc' \in [Goros -> Places]
    BY <1>30 DEF Infer, Fresh
  <2>2. tid' \in [Goros -> Nat]
    BY <1>30 DEF Infer, Fresh
  <2>3. fallback' \in BOOLEAN /\ global' \in BOOLEAN
    BY <1>30 DEF Infer, Fresh
  <2>4. checker' \in [Conns -> {"off", "armed", "pinging"}]
    BY <1>30 DEF Infer, Fresh
  <2>5. arg' \in [Goros -> Conns \cup {None}]
    BY <1>30 DEF Infer, Fresh
  <2> QED
    BY <1>30, <2>1, <2>2, <2>3, <2>4, <2>5 DEF Infer, Fresh
<1>31. ASSUME NEW r \in Requests, RecoverLook(r) PROVE TypeOK'
  BY <1>31 DEF RecoverLook
<1>32. ASSUME NEW r \in Requests, RecoverTemplate(r) PROVE TypeOK'
  BY <1>32 DEF RecoverTemplate
<1>33. ASSUME NEW r \in Requests, RecoverRemove(r) PROVE TypeOK'
  BY <1>33 DEF RecoverRemove
<1>34. ASSUME NEW r \in Requests, RecoverRestart(r) PROVE TypeOK'
  <2>1. pc' \in [Goros -> Places]
    BY <1>34 DEF RecoverRestart, SpawnFailover
  <2>2. tid' \in [Goros -> Nat]
    BY <1>34 DEF RecoverRestart, SpawnFailover
  <2>3. fallback' \in BOOLEAN /\ global' \in BOOLEAN
    BY <1>34 DEF RecoverRestart, SpawnFailover
  <2>4. /\ done' \in [Conns -> BOOLEAN]
        /\ proc' \in [Conns -> {"none", "up", "tun", "dead"}]
        /\ {cancel', cmd'} \subseteq Conns \cup {None}
    <3>1. Stop \/ UNCHANGED <<cancel, cmd, done, proc>>
      BY <1>34 DEF RecoverRestart, SpawnFailover
    <3> QED
      BY <3>1, StopTypes
  <2> QED
    BY <1>34, <2>1, <2>2, <2>3, <2>4 DEF RecoverRestart, SpawnFailover
<1>35. ASSUME NEW r \in Requests, Repair(r) PROVE TypeOK'
  <2>1. pc' \in [Goros -> Places]
    BY <1>35 DEF Repair, SpawnFailover
  <2>2. tid' \in [Goros -> Nat]
    BY <1>35 DEF Repair, SpawnFailover
  <2>3. fallback' \in BOOLEAN /\ global' \in BOOLEAN
    BY <1>35 DEF Repair, SpawnFailover
  <2> QED
    BY <1>35, <2>1, <2>2, <2>3 DEF Repair, SpawnFailover
<1>36. ASSUME NEW g \in Goros, NodeFailure(g) PROVE TypeOK'
  BY <1>36 DEF NodeFailure, SpawnFailover
<1>37. ASSUME NEW g \in Goros, Fail(g) PROVE TypeOK'
  <2>1. pc' \in [Goros -> Places]
    BY <1>37 DEF Fail
  <2>2. /\ done' \in [Conns -> BOOLEAN]
        /\ proc' \in [Conns -> {"none", "up", "tun", "dead"}]
        /\ {cancel', cmd'} \subseteq Conns \cup {None}
    <3>1. Stop \/ UNCHANGED <<cancel, cmd, done, proc>>
      BY <1>37 DEF Fail
    <3> QED
      BY <3>1, StopTypes
  <2> QED
    BY <1>37, <2>1, <2>2 DEF Fail
<1>38. ASSUME NEW g \in Goros, Remove(g) PROVE TypeOK'
  BY <1>38 DEF Remove
<1>39. CASE UNCHANGED vars
  BY <1>39 DEF vars
<1> QED
  BY <1>1, <1>2, <1>3, <1>4, <1>5, <1>6, <1>7, <1>8, <1>9, <1>10, <1>11,
     <1>12, <1>13, <1>14, <1>15, <1>16, <1>17, <1>18, <1>19, <1>20, <1>21,
     <1>22, <1>23, <1>24, <1>25, <1>26, <1>27, <1>28, <1>29, <1>30, <1>31,
     <1>32, <1>33, <1>34, <1>35, <1>36, <1>37, <1>38, <1>39
     DEF Next, Connector, Watchers, Failover, Request

(* Every step keeps what is known of attempts. *)
LEMMA ConnInvNext == TypeOK /\ ConnInv /\ [Next]_vars => ConnInv'
<1> SUFFICES ASSUME TypeOK, ConnInv, [Next]_vars PROVE ConnInv'
  OBVIOUS
<1> USE GorosAssumption DEF TypeOK, ConnInv, Goros, taskVars, connVars, Goto
<1>1. ASSUME NEW c \in Conns, Install(c) PROVE ConnInv'
  BY <1>1 DEF Install, SetTask
<1>2. ASSUME NEW c \in Conns, Prepare(c) PROVE ConnInv'
  BY <1>2 DEF Prepare, SetTask, SpendUnless
<1>3. ASSUME NEW c \in Conns, Configure(c) PROVE ConnInv'
  BY <1>3 DEF Configure, SetTask
<1>4. ASSUME NEW c \in Conns, Spawn(c) PROVE ConnInv'
  BY <1>4 DEF Spawn, SpendUnless
<1>5. ASSUME NEW c \in Conns, Abandon(c) PROVE ConnInv'
  BY <1>5 DEF Abandon
<1>6. ASSUME NEW c \in Conns, Adopt(c) PROVE ConnInv'
  BY <1>6 DEF Adopt
<1>7. ASSUME NEW c \in Conns, Canceled(c) PROVE ConnInv'
  BY <1>7 DEF Canceled
<1>8. ASSUME NEW c \in Conns, ExitSeen(c) PROVE ConnInv'
  BY <1>8 DEF ExitSeen, Exited, SpawnFailover
<1>9. ASSUME NEW c \in Conns, GiveUp(c) PROVE ConnInv'
  BY <1>9 DEF GiveUp
<1>10. ASSUME NEW c \in Conns, Detect(c) PROVE ConnInv'
  BY <1>10 DEF Detect
<1>11. ASSUME NEW c \in Conns, UpdateOutbound(c) PROVE ConnInv'
  BY <1>11 DEF UpdateOutbound
<1>12. ASSUME NEW c \in Conns, Connected(c) PROVE ConnInv'
  BY <1>12 DEF Connected
<1>13. ASSUME NEW c \in Conns, Disconnected(c) PROVE ConnInv'
  BY <1>13 DEF Disconnected, Exited, SpawnFailover
<1>14. ASSUME NEW c \in Conns, CheckerTick(c) PROVE ConnInv'
  BY <1>14 DEF CheckerTick
<1>15. ASSUME NEW c \in Conns, CheckerStops(c) PROVE ConnInv'
  BY <1>15 DEF CheckerStops
<1>16. ASSUME NEW c \in Conns, PingDone(c) PROVE ConnInv'
  BY <1>16 DEF PingDone, SpendUnless, SpawnFailover
<1>17. ASSUME NEW c \in Conns, TunUp(c) PROVE ConnInv'
  BY <1>17 DEF TunUp
<1>18. ASSUME NEW c \in Conns, Dies(c) PROVE ConnInv'
  BY <1>18 DEF Dies
<1>19. ASSUME NEW f \in Failovers, FailoverStart(f) PROVE ConnInv'
  BY <1>19 DEF FailoverStart, Stop
<1>20. ASSUME NEW f \in Failovers, ListServers(f) PROVE ConnInv'
  BY <1>20 DEF ListServers
<1>21. ASSUME NEW f \in Failovers, Choose(f) PROVE ConnInv'
  BY <1>21 DEF Choose, Fresh
<1>22. ASSUME NEW r \in Requests, StartVPNGate(r) PROVE ConnInv'
  BY <1>22 DEF StartVPNGate, Fresh
<1>23. ASSUME NEW r \in Requests, ContinueVPNGateWithAll(r) PROVE ConnInv'
  BY <1>23 DEF ContinueVPNGateWithAll, SpawnFailover
<1>24. ASSUME NEW r \in Requests, CancelVPNGate(r) PROVE ConnInv'
  BY <1>24 DEF CancelVPNGate, Stop
<1>25. ASSUME NEW r \in Requests, UninstallVPNGate(r) PROVE ConnInv'
  BY <1>25 DEF UninstallVPNGate, Stop
<1>26. ASSUME NEW r \in Requests, Ask(r) PROVE ConnInv'
  BY <1>26 DEF Ask
<1>27. ASSUME NEW r \in Requests, VPNGateStatus(r) PROVE ConnInv'
  BY <1>27 DEF VPNGateStatus
<1>28. ASSUME NEW r \in Requests, Probe(r) PROVE ConnInv'
  BY <1>28 DEF Probe
<1>29. ASSUME NEW r \in Requests, Lookup(r) PROVE ConnInv'
  BY <1>29 DEF Lookup
<1>30. ASSUME NEW r \in Requests, Infer(r) PROVE ConnInv'
  BY <1>30 DEF Infer, Fresh
<1>31. ASSUME NEW r \in Requests, RecoverLook(r) PROVE ConnInv'
  BY <1>31 DEF RecoverLook
<1>32. ASSUME NEW r \in Requests, RecoverTemplate(r) PROVE ConnInv'
  BY <1>32 DEF RecoverTemplate
<1>33. ASSUME NEW r \in Requests, RecoverRemove(r) PROVE ConnInv'
  BY <1>33 DEF RecoverRemove
<1>34. ASSUME NEW r \in Requests, RecoverRestart(r) PROVE ConnInv'
  BY <1>34 DEF RecoverRestart, Stop, SpawnFailover
<1>35. ASSUME NEW r \in Requests, Repair(r) PROVE ConnInv'
  BY <1>35 DEF Repair, SpawnFailover
<1>36. ASSUME NEW g \in Goros, NodeFailure(g) PROVE ConnInv'
  BY <1>36 DEF NodeFailure, SpawnFailover
<1>37. ASSUME NEW g \in Goros, Fail(g) PROVE ConnInv'
  BY <1>37 DEF Fail, Stop
<1>38. ASSUME NEW g \in Goros, Remove(g) PROVE ConnInv'
  BY <1>38 DEF Remove
<1>39. CASE UNCHANGED vars
  BY <1>39 DEF vars
<1> QED
  BY <1>1, <1>2, <1>3, <1>4, <1>5, <1>6, <1>7, <1>8, <1>9, <1>10, <1>11,
     <1>12, <1>13, <1>14, <1>15, <1>16, <1>17, <1>18, <1>19, <1>20, <1>21,
     <1>22, <1>23, <1>24, <1>25, <1>26, <1>27, <1>28, <1>29, <1>30, <1>31,
     <1>32, <1>33, <1>34, <1>35, <1>36, <1>37, <1>38, <1>39
     DEF Next, Connector, Watchers, Failover, Request

(* What the proofs below use of the types. *)
Types ==
  /\ pc \in [Goros -> Places] /\ tid \in [Goros -> Nat] /\ id \in Nat
  /\ waiter \in [Conns -> BOOLEAN] /\ done \in [Conns -> BOOLEAN]
  /\ checker \in [Conns -> {"off", "armed", "pinging"}] /\ lost \subseteq Conns

(* Every step leaves a connection that is being made with somebody at work. *)
LEMMA NeverStuckNext ==
  TypeOK /\ ConnInv /\ NeverStuck /\ [Next]_vars => NeverStuck'
<1> SUFFICES ASSUME Types, ConnInv, NeverStuck, [Next]_vars, phase' \in Busy
             PROVE Covered'
  BY DEF TypeOK, Types, NeverStuck, Covered
<1> USE GorosAssumption
        DEF Types, Goros, Places, ConnInv, NeverStuck, Covered, AtWork, Busy, taskVars,
            connVars, Goto
<1>1. ASSUME NEW c \in Conns, Install(c) PROVE Covered'
  BY <1>1 DEF Install, SetTask
<1>2. ASSUME NEW c \in Conns, Prepare(c) PROVE Covered'
  BY <1>2 DEF Prepare, SetTask, SpendUnless
<1>3. ASSUME NEW c \in Conns, Configure(c) PROVE Covered'
  BY <1>3 DEF Configure, SetTask
<1>4. ASSUME NEW c \in Conns, Spawn(c) PROVE Covered'
  BY <1>4 DEF Spawn, SpendUnless
<1>5. ASSUME NEW c \in Conns, Abandon(c) PROVE Covered'
  BY <1>5 DEF Abandon
<1>6. ASSUME NEW c \in Conns, Adopt(c) PROVE Covered'
  BY <1>6 DEF Adopt
<1>7. ASSUME NEW c \in Conns, Canceled(c) PROVE Covered'
  BY <1>7 DEF Canceled
<1>8. ASSUME NEW c \in Conns, ExitSeen(c) PROVE Covered'
  BY <1>8 DEF ExitSeen, Exited, SpawnFailover
<1>9. ASSUME NEW c \in Conns, GiveUp(c) PROVE Covered'
  BY <1>9 DEF GiveUp
<1>10. ASSUME NEW c \in Conns, Detect(c) PROVE Covered'
  BY <1>10 DEF Detect
<1>11. ASSUME NEW c \in Conns, UpdateOutbound(c) PROVE Covered'
  BY <1>11 DEF UpdateOutbound
<1>12. ASSUME NEW c \in Conns, Connected(c) PROVE Covered'
  BY <1>12 DEF Connected
<1>13. ASSUME NEW c \in Conns, Disconnected(c) PROVE Covered'
  BY <1>13 DEF Disconnected, Exited, SpawnFailover
<1>14. ASSUME NEW c \in Conns, CheckerTick(c) PROVE Covered'
  BY <1>14 DEF CheckerTick
<1>15. ASSUME NEW c \in Conns, CheckerStops(c) PROVE Covered'
  BY <1>15 DEF CheckerStops
<1>16. ASSUME NEW c \in Conns, PingDone(c) PROVE Covered'
  BY <1>16 DEF PingDone, SpendUnless, SpawnFailover
<1>17. ASSUME NEW c \in Conns, TunUp(c) PROVE Covered'
  BY <1>17 DEF TunUp
<1>18. ASSUME NEW c \in Conns, Dies(c) PROVE Covered'
  BY <1>18 DEF Dies
<1>19. ASSUME NEW f \in Failovers, FailoverStart(f) PROVE Covered'
  BY <1>19 DEF FailoverStart, Stop
<1>20. ASSUME NEW f \in Failovers, ListServers(f) PROVE Covered'
  BY <1>20 DEF ListServers
<1>21. ASSUME NEW f \in Failovers, Choose(f) PROVE Covered'
  BY <1>21 DEF Choose, Fresh
<1>22. ASSUME NEW r \in Requests, StartVPNGate(r) PROVE Covered'
  BY <1>22 DEF StartVPNGate, Fresh
<1>23. ASSUME NEW r \in Requests, ContinueVPNGateWithAll(r) PROVE Covered'
  BY <1>23 DEF ContinueVPNGateWithAll, SpawnFailover
<1>24. ASSUME NEW r \in Requests, CancelVPNGate(r) PROVE Covered'
  BY <1>24 DEF CancelVPNGate, Stop
<1>25. ASSUME NEW r \in Requests, UninstallVPNGate(r) PROVE Covered'
  BY <1>25 DEF UninstallVPNGate, Stop
<1>26. ASSUME NEW r \in Requests, Ask(r) PROVE Covered'
  BY <1>26 DEF Ask
<1>27. ASSUME NEW r \in Requests, VPNGateStatus(r) PROVE Covered'
  BY <1>27 DEF VPNGateStatus, Waiting
<1>28. ASSUME NEW r \in Requests, Probe(r) PROVE Covered'
  BY <1>28 DEF Probe
<1>29. ASSUME NEW r \in Requests, Lookup(r) PROVE Covered'
  BY <1>29 DEF Lookup
<1>30. ASSUME NEW r \in Requests, Infer(r) PROVE Covered'
  BY <1>30 DEF Infer, Fresh, Waiting
<1>31. ASSUME NEW r \in Requests, RecoverLook(r) PROVE Covered'
  BY <1>31 DEF RecoverLook
<1>32. ASSUME NEW r \in Requests, RecoverTemplate(r) PROVE Covered'
  BY <1>32 DEF RecoverTemplate
<1>33. ASSUME NEW r \in Requests, RecoverRemove(r) PROVE Covered'
  BY <1>33 DEF RecoverRemove
<1>34. ASSUME NEW r \in Requests, RecoverRestart(r) PROVE Covered'
  BY <1>34 DEF RecoverRestart, Stop, SpawnFailover
<1>35. ASSUME NEW r \in Requests, Repair(r) PROVE Covered'
  BY <1>35 DEF Repair, SpawnFailover
<1>36. ASSUME NEW g \in Goros, NodeFailure(g) PROVE Covered'
  BY <1>36 DEF NodeFailure, SpawnFailover
<1>37. ASSUME NEW g \in Goros, Fail(g) PROVE Covered'
  BY <1>37 DEF Fail, Stop
<1>38. ASSUME NEW g \in Goros, Remove(g) PROVE Covered'
  BY <1>38 DEF Remove
<1>39. CASE UNCHANGED vars
  BY <1>39 DEF vars
<1> QED
  BY <1>1, <1>2, <1>3, <1>4, <1>5, <1>6, <1>7, <1>8, <1>9, <1>10, <1>11,
     <1>12, <1>13, <1>14, <1>15, <1>16, <1>17, <1>18, <1>19, <1>20, <1>21,
     <1>22, <1>23, <1>24, <1>25, <1>26, <1>27, <1>28, <1>29, <1>30, <1>31,
     <1>32, <1>33, <1>34, <1>35, <1>36, <1>37, <1>38, <1>39
     DEF Next, Connector, Watchers, Failover, Request

(* Every step leaves a connection with somebody who watches over it. *)
LEMMA ConnectedIsWatchedNext ==
  TypeOK /\ ConnInv /\ ConnectedIsWatched /\ [Next]_vars => ConnectedIsWatched'
<1> SUFFICES ASSUME Types, ConnInv, ConnectedIsWatched, [Next]_vars, phase' = "connected"
             PROVE Guarded'
  BY DEF TypeOK, Types, ConnectedIsWatched, Guarded
<1> USE GorosAssumption
        DEF Types, Goros, Places, ConnInv, ConnectedIsWatched, Guarded, AtWork, Watched,
            taskVars, connVars, Goto
<1>1. ASSUME NEW c \in Conns, Install(c) PROVE Guarded'
  BY <1>1 DEF Install, SetTask
<1>2. ASSUME NEW c \in Conns, Prepare(c) PROVE Guarded'
  BY <1>2 DEF Prepare, SetTask, SpendUnless
<1>3. ASSUME NEW c \in Conns, Configure(c) PROVE Guarded'
  BY <1>3 DEF Configure, SetTask
<1>4. ASSUME NEW c \in Conns, Spawn(c) PROVE Guarded'
  BY <1>4 DEF Spawn, SpendUnless
<1>5. ASSUME NEW c \in Conns, Abandon(c) PROVE Guarded'
  BY <1>5 DEF Abandon
<1>6. ASSUME NEW c \in Conns, Adopt(c) PROVE Guarded'
  BY <1>6 DEF Adopt
<1>7. ASSUME NEW c \in Conns, Canceled(c) PROVE Guarded'
  BY <1>7 DEF Canceled
<1>8. ASSUME NEW c \in Conns, ExitSeen(c) PROVE Guarded'
  BY <1>8 DEF ExitSeen, Exited, SpawnFailover
<1>9. ASSUME NEW c \in Conns, GiveUp(c) PROVE Guarded'
  BY <1>9 DEF GiveUp
<1>10. ASSUME NEW c \in Conns, Detect(c) PROVE Guarded'
  BY <1>10 DEF Detect
<1>11. ASSUME NEW c \in Conns, UpdateOutbound(c) PROVE Guarded'
  BY <1>11 DEF UpdateOutbound
<1>12. ASSUME NEW c \in Conns, Connected(c) PROVE Guarded'
  BY <1>12 DEF Connected
<1>13. ASSUME NEW c \in Conns, Disconnected(c) PROVE Guarded'
  BY <1>13 DEF Disconnected, Exited, SpawnFailover
<1>14. ASSUME NEW c \in Conns, CheckerTick(c) PROVE Guarded'
  BY <1>14 DEF CheckerTick
<1>15. ASSUME NEW c \in Conns, CheckerStops(c) PROVE Guarded'
  BY <1>15 DEF CheckerStops
<1>16. ASSUME NEW c \in Conns, PingDone(c) PROVE Guarded'
  BY <1>16 DEF PingDone, SpendUnless, SpawnFailover
<1>17. ASSUME NEW c \in Conns, TunUp(c) PROVE Guarded'
  BY <1>17 DEF TunUp
<1>18. ASSUME NEW c \in Conns, Dies(c) PROVE Guarded'
  BY <1>18 DEF Dies
<1>19. ASSUME NEW f \in Failovers, FailoverStart(f) PROVE Guarded'
  BY <1>19 DEF FailoverStart, Stop
<1>20. ASSUME NEW f \in Failovers, ListServers(f) PROVE Guarded'
  BY <1>20 DEF ListServers
<1>21. ASSUME NEW f \in Failovers, Choose(f) PROVE Guarded'
  BY <1>21 DEF Choose, Fresh
<1>22. ASSUME NEW r \in Requests, StartVPNGate(r) PROVE Guarded'
  BY <1>22 DEF StartVPNGate, Fresh
<1>23. ASSUME NEW r \in Requests, ContinueVPNGateWithAll(r) PROVE Guarded'
  BY <1>23 DEF ContinueVPNGateWithAll, SpawnFailover
<1>24. ASSUME NEW r \in Requests, CancelVPNGate(r) PROVE Guarded'
  BY <1>24 DEF CancelVPNGate, Stop
<1>25. ASSUME NEW r \in Requests, UninstallVPNGate(r) PROVE Guarded'
  BY <1>25 DEF UninstallVPNGate, Stop
<1>26. ASSUME NEW r \in Requests, Ask(r) PROVE Guarded'
  BY <1>26 DEF Ask
<1>27. ASSUME NEW r \in Requests, VPNGateStatus(r) PROVE Guarded'
  BY <1>27 DEF VPNGateStatus, Waiting
<1>28. ASSUME NEW r \in Requests, Probe(r) PROVE Guarded'
  BY <1>28 DEF Probe
<1>29. ASSUME NEW r \in Requests, Lookup(r) PROVE Guarded'
  BY <1>29 DEF Lookup
<1>30. ASSUME NEW r \in Requests, Infer(r) PROVE Guarded'
  BY <1>30 DEF Infer, Fresh, Waiting
<1>31. ASSUME NEW r \in Requests, RecoverLook(r) PROVE Guarded'
  BY <1>31 DEF RecoverLook
<1>32. ASSUME NEW r \in Requests, RecoverTemplate(r) PROVE Guarded'
  BY <1>32 DEF RecoverTemplate
<1>33. ASSUME NEW r \in Requests, RecoverRemove(r) PROVE Guarded'
  BY <1>33 DEF RecoverRemove
<1>34. ASSUME NEW r \in Requests, RecoverRestart(r) PROVE Guarded'
  BY <1>34 DEF RecoverRestart, Stop, SpawnFailover
<1>35. ASSUME NEW r \in Requests, Repair(r) PROVE Guarded'
  BY <1>35 DEF Repair, SpawnFailover
<1>36. ASSUME NEW g \in Goros, NodeFailure(g) PROVE Guarded'
  BY <1>36 DEF NodeFailure, SpawnFailover
<1>37. ASSUME NEW g \in Goros, Fail(g) PROVE Guarded'
  BY <1>37 DEF Fail, Stop
<1>38. ASSUME NEW g \in Goros, Remove(g) PROVE Guarded'
  BY <1>38 DEF Remove
<1>39. CASE UNCHANGED vars
  BY <1>39 DEF vars
<1> QED
  BY <1>1, <1>2, <1>3, <1>4, <1>5, <1>6, <1>7, <1>8, <1>9, <1>10, <1>11,
     <1>12, <1>13, <1>14, <1>15, <1>16, <1>17, <1>18, <1>19, <1>20, <1>21,
     <1>22, <1>23, <1>24, <1>25, <1>26, <1>27, <1>28, <1>29, <1>30, <1>31,
     <1>32, <1>33, <1>34, <1>35, <1>36, <1>37, <1>38, <1>39
     DEF Next, Connector, Watchers, Failover, Request

(* The invariant holds at first, every step keeps it, ... *)
LEMMA IInvInit == Init => IInv
<1> SUFFICES ASSUME Init PROVE IInv
  OBVIOUS
<1>1. TypeOK
  <2>1. /\ ask \in [Failovers -> BOOLEAN] /\ done \in [Conns -> BOOLEAN]
        /\ waiter \in [Conns -> BOOLEAN]
    BY DEF Init
  <2>2. /\ pc \in [Goros -> Places] /\ outbound \in Conns \cup {None}
        /\ proc \in [Conns -> {"none", "up", "tun", "dead"}]
    BY DEF Init, Places
  <2>3. fallback \in BOOLEAN /\ global \in BOOLEAN
    BY DEF Init
  <2> QED
    BY <2>1, <2>2, <2>3, FuelAssumption DEF Init, TypeOK, Phases, Waiting, Busy
<1>2. ConnInv /\ NeverStuck /\ ConnectedIsWatched
  BY GorosAssumption DEF Init, ConnInv, NeverStuck, ConnectedIsWatched, Busy, Goros
<1> QED
  BY <1>1, <1>2 DEF IInv

(* ... and so it always holds. *)
LEMMA Invariance == Spec => []IInv
<1>1. IInv /\ [Next]_vars => IInv'
  BY TypeOKNext, ConnInvNext, NeverStuckNext, ConnectedIsWatchedNext DEF IInv
<1> QED
  BY IInvInit, <1>1, PTL DEF Spec

(* The variables have their types in every behaviour: in particular, the    *)
(* phase is always one of the eight the code compares it with.              *)
THEOREM TaskTypes == Spec => []TypeOK
<1>1. IInv => TypeOK
  BY DEF IInv
<1> QED
  BY Invariance, <1>1, PTL

(* A connection that is being made always has somebody at work on it, or an *)
(* attempt whose openvpn exited while the phase was its own "connecting".    *)
THEOREM NoStuckTask == Spec => []NeverStuck
<1>1. IInv => NeverStuck
  BY DEF IInv
<1> QED
  BY Invariance, <1>1, PTL

(* A connection shown as connected always has a watcher of its openvpn or   *)
(* tun, or somebody at work on its task.                                    *)
THEOREM NoUnwatchedConnection == Spec => []ConnectedIsWatched
<1>1. IInv => ConnectedIsWatched
  BY DEF IInv
<1> QED
  BY Invariance, <1>1, PTL

(* No goroutine of a task that is over moves and changes the phase, the     *)
(* context, the process or the tun of the task that has replaced it.        *)
THEOREM NoZombie == Spec => SupersededIsSilent
<1>1. TypeOK /\ [Next]_vars => LateIsSilent \/ UNCHANGED vars
  <2> SUFFICES ASSUME Types, [Next]_vars PROVE LateIsSilent
    BY DEF TypeOK, Types
  <2> USE GorosAssumption DEF Types, Goros, LateIsSilent, taskVars, connVars, Goto
  <2>1. ASSUME NEW c \in Conns, Install(c) PROVE LateIsSilent
    BY <2>1 DEF Install, SetTask
  <2>2. ASSUME NEW c \in Conns, Prepare(c) PROVE LateIsSilent
    BY <2>2 DEF Prepare, SetTask, SpendUnless
  <2>3. ASSUME NEW c \in Conns, Configure(c) PROVE LateIsSilent
    BY <2>3 DEF Configure, SetTask
  <2>4. ASSUME NEW c \in Conns, Spawn(c) PROVE LateIsSilent
    BY <2>4 DEF Spawn, SpendUnless
  <2>5. ASSUME NEW c \in Conns, Abandon(c) PROVE LateIsSilent
    BY <2>5 DEF Abandon
  <2>6. ASSUME NEW c \in Conns, Adopt(c) PROVE LateIsSilent
    BY <2>6 DEF Adopt
  <2>7. ASSUME NEW c \in Conns, Canceled(c) PROVE LateIsSilent
    BY <2>7 DEF Canceled
  <2>8. ASSUME NEW c \in Conns, ExitSeen(c) PROVE LateIsSilent
    BY <2>8 DEF ExitSeen, Exited, SpawnFailover
  <2>9. ASSUME NEW c \in Conns, GiveUp(c) PROVE LateIsSilent
    BY <2>9 DEF GiveUp
  <2>10. ASSUME NEW c \in Conns, Detect(c) PROVE LateIsSilent
    BY <2>10 DEF Detect
  <2>11. ASSUME NEW c \in Conns, UpdateOutbound(c) PROVE LateIsSilent
    BY <2>11 DEF UpdateOutbound
  <2>12. ASSUME NEW c \in Conns, Connected(c) PROVE LateIsSilent
    BY <2>12 DEF Connected
  <2>13. ASSUME NEW c \in Conns, Disconnected(c) PROVE LateIsSilent
    BY <2>13 DEF Disconnected, Exited, SpawnFailover
  <2>14. ASSUME NEW c \in Conns, CheckerTick(c) PROVE LateIsSilent
    BY <2>14 DEF CheckerTick
  <2>15. ASSUME NEW c \in Conns, CheckerStops(c) PROVE LateIsSilent
    BY <2>15 DEF CheckerStops
  <2>16. ASSUME NEW c \in Conns, PingDone(c) PROVE LateIsSilent
    BY <2>16 DEF PingDone, SpendUnless, SpawnFailover
  <2>17. ASSUME NEW c \in Conns, TunUp(c) PROVE LateIsSilent
    BY <2>17 DEF TunUp
  <2>18. ASSUME NEW c \in Conns, Dies(c) PROVE LateIsSilent
    BY <2>18 DEF Dies
  <2>19. ASSUME NEW f \in Failovers, FailoverStart(f) PROVE LateIsSilent
    BY <2>19 DEF FailoverStart, Stop
  <2>20. ASSUME NEW f \in Failovers, ListServers(f) PROVE LateIsSilent
    BY <2>20 DEF ListServers
  <2>21. ASSUME NEW f \in Failovers, Choose(f) PROVE LateIsSilent
    BY <2>21 DEF Choose, Fresh
  <2>22. ASSUME NEW r \in Requests, StartVPNGate(r) PROVE LateIsSilent
    BY <2>22 DEF StartVPNGate, Fresh
  <2>23. ASSUME NEW r \in Requests, ContinueVPNGateWithAll(r) PROVE LateIsSilent
    BY <2>23 DEF ContinueVPNGateWithAll, SpawnFailover
  <2>24. ASSUME NEW r \in Requests, CancelVPNGate(r) PROVE LateIsSilent
    BY <2>24 DEF CancelVPNGate, Stop
  <2>25. ASSUME NEW r \in Requests, UninstallVPNGate(r) PROVE LateIsSilent
    BY <2>25 DEF UninstallVPNGate, Stop
  <2>26. ASSUME NEW r \in Requests, Ask(r) PROVE LateIsSilent
    BY <2>26 DEF Ask
  <2>27. ASSUME NEW r \in Requests, VPNGateStatus(r) PROVE LateIsSilent
    BY <2>27 DEF VPNGateStatus
  <2>28. ASSUME NEW r \in Requests, Probe(r) PROVE LateIsSilent
    BY <2>28 DEF Probe
  <2>29. ASSUME NEW r \in Requests, Lookup(r) PROVE LateIsSilent
    BY <2>29 DEF Lookup
  <2>30. ASSUME NEW r \in Requests, Infer(r) PROVE LateIsSilent
    BY <2>30 DEF Infer, Fresh
  <2>31. ASSUME NEW r \in Requests, RecoverLook(r) PROVE LateIsSilent
    BY <2>31 DEF RecoverLook
  <2>32. ASSUME NEW r \in Requests, RecoverTemplate(r) PROVE LateIsSilent
    BY <2>32 DEF RecoverTemplate
  <2>33. ASSUME NEW r \in Requests, RecoverRemove(r) PROVE LateIsSilent
    BY <2>33 DEF RecoverRemove
  <2>34. ASSUME NEW r \in Requests, RecoverRestart(r) PROVE LateIsSilent
    BY <2>34 DEF RecoverRestart, Stop, SpawnFailover
  <2>35. ASSUME NEW r \in Requests, Repair(r) PROVE LateIsSilent
    BY <2>35 DEF Repair, SpawnFailover
  <2>36. ASSUME NEW g \in Goros, NodeFailure(g) PROVE LateIsSilent
    BY <2>36 DEF NodeFailure, SpawnFailover
  <2>37. ASSUME NEW g \in Goros, Fail(g) PROVE LateIsSilent
    BY <2>37 DEF Fail, Stop
  <2>38. ASSUME NEW g \in Goros, Remove(g) PROVE LateIsSilent
    BY <2>38 DEF Remove
  <2>39. CASE UNCHANGED vars
    BY <2>39 DEF vars
  <2> QED
    BY <2>1, <2>2, <2>3, <2>4, <2>5, <2>6, <2>7, <2>8, <2>9, <2>10, <2>11,
       <2>12, <2>13, <2>14, <2>15, <2>16, <2>17, <2>18, <2>19, <2>20, <2>21,
       <2>22, <2>23, <2>24, <2>25, <2>26, <2>27, <2>28, <2>29, <2>30, <2>31,
       <2>32, <2>33, <2>34, <2>35, <2>36, <2>37, <2>38, <2>39
       DEF Next, Connector, Watchers, Failover, Request
<1>2. IInv => TypeOK
  BY DEF IInv
<1> QED
  BY Invariance, <1>1, <1>2, PTL DEF Spec, SupersededIsSilent

=============================================================================
