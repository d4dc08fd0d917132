------------------------- MODULE XrayLifecycleProofs -------------------------
(***************************************************************************)
(* Proofs about XrayLifecycle, for any callers, children, items and bound  *)
(* on the environment, and for both values of SlowSpawn.                   *)
(*                                                                         *)
(* The inductive invariant IInv is TypeInv (the types), LockInv (who holds *)
(* the mutex), VerInv (which commits a caller in RestartXray and p stand   *)
(* for) and ChildInv (which children may be alive). The theorems follow    *)
(* from it; those about the two jobs need one invariant more each.         *)
(***************************************************************************)
EXTENDS XrayLifecycle, TLAPS

(* An edit under way is of an item. *)
EditInv ==
  \A c \in Callers :
    pc[c] \in {"sync", "api", "save"} => edit[c].item \in Items
TypeInv == TypeOK /\ EditInv

(* Every named caller is a Caller, and every kind of item an Item.          *)
LEMMA Membership ==
  /\ Panel \subseteq Callers /\ Ticks \subseteq Callers
  /\ Boot \in Callers /\ Cron \in Callers /\ Traffic \in Callers
  /\ Recovery \in Callers /\ Nobody \notin Callers
  /\ Clients \subseteq Items /\ Sections \subseteq Items /\ Managed \subseteq Items
  /\ NoEdit \in Edits
  BY CallersAssumption, ItemsAssumption DEF Callers, Items, NoEdit, Edits

(* The values the actions give to an edit are edits. *)
LEMMA EditValues ==
  ASSUME NEW i \in Items, NEW w \in BOOLEAN, NEW e \in Edits,
         NEW snap \in SUBSET Items
  PROVE  /\ [NoEdit EXCEPT !.item = i, !.want = w] \in Edits
         /\ [NoEdit EXCEPT !.item = i, !.want = w].item = i
         /\ [NoEdit EXCEPT !.item = i] \in Edits
         /\ [NoEdit EXCEPT !.item = i, !.need = TRUE] \in Edits
         /\ [item |-> i, want |-> w, snap |-> snap, need |-> FALSE] \in Edits
         /\ [e EXCEPT !.need = TRUE] \in Edits
         /\ [e EXCEPT !.need = TRUE].item = e.item
         /\ e.snap \subseteq Items
  BY DEF NoEdit, Edits

(* The initial states have the right types.                                 *)
LEMMA TypeInvInit == Init => TypeInv
<1> SUFFICES ASSUME Init PROVE TypeInv
  OBVIOUS
<1> USE DEF Init, Waiting, Holding, InRestart, Editing
<1>1. /\ lock \in Callers \cup {Nobody}
      /\ manualStop \in BOOLEAN /\ needRestart \in BOOLEAN
      /\ recovering \in BOOLEAN /\ repairs \in SUBSET Managed
      /\ checkTime \in Nat /\ downRun \in Nat
      /\ p \in Procs \cup {NoProc} /\ pCfg \in SUBSET Items
      /\ port \in BOOLEAN /\ pVer \in Nat
      /\ dbCfg \in SUBSET Items /\ dbVer \in Nat /\ fuel \in Nat
  BY SwitchAssumption
<1>2. /\ st \in [Procs -> {"exited", "spawning", "running"}]
      /\ term \in [Procs -> BOOLEAN] /\ live \in [Procs -> SUBSET Items]
  OBVIOUS
<1>3. /\ pc \in [Callers -> {"idle", "back"} \cup InRestart \cup Editing]
      /\ force \in [Callers -> BOOLEAN] /\ ok \in [Callers -> BOOLEAN]
      /\ built \in [Callers -> SUBSET Items]
      /\ since \in [Callers -> Nat] /\ builtVer \in [Callers -> Nat]
  OBVIOUS
<1>4. edit \in [Callers -> Edits]
  BY Membership
<1>5. EditInv
  BY DEF EditInv
<1> QED
  BY <1>1, <1>2, <1>3, <1>4, <1>5 DEF TypeInv, TypeOK

(* Every step keeps the types.                                              *)
LEMMA TypeInvNext == TypeInv /\ [Next]_vars => TypeInv'
<1> SUFFICES ASSUME TypeInv, [Next]_vars PROVE TypeInv'
  OBVIOUS
<1> USE Membership DEF TypeInv, TypeOK, EditInv, Waiting, Holding, InRestart,
            Editing, Goto, procVars, dbVars, callVars, jobVars, Spend
<1>1. ASSUME NEW c \in Callers, AcquireLock(c) PROVE TypeInv'
  BY <1>1 DEF AcquireLock
<1>2. ASSUME NEW c \in Callers, BuildConfig(c) PROVE TypeInv'
  <2>1. PICK off \in {{}} \cup {{i} : i \in dbCfg \cap Clients}, good \in BOOLEAN :
          BuildConfig(c)!2!(off, good)
    BY <1>2 DEF BuildConfig
  <2>2. dbCfg' \in SUBSET Items /\ dbVer' \in Nat
    BY <2>1
  <2>3. live' \in [Procs -> SUBSET Items]
    BY <2>1 DEF Reachable
  <2>4. fuel' \in Nat
    BY <2>1
  <2>5. /\ lock' \in Callers \cup {Nobody}
        /\ pc' \in [Callers -> {"idle", "back"} \cup InRestart \cup Editing]
        /\ ok' \in [Callers -> BOOLEAN]
        /\ since' \in [Callers -> Nat] /\ builtVer' \in [Callers -> Nat]
    <3>1. CASE good
      BY <2>1, <2>2, <3>1
    <3>2. CASE ~good
      <4>1. /\ lock' = Nobody /\ pc' = [pc EXCEPT ![c] = "back"]
            /\ ok' = [ok EXCEPT ![c] = FALSE]
            /\ since' = [since EXCEPT ![c] = 0] /\ builtVer' = builtVer
        BY <2>1, <3>2 DEF Leave
      <4> QED
        BY <4>1
    <3> QED
      BY <3>1, <3>2
  <2>6. built' \in [Callers -> SUBSET Items]
    <3>1. built \in [Callers -> SUBSET Items]
      OBVIOUS
    <3>2. CASE built' = built
      BY <3>1, <3>2
    <3>3. CASE built' = [built EXCEPT ![c] = dbCfg']
      BY <3>1, <3>3, <2>2
    <3> QED
      BY <2>1, <3>2, <3>3
  <2>7. pc'[c] \in {"decide", "back"} /\ \A d \in Callers \ {c} : pc'[d] = pc[d]
    BY <2>1 DEF Leave
  <2>8. TypeOK'
    BY <1>2, <2>2, <2>3, <2>4, <2>5, <2>6 DEF BuildConfig
  <2>9. EditInv'
    BY <1>2, <2>7 DEF BuildConfig
  <2> QED
    BY <2>8, <2>9
<1>3. ASSUME NEW c \in Callers, SkipRestart(c) PROVE TypeInv'
  BY <1>3 DEF SkipRestart, Leave
<1>4. ASSUME NEW c \in Callers, StopOld(c) PROVE TypeInv'
  BY <1>4 DEF StopOld
<1>5. ASSUME NEW c \in Callers, StartNew(c) PROVE TypeInv'
  <2>1. PICK q \in Procs \ {p} : StartNew(c)!2!(q)
    BY <1>5 DEF StartNew
  <2>2. CASE StartNew(c)!2!(q)!3!1
    BY <1>5, <2>1, <2>2 DEF StartNew
  <2>3. CASE StartNew(c)!2!(q)!3!2
    <3>1. since' = [since EXCEPT ![c] = 0] /\ ok' = [ok EXCEPT ![c] = FALSE]
          /\ pc' = [pc EXCEPT ![c] = "back"] /\ lock' = Nobody
      BY <2>3 DEF Leave
    <3>2. /\ since' \in [Callers -> Nat] /\ ok' \in [Callers -> BOOLEAN]
          /\ pc' \in [Callers -> {"idle", "back"} \cup InRestart \cup Editing]
          /\ pc'[c] = "back" /\ \A d \in Callers \ {c} : pc'[d] = pc[d]
      BY <3>1
    <3>3. /\ p' = q /\ fuel' \in Nat /\ st' = st /\ live' = live
          /\ pCfg' = built[c] /\ pVer' = builtVer[c] /\ port' = FALSE
      BY <1>5, <2>1, <2>3 DEF StartNew
    <3>4. /\ UNCHANGED <<manualStop, needRestart, term, dbCfg, dbVer, force, built>>
          /\ UNCHANGED <<edit, builtVer, recovering, repairs, checkTime, downRun>>
      BY <1>5 DEF StartNew
    <3>5. TypeOK'
      BY <3>1, <3>2, <3>3, <3>4
    <3>6. EditInv'
      BY <3>2, <3>4
    <3> QED
      BY <3>5, <3>6
  <2> QED
    BY <2>1, <2>2, <2>3
<1>6. ASSUME NEW c \in Callers, Started(c) PROVE TypeInv'
  BY <1>6 DEF Started, Leave
<1>7. ASSUME NEW c \in Callers, Back(c) PROVE TypeInv'
  BY <1>7 DEF Back
<1>8. ASSUME NEW c \in Callers, CallRestart(c) PROVE TypeInv'
  BY <1>8 DEF CallRestart, Enter
<1>9. ASSUME NEW c \in Callers, SetToNeedRestart(c) PROVE TypeInv'
  BY <1>9 DEF SetToNeedRestart, Drop
<1>10. ASSUME NEW h \in Panel, ClickRestart(h) PROVE TypeInv'
  BY <1>10 DEF ClickRestart, Enter
<1>11. ASSUME NEW h \in Panel, StopXray(h) PROVE TypeInv'
  <2>1. term' \in [Procs -> BOOLEAN] /\ fuel' \in Nat
    <3>1. CASE Running(p)
      BY <1>11, <3>1 DEF StopXray, Running
    <3>2. CASE ~Running(p)
      BY <1>11, <3>2 DEF StopXray
    <3> QED
      BY <3>1, <3>2
  <2>2. TypeOK'
    BY <1>11, <2>1 DEF StopXray
  <2>3. EditInv'
    BY <1>11 DEF StopXray
  <2> QED
    BY <2>2, <2>3
<1>12. ASSUME NEW h \in Panel, NEW s \in Sections, SaveTemplate(h, s)
       PROVE  TypeInv'
  BY <1>12 DEF SaveTemplate, Toggle
<1>13. ASSUME NEW h \in Panel, NEW i \in Clients, ToggleInbound(h, i)
       PROVE  TypeInv'
  <2>1. /\ dbCfg' \in SUBSET Items /\ dbVer' \in Nat /\ fuel' \in Nat
        /\ pc' \in [Callers -> {"idle", "back"} \cup InRestart \cup Editing]
    BY <1>13 DEF ToggleInbound, Toggle
  <2>2. edit' \in [Callers -> Edits] /\ edit'[h].item = i
    BY <1>13, EditValues DEF ToggleInbound
  <2>3. TypeOK'
    BY <1>13, <2>1, <2>2 DEF ToggleInbound
  <2>4. EditInv'
    BY <1>13, <2>2 DEF ToggleInbound
  <2> QED
    BY <2>3, <2>4
<1>14. ASSUME NEW h \in Panel, NEW i \in Clients, EditClient(h, i)
       PROVE  TypeInv'
  <2>1. edit' \in [Callers -> Edits] /\ edit'[h].item = i
    BY <1>14, EditValues DEF EditClient
  <2>2. TypeOK'
    BY <1>14, <2>1 DEF EditClient
  <2>3. EditInv'
    BY <1>14, <2>1 DEF EditClient
  <2> QED
    BY <2>2, <2>3
<1>15. ASSUME NEW h \in Panel, SyncInbound(h) PROVE TypeInv'
  BY <1>15 DEF SyncInbound, Drop, Items, Reachable
<1>16. ASSUME NEW h \in Panel, CallApi(h) PROVE TypeInv'
  <2>1. edit[h] \in Edits /\ edit[h].item \in Items
    BY <1>16 DEF CallApi, Drop
  <2>2. /\ edit' \in [Callers -> Edits]
        /\ pc'[h] \in {"save", "idle"}
        /\ pc'[h] = "save" => edit'[h].item \in Items
        /\ \A d \in Callers \ {h} : pc'[d] = pc[d] /\ edit'[d] = edit[d]
    <3>1. CASE UNCHANGED edit /\ Goto(h, "save")
      BY <2>1, <3>1
    <3>2. CASE edit' = [edit EXCEPT ![h].need = TRUE] /\ Goto(h, "save")
      <4>1. edit' = [edit EXCEPT ![h] = [edit[h] EXCEPT !.need = TRUE]]
        BY <3>2
      <4>2. /\ [edit[h] EXCEPT !.need = TRUE] \in Edits
            /\ [edit[h] EXCEPT !.need = TRUE].item \in Items
        BY <2>1 DEF Edits
      <4> HIDE DEF Goto
      <4>3. pc' = [pc EXCEPT ![h] = "save"]
        BY <3>2 DEF Goto
      <4> QED
        BY <4>1, <4>2, <4>3
    <3>3. CASE edit' = [edit EXCEPT ![h] = NoEdit] /\ Goto(h, "idle")
      BY <3>3
    <3> QED
      BY <1>16, <3>1, <3>2, <3>3 DEF CallApi, Drop
  <2>3. live' \in [Procs -> SUBSET Items]
    BY <1>16, <2>1 DEF CallApi, Drop, Reachable
  <2>4. pc' \in [Callers -> {"idle", "back"} \cup InRestart \cup Editing]
    BY <1>16 DEF CallApi, Drop
  <2>5. TypeOK'
    BY <1>16, <2>2, <2>3, <2>4 DEF CallApi, Drop
  <2>6. EditInv'
    BY <2>2
  <2> QED
    BY <2>5, <2>6
<1>17. ASSUME NEW h \in Panel, SaveClient(h) PROVE TypeInv'
  <2>1. edit[h].item \in Items /\ edit[h].snap \subseteq Items
    BY <1>17, EditValues DEF SaveClient, Drop
  <2>2. dbCfg' \in SUBSET Items /\ dbVer' \in Nat /\ fuel' \in Nat
    BY <1>17, <2>1 DEF SaveClient, Drop
  <2>3. /\ edit' \in [Callers -> Edits]
        /\ pc' \in [Callers -> {"idle", "back"} \cup InRestart \cup Editing]
    BY <1>17 DEF SaveClient, Drop
  <2>4. TypeOK'
    BY <1>17, <2>2, <2>3 DEF SaveClient, Drop
  <2>5. EditInv'
    BY <1>17 DEF SaveClient, Drop
  <2> QED
    BY <2>4, <2>5
<1>18. ASSUME NEW t \in Ticks, CheckHealthy(t) PROVE TypeInv'
  BY <1>18 DEF CheckHealthy
<1>19. ASSUME NEW t \in Ticks, CheckCrashed(t) PROVE TypeInv'
  <2>1. checkTime' \in Nat /\ downRun' \in Nat
    BY <1>19 DEF CheckCrashed
  <2>2. CASE Enter(t, FALSE) /\ UNCHANGED edit
    BY <1>19, <2>1, <2>2 DEF CheckCrashed, Enter
  <2>3. CASE UNCHANGED callVars
    BY <1>19, <2>1, <2>3 DEF CheckCrashed
  <2> QED
    BY <1>19, <2>2, <2>3 DEF CheckCrashed
<1>20. ASSUME CheckNeedRestart PROVE TypeInv'
  BY <1>20 DEF CheckNeedRestart, Enter
<1>21. ASSUME NEW i \in Clients, TrafficDisable(i) PROVE TypeInv'
  <2>1. edit' \in [Callers -> Edits] /\ fuel' \in Nat
    <3>1. [NoEdit EXCEPT !.item = i] \in Edits
          /\ [NoEdit EXCEPT !.item = i, !.need = TRUE] \in Edits
      BY DEF NoEdit, Edits
    <3> QED
      BY <1>21, <3>1 DEF TrafficDisable, ApiRemove
  <2>2. live' \in [Procs -> SUBSET Items]
    BY <1>21 DEF TrafficDisable, ApiRemove, Reachable
  <2>3. TypeOK'
    BY <1>21, <2>1, <2>2 DEF TrafficDisable
  <2>4. EditInv'
    BY <1>21 DEF TrafficDisable, ApiRemove
  <2> QED
    BY <2>3, <2>4
<1>22. ASSUME TrafficCommit PROVE TypeInv'
  BY <1>22 DEF TrafficCommit, Items
<1>23. ASSUME NEW s \in Managed, RecoveryRepair(s) PROVE TypeInv'
  BY <1>23, ItemsAssumption DEF RecoveryRepair, Toggle
<1>24. ASSUME RecoveryEnd PROVE TypeInv'
  BY <1>24 DEF RecoveryEnd
<1>25. ASSUME NEW q \in Procs, Forked(q) PROVE TypeInv'
  BY <1>25 DEF Forked
<1>26. ASSUME NEW q \in Procs, ForkFails(q) PROVE TypeInv'
  BY <1>26 DEF ForkFails, Dies
<1>27. ASSUME NEW q \in Procs, Crash(q) PROVE TypeInv'
  BY <1>27 DEF Crash, Dies
<1>28. ASSUME NEW q \in Procs, Exit(q) PROVE TypeInv'
  BY <1>28 DEF Exit, Dies
<1>29. ASSUME NEW q \in Procs, Finalize(q) PROVE TypeInv'
  BY <1>29 DEF Finalize
<1>30. CASE UNCHANGED vars
  BY <1>30 DEF vars
<1> QED
  BY <1>1, <1>2, <1>3, <1>4, <1>5, <1>6, <1>7, <1>8, <1>9, <1>10, <1>11,
     <1>12, <1>13, <1>14, <1>15, <1>16, <1>17, <1>18, <1>19, <1>20, <1>21,
     <1>22, <1>23, <1>24, <1>25, <1>26, <1>27, <1>28, <1>29,
                     <1>30 DEF Next, RestartXray, Handler, Jobs, Child


-----------------------------------------------------------------------------
(* Mutual exclusion: the holder of the lock is the caller between Lock and   *)
(* the deferred Unlock.                                                      *)
LockInv == \A c \in Callers : pc[c] \in Holding <=> lock = c

(* What a caller knows of versions at each step. While it holds the lock,    *)
(* what it built is no older than its call and than what is installed.       *)
VerInv ==
  /\ pVer <= dbVer
  /\ p = NoProc => pVer = 0
  /\ \A c \in Callers :
       /\ since[c] <= dbVer /\ builtVer[c] <= dbVer
       /\ pc[c] \in {"decide", "start"} => since[c] <= builtVer[c]
                                          /\ pVer <= builtVer[c]
       /\ pc[c] = "version" => p # NoProc /\ since[c] <= pVer
       /\ pc[c] = "back" /\ ok[c] => p # NoProc /\ since[c] <= pVer
       /\ pc[c] \notin InRestart /\ ~(pc[c] = "back" /\ ok[c]) => since[c] = 0

(* When Start forks before it returns, only the holder of the lock sees a    *)
(* child that is being forked, and it starts a child only once the old one   *)
(* is on its way out.                                                        *)
Down == p = NoProc \/ st[p] = "exited" \/ term[p]
ChildInv ==
  /\ manualStop => lock = Nobody
  /\ ~SlowSpawn =>
       /\ \A q \in Procs : st[q] = "spawning"
                             => q = p /\ \E c \in Callers : pc[c] = "version"
       /\ \A q \in Procs \ {p} : st[q] = "exited" \/ term[q]
       /\ \A c \in Callers : pc[c] = "start" => Down
       /\ manualStop => Down

(* Every step keeps the mutual exclusion of the mutex (xray.go, lock).      *)
LEMMA LockInvNext == TypeInv /\ LockInv /\ [Next]_vars => LockInv'
<1> SUFFICES ASSUME TypeInv, LockInv, [Next]_vars PROVE LockInv'
  OBVIOUS
<1> USE Membership DEF TypeInv, TypeOK, LockInv, Waiting, Holding, InRestart,
        Editing, Goto, procVars, dbVars, callVars, jobVars
<1>1. ASSUME NEW c \in Callers, AcquireLock(c) PROVE LockInv'
  BY <1>1 DEF AcquireLock
<1>2. ASSUME NEW c \in Callers, BuildConfig(c) PROVE LockInv'
  BY <1>2 DEF BuildConfig, Leave
<1>3. ASSUME NEW c \in Callers, SkipRestart(c) PROVE LockInv'
  BY <1>3 DEF SkipRestart, Leave, Unneeded
<1>4. ASSUME NEW c \in Callers, StopOld(c) PROVE LockInv'
  BY <1>4 DEF StopOld
<1>5. ASSUME NEW c \in Callers, StartNew(c) PROVE LockInv'
  BY <1>5 DEF StartNew, Leave
<1>6. ASSUME NEW c \in Callers, Started(c) PROVE LockInv'
  BY <1>6 DEF Started, Leave
<1>7. ASSUME NEW c \in Callers, Back(c) PROVE LockInv'
  BY <1>7 DEF Back
<1>8. ASSUME NEW c \in Callers, CallRestart(c) PROVE LockInv'
  BY <1>8 DEF CallRestart, Enter
<1>9. ASSUME NEW c \in Callers, SetToNeedRestart(c) PROVE LockInv'
  BY <1>9 DEF SetToNeedRestart, Drop
<1>10. ASSUME NEW h \in Panel, ClickRestart(h) PROVE LockInv'
  BY <1>10 DEF ClickRestart, Enter
<1>11. ASSUME NEW h \in Panel, StopXray(h) PROVE LockInv'
  BY <1>11 DEF StopXray
<1>12. ASSUME NEW h \in Panel, NEW s \in Sections, SaveTemplate(h, s)
       PROVE  LockInv'
  BY <1>12 DEF SaveTemplate
<1>13. ASSUME NEW h \in Panel, NEW i \in Clients, ToggleInbound(h, i)
       PROVE  LockInv'
  BY <1>13 DEF ToggleInbound
<1>14. ASSUME NEW h \in Panel, NEW i \in Clients, EditClient(h, i)
       PROVE  LockInv'
  BY <1>14 DEF EditClient
<1>15. ASSUME NEW h \in Panel, SyncInbound(h) PROVE LockInv'
  BY <1>15 DEF SyncInbound, Drop
<1>16. ASSUME NEW h \in Panel, CallApi(h) PROVE LockInv'
  BY <1>16 DEF CallApi, Drop
<1>17. ASSUME NEW h \in Panel, SaveClient(h) PROVE LockInv'
  BY <1>17 DEF SaveClient, Drop
<1>18. ASSUME NEW t \in Ticks, CheckHealthy(t) PROVE LockInv'
  BY <1>18 DEF CheckHealthy
<1>19. ASSUME NEW t \in Ticks, CheckCrashed(t) PROVE LockInv'
  BY <1>19 DEF CheckCrashed, Enter
<1>20. ASSUME CheckNeedRestart PROVE LockInv'
  BY <1>20 DEF CheckNeedRestart, Enter
<1>21. ASSUME NEW i \in Clients, TrafficDisable(i) PROVE LockInv'
  BY <1>21 DEF TrafficDisable
<1>22. ASSUME TrafficCommit PROVE LockInv'
  BY <1>22 DEF TrafficCommit
<1>23. ASSUME NEW s \in Managed, RecoveryRepair(s) PROVE LockInv'
  BY <1>23 DEF RecoveryRepair
<1>24. ASSUME RecoveryEnd PROVE LockInv'
  BY <1>24 DEF RecoveryEnd
<1>25. ASSUME NEW q \in Procs, Forked(q) PROVE LockInv'
  BY <1>25 DEF Forked
<1>26. ASSUME NEW q \in Procs, ForkFails(q) PROVE LockInv'
  BY <1>26 DEF ForkFails, Dies
<1>27. ASSUME NEW q \in Procs, Crash(q) PROVE LockInv'
  BY <1>27 DEF Crash, Dies
<1>28. ASSUME NEW q \in Procs, Exit(q) PROVE LockInv'
  BY <1>28 DEF Exit, Dies
<1>29. ASSUME NEW q \in Procs, Finalize(q) PROVE LockInv'
  BY <1>29 DEF Finalize
<1>30. CASE UNCHANGED vars
  BY <1>30 DEF vars
<1> QED
  BY <1>1, <1>2, <1>3, <1>4, <1>5, <1>6, <1>7, <1>8, <1>9, <1>10, <1>11,
     <1>12, <1>13, <1>14, <1>15, <1>16, <1>17, <1>18, <1>19, <1>20, <1>21,
     <1>22, <1>23, <1>24, <1>25, <1>26, <1>27, <1>28, <1>29, <1>30
     DEF Next, RestartXray, Handler, Jobs, Child

(* Every step keeps what is known of the versions (xray.go, RestartXray).   *)
LEMMA VerInvNext == TypeInv /\ LockInv /\ VerInv /\ [Next]_vars => VerInv'
<1> SUFFICES ASSUME TypeInv, LockInv, VerInv, [Next]_vars PROVE VerInv'
  OBVIOUS
<1> USE Membership DEF TypeInv, TypeOK, LockInv, VerInv, Waiting, Holding,
        InRestart, Editing, Goto, procVars, dbVars, callVars, jobVars
<1>1. ASSUME NEW c \in Callers, AcquireLock(c) PROVE VerInv'
  BY <1>1 DEF AcquireLock
<1>2. ASSUME NEW c \in Callers, BuildConfig(c) PROVE VerInv'
  BY <1>2 DEF BuildConfig, Leave
<1>3. ASSUME NEW c \in Callers, SkipRestart(c) PROVE VerInv'
  <2>1. p # NoProc /\ pVer' = builtVer[c] /\ since[c] <= pVer' /\ pVer <= pVer'
    BY <1>3 DEF SkipRestart, Unneeded, Running
  <2>2. /\ lock = c /\ pc' = [pc EXCEPT ![c] = "back"]
        /\ UNCHANGED <<dbVer, since, builtVer, p>>
        /\ ok' = [ok EXCEPT ![c] = TRUE]
    BY <1>3 DEF SkipRestart, Leave
  <2>3. pVer' <= dbVer'
    BY <2>1, <2>2
  <2> QED
    BY <2>1, <2>2, <2>3
<1>4. ASSUME NEW c \in Callers, StopOld(c) PROVE VerInv'
  BY <1>4 DEF StopOld
<1>5. ASSUME NEW c \in Callers, StartNew(c) PROVE VerInv'
  <2>1. /\ lock = c /\ p' \in Procs /\ pVer' = builtVer[c]
        /\ UNCHANGED <<dbVer, builtVer>>
        /\ since[c] <= pVer' /\ pVer <= pVer' /\ pVer' <= dbVer'
    BY <1>5 DEF StartNew
  <2>2. \/ /\ pc' = [pc EXCEPT ![c] = "version"] /\ UNCHANGED <<ok, since>>
        \/ /\ pc' = [pc EXCEPT ![c] = "back"]
           /\ ok' = [ok EXCEPT ![c] = FALSE] /\ since' = [since EXCEPT ![c] = 0]
    BY <1>5 DEF StartNew, Leave
  <2>3. p' # NoProc
    BY <2>1, ProcsAssumption
  <2> QED
    BY <2>1, <2>2, <2>3
<1>6. ASSUME NEW c \in Callers, Started(c) PROVE VerInv'
  BY <1>6 DEF Started, Leave
<1>7. ASSUME NEW c \in Callers, Back(c) PROVE VerInv'
  BY <1>7 DEF Back
<1>8. ASSUME NEW c \in Callers, CallRestart(c) PROVE VerInv'
  BY <1>8 DEF CallRestart, Enter
<1>9. ASSUME NEW c \in Callers, SetToNeedRestart(c) PROVE VerInv'
  BY <1>9 DEF SetToNeedRestart, Drop
<1>10. ASSUME NEW h \in Panel, ClickRestart(h) PROVE VerInv'
  BY <1>10 DEF ClickRestart, Enter
<1>11. ASSUME NEW h \in Panel, StopXray(h) PROVE VerInv'
  BY <1>11 DEF StopXray
<1>12. ASSUME NEW h \in Panel, NEW s \in Sections, SaveTemplate(h, s)
       PROVE  VerInv'
  BY <1>12 DEF SaveTemplate
<1>13. ASSUME NEW h \in Panel, NEW i \in Clients, ToggleInbound(h, i)
       PROVE  VerInv'
  BY <1>13 DEF ToggleInbound
<1>14. ASSUME NEW h \in Panel, NEW i \in Clients, EditClient(h, i) PROVE VerInv'
  BY <1>14 DEF EditClient
<1>15. ASSUME NEW h \in Panel, SyncInbound(h) PROVE VerInv'
  BY <1>15 DEF SyncInbound, Drop
<1>16. ASSUME NEW h \in Panel, CallApi(h) PROVE VerInv'
  BY <1>16 DEF CallApi, Drop
<1>17. ASSUME NEW h \in Panel, SaveClient(h) PROVE VerInv'
  BY <1>17 DEF SaveClient, Drop
<1>18. ASSUME NEW t \in Ticks, CheckHealthy(t) PROVE VerInv'
  BY <1>18 DEF CheckHealthy
<1>19. ASSUME NEW t \in Ticks, CheckCrashed(t) PROVE VerInv'
  BY <1>19 DEF CheckCrashed, Enter
<1>20. ASSUME CheckNeedRestart PROVE VerInv'
  BY <1>20 DEF CheckNeedRestart, Enter
<1>21. ASSUME NEW i \in Clients, TrafficDisable(i) PROVE VerInv'
  BY <1>21 DEF TrafficDisable
<1>22. ASSUME TrafficCommit PROVE VerInv'
  BY <1>22 DEF TrafficCommit
<1>23. ASSUME NEW s \in Managed, RecoveryRepair(s) PROVE VerInv'
  BY <1>23 DEF RecoveryRepair
<1>24. ASSUME RecoveryEnd PROVE VerInv'
  BY <1>24 DEF RecoveryEnd
<1>25. ASSUME NEW q \in Procs, Forked(q) PROVE VerInv'
  BY <1>25 DEF Forked
<1>26. ASSUME NEW q \in Procs, ForkFails(q) PROVE VerInv'
  BY <1>26 DEF ForkFails, Dies
<1>27. ASSUME NEW q \in Procs, Crash(q) PROVE VerInv'
  BY <1>27 DEF Crash, Dies
<1>28. ASSUME NEW q \in Procs, Exit(q) PROVE VerInv'
  BY <1>28 DEF Exit, Dies
<1>29. ASSUME NEW q \in Procs, Finalize(q) PROVE VerInv'
  BY <1>29 DEF Finalize
<1>30. CASE UNCHANGED vars
  BY <1>30 DEF vars
<1> QED
  BY <1>1, <1>2, <1>3, <1>4, <1>5, <1>6, <1>7, <1>8, <1>9, <1>10, <1>11,
     <1>12, <1>13, <1>14, <1>15, <1>16, <1>17, <1>18, <1>19, <1>20, <1>21,
     <1>22, <1>23, <1>24, <1>25, <1>26, <1>27, <1>28, <1>29, <1>30
     DEF Next, RestartXray, Handler, Jobs, Child

(* Every step keeps what is known of the children (xray/process.go, Start   *)
(* and Stop).                                                               *)
LEMMA ChildInvNext == TypeInv /\ LockInv /\ ChildInv /\ [Next]_vars => ChildInv'
<1> SUFFICES ASSUME TypeInv, LockInv, ChildInv, [Next]_vars PROVE ChildInv'
  OBVIOUS
<1> USE Membership DEF TypeInv, TypeOK, LockInv, ChildInv, Down, Running,
        Waiting, Holding, InRestart, Editing, Goto, procVars, dbVars,
        callVars, jobVars
<1>1. ASSUME NEW c \in Callers, AcquireLock(c) PROVE ChildInv'
  BY <1>1 DEF AcquireLock
<1>2. ASSUME NEW c \in Callers, BuildConfig(c) PROVE ChildInv'
  BY <1>2 DEF BuildConfig, Leave
<1>3. ASSUME NEW c \in Callers, SkipRestart(c) PROVE ChildInv'
  BY <1>3 DEF SkipRestart, Leave, Unneeded
<1>4. ASSUME NEW c \in Callers, StopOld(c) PROVE ChildInv'
  BY <1>4 DEF StopOld
<1>5. ASSUME NEW c \in Callers, StartNew(c) PROVE ChildInv'
  <2>1. PICK q \in Procs \ {p} : StartNew(c)!2!(q)
    BY <1>5 DEF StartNew
  <2>2. lock = c /\ ~manualStop /\ manualStop' = manualStop /\ term' = term
    BY <1>5 DEF StartNew
  <2>3. /\ p' = q /\ \A r \in Procs \ {q} : st'[r] = st[r]
        /\ st'[q] = "spawning" => pc'[c] = "version"
        /\ \A d \in Callers : pc'[d] # "start"
    BY <2>1, <2>2 DEF Leave
  <2>4. ~SlowSpawn => \A r \in Procs : st[r] # "spawning"
    BY <1>5 DEF StartNew
  <2>5. ~SlowSpawn => \A r \in Procs : st[r] = "exited" \/ term[r]
    BY <1>5, ProcsAssumption DEF StartNew
  <2> QED
    BY <2>2, <2>3, <2>4, <2>5
<1>6. ASSUME NEW c \in Callers, Started(c) PROVE ChildInv'
  BY <1>6 DEF Started, Leave
<1>7. ASSUME NEW c \in Callers, Back(c) PROVE ChildInv'
  BY <1>7 DEF Back
<1>8. ASSUME NEW c \in Callers, CallRestart(c) PROVE ChildInv'
  BY <1>8 DEF CallRestart, Enter
<1>9. ASSUME NEW c \in Callers, SetToNeedRestart(c) PROVE ChildInv'
  BY <1>9 DEF SetToNeedRestart, Drop
<1>10. ASSUME NEW h \in Panel, ClickRestart(h) PROVE ChildInv'
  BY <1>10 DEF ClickRestart, Enter
<1>11. ASSUME NEW h \in Panel, StopXray(h) PROVE ChildInv'
  BY <1>11 DEF StopXray
<1>12. ASSUME NEW h \in Panel, NEW s \in Sections, SaveTemplate(h, s)
       PROVE  ChildInv'
  BY <1>12 DEF SaveTemplate
<1>13. ASSUME NEW h \in Panel, NEW i \in Clients, ToggleInbound(h, i)
       PROVE  ChildInv'
  BY <1>13 DEF ToggleInbound
<1>14. ASSUME NEW h \in Panel, NEW i \in Clients, EditClient(h, i)
       PROVE  ChildInv'
  BY <1>14 DEF EditClient
<1>15. ASSUME NEW h \in Panel, SyncInbound(h) PROVE ChildInv'
  BY <1>15 DEF SyncInbound, Drop
<1>16. ASSUME NEW h \in Panel, CallApi(h) PROVE ChildInv'
  BY <1>16 DEF CallApi, Drop
<1>17. ASSUME NEW h \in Panel, SaveClient(h) PROVE ChildInv'
  BY <1>17 DEF SaveClient, Drop
<1>18. ASSUME NEW t \in Ticks, CheckHealthy(t) PROVE ChildInv'
  BY <1>18 DEF CheckHealthy
<1>19. ASSUME NEW t \in Ticks, CheckCrashed(t) PROVE ChildInv'
  BY <1>19 DEF CheckCrashed, Enter
<1>20. ASSUME CheckNeedRestart PROVE ChildInv'
  BY <1>20 DEF CheckNeedRestart, Enter
<1>21. ASSUME NEW i \in Clients, TrafficDisable(i) PROVE ChildInv'
  BY <1>21 DEF TrafficDisable
<1>22. ASSUME TrafficCommit PROVE ChildInv'
  BY <1>22 DEF TrafficCommit
<1>23. ASSUME NEW s \in Managed, RecoveryRepair(s) PROVE ChildInv'
  BY <1>23 DEF RecoveryRepair
<1>24. ASSUME RecoveryEnd PROVE ChildInv'
  BY <1>24 DEF RecoveryEnd
<1>25. ASSUME NEW q \in Procs, Forked(q) PROVE ChildInv'
  BY <1>25 DEF Forked
<1>26. ASSUME NEW q \in Procs, ForkFails(q) PROVE ChildInv'
  BY <1>26 DEF ForkFails, Dies
<1>27. ASSUME NEW q \in Procs, Crash(q) PROVE ChildInv'
  BY <1>27 DEF Crash, Dies
<1>28. ASSUME NEW q \in Procs, Exit(q) PROVE ChildInv'
  BY <1>28 DEF Exit, Dies
<1>29. ASSUME NEW q \in Procs, Finalize(q) PROVE ChildInv'
  BY <1>29 DEF Finalize
<1>30. CASE UNCHANGED vars
  BY <1>30 DEF vars
<1> QED
  BY <1>1, <1>2, <1>3, <1>4, <1>5, <1>6, <1>7, <1>8, <1>9, <1>10, <1>11,
     <1>12, <1>13, <1>14, <1>15, <1>16, <1>17, <1>18, <1>19, <1>20, <1>21,
     <1>22, <1>23, <1>24, <1>25, <1>26, <1>27, <1>28, <1>29, <1>30
     DEF Next, RestartXray, Handler, Jobs, Child


-----------------------------------------------------------------------------
IInv == TypeInv /\ LockInv /\ VerInv /\ ChildInv

(* The initial states satisfy the inductive invariant.                      *)
LEMMA IInvInit == Init => IInv
<1> SUFFICES ASSUME Init PROVE IInv
  OBVIOUS
<1>1. TypeInv
  BY TypeInvInit
<1>2. LockInv
  BY Membership DEF Init, LockInv, Holding
<1>3. VerInv
  BY Membership DEF Init, VerInv, Waiting, Holding, InRestart
<1>4. ChildInv
  BY Membership DEF Init, ChildInv, Down
<1> QED
  BY <1>1, <1>2, <1>3, <1>4 DEF IInv

(* Every step keeps the inductive invariant.                                *)
LEMMA IInvNext == IInv /\ [Next]_vars => IInv'
  BY TypeInvNext, LockInvNext, VerInvNext, ChildInvNext DEF IInv

(* The inductive invariant holds in every reachable state.                  *)
LEMMA Invariance == Spec => []IInv
  BY IInvInit, IInvNext, PTL DEF Spec

(* Every variable keeps its type in every execution, whatever the number of  *)
(* handlers, checks, children and items.                                     *)
THEOREM TypeCorrect == Spec => []TypeOK
<1>1. IInv => TypeOK
  BY DEF IInv, TypeInv
<1> QED
  BY <1>1, Invariance, PTL

(* A RestartXray that returns nil leaves a process that stands for every     *)
(* commit made before the call (xray.go, RestartXray).                       *)
THEOREM RestartsReflectWrites == Spec => []RestartReflectsWrites
<1>1. IInv => RestartReflectsWrites
  BY DEF IInv, VerInv, RestartReflectsWrites
<1> QED
  BY <1>1, Invariance, PTL

(* When Start forks before it returns, a child p no longer stands for has    *)
(* been sent SIGTERM (xray.go, RestartXray: Stop comes before NewProcess).   *)
THEOREM NoOrphans == Spec => []NoOrphan
<1>1. IInv => NoOrphan
  BY DEF IInv, ChildInv, NoOrphan
<1> QED
  BY <1>1, Invariance, PTL

(* When isManuallyStopped is set no Xray serves (xray.go, StopXray and       *)
(* RestartXray: both change the flag and the child under the lock).          *)
THEOREM StopMeansDown == Spec => []ManualStopMeansDown
<1>1. IInv => ManualStopMeansDown
  BY DEF IInv, ChildInv, Down, ManualStopMeansDown
<1> QED
  BY <1>1, Invariance, PTL

-----------------------------------------------------------------------------
(* RestartXray implements its contract. The version that p stands for        *)
(* changes only under the lock, to one that is no older.                     *)
LEMMA InstalledStep ==
  ASSUME IInv, Next
  PROVE  \/ p' = p /\ pVer' = pVer
         \/ p' # NoProc /\ pVer <= pVer'
<1> USE Membership, ProcsAssumption DEF IInv, TypeInv, TypeOK, LockInv,
        VerInv, procVars, dbVars,
            callVars, jobVars, Holding
<1>1. ASSUME NEW c \in Callers, AcquireLock(c)
     PROVE  (p' = p /\ pVer' = pVer) \/ (p' # NoProc /\ pVer <= pVer')
  BY <1>1 DEF AcquireLock
<1>2. ASSUME NEW c \in Callers, BuildConfig(c)
     PROVE  (p' = p /\ pVer' = pVer) \/ (p' # NoProc /\ pVer <= pVer')
  BY <1>2 DEF BuildConfig
<1>3. ASSUME NEW c \in Callers, SkipRestart(c)
     PROVE  (p' = p /\ pVer' = pVer) \/ (p' # NoProc /\ pVer <= pVer')
  BY <1>3 DEF SkipRestart, Unneeded, Running
<1>4. ASSUME NEW c \in Callers, StopOld(c)
     PROVE  (p' = p /\ pVer' = pVer) \/ (p' # NoProc /\ pVer <= pVer')
  BY <1>4 DEF StopOld
<1>5. ASSUME NEW c \in Callers, StartNew(c)
     PROVE  (p' = p /\ pVer' = pVer) \/ (p' # NoProc /\ pVer <= pVer')
  BY <1>5 DEF StartNew
<1>6. ASSUME NEW c \in Callers, Started(c)
     PROVE  (p' = p /\ pVer' = pVer) \/ (p' # NoProc /\ pVer <= pVer')
  BY <1>6 DEF Started
<1>7. ASSUME NEW c \in Callers, Back(c)
     PROVE  (p' = p /\ pVer' = pVer) \/ (p' # NoProc /\ pVer <= pVer')
  BY <1>7 DEF Back
<1>8. ASSUME NEW c \in Callers, CallRestart(c)
     PROVE  (p' = p /\ pVer' = pVer) \/ (p' # NoProc /\ pVer <= pVer')
  BY <1>8 DEF CallRestart
<1>9. ASSUME NEW c \in Callers, SetToNeedRestart(c)
     PROVE  (p' = p /\ pVer' = pVer) \/ (p' # NoProc /\ pVer <= pVer')
  BY <1>9 DEF SetToNeedRestart, Drop
<1>10. ASSUME NEW h \in Panel, ClickRestart(h)
     PROVE  (p' = p /\ pVer' = pVer) \/ (p' # NoProc /\ pVer <= pVer')
  BY <1>10 DEF ClickRestart
<1>11. ASSUME NEW h \in Panel, StopXray(h)
     PROVE  (p' = p /\ pVer' = pVer) \/ (p' # NoProc /\ pVer <= pVer')
  BY <1>11 DEF StopXray
<1>12. ASSUME NEW h \in Panel, NEW s \in Sections, SaveTemplate(h, s)
     PROVE  (p' = p /\ pVer' = pVer) \/ (p' # NoProc /\ pVer <= pVer')
  BY <1>12 DEF SaveTemplate
<1>13. ASSUME NEW h \in Panel, NEW i \in Clients, ToggleInbound(h, i)
     PROVE  (p' = p /\ pVer' = pVer) \/ (p' # NoProc /\ pVer <= pVer')
  BY <1>13 DEF ToggleInbound
<1>14. ASSUME NEW h \in Panel, NEW i \in Clients, EditClient(h, i)
     PROVE  (p' = p /\ pVer' = pVer) \/ (p' # NoProc /\ pVer <= pVer')
  BY <1>14 DEF EditClient
<1>15. ASSUME NEW h \in Panel, SyncInbound(h)
     PROVE  (p' = p /\ pVer' = pVer) \/ (p' # NoProc /\ pVer <= pVer')
  BY <1>15 DEF SyncInbound, Drop
<1>16. ASSUME NEW h \in Panel, CallApi(h)
     PROVE  (p' = p /\ pVer' = pVer) \/ (p' # NoProc /\ pVer <= pVer')
  BY <1>16 DEF CallApi, Drop
<1>17. ASSUME NEW h \in Panel, SaveClient(h)
     PROVE  (p' = p /\ pVer' = pVer) \/ (p' # NoProc /\ pVer <= pVer')
  BY <1>17 DEF SaveClient, Drop
<1>18. ASSUME NEW t \in Ticks, CheckHealthy(t)
     PROVE  (p' = p /\ pVer' = pVer) \/ (p' # NoProc /\ pVer <= pVer')
  BY <1>18 DEF CheckHealthy
<1>19. ASSUME NEW t \in Ticks, CheckCrashed(t)
     PROVE  (p' = p /\ pVer' = pVer) \/ (p' # NoProc /\ pVer <= pVer')
  BY <1>19 DEF CheckCrashed
<1>20. ASSUME CheckNeedRestart
     PROVE  (p' = p /\ pVer' = pVer) \/ (p' # NoProc /\ pVer <= pVer')
  BY <1>20 DEF CheckNeedRestart
<1>21. ASSUME NEW i \in Clients, TrafficDisable(i)
     PROVE  (p' = p /\ pVer' = pVer) \/ (p' # NoProc /\ pVer <= pVer')
  BY <1>21 DEF TrafficDisable
<1>22. ASSUME TrafficCommit
     PROVE  (p' = p /\ pVer' = pVer) \/ (p' # NoProc /\ pVer <= pVer')
  BY <1>22 DEF TrafficCommit
<1>23. ASSUME NEW s \in Managed, RecoveryRepair(s)
     PROVE  (p' = p /\ pVer' = pVer) \/ (p' # NoProc /\ pVer <= pVer')
  BY <1>23 DEF RecoveryRepair
<1>24. ASSUME RecoveryEnd
     PROVE  (p' = p /\ pVer' = pVer) \/ (p' # NoProc /\ pVer <= pVer')
  BY <1>24 DEF RecoveryEnd
<1>25. ASSUME NEW q \in Procs, Forked(q)
     PROVE  (p' = p /\ pVer' = pVer) \/ (p' # NoProc /\ pVer <= pVer')
  BY <1>25 DEF Forked
<1>26. ASSUME NEW q \in Procs, ForkFails(q)
     PROVE  (p' = p /\ pVer' = pVer) \/ (p' # NoProc /\ pVer <= pVer')
  BY <1>26 DEF ForkFails, Dies
<1>27. ASSUME NEW q \in Procs, Crash(q)
     PROVE  (p' = p /\ pVer' = pVer) \/ (p' # NoProc /\ pVer <= pVer')
  BY <1>27 DEF Crash, Dies
<1>28. ASSUME NEW q \in Procs, Exit(q)
     PROVE  (p' = p /\ pVer' = pVer) \/ (p' # NoProc /\ pVer <= pVer')
  BY <1>28 DEF Exit, Dies
<1>29. ASSUME NEW q \in Procs, Finalize(q)
     PROVE  (p' = p /\ pVer' = pVer) \/ (p' # NoProc /\ pVer <= pVer')
  BY <1>29 DEF Finalize
<1> QED
  BY <1>1, <1>2, <1>3, <1>4, <1>5, <1>6, <1>7, <1>8, <1>9, <1>10, <1>11,
     <1>12, <1>13, <1>14, <1>15, <1>16, <1>17, <1>18, <1>19, <1>20, <1>21,
     <1>22, <1>23, <1>24, <1>25, <1>26, <1>27, <1>28, <1>29
     DEF Next, RestartXray, Handler, Jobs, Child

(* What a caller's step does to its phase. *)
LEMMA PhaseStep ==
  ASSUME TypeInv, NEW c \in Callers,
         \A d \in Callers \ {c} : pc'[d] = pc[d] /\ ok'[d] = ok[d]
  PROVE  /\ pc'[c] \in InRestart => Phase' = [Phase EXCEPT ![c] = "in"]
         /\ pc'[c] = "back" /\ ok'[c] => Phase' = [Phase EXCEPT ![c] = "done"]
         /\ pc'[c] \notin InRestart /\ ~(pc'[c] = "back" /\ ok'[c])
              => Phase' = [Phase EXCEPT ![c] = "out"]
  BY DEF Phase, InRestart, Waiting, Holding

(* The phase of a caller, from where it is.                                 *)
LEMMA PhaseIs ==
  ASSUME NEW c \in Callers
  PROVE  /\ pc[c] \in InRestart => Phase[c] = "in"
         /\ pc[c] = "back" /\ ok[c] => Phase[c] = "done"
         /\ pc[c] \notin InRestart /\ ~(pc[c] = "back" /\ ok[c]) => Phase[c] = "out"
  BY DEF Phase, InRestart, Waiting, Holding


(* Whoever restarts Xray, p never goes back to an older configuration.       *)
THEOREM VersionsGrow == Spec => NeverOlder
<1>1. IInv /\ [Next]_vars => [p # NoProc => p' # NoProc /\ pVer <= pVer']_vars
  BY InstalledStep DEF IInv, TypeInv, TypeOK
<1> QED
  BY <1>1, Invariance, PTL DEF Spec, NeverOlder

(* The initial states are initial states of the contract.                   *)
LEMMA ContractInit == Init => Contract!Init
  BY Membership DEF Init, Contract!Init, Phase, InRestart, Waiting, Holding

(* Every step is a step of the contract, or leaves its variables alone.     *)
LEMMA ContractNext == IInv /\ [Next]_vars => [Contract!Next]_(Contract!vars)
<1> SUFFICES ASSUME IInv, [Next]_vars PROVE [Contract!Next]_(Contract!vars)
  OBVIOUS
<1> USE Membership
<1>t. TypeInv /\ LockInv /\ VerInv
  BY DEF IInv
<1>y. /\ pc \in [Callers -> {"idle", "back"} \cup InRestart \cup Editing]
      /\ ok \in [Callers -> BOOLEAN] /\ since \in [Callers -> Nat]
      /\ builtVer \in [Callers -> Nat] /\ pVer \in Nat /\ dbVer \in Nat
  BY <1>t DEF TypeInv, TypeOK
<1>p. Phase \in [Callers -> {"out", "in", "done"}]
  BY DEF Phase
<1>s. ASSUME dbVer' = dbVer, pVer' = pVer, since' = since, Phase' = Phase
      PROVE  [Contract!Next]_(Contract!vars)
  BY <1>s DEF Contract!vars
<1>m. ASSUME dbVer' = dbVer + 1, pVer' = pVer, since' = since, Phase' = Phase
      PROVE  [Contract!Next]_(Contract!vars)
  BY <1>m DEF Contract!Next, Contract!Commit
<1>c. ASSUME NEW c \in Callers, pc[c] \notin InRestart \cup {"back"},
             pc' = [pc EXCEPT ![c] = "lock"], ok' = ok, dbVer' = dbVer,
             pVer' = pVer, since' = [since EXCEPT ![c] = dbVer]
      PROVE  [Contract!Next]_(Contract!vars)
  <2>1. Phase[c] = "out" /\ Phase' = [Phase EXCEPT ![c] = "in"]
    BY <1>t, <1>y, <1>c, PhaseIs, PhaseStep DEF InRestart, Waiting
  <2> QED
    BY <1>c, <2>1 DEF Contract!Next, Contract!Call
<1>r. ASSUME NEW c \in Callers, pc[c] \in InRestart, dbVer' = dbVer,
             pc' = [pc EXCEPT ![c] = "back"], ok' = [ok EXCEPT ![c] = TRUE],
             pVer' \in Nat, pVer <= pVer', pVer' <= dbVer, since[c] <= pVer',
             since' = since
      PROVE  [Contract!Next]_(Contract!vars)
  <2>1. Phase[c] = "in" /\ Phase' = [Phase EXCEPT ![c] = "done"]
    BY <1>t, <1>y, <1>r, PhaseIs, PhaseStep DEF InRestart, Waiting
  <2> QED
    BY <1>r, <2>1 DEF Contract!Next, Contract!Return
<1>f. ASSUME NEW c \in Callers, pc[c] \in InRestart,
             dbVer' \in {dbVer, dbVer + 1},
             pc' = [pc EXCEPT ![c] = "back"], ok' = [ok EXCEPT ![c] = FALSE],
             pVer' \in Nat, pVer <= pVer', pVer' <= dbVer,
             since' = [since EXCEPT ![c] = 0]
      PROVE  [Contract!Next]_(Contract!vars)
  <2>1. Phase[c] = "in" /\ Phase' = [Phase EXCEPT ![c] = "out"]
    BY <1>t, <1>y, <1>f, PhaseIs, PhaseStep DEF InRestart, Waiting, Holding
  <2> QED
    BY <1>f, <2>1 DEF Contract!Next, Contract!Fail
<1>k. ASSUME NEW c \in Callers, NEW l \in {"idle", "back"} \cup InRestart \cup Editing,
             pc' = [pc EXCEPT ![c] = l], ok' = ok,
             pc[c] # "back", l # "back", pc[c] \in InRestart <=> l \in InRestart
      PROVE  Phase' = Phase
  BY <1>y, <1>k DEF Phase
<1>1. ASSUME NEW c \in Callers, AcquireLock(c)
     PROVE  [Contract!Next]_(Contract!vars)
  <2>1. Phase' = Phase
    BY <1>1, <1>k DEF AcquireLock, Goto, InRestart, Waiting, Holding, Editing
  <2> QED
    BY <1>1, <1>s, <2>1 DEF AcquireLock, procVars, dbVars
<1>2. ASSUME NEW c \in Callers, BuildConfig(c)
     PROVE  [Contract!Next]_(Contract!vars)
  <2>1. pc[c] = "config" /\ dbVer' \in {dbVer, dbVer + 1} /\ pVer' = pVer
        /\ pVer <= dbVer
    BY <1>2, <1>t, <1>y DEF BuildConfig, VerInv
  <2>2. CASE pc' = [pc EXCEPT ![c] = "decide"] /\ UNCHANGED <<lock, ok, since>>
    <3>1. Phase' = Phase
      BY <1>k, <2>1, <2>2 DEF InRestart, Holding
    <3>2. CASE dbVer' = dbVer
      BY <1>s, <2>1, <2>2, <3>1, <3>2
    <3>3. CASE dbVer' = dbVer + 1
      BY <1>m, <2>1, <2>2, <3>1, <3>3
    <3> QED
      BY <2>1, <3>2, <3>3
  <2>3. CASE Leave(c, FALSE)
    <3>1. /\ pc' = [pc EXCEPT ![c] = "back"] /\ ok' = [ok EXCEPT ![c] = FALSE]
          /\ since' = [since EXCEPT ![c] = 0]
      BY <2>3 DEF Leave, Goto
    <3>2. pc[c] \in InRestart /\ pVer' \in Nat /\ pVer <= pVer' /\ pVer' <= dbVer
          /\ dbVer' \in {dbVer, dbVer + 1}
      BY <1>y, <2>1 DEF InRestart, Holding
    <3> QED
      BY <1>f, <3>1, <3>2
  <2> QED
    BY <1>2, <2>2, <2>3 DEF BuildConfig, Goto
<1>3. ASSUME NEW c \in Callers, SkipRestart(c)
     PROVE  [Contract!Next]_(Contract!vars)
  <2>1. pVer' = builtVer[c] /\ pVer <= pVer' /\ since[c] <= pVer' /\ pVer' <= dbVer
        /\ pVer' \in Nat
    BY <1>3, <1>t, <1>y DEF SkipRestart, Unneeded, VerInv
  <2> QED
    BY <1>3, <1>r, <2>1 DEF SkipRestart, Leave, Goto, InRestart, Holding, dbVars
<1>4. ASSUME NEW c \in Callers, StopOld(c)
     PROVE  [Contract!Next]_(Contract!vars)
  <2>1. Phase' = Phase
    BY <1>4, <1>k DEF StopOld, Goto, InRestart, Waiting, Holding, Editing
  <2> QED
    BY <1>4, <1>s, <2>1 DEF StopOld, procVars, dbVars
<1>5. ASSUME NEW c \in Callers, StartNew(c)
     PROVE  [Contract!Next]_(Contract!vars)
  <2>1. pVer' = builtVer[c] /\ pVer <= pVer' /\ pVer' <= dbVer /\ pVer' \in Nat
        /\ pc[c] = "start" /\ dbVer' = dbVer
    BY <1>5, <1>t, <1>y DEF StartNew, VerInv, dbVars
  <2>2. CASE pc' = [pc EXCEPT ![c] = "version"] /\ UNCHANGED <<lock, ok, since>>
    <3>1. Phase' = Phase
      BY <1>k, <2>1, <2>2 DEF InRestart, Holding
    <3> QED
      BY <2>1, <2>2, <3>1 DEF Contract!Next, Contract!Install
  <2>3. CASE Leave(c, FALSE)
    <3>1. /\ pc' = [pc EXCEPT ![c] = "back"] /\ ok' = [ok EXCEPT ![c] = FALSE]
          /\ since' = [since EXCEPT ![c] = 0]
      BY <2>3 DEF Leave, Goto
    <3>2. pc[c] \in InRestart /\ pVer' \in Nat /\ pVer <= pVer' /\ pVer' <= dbVer
          /\ dbVer' \in {dbVer, dbVer + 1}
      BY <1>y, <2>1 DEF InRestart, Holding
    <3> QED
      BY <1>f, <3>1, <3>2
  <2> QED
    BY <1>5, <2>2, <2>3 DEF StartNew, Goto
<1>6. ASSUME NEW c \in Callers, Started(c)
     PROVE  [Contract!Next]_(Contract!vars)
  <2>1. since[c] <= pVer /\ pVer <= dbVer
    BY <1>6, <1>t, <1>y DEF Started, VerInv
  <2>2. /\ pc[c] \in InRestart /\ pc' = [pc EXCEPT ![c] = "back"]
        /\ ok' = [ok EXCEPT ![c] = TRUE] /\ since' = since
        /\ pVer' = pVer /\ dbVer' = dbVer
    BY <1>6 DEF Started, Leave, Goto, InRestart, Holding, dbVars, procVars
  <2> QED
    <3>1. pVer' \in Nat /\ pVer <= pVer' /\ pVer' <= dbVer /\ since[c] <= pVer'
      BY <1>y, <2>1, <2>2
    <3> QED
      BY <1>r, <2>2, <3>1
<1>7. ASSUME NEW c \in Callers, Back(c)
     PROVE  [Contract!Next]_(Contract!vars)
  <2>1. Phase' = [Phase EXCEPT ![c] = "out"] /\ dbVer' = dbVer /\ pVer' = pVer
        /\ since' = [since EXCEPT ![c] = 0]
    BY <1>7, <1>t, <1>y, PhaseStep
       DEF Back, Goto, InRestart, Waiting, Holding, dbVars, procVars
  <2>2. CASE ok[c]
    <3>1. Phase[c] = "done"
      BY <1>7, <2>2, PhaseIs DEF Back
    <3> QED
      BY <2>1, <3>1 DEF Contract!Next, Contract!Leave
  <2>3. CASE ~ok[c]
    <3>1. Phase[c] = "out" /\ since[c] = 0
      BY <1>7, <1>t, <2>3, PhaseIs DEF Back, VerInv, InRestart, Waiting, Holding
    <3>2. Phase' = Phase /\ since' = since
      BY <1>y, <1>p, <2>1, <3>1
    <3> QED
      BY <1>s, <2>1, <3>2
  <2> QED
    BY <2>2, <2>3
<1>8. ASSUME NEW c \in Callers, CallRestart(c)
     PROVE  [Contract!Next]_(Contract!vars)
  BY <1>8, <1>c DEF CallRestart, Enter, procVars, dbVars, callVars,
     InRestart, Waiting, Holding, Goto
<1>9. ASSUME NEW c \in Callers, SetToNeedRestart(c)
     PROVE  [Contract!Next]_(Contract!vars)
  <2>1. Phase' = Phase
    BY <1>9, <1>k DEF SetToNeedRestart, Drop, Goto, InRestart, Waiting,
       Holding, Editing
  <2> QED
    BY <1>9, <1>s, <2>1 DEF SetToNeedRestart, Drop, procVars, dbVars
<1>10. ASSUME NEW h \in Panel, ClickRestart(h)
     PROVE  [Contract!Next]_(Contract!vars)
  BY <1>10, <1>c DEF ClickRestart, Enter, procVars, dbVars, callVars,
     InRestart, Waiting, Holding, Goto
<1>11. ASSUME NEW h \in Panel, StopXray(h)
     PROVE  [Contract!Next]_(Contract!vars)
  BY <1>11, <1>s DEF StopXray, Phase, procVars, dbVars, callVars
<1>12. ASSUME NEW h \in Panel, NEW s \in Sections, SaveTemplate(h, s)
     PROVE  [Contract!Next]_(Contract!vars)
  BY <1>12, <1>m DEF SaveTemplate, Phase, procVars, dbVars, callVars
<1>13. ASSUME NEW h \in Panel, NEW i \in Clients, ToggleInbound(h, i)
     PROVE  [Contract!Next]_(Contract!vars)
  <2>1. Phase' = Phase
    BY <1>13, <1>k DEF ToggleInbound, Goto, InRestart, Waiting, Holding, Editing
  <2> QED
    BY <1>13, <1>m, <2>1 DEF ToggleInbound, procVars, dbVars
<1>14. ASSUME NEW h \in Panel, NEW i \in Clients, EditClient(h, i)
     PROVE  [Contract!Next]_(Contract!vars)
  <2>1. Phase' = Phase
    BY <1>14, <1>k DEF EditClient, Goto, InRestart, Waiting, Holding, Editing
  <2> QED
    BY <1>14, <1>s, <2>1 DEF EditClient, procVars, dbVars
<1>15. ASSUME NEW h \in Panel, SyncInbound(h)
     PROVE  [Contract!Next]_(Contract!vars)
  <2>1. Phase' = Phase
    BY <1>15, <1>k DEF SyncInbound, Drop, Goto, InRestart, Waiting, Holding,
       Editing
  <2> QED
    BY <1>15, <1>s, <2>1 DEF SyncInbound, Drop, procVars, dbVars
<1>16. ASSUME NEW h \in Panel, CallApi(h)
     PROVE  [Contract!Next]_(Contract!vars)
  <2>1. Phase' = Phase
    BY <1>16, <1>k DEF CallApi, Drop, Goto, InRestart, Waiting, Holding, Editing
  <2> QED
    BY <1>16, <1>s, <2>1 DEF CallApi, Drop, procVars, dbVars
<1>17. ASSUME NEW h \in Panel, SaveClient(h)
     PROVE  [Contract!Next]_(Contract!vars)
  <2>1. Phase' = Phase
    BY <1>17, <1>k DEF SaveClient, Drop, Goto, InRestart, Waiting, Holding,
       Editing
  <2> QED
    BY <1>17, <1>s, <1>m, <2>1 DEF SaveClient, Drop, procVars, dbVars
<1>18. ASSUME NEW t \in Ticks, CheckHealthy(t)
     PROVE  [Contract!Next]_(Contract!vars)
  BY <1>18, <1>s DEF CheckHealthy, Phase, procVars, dbVars, callVars
<1>19. ASSUME NEW t \in Ticks, CheckCrashed(t)
     PROVE  [Contract!Next]_(Contract!vars)
  <2>1. CASE UNCHANGED callVars
    BY <1>19, <1>s, <2>1 DEF CheckCrashed, callVars, dbVars, procVars, Phase
  <2>2. CASE Enter(t, FALSE)
    BY <1>19, <1>c, <2>2
       DEF CheckCrashed, Enter, Goto, dbVars, procVars, InRestart, Waiting,
       Holding
  <2> QED
    BY <1>19, <2>1, <2>2 DEF CheckCrashed
<1>20. ASSUME CheckNeedRestart
     PROVE  [Contract!Next]_(Contract!vars)
  BY <1>20, <1>c DEF CheckNeedRestart, Enter, procVars, dbVars, callVars,
     InRestart, Waiting, Holding, Goto
<1>21. ASSUME NEW i \in Clients, TrafficDisable(i)
     PROVE  [Contract!Next]_(Contract!vars)
  <2>1. Phase' = Phase
    BY <1>21, <1>k DEF TrafficDisable, Goto, InRestart, Waiting, Holding,
       Editing
  <2> QED
    BY <1>21, <1>s, <2>1 DEF TrafficDisable, procVars, dbVars
<1>22. ASSUME TrafficCommit
     PROVE  [Contract!Next]_(Contract!vars)
  <2>1. Phase' = Phase
    BY <1>22, <1>k DEF TrafficCommit, Goto, InRestart, Waiting, Holding, Editing
  <2> QED
    BY <1>22, <1>s, <1>m, <2>1 DEF TrafficCommit, procVars, dbVars
<1>23. ASSUME NEW s \in Managed, RecoveryRepair(s)
     PROVE  [Contract!Next]_(Contract!vars)
  <2>1. Phase' = Phase
    BY <1>23, <1>k DEF RecoveryRepair, Goto, InRestart, Waiting, Holding,
       Editing
  <2> QED
    BY <1>23, <1>m, <2>1 DEF RecoveryRepair, procVars, dbVars
<1>24. ASSUME RecoveryEnd
     PROVE  [Contract!Next]_(Contract!vars)
  BY <1>24, <1>s DEF RecoveryEnd, Phase, procVars, dbVars, callVars
<1>25. ASSUME NEW q \in Procs, Forked(q)
     PROVE  [Contract!Next]_(Contract!vars)
  BY <1>25, <1>s DEF Forked, Phase, procVars, dbVars, callVars
<1>26. ASSUME NEW q \in Procs, ForkFails(q)
     PROVE  [Contract!Next]_(Contract!vars)
  BY <1>26, <1>s DEF ForkFails, Dies, Phase, procVars, dbVars, callVars
<1>27. ASSUME NEW q \in Procs, Crash(q)
     PROVE  [Contract!Next]_(Contract!vars)
  BY <1>27, <1>s DEF Crash, Dies, Phase, procVars, dbVars, callVars
<1>28. ASSUME NEW q \in Procs, Exit(q)
     PROVE  [Contract!Next]_(Contract!vars)
  BY <1>28, <1>s DEF Exit, Dies, Phase, procVars, dbVars, callVars
<1>29. ASSUME NEW q \in Procs, Finalize(q)
     PROVE  [Contract!Next]_(Contract!vars)
  BY <1>29, <1>s DEF Finalize, Phase, procVars, dbVars, callVars
<1>30. CASE UNCHANGED vars
  BY <1>30, <1>s DEF vars, Phase, procVars, dbVars, callVars
<1> QED
  BY <1>1, <1>2, <1>3, <1>4, <1>5, <1>6, <1>7, <1>8, <1>9, <1>10, <1>11,
     <1>12, <1>13, <1>14, <1>15, <1>16, <1>17, <1>18, <1>19, <1>20, <1>21,
     <1>22, <1>23, <1>24, <1>25, <1>26, <1>27, <1>28, <1>29, <1>30
     DEF Next, RestartXray, Handler, Jobs, Child

(* RestartXray implements RestartContract (xray.go, RestartXray and all its  *)
(* callers): for every number of callers, children and items.                *)
THEOREM Refinement == Spec => ImplementsContract
<1> QED
  BY Invariance, ContractInit, ContractNext, PTL DEF Spec, Contract!Spec,
     ImplementsContract

-----------------------------------------------------------------------------
(* The jobs. checkTime never runs ahead of the checks in a row that found    *)
(* Xray crashed.                                                             *)
WatchInv == checkTime <= downRun \/ downRun = 2

(* Every step keeps WatchInv (check_xray_running_job.go, Run).              *)
LEMMA WatchInvNext == TypeInv /\ WatchInv /\ [Next]_vars => WatchInv'
<1> SUFFICES ASSUME TypeInv, WatchInv, [Next]_vars PROVE WatchInv'
  OBVIOUS
<1> USE Membership DEF TypeInv, TypeOK, WatchInv, procVars, dbVars, callVars,
        jobVars
<1>1. ASSUME NEW c \in Callers, AcquireLock(c) PROVE WatchInv'
  BY <1>1 DEF AcquireLock
<1>2. ASSUME NEW c \in Callers, BuildConfig(c) PROVE WatchInv'
  BY <1>2 DEF BuildConfig
<1>3. ASSUME NEW c \in Callers, SkipRestart(c) PROVE WatchInv'
  BY <1>3 DEF SkipRestart
<1>4. ASSUME NEW c \in Callers, StopOld(c) PROVE WatchInv'
  BY <1>4 DEF StopOld
<1>5. ASSUME NEW c \in Callers, StartNew(c) PROVE WatchInv'
  BY <1>5 DEF StartNew
<1>6. ASSUME NEW c \in Callers, Started(c) PROVE WatchInv'
  BY <1>6 DEF Started
<1>7. ASSUME NEW c \in Callers, Back(c) PROVE WatchInv'
  BY <1>7 DEF Back
<1>8. ASSUME NEW c \in Callers, CallRestart(c) PROVE WatchInv'
  BY <1>8 DEF CallRestart
<1>9. ASSUME NEW c \in Callers, SetToNeedRestart(c) PROVE WatchInv'
  BY <1>9 DEF SetToNeedRestart, Drop
<1>10. ASSUME NEW h \in Panel, ClickRestart(h) PROVE WatchInv'
  BY <1>10 DEF ClickRestart
<1>11. ASSUME NEW h \in Panel, StopXray(h) PROVE WatchInv'
  BY <1>11 DEF StopXray
<1>12. ASSUME NEW h \in Panel, NEW s \in Sections, SaveTemplate(h, s)
       PROVE  WatchInv'
  BY <1>12 DEF SaveTemplate
<1>13. ASSUME NEW h \in Panel, NEW i \in Clients, ToggleInbound(h, i)
       PROVE  WatchInv'
  BY <1>13 DEF ToggleInbound
<1>14. ASSUME NEW h \in Panel, NEW i \in Clients, EditClient(h, i)
       PROVE  WatchInv'
  BY <1>14 DEF EditClient
<1>15. ASSUME NEW h \in Panel, SyncInbound(h) PROVE WatchInv'
  BY <1>15 DEF SyncInbound, Drop
<1>16. ASSUME NEW h \in Panel, CallApi(h) PROVE WatchInv'
  BY <1>16 DEF CallApi, Drop
<1>17. ASSUME NEW h \in Panel, SaveClient(h) PROVE WatchInv'
  BY <1>17 DEF SaveClient, Drop
<1>18. ASSUME NEW t \in Ticks, CheckHealthy(t) PROVE WatchInv'
  BY <1>18 DEF CheckHealthy
<1>19. ASSUME NEW t \in Ticks, CheckCrashed(t) PROVE WatchInv'
  BY <1>19 DEF CheckCrashed
<1>20. ASSUME CheckNeedRestart PROVE WatchInv'
  BY <1>20 DEF CheckNeedRestart
<1>21. ASSUME NEW i \in Clients, TrafficDisable(i) PROVE WatchInv'
  BY <1>21 DEF TrafficDisable
<1>22. ASSUME TrafficCommit PROVE WatchInv'
  BY <1>22 DEF TrafficCommit
<1>23. ASSUME NEW s \in Managed, RecoveryRepair(s) PROVE WatchInv'
  BY <1>23 DEF RecoveryRepair
<1>24. ASSUME RecoveryEnd PROVE WatchInv'
  BY <1>24 DEF RecoveryEnd
<1>25. ASSUME NEW q \in Procs, Forked(q) PROVE WatchInv'
  BY <1>25 DEF Forked
<1>26. ASSUME NEW q \in Procs, ForkFails(q) PROVE WatchInv'
  BY <1>26 DEF ForkFails, Dies
<1>27. ASSUME NEW q \in Procs, Crash(q) PROVE WatchInv'
  BY <1>27 DEF Crash, Dies
<1>28. ASSUME NEW q \in Procs, Exit(q) PROVE WatchInv'
  BY <1>28 DEF Exit, Dies
<1>29. ASSUME NEW q \in Procs, Finalize(q) PROVE WatchInv'
  BY <1>29 DEF Finalize
<1>30. CASE UNCHANGED vars
  BY <1>30 DEF vars
<1> QED
  BY <1>1, <1>2, <1>3, <1>4, <1>5, <1>6, <1>7, <1>8, <1>9, <1>10, <1>11,
     <1>12, <1>13, <1>14, <1>15, <1>16, <1>17, <1>18, <1>19, <1>20, <1>21,
     <1>22, <1>23, <1>24, <1>25, <1>26, <1>27, <1>28, <1>29, <1>30
     DEF Next, RestartXray, Handler, Jobs, Child

(* Only a crashed Xray's second check calls RestartXray.                     *)
LEMMA WatchStep ==
  ASSUME TypeInv, WatchInv, Next, NEW t \in Ticks, pc[t] = "idle", pc'[t] = "lock"
  PROVE  downRun' = 2
<1> USE Membership, CallersAssumption DEF TypeInv, TypeOK, WatchInv, Goto,
        procVars, dbVars,
            callVars, jobVars
<1>1. ASSUME NEW c \in Callers, AcquireLock(c) PROVE downRun' = 2
  BY <1>1 DEF AcquireLock
<1>2. ASSUME NEW c \in Callers, BuildConfig(c) PROVE downRun' = 2
  BY <1>2 DEF BuildConfig, Leave
<1>3. ASSUME NEW c \in Callers, SkipRestart(c) PROVE downRun' = 2
  BY <1>3 DEF SkipRestart, Leave, Unneeded
<1>4. ASSUME NEW c \in Callers, StopOld(c) PROVE downRun' = 2
  BY <1>4 DEF StopOld
<1>5. ASSUME NEW c \in Callers, StartNew(c) PROVE downRun' = 2
  BY <1>5 DEF StartNew, Leave
<1>6. ASSUME NEW c \in Callers, Started(c) PROVE downRun' = 2
  BY <1>6 DEF Started, Leave
<1>7. ASSUME NEW c \in Callers, Back(c) PROVE downRun' = 2
  BY <1>7 DEF Back
<1>8. ASSUME NEW c \in Callers, CallRestart(c) PROVE downRun' = 2
  BY <1>8 DEF CallRestart, Enter
<1>9. ASSUME NEW c \in Callers, SetToNeedRestart(c) PROVE downRun' = 2
  BY <1>9 DEF SetToNeedRestart, Drop
<1>10. ASSUME NEW h \in Panel, ClickRestart(h) PROVE downRun' = 2
  BY <1>10 DEF ClickRestart, Enter
<1>11. ASSUME NEW h \in Panel, StopXray(h) PROVE downRun' = 2
  BY <1>11 DEF StopXray
<1>12. ASSUME NEW h \in Panel, NEW s \in Sections, SaveTemplate(h, s)
       PROVE  downRun' = 2
  BY <1>12 DEF SaveTemplate
<1>13. ASSUME NEW h \in Panel, NEW i \in Clients, ToggleInbound(h, i)
       PROVE  downRun' = 2
  BY <1>13 DEF ToggleInbound
<1>14. ASSUME NEW h \in Panel, NEW i \in Clients, EditClient(h, i)
       PROVE  downRun' = 2
  BY <1>14 DEF EditClient
<1>15. ASSUME NEW h \in Panel, SyncInbound(h) PROVE downRun' = 2
  BY <1>15 DEF SyncInbound, Drop
<1>16. ASSUME NEW h \in Panel, CallApi(h) PROVE downRun' = 2
  BY <1>16 DEF CallApi, Drop
<1>17. ASSUME NEW h \in Panel, SaveClient(h) PROVE downRun' = 2
  BY <1>17 DEF SaveClient, Drop
<1>18. ASSUME NEW u \in Ticks, CheckHealthy(u) PROVE downRun' = 2
  BY <1>18 DEF CheckHealthy
<1>19. ASSUME NEW u \in Ticks, CheckCrashed(u) PROVE downRun' = 2
  BY <1>19 DEF CheckCrashed, Enter
<1>20. ASSUME CheckNeedRestart PROVE downRun' = 2
  BY <1>20 DEF CheckNeedRestart, Enter
<1>21. ASSUME NEW i \in Clients, TrafficDisable(i) PROVE downRun' = 2
  BY <1>21 DEF TrafficDisable
<1>22. ASSUME TrafficCommit PROVE downRun' = 2
  BY <1>22 DEF TrafficCommit
<1>23. ASSUME NEW s \in Managed, RecoveryRepair(s) PROVE downRun' = 2
  BY <1>23 DEF RecoveryRepair
<1>24. ASSUME RecoveryEnd PROVE downRun' = 2
  BY <1>24 DEF RecoveryEnd
<1>25. ASSUME NEW q \in Procs, Forked(q) PROVE downRun' = 2
  BY <1>25 DEF Forked
<1>26. ASSUME NEW q \in Procs, ForkFails(q) PROVE downRun' = 2
  BY <1>26 DEF ForkFails, Dies
<1>27. ASSUME NEW q \in Procs, Crash(q) PROVE downRun' = 2
  BY <1>27 DEF Crash, Dies
<1>28. ASSUME NEW q \in Procs, Exit(q) PROVE downRun' = 2
  BY <1>28 DEF Exit, Dies
<1>29. ASSUME NEW q \in Procs, Finalize(q) PROVE downRun' = 2
  BY <1>29 DEF Finalize
<1> QED
  BY <1>1, <1>2, <1>3, <1>4, <1>5, <1>6, <1>7, <1>8, <1>9, <1>10, <1>11,
     <1>12, <1>13, <1>14, <1>15, <1>16, <1>17, <1>18, <1>19, <1>20, <1>21,
     <1>22, <1>23, <1>24, <1>25, <1>26, <1>27, <1>28, <1>29
     DEF Next, RestartXray, Handler, Jobs, Child

(* The watchdog restarts only after two checks in a row that found Xray      *)
(* crashed (check_xray_running_job.go, Run).                                 *)
THEOREM TwoChecks == Spec => DownTwiceInARow
<1>1. Init => WatchInv
  BY DEF Init, WatchInv
<1>2. IInv /\ WatchInv /\ [Next]_vars => WatchInv'
  BY WatchInvNext DEF IInv
<1>3. IInv /\ WatchInv /\ [Next]_vars
        => [\A t \in Ticks : pc[t] = "idle" /\ pc'[t] = "lock" => downRun' = 2]_vars
  BY WatchStep DEF IInv
<1> QED
  BY <1>1, <1>2, <1>3, Invariance, PTL DEF Spec, DownTwiceInARow

(* The goroutine of the recovery is none of the other callers.              *)
LEMMA RecoveryAlone ==
  /\ Recovery \notin Panel /\ Recovery \notin Ticks
  /\ Recovery # Cron /\ Recovery # Traffic /\ Recovery # Boot
  BY CallersAssumption

(* Every step keeps RecoveryIsDebounced (warp.go,                           *)
(* scheduleManagedOutboundRecovery).                                        *)
LEMMA DebounceNext == TypeInv /\ RecoveryIsDebounced /\ [Next]_vars => RecoveryIsDebounced'
<1> SUFFICES ASSUME TypeInv, RecoveryIsDebounced, [Next]_vars
             PROVE  RecoveryIsDebounced'
  OBVIOUS
<1> USE Membership, RecoveryAlone DEF TypeInv, TypeOK, RecoveryIsDebounced,
        Goto, procVars, dbVars, callVars, jobVars
<1>1. ASSUME NEW c \in Callers, AcquireLock(c) PROVE RecoveryIsDebounced'
  BY <1>1 DEF AcquireLock
<1>2. ASSUME NEW c \in Callers, BuildConfig(c) PROVE RecoveryIsDebounced'
  BY <1>2 DEF BuildConfig, Leave
<1>3. ASSUME NEW c \in Callers, SkipRestart(c) PROVE RecoveryIsDebounced'
  BY <1>3 DEF SkipRestart, Leave, Unneeded
<1>4. ASSUME NEW c \in Callers, StopOld(c) PROVE RecoveryIsDebounced'
  BY <1>4 DEF StopOld
<1>5. ASSUME NEW c \in Callers, StartNew(c) PROVE RecoveryIsDebounced'
  BY <1>5 DEF StartNew, Leave
<1>6. ASSUME NEW c \in Callers, Started(c) PROVE RecoveryIsDebounced'
  BY <1>6 DEF Started, Leave
<1>7. ASSUME NEW c \in Callers, Back(c) PROVE RecoveryIsDebounced'
  BY <1>7 DEF Back
<1>8. ASSUME NEW c \in Callers, CallRestart(c) PROVE RecoveryIsDebounced'
  BY <1>8 DEF CallRestart, Enter
<1>9. ASSUME NEW c \in Callers, SetToNeedRestart(c) PROVE RecoveryIsDebounced'
  BY <1>9 DEF SetToNeedRestart, Drop
<1>10. ASSUME NEW h \in Panel, ClickRestart(h) PROVE RecoveryIsDebounced'
  BY <1>10 DEF ClickRestart, Enter
<1>11. ASSUME NEW h \in Panel, StopXray(h) PROVE RecoveryIsDebounced'
  BY <1>11 DEF StopXray
<1>12. ASSUME NEW h \in Panel, NEW s \in Sections, SaveTemplate(h, s)
       PROVE  RecoveryIsDebounced'
  BY <1>12 DEF SaveTemplate
<1>13. ASSUME NEW h \in Panel, NEW i \in Clients, ToggleInbound(h, i)
       PROVE  RecoveryIsDebounced'
  BY <1>13 DEF ToggleInbound
<1>14. ASSUME NEW h \in Panel, NEW i \in Clients, EditClient(h, i)
       PROVE  RecoveryIsDebounced'
  BY <1>14 DEF EditClient
<1>15. ASSUME NEW h \in Panel, SyncInbound(h) PROVE RecoveryIsDebounced'
  BY <1>15 DEF SyncInbound, Drop
<1>16. ASSUME NEW h \in Panel, CallApi(h) PROVE RecoveryIsDebounced'
  BY <1>16 DEF CallApi, Drop
<1>17. ASSUME NEW h \in Panel, SaveClient(h) PROVE RecoveryIsDebounced'
  BY <1>17 DEF SaveClient, Drop
<1>18. ASSUME NEW t \in Ticks, CheckHealthy(t) PROVE RecoveryIsDebounced'
  BY <1>18 DEF CheckHealthy
<1>19. ASSUME NEW t \in Ticks, CheckCrashed(t) PROVE RecoveryIsDebounced'
  BY <1>19 DEF CheckCrashed, Enter
<1>20. ASSUME CheckNeedRestart PROVE RecoveryIsDebounced'
  BY <1>20 DEF CheckNeedRestart, Enter
<1>21. ASSUME NEW i \in Clients, TrafficDisable(i) PROVE RecoveryIsDebounced'
  BY <1>21 DEF TrafficDisable
<1>22. ASSUME TrafficCommit PROVE RecoveryIsDebounced'
  BY <1>22 DEF TrafficCommit
<1>23. ASSUME NEW s \in Managed, RecoveryRepair(s) PROVE RecoveryIsDebounced'
  BY <1>23 DEF RecoveryRepair
<1>24. ASSUME RecoveryEnd PROVE RecoveryIsDebounced'
  BY <1>24 DEF RecoveryEnd
<1>25. ASSUME NEW q \in Procs, Forked(q) PROVE RecoveryIsDebounced'
  BY <1>25 DEF Forked
<1>26. ASSUME NEW q \in Procs, ForkFails(q) PROVE RecoveryIsDebounced'
  BY <1>26 DEF ForkFails, Dies
<1>27. ASSUME NEW q \in Procs, Crash(q) PROVE RecoveryIsDebounced'
  BY <1>27 DEF Crash, Dies
<1>28. ASSUME NEW q \in Procs, Exit(q) PROVE RecoveryIsDebounced'
  BY <1>28 DEF Exit, Dies
<1>29. ASSUME NEW q \in Procs, Finalize(q) PROVE RecoveryIsDebounced'
  BY <1>29 DEF Finalize
<1>30. CASE UNCHANGED vars
  BY <1>30 DEF vars
<1> QED
  BY <1>1, <1>2, <1>3, <1>4, <1>5, <1>6, <1>7, <1>8, <1>9, <1>10, <1>11,
     <1>12, <1>13, <1>14, <1>15, <1>16, <1>17, <1>18, <1>19, <1>20, <1>21,
     <1>22, <1>23, <1>24, <1>25, <1>26, <1>27, <1>28, <1>29, <1>30
     DEF Next, RestartXray, Handler, Jobs, Child

(* While the recovery repairs and restarts, no second one can be scheduled   *)
(* (warp.go, scheduleManagedOutboundRecovery).                               *)
THEOREM OneRecovery == Spec => []RecoveryIsDebounced
<1>1. Init => RecoveryIsDebounced
  BY RecoveryAlone, Membership DEF Init, RecoveryIsDebounced
<1>2. IInv /\ RecoveryIsDebounced /\ [Next]_vars => RecoveryIsDebounced'
  BY DebounceNext DEF IInv
<1> QED
  BY <1>1, <1>2, Invariance, PTL DEF Spec

=============================================================================
