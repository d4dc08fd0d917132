----------------------------- MODULE WsHubProofs -----------------------------
(***************************************************************************)
(* Proofs about WsHub, for any number of connections and broadcasters, any *)
(* capacities of the channels and any number of panics.                    *)
(*                                                                         *)
(* RegisteredIsOpen is not inductive: TakeRegister makes a connection      *)
(* registered and must know that its channel was not closed before.        *)
(* StageInv adds that a connection goes through its stages once. Unbroken  *)
(* is not inductive either: StreamInv adds what is known, in the middle of *)
(* a fanout, of the clients it has yet to try.                             *)
(***************************************************************************)
EXTENDS WsHub, TLAPS

(* A channel is closed only as its client leaves the registry, and a client  *)
(* is not registered before HandleWebSocket says so.                         *)
StageInv ==
  \A c \in Clients :
    /\ closed[c] => reg[c] = "removed"
    /\ sock[c] \in {"none", "joining"} => reg[c] = "none"

(* A fanout works on clients that were registered when it began, and on      *)
(* none of them before its registration.                                     *)
FanoutInv ==
  /\ panics <= MaxPanics
  /\ hub # "fanout" => targets = {} /\ dead = {}
  /\ \A c \in Clients :
       /\ first[c] <= taken
       /\ reg[c] \in {"none", "queued"} => got[c] = {}
       /\ c \in targets => first[c] < taken /\ reg[c] \in {"in", "removed"}

(* Clients the fanout has yet to try have all messages but this one.         *)
Stream(c) ==
  /\ c \in targets => got[c] = (first[c] + 1) .. (taken - 1)
  /\ \E last \in 0 .. taken : got[c] = (first[c] + 1) .. last
  /\ reg[c] = "in" /\ ~Pending(c) => got[c] = (first[c] + 1) .. taken
StreamInv == panics = MaxPanics => \A c \in Clients : Stream(c)

IInv == TypeOK /\ StageInv /\ FanoutInv /\ StreamInv

(* Every step keeps the types. *)
LEMMA TypeOKNext == TypeOK /\ [Next]_vars => TypeOK'
<1> SUFFICES ASSUME TypeOK, [Next]_vars PROVE TypeOK'
  OBVIOUS
<1> USE CapsAssumption DEF CapsAssumption, TypeOK, hubVars, pumpVars
<1>1. ASSUME NEW c \in Clients, Connect(c) PROVE TypeOK'
  BY <1>1 DEF Connect
<1>2. ASSUME NEW c \in Clients, Register(c) PROVE TypeOK'
  BY <1>2 DEF Register
<1>3. ASSUME NEW c \in Clients, PeerLeaves(c) PROVE TypeOK'
  BY <1>3 DEF PeerLeaves
<1>4. ASSUME NEW c \in Clients, Unregister(c) PROVE TypeOK'
  BY <1>4 DEF Unregister, Remove
<1>5. ASSUME NEW c \in Clients, Write(c) PROVE TypeOK'
  BY <1>5 DEF Write
<1>6. ASSUME NEW c \in Clients, WriteClose(c) PROVE TypeOK'
  BY <1>6 DEF WriteClose
<1>7. ASSUME NEW c \in Clients, PingFails(c) PROVE TypeOK'
  BY <1>7 DEF PingFails
<1>8. ASSUME NEW c \in Clients, TakeRegister(c) PROVE TypeOK'
  BY <1>8 DEF TakeRegister
<1>9. ASSUME NEW c \in Clients, TakeUnregister(c) PROVE TypeOK'
  BY <1>9 DEF TakeUnregister, Remove
<1>10. ASSUME NEW c \in Clients, TrySend(c) PROVE TypeOK'
  BY <1>10 DEF TrySend
<1>11. ASSUME NEW s \in Senders, Broadcast(s) PROVE TypeOK'
  BY <1>11 DEF Broadcast
<1>12. ASSUME NEW s \in Senders, Enqueue(s) PROVE TypeOK'
  BY <1>12 DEF Enqueue
<1>13. ASSUME TakeBroadcast PROVE TypeOK'
  BY <1>13 DEF TakeBroadcast, Registered
<1>14. ASSUME Evict PROVE TypeOK'
  BY <1>14 DEF Evict, Remove
<1>15. ASSUME Panic PROVE TypeOK'
  BY <1>15 DEF Panic
<1>16. ASSUME Retry PROVE TypeOK'
  BY <1>16 DEF Retry
<1>17. ASSUME Stop PROVE TypeOK'
  BY <1>17 DEF Stop
<1>18. ASSUME Shutdown PROVE TypeOK'
  BY <1>18 DEF Shutdown, Remove
<1>19. CASE UNCHANGED vars
  BY <1>19 DEF vars
<1> QED
  BY <1>1, <1>2, <1>3, <1>4, <1>5, <1>6, <1>7, <1>8, <1>9, <1>10, <1>11,
       <1>12, <1>13, <1>14, <1>15, <1>16, <1>17, <1>18, <1>19
     DEF Next, Connection, Hub

(* Every step keeps StageInv. *)
LEMMA StageInvNext == TypeOK /\ StageInv /\ [Next]_vars => StageInv'
<1> SUFFICES ASSUME TypeOK, StageInv, [Next]_vars PROVE StageInv'
  OBVIOUS
<1> USE CapsAssumption DEF CapsAssumption, TypeOK, StageInv, hubVars, pumpVars
<1>1. ASSUME NEW c \in Clients, Connect(c) PROVE StageInv'
  BY <1>1 DEF Connect
<1>2. ASSUME NEW c \in Clients, Register(c) PROVE StageInv'
  BY <1>2 DEF Register
<1>3. ASSUME NEW c \in Clients, PeerLeaves(c) PROVE StageInv'
  BY <1>3 DEF PeerLeaves
<1>4. ASSUME NEW c \in Clients, Unregister(c) PROVE StageInv'
  BY <1>4 DEF Unregister, Remove
<1>5. ASSUME NEW c \in Clients, Write(c) PROVE StageInv'
  BY <1>5 DEF Write
<1>6. ASSUME NEW c \in Clients, WriteClose(c) PROVE StageInv'
  BY <1>6 DEF WriteClose
<1>7. ASSUME NEW c \in Clients, PingFails(c) PROVE StageInv'
  BY <1>7 DEF PingFails
<1>8. ASSUME NEW c \in Clients, TakeRegister(c) PROVE StageInv'
  BY <1>8 DEF TakeRegister
<1>9. ASSUME NEW c \in Clients, TakeUnregister(c) PROVE StageInv'
  BY <1>9 DEF TakeUnregister, Remove
<1>10. ASSUME NEW c \in Clients, TrySend(c) PROVE StageInv'
  BY <1>10 DEF TrySend
<1>11. ASSUME NEW s \in Senders, Broadcast(s) PROVE StageInv'
  BY <1>11 DEF Broadcast
<1>12. ASSUME NEW s \in Senders, Enqueue(s) PROVE StageInv'
  BY <1>12 DEF Enqueue
<1>13. ASSUME TakeBroadcast PROVE StageInv'
  BY <1>13 DEF TakeBroadcast, Registered
<1>14. ASSUME Evict PROVE StageInv'
  BY <1>14 DEF Evict, Remove
<1>15. ASSUME Panic PROVE StageInv'
  BY <1>15 DEF Panic
<1>16. ASSUME Retry PROVE StageInv'
  BY <1>16 DEF Retry
<1>17. ASSUME Stop PROVE StageInv'
  BY <1>17 DEF Stop
<1>18. ASSUME Shutdown PROVE StageInv'
  BY <1>18 DEF Shutdown, Remove
<1>19. CASE UNCHANGED vars
  BY <1>19 DEF vars
<1> QED
  BY <1>1, <1>2, <1>3, <1>4, <1>5, <1>6, <1>7, <1>8, <1>9, <1>10, <1>11,
       <1>12, <1>13, <1>14, <1>15, <1>16, <1>17, <1>18, <1>19
     DEF Next, Connection, Hub

(* Every step keeps FanoutInv. *)
LEMMA FanoutInvNext == TypeOK /\ StageInv /\ FanoutInv /\ [Next]_vars => FanoutInv'
<1> SUFFICES ASSUME TypeOK, StageInv, FanoutInv, [Next]_vars PROVE FanoutInv'
  OBVIOUS
<1> USE CapsAssumption DEF CapsAssumption, TypeOK, StageInv, FanoutInv,
     hubVars, pumpVars
<1>1. ASSUME NEW c \in Clients, Connect(c) PROVE FanoutInv'
  BY <1>1 DEF Connect
<1>2. ASSUME NEW c \in Clients, Register(c) PROVE FanoutInv'
  BY <1>2 DEF Register
<1>3. ASSUME NEW c \in Clients, PeerLeaves(c) PROVE FanoutInv'
  BY <1>3 DEF PeerLeaves
<1>4. ASSUME NEW c \in Clients, Unregister(c) PROVE FanoutInv'
  BY <1>4 DEF Unregister, Remove
<1>5. ASSUME NEW c \in Clients, Write(c) PROVE FanoutInv'
  BY <1>5 DEF Write
<1>6. ASSUME NEW c \in Clients, WriteClose(c) PROVE FanoutInv'
  BY <1>6 DEF WriteClose
<1>7. ASSUME NEW c \in Clients, PingFails(c) PROVE FanoutInv'
  BY <1>7 DEF PingFails
<1>8. ASSUME NEW c \in Clients, TakeRegister(c) PROVE FanoutInv'
  BY <1>8 DEF TakeRegister
<1>9. ASSUME NEW c \in Clients, TakeUnregister(c) PROVE FanoutInv'
  BY <1>9 DEF TakeUnregister, Remove
<1>10. ASSUME NEW c \in Clients, TrySend(c) PROVE FanoutInv'
  BY <1>10 DEF TrySend
<1>11. ASSUME NEW s \in Senders, Broadcast(s) PROVE FanoutInv'
  BY <1>11 DEF Broadcast
<1>12. ASSUME NEW s \in Senders, Enqueue(s) PROVE FanoutInv'
  BY <1>12 DEF Enqueue
<1>13. ASSUME TakeBroadcast PROVE FanoutInv'
  BY <1>13 DEF TakeBroadcast, Registered
<1>14. ASSUME Evict PROVE FanoutInv'
  BY <1>14 DEF Evict, Remove
<1>15. ASSUME Panic PROVE FanoutInv'
  BY <1>15 DEF Panic
<1>16. ASSUME Retry PROVE FanoutInv'
  BY <1>16 DEF Retry
<1>17. ASSUME Stop PROVE FanoutInv'
  BY <1>17 DEF Stop
<1>18. ASSUME Shutdown PROVE FanoutInv'
  BY <1>18 DEF Shutdown, Remove
<1>19. CASE UNCHANGED vars
  BY <1>19 DEF vars
<1> QED
  BY <1>1, <1>2, <1>3, <1>4, <1>5, <1>6, <1>7, <1>8, <1>9, <1>10, <1>11,
       <1>12, <1>13, <1>14, <1>15, <1>16, <1>17, <1>18, <1>19
     DEF Next, Connection, Hub

(* Every step keeps StreamInv. *)
LEMMA StreamInvNext ==
  TypeOK /\ StageInv /\ FanoutInv /\ StreamInv /\ [Next]_vars => StreamInv'
<1> SUFFICES ASSUME TypeOK, StageInv, FanoutInv, StreamInv,
                 [Next]_vars PROVE StreamInv'
  OBVIOUS
<1> USE CapsAssumption DEF CapsAssumption, TypeOK, StageInv, FanoutInv,
     StreamInv, Pending, hubVars, pumpVars
<1>1. ASSUME NEW c \in Clients, Connect(c) PROVE StreamInv'
  BY <1>1 DEF Stream, Connect
<1>2. ASSUME NEW c \in Clients, Register(c) PROVE StreamInv'
  BY <1>2 DEF Stream, Register
<1>3. ASSUME NEW c \in Clients, PeerLeaves(c) PROVE StreamInv'
  BY <1>3 DEF Stream, PeerLeaves
<1>4. ASSUME NEW c \in Clients, Unregister(c) PROVE StreamInv'
  BY <1>4 DEF Stream, Unregister, Remove
<1>5. ASSUME NEW c \in Clients, Write(c) PROVE StreamInv'
  BY <1>5 DEF Stream, Write
<1>6. ASSUME NEW c \in Clients, WriteClose(c) PROVE StreamInv'
  BY <1>6 DEF Stream, WriteClose
<1>7. ASSUME NEW c \in Clients, PingFails(c) PROVE StreamInv'
  BY <1>7 DEF Stream, PingFails
<1>8. ASSUME NEW c \in Clients, TakeRegister(c) PROVE StreamInv'
  <2> SUFFICES ASSUME panics' = MaxPanics, NEW d \in Clients PROVE Stream(d)'
    BY DEF StreamInv, Stream
  <2>1. panics = MaxPanics /\ Stream(d)
    BY <1>8 DEF TakeRegister, Stream
  <2>2. CASE d = c
    <3>1. got'[d] = {} /\ first'[d] = taken /\ targets' = {} /\ taken' = taken
      BY <1>8, <2>2 DEF TakeRegister
    <3>2. taken \in 0 .. taken /\ (taken + 1) .. taken = {}
      OBVIOUS
    <3> QED
      BY <3>1, <3>2 DEF Stream
  <2>3. CASE d # c
    BY <1>8, <2>1, <2>3 DEF TakeRegister, Stream
  <2> QED
    BY <2>2, <2>3
<1>9. ASSUME NEW c \in Clients, TakeUnregister(c) PROVE StreamInv'
  BY <1>9 DEF Stream, TakeUnregister, Remove
<1>10. ASSUME NEW c \in Clients, TrySend(c) PROVE StreamInv'
  <2> SUFFICES ASSUME panics' = MaxPanics, NEW d \in Clients PROVE Stream(d)'
    BY DEF StreamInv, Stream
  <2>1. panics = MaxPanics /\ Stream(d) /\ Stream(c)
    BY <1>10 DEF TrySend, Stream
  <2>2. CASE d # c
    BY <1>10, <2>1, <2>2 DEF TrySend, Stream
  <2>3. CASE d = c
    <3>1. /\ got[c] = (first[c] + 1) .. (taken - 1) /\ first[c] < taken
          /\ first' = first /\ taken' = taken /\ reg' = reg /\ c \notin targets'
      BY <1>10, <2>1 DEF TrySend, Stream
    <3>2. CASE got' = [got EXCEPT ![c] = @ \cup {taken}]
      <4>1. (first[c] + 1) .. taken = ((first[c] + 1) .. (taken - 1)) \cup {taken}
        BY <3>1
      <4>2. got'[c] = (first[c] + 1) .. taken
        BY <3>1, <3>2, <4>1
      <4> QED
        BY <2>3, <3>1, <4>2 DEF Stream
    <3>3. CASE dead' = dead \cup {c} /\ got' = got
      <4>1. taken - 1 \in 0 .. taken
        BY <3>1
      <4> QED
        BY <2>3, <3>1, <3>3, <4>1 DEF Stream
    <3> QED
      BY <1>10, <3>2, <3>3 DEF TrySend
  <2> QED
    BY <2>2, <2>3
<1>11. ASSUME NEW s \in Senders, Broadcast(s) PROVE StreamInv'
  BY <1>11 DEF Stream, Broadcast
<1>12. ASSUME NEW s \in Senders, Enqueue(s) PROVE StreamInv'
  BY <1>12 DEF Stream, Enqueue
<1>13. ASSUME TakeBroadcast PROVE StreamInv'
  <2> SUFFICES ASSUME panics' = MaxPanics, NEW d \in Clients PROVE Stream(d)'
    BY DEF StreamInv, Stream
  <2>1. /\ panics = MaxPanics /\ Stream(d) /\ targets = {} /\ dead = {}
        /\ taken' = taken + 1 /\ dead' = dead /\ got' = got /\ first' = first
        /\ reg' = reg /\ targets' = {e \in Clients : reg[e] = "in"}
    BY <1>13 DEF TakeBroadcast, Registered, Stream
  <2>2. (first[d] + 1) .. (taken' - 1) = (first[d] + 1) .. taken
    BY <2>1
  <2>3. d \in targets' => got'[d] = (first'[d] + 1) .. (taken' - 1)
    BY <2>1, <2>2 DEF Stream
  <2>4. \E last \in 0 .. taken' : got'[d] = (first'[d] + 1) .. last
    <3>1. PICK last \in 0 .. taken : got[d] = (first[d] + 1) .. last
      BY <2>1 DEF Stream
    <3>2. last \in 0 .. taken'
      BY <2>1
    <3> QED
      BY <2>1, <3>1, <3>2
  <2>5. reg'[d] = "in" => d \in targets'
    BY <2>1
  <2> QED
    BY <2>3, <2>4, <2>5 DEF Stream
<1>14. ASSUME Evict PROVE StreamInv'
  BY <1>14 DEF Stream, Evict, Remove
<1>15. ASSUME Panic PROVE StreamInv'
  BY <1>15 DEF Stream, Panic
<1>16. ASSUME Retry PROVE StreamInv'
  BY <1>16 DEF Stream, Retry
<1>17. ASSUME Stop PROVE StreamInv'
  BY <1>17 DEF Stream, Stop
<1>18. ASSUME Shutdown PROVE StreamInv'
  BY <1>18 DEF Stream, Shutdown, Remove
<1>19. CASE UNCHANGED vars
  BY <1>19 DEF Stream, vars
<1> QED
  BY <1>1, <1>2, <1>3, <1>4, <1>5, <1>6, <1>7, <1>8, <1>9, <1>10, <1>11,
       <1>12, <1>13, <1>14, <1>15, <1>16, <1>17, <1>18, <1>19
     DEF Next, Connection, Hub

(* The initial states satisfy the invariant. *)
LEMMA IInvInit == Init => IInv
<1> SUFFICES ASSUME Init PROVE IInv
  OBVIOUS
<1> USE CapsAssumption DEF CapsAssumption, Init
<1>1. TypeOK
  <2>1. /\ hub \in {"loop", "fanout", "crashed", "down", "stopped"}
        /\ panics \in Nat /\ sent \in Nat /\ taken \in Nat
    OBVIOUS
  <2>6. attempt \in 0 .. Attempts - 1
    OBVIOUS
  <2>7. ctxDone \in BOOLEAN
    OBVIOUS
  <2>2. /\ targets \in SUBSET Clients /\ dead \in SUBSET Clients
        /\ unreg \in SUBSET Clients
    OBVIOUS
  <2>3. /\ reg \in [Clients -> {"none", "queued", "in", "removed"}]
        /\ buf \in [Clients -> 0 .. SendCap] /\ closed \in [Clients -> BOOLEAN]
    OBVIOUS
  <2>4. /\ sock \in [Clients -> {"none", "joining", "open", "down"}]
        /\ reader \in [Clients -> BOOLEAN] /\ writer \in [Clients -> BOOLEAN]
        /\ sender \in [Senders -> {"idle", "enqueue"}]
    OBVIOUS
  <2>5. first \in [Clients -> Nat] /\ got \in [Clients -> SUBSET Nat]
    OBVIOUS
  <2> QED
    BY <2>1, <2>2, <2>3, <2>4, <2>5, <2>6, <2>7 DEF TypeOK
<1>2. StageInv
  BY DEF StageInv
<1>3. FanoutInv
  BY DEF FanoutInv
<1>4. StreamInv
  BY DEF StreamInv, Stream, Pending
<1> QED
  BY <1>1, <1>2, <1>3, <1>4 DEF IInv

(* The inductive invariant holds in every reachable state. *)
LEMMA Invariance == Spec => []IInv
<1>1. Init => IInv
  BY IInvInit
<1>2. IInv /\ [Next]_vars => IInv'
  BY TypeOKNext, StageInvNext, FanoutInvNext, StreamInvNext DEF IInv
<1> QED
  BY <1>1, <1>2, PTL DEF Spec

(* The buffers never exceed their capacity, the attempts never their cap,    *)
(* and the other variables have their types.                                 *)
THEOREM HubTypeCorrect == Spec => []TypeOK
<1>1. IInv => TypeOK
  BY DEF IInv
<1> QED
  BY <1>1, Invariance, PTL

(* Whatever removes a client (its own reader, a fanout, shutdown), no client *)
(* with a closed channel is left in the registry.                            *)
THEOREM RegistryIsOpen == Spec => []RegisteredIsOpen
<1>1. IInv => RegisteredIsOpen
  BY DEF IInv, StageInv, RegisteredIsOpen
<1> QED
  BY <1>1, Invariance, PTL

(* Until the loop panics, a client is sent an unbroken run of the messages,  *)
(* and all of them as long as it is registered.                              *)
THEOREM StreamsAreUnbroken == Spec => []Unbroken
<1>1. IInv => Unbroken
  BY DEF IInv, StreamInv, Stream, Unbroken
<1> QED
  BY <1>1, Invariance, PTL

=============================================================================
