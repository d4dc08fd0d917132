--------------------------- MODULE XrayPageProofs ---------------------------
(***************************************************************************)
(* Proofs about the Xray page and its outbound form, for any numbers of    *)
(* choices, edits and outbounds.                                           *)
(*                                                                         *)
(* The template is a list of documents: what a document says survives      *)
(* being parsed and written again, because every class reads a field from  *)
(* the key it writes it to. The modal holds an outbound, and in its editor *)
(* a document the outbound was made of.                                    *)
(*                                                                         *)
(* The nodes of the template are usable because the last check has seen    *)
(* the outbound that is written: its JSON keeps the tag, and of a valid    *)
(* VLESS outbound what Xray needs.                                         *)
(*                                                                         *)
(* The last part joins the two pages: an imported link was copied from the *)
(* row that is there, and its parameters are read where they were written. *)
(***************************************************************************)
EXTENDS NodeFormsProofs, SequenceTheorems

-----------------------------------------------------------------------------
(* The classes of an outbound *)

\* fromJson reads a field from the key it is written to, and no two fields
\* have the same key; only the tables of a Sudoku mask are not read.
Injective(f) == \A k, l \in DOMAIN f : f[k] = f[l] => k = l
Faithful(c) ==
  /\ c.from = c.to /\ Injective(c.to) /\ c.maps = {}
  /\ c.lost \subseteq {"customTables"}
  /\ \A k \in c.lost \cap DOMAIN c.to : c.to[k] = k

LEMMA FieldsAreFaithful ==
  ASSUME NEW S, NEW filled, NEW restored
  PROVE  /\ Faithful(Out!Fields(S))
         /\ Faithful([Out!Fields(S) EXCEPT !.filled = filled])
         /\ Faithful([Out!Fields(S) EXCEPT !.filled = filled, !.restored = restored])
         /\ Faithful([Out!Fields(S) EXCEPT !.lost = {"customTables"}])
  BY DEF Faithful, Injective, Out!Fields, Out!Same

LEMMA RenamedFieldsAreFaithful ==
  ASSUME NEW keys, NEW filled, NEW restored, Injective(keys)
  PROVE  /\ Faithful([Out!Fields(DOMAIN keys) EXCEPT !.to = keys, !.from = keys])
         /\ Faithful([Out!Fields(DOMAIN keys) EXCEPT !.to = keys, !.from = keys,
                                                     !.filled = filled, !.restored = restored])
  BY DEF Faithful, Injective, Out!Fields

LEMMA RenamingIsInjective ==
  ASSUME NEW S, NEW a, NEW b, NEW c, NEW x, NEW y, NEW z,
         x \notin S, y \notin S, z \notin S, x # y, y # z, x # z
  PROVE  /\ Injective([Out!Same(S) EXCEPT ![a] = x])
         /\ Injective([Out!Same(S) EXCEPT ![a] = x, ![b] = y])
         /\ Injective([Out!Same(S) EXCEPT ![a] = x, ![b] = y, ![c] = z])
  BY DEF Injective, Out!Same

LEMMA KcpIsFaithful == Faithful(Out!KcpStreamSettings)
<1> DEFINE fields == {"mtu", "tti", "upCap", "downCap", "cwndMultiplier", "maxSendingWindow"}
           keys == [Out!Same(fields) EXCEPT !["upCap"] = "uplinkCapacity",
                                            !["downCap"] = "downlinkCapacity"]
<1>1. /\ "uplinkCapacity" \notin fields /\ "downlinkCapacity" \notin fields /\ "" \notin fields
  OBVIOUS
<1>2. Out!KcpStreamSettings = [Out!Fields(DOMAIN keys) EXCEPT !.to = keys, !.from = keys]
  BY DEF Out!KcpStreamSettings
<1> HIDE DEF fields
<1>3. Injective(keys)
  BY <1>1, RenamingIsInjective
<1> HIDE DEF keys
<1> QED
  BY <1>2, <1>3, RenamedFieldsAreFaithful

LEMMA HysteriaIsFaithful == Faithful(Out!HysteriaStreamSettings)
<1> DEFINE fields == {"auth", "congestion", "up", "down", "udphopPort", "udphopIntervalMin",
                      "udphopIntervalMax", "initStreamReceiveWindow", "maxStreamReceiveWindow",
                      "initConnectionReceiveWindow", "maxConnectionReceiveWindow",
                      "maxIdleTimeout", "keepAlivePeriod", "disablePathMTUDiscovery"}
           keys == [Out!Same(fields) EXCEPT !["udphopPort"] = "port",
                                            !["udphopIntervalMin"] = "intervalMin",
                                            !["udphopIntervalMax"] = "intervalMax"]
           intervals == {"udphopIntervalMin", "udphopIntervalMax"}
<1>1. /\ "port" \notin fields /\ "intervalMin" \notin fields /\ "intervalMax" \notin fields
  OBVIOUS
<1>2. Out!HysteriaStreamSettings =
        [Out!Fields(DOMAIN keys) EXCEPT !.to = keys, !.from = keys,
                                        !.filled = intervals, !.restored = intervals]
  BY DEF Out!HysteriaStreamSettings
<1> HIDE DEF fields, intervals
<1>3. Injective(keys)
  BY <1>1, RenamingIsInjective
<1> HIDE DEF keys
<1> QED
  BY <1>2, <1>3, RenamedFieldsAreFaithful

LEMMA PeerIsFaithful == Faithful(Out!Peer)
<1> DEFINE fields == {"publicKey", "psk", "allowedIPs", "endpoint", "keepAlive"}
           keys == [Out!Same(fields) EXCEPT !["psk"] = "preSharedKey"]
<1>1. /\ "preSharedKey" \notin fields /\ "" \notin fields /\ "?" \notin fields
  OBVIOUS
<1>2. Out!Peer = [Out!Fields(DOMAIN keys) EXCEPT !.to = keys, !.from = keys]
  BY DEF Out!Peer
<1> HIDE DEF fields
<1>3. Injective(keys)
  BY <1>1, RenamingIsInjective
<1> HIDE DEF keys
<1> QED
  BY <1>2, <1>3, RenamedFieldsAreFaithful

LEMMA StreamsAreFaithful ==
  /\ Faithful(Out!TcpStreamSettings) /\ Faithful(Out!WsStreamSettings)
  /\ Faithful(Out!GrpcStreamSettings) /\ Faithful(Out!HttpUpgradeStreamSettings)
  /\ Faithful(Out!xHTTPStreamSettings) /\ Faithful(Out!TlsStreamSettings)
  /\ Faithful(Out!RealityStreamSettings) /\ Faithful(Out!SockoptStreamSettings)
  /\ Faithful(Out!Mux) /\ Faithful(Out!QuicParams)
  /\ Faithful(Out!QuicBrutal) /\ Faithful(Out!QuicUdpHop)
  BY FieldsAreFaithful
  DEF Out!TcpStreamSettings, Out!WsStreamSettings, Out!GrpcStreamSettings,
      Out!HttpUpgradeStreamSettings, Out!xHTTPStreamSettings, Out!TlsStreamSettings,
      Out!RealityStreamSettings, Out!SockoptStreamSettings, Out!Mux, Out!QuicParams,
      Out!QuicBrutal, Out!QuicUdpHop

LEMMA ProtocolsAreFaithful ==
  /\ Faithful(Out!FreedomSettings) /\ Faithful(Out!Fragment) /\ Faithful(Out!Noise)
  /\ Faithful(Out!FinalRule) /\ Faithful(Out!BlackholeSettings)
  /\ Faithful(Out!DNSSettings) /\ Faithful(Out!DNSRule) /\ Faithful(Out!VmessSettings)
  /\ Faithful(Out!VLESSSettings) /\ Faithful(Out!TrojanSettings)
  /\ Faithful(Out!ShadowsocksSettings) /\ Faithful(Out!SocksSettings)
  /\ Faithful(Out!HttpSettings) /\ Faithful(Out!HysteriaSettings)
  /\ Faithful(Out!WireguardSettings)
  BY FieldsAreFaithful
  DEF Out!FreedomSettings, Out!Fragment, Out!Noise, Out!FinalRule, Out!BlackholeSettings,
      Out!DNSSettings, Out!DNSRule, Out!VmessSettings, Out!VLESSSettings, Out!TrojanSettings,
      Out!ShadowsocksSettings, Out!SocksSettings, Out!HttpSettings, Out!HysteriaSettings,
      Out!WireguardSettings

LEMMA MasksAreFaithful ==
  /\ \A c \in DOMAIN Out!UdpMask : Faithful(Out!UdpMask[c])
  /\ \A c \in DOMAIN Out!TcpMask : Faithful(Out!TcpMask[c])
<1>1. ASSUME NEW c \in DOMAIN Out!UdpMask
      PROVE  Faithful(Out!UdpMask[c])
  <2>1. \E S : Out!UdpMask[c] = Out!Fields(S)
    BY DEF Out!UdpMask
  <2> QED
    BY <2>1, FieldsAreFaithful
<1>2. ASSUME NEW c \in DOMAIN Out!TcpMask
      PROVE  Faithful(Out!TcpMask[c])
  <2>1. CASE c = "fragment"
    BY <2>1, FieldsAreFaithful DEF Out!TcpMask
  <2>2. CASE c = "sudoku"
    BY <2>2, FieldsAreFaithful DEF Out!TcpMask
  <2>3. CASE c = "tcpHeader"
    BY <2>3, FieldsAreFaithful DEF Out!TcpMask
  <2> QED
    BY <2>1, <2>2, <2>3 DEF Out!TcpMask
<1> QED
  BY <1>1, <1>2

LEMMA ClassesAreFaithful ==
  ASSUME NEW c \in DOMAIN Out!Classes
  PROVE  Faithful(Out!Classes[c])
<1>1. CASE c \in DOMAIN Out!Objects
  <2>1. Faithful(Out!Objects[c])
    BY <1>1, KcpIsFaithful, HysteriaIsFaithful, PeerIsFaithful, StreamsAreFaithful,
       ProtocolsAreFaithful DEF Out!Objects
  <2> QED
    BY <1>1, <2>1 DEF Out!Classes
<1>2. CASE c \notin DOMAIN Out!Objects
  BY <1>2, MasksAreFaithful DEF Out!Classes
<1> QED
  BY <1>1, <1>2

-----------------------------------------------------------------------------
(* Outbounds and documents *)

IsNode(f) ==
  f = [tag |-> f.tag, protocol |-> f.protocol, network |-> f.network,
       security |-> f.security, flow |-> f.flow, on |-> f.on, vals |-> f.vals,
       legacy |-> f.legacy]

IsPlaced(f) ==
  /\ f.protocol \in Out!Protocols
  /\ f.network \in Out!Networks \cup {"hysteria"}
  /\ f.security \in {"none", "tls", "reality"}

AreEdits(vals) == \A e \in vals : e = <<e[1], e[2], e[3]>>

IsRendered(f) == "mux" \in f.on => ~f.flow /\ f.network # "xhttp"

\* An outbound as the form has it.
IsOutbound(f) == IsNode(f) /\ IsPlaced(f) /\ AreEdits(f.vals)

Carried(f) == IF Out!canEnableStream(f) /\ f.network = "tcp" THEN {"httpHeader"} ELSE {}

\* Field k of the object c is written with the value v.
Writes(f, c, k, v) ==
  /\ c \in Out!Parts(f)
  /\ Out!IsWritten(Out!Classes[c], k, v)
  /\ <<c, k>> \notin Out!Left(f)
  /\ ~(c = "vless" /\ f.legacy = "readonly")

IsKeyOf(c, k, key) == Out!Classes[c].to[k] = key

\* The JSON of an outbound: what its objects write, and what an old VLESS node
\* keeps.
IsDocument(d) ==
  /\ IsNode(d) /\ IsPlaced(d) /\ IsRendered(d)
  /\ ~Out!canEnableStream(d) => d.network = "tcp" /\ d.security = "none"
  /\ d.on \subseteq Out!Parts(d) \cup Carried(d)
  /\ Out!LegacyJson(d) \subseteq d.vals
  /\ \A j \in d.vals \ Out!LegacyJson(d) :
       /\ j = <<j[1], j[2], j[3]>>
       /\ \E k : IsKeyOf(j[1], k, j[2]) /\ Writes(Out!FromDocument(d), j[1], k, j[3])

\* Only objects that have a class are written.
LEMMA PartsAreClasses ==
  ASSUME NEW f, IsPlaced(f)
  PROVE  Out!Parts(f) \subseteq DOMAIN Out!Classes
<1>1. /\ Out!Protocols \subseteq DOMAIN Out!Objects
      /\ (Out!Networks \cup {"hysteria"}) \ {"tcp"} \subseteq DOMAIN Out!Objects
      /\ {"request", "tls", "reality", "sockopt", "quicParams", "brutal", "udpHop", "peer",
          "freedomFragment", "freedomNoise", "finalRule", "dnsRule", "mux"}
           \subseteq DOMAIN Out!Objects
  BY DEF Out!Protocols, Out!Networks, Out!Objects
<1>2. DOMAIN Out!Classes = DOMAIN Out!Objects \cup Out!UdpMasks \cup Out!TcpMasks
  BY DEF Out!Classes, Out!UdpMasks, Out!TcpMasks
<1>3. Out!StreamParts(f) \subseteq DOMAIN Out!Classes
  BY <1>1, <1>2 DEF IsPlaced, Out!StreamParts
<1> QED
  BY <1>1, <1>2, <1>3 DEF IsPlaced, Out!Parts

LEMMA LegacyIsVless ==
  ASSUME NEW f, NEW j \in Out!LegacyJson(f)
  PROVE  j[1] = "vless"
  BY DEF Out!LegacyJson

\* What depends on a part of an outbound only.
LEMMA SameParts ==
  ASSUME NEW f, NEW g, g.protocol = f.protocol, g.on = f.on, g.network = f.network,
         g.security = f.security
  PROVE  /\ Out!Parts(g) = Out!Parts(f)
         /\ Carried(g) = Carried(f)
         /\ Out!canEnableStream(g) <=> Out!canEnableStream(f)
  BY DEF Out!Parts, Out!StreamParts, Out!canEnableStream, Carried

LEMMA SameLegacy ==
  ASSUME NEW f, NEW g, g.legacy = f.legacy
  PROVE  Out!LegacyJson(g) = Out!LegacyJson(f)
  BY DEF Out!LegacyJson

\* toJson, member by member.
LEMMA JsonFields ==
  ASSUME NEW f, IsNode(f)
  PROVE  LET d == Out!Json(f) IN
         /\ IsNode(d)
         /\ d.tag = f.tag /\ d.protocol = f.protocol /\ d.flow = f.flow /\ d.legacy = f.legacy
         /\ d.network  = IF Out!canEnableStream(f) THEN f.network ELSE "tcp"
         /\ d.security = IF Out!canEnableStream(f) THEN f.security ELSE "none"
         /\ d.on = f.on \cap (Out!Parts(f) \cup Carried(f))
<1> PICK vals : vals = Out!Json(f).vals
  OBVIOUS
<1> PICK on : on = f.on \cap (Out!Parts(f) \cup Carried(f))
  OBVIOUS
<1> PICK network : network = IF Out!canEnableStream(f) THEN f.network ELSE "tcp"
  OBVIOUS
<1> PICK security : security = IF Out!canEnableStream(f) THEN f.security ELSE "none"
  OBVIOUS
<1>1. Out!Json(f) = [f EXCEPT !.network = network, !.security = security,
                              !.on = on, !.vals = vals]
  <2>1. \E v : Out!Json(f) = [f EXCEPT !.network = network, !.security = security,
                                       !.on = on, !.vals = v]
    BY DEF Out!Json, Carried
  <2> QED
    BY <2>1 DEF IsNode
<1> QED
  BY <1>1 DEF IsNode

LEMMA JsonValues ==
  ASSUME NEW f, IsOutbound(f), NEW j
  PROVE  j \in Out!Json(f).vals <=>
           \/ j \in Out!LegacyJson(f)
           \/ \E e \in f.vals : /\ Writes(f, e[1], e[2], e[3])
                                /\ j = <<e[1], Out!Classes[e[1]].to[e[2]], e[3]>>
<1> DEFINE sent == {e \in f.vals : /\ <<e[1], e[2]>> \notin Out!Left(f)
                                   /\ ~(e[1] = "vless" /\ f.legacy = "readonly")}
           written == Out!ToJson(Out!Classes, Out!Parts(f), sent)
<1>1. Out!Json(f).vals = written \cup Out!LegacyJson(f)
  BY DEF Out!Json, IsOutbound, IsNode
<1>2. j \in written <=> \E e \in sent :
        /\ e[1] \in Out!Parts(f) /\ Out!IsWritten(Out!Classes[e[1]], e[2], e[3])
        /\ j = <<e[1], Out!Classes[e[1]].to[e[2]],
                 Out!Written(Out!Classes[e[1]], e[2], e[3])>>
  BY DEF Out!ToJson
<1>3. ASSUME NEW c \in Out!Parts(f), NEW k, NEW v
      PROVE  Out!Written(Out!Classes[c], k, v) = v
  BY PartsAreClasses, ClassesAreFaithful DEF IsOutbound, Faithful, Out!Written
<1> HIDE DEF written
<1>4. ASSUME j \in written
      PROVE  \E e \in f.vals : /\ Writes(f, e[1], e[2], e[3])
                              /\ j = <<e[1], Out!Classes[e[1]].to[e[2]], e[3]>>
  <2> PICK e \in sent :
        /\ e[1] \in Out!Parts(f) /\ Out!IsWritten(Out!Classes[e[1]], e[2], e[3])
        /\ j = <<e[1], Out!Classes[e[1]].to[e[2]],
                 Out!Written(Out!Classes[e[1]], e[2], e[3])>>
    BY <1>2, <1>4
  <2>1. Out!Written(Out!Classes[e[1]], e[2], e[3]) = e[3]
    BY <1>3
  <2>2. Writes(f, e[1], e[2], e[3]) /\ e \in f.vals
    BY DEF Writes
  <2> QED
    BY <2>1, <2>2
<1>5. ASSUME NEW e \in f.vals, Writes(f, e[1], e[2], e[3]),
             j = <<e[1], Out!Classes[e[1]].to[e[2]], e[3]>>
      PROVE  j \in written
  <2>1. e \in sent /\ e[1] \in Out!Parts(f) /\ Out!IsWritten(Out!Classes[e[1]], e[2], e[3])
    BY <1>5 DEF Writes
  <2>2. Out!Written(Out!Classes[e[1]], e[2], e[3]) = e[3]
    BY <1>3, <2>1
  <2> HIDE DEF sent
  <2> QED
    BY <1>2, <1>5, <2>1, <2>2
<1> QED
  BY <1>1, <1>4, <1>5

\* fromJson.
LEMMA ParsedFields ==
  ASSUME NEW d, IsNode(d)
  PROVE  LET f == Out!FromDocument(d) IN
         /\ IsNode(f) /\ f = [d EXCEPT !.vals = f.vals]
         /\ f.tag = d.tag /\ f.protocol = d.protocol /\ f.flow = d.flow
         /\ f.network = d.network /\ f.security = d.security /\ f.on = d.on
         /\ f.legacy = d.legacy /\ f.vals = Out!FromJson(Out!Classes, d.vals)
<1> PICK vals : vals = Out!FromJson(Out!Classes, d.vals)
  OBVIOUS
<1>1. Out!FromDocument(d) = [d EXCEPT !.vals = vals]
  BY DEF Out!FromDocument
<1> QED
  BY <1>1 DEF IsNode

LEMMA ParsedValues ==
  ASSUME NEW d, IsNode(d), NEW e
  PROVE  e \in Out!FromDocument(d).vals <=>
           \E j \in d.vals : \E k \in DOMAIN Out!Classes[j[1]].from :
             /\ Out!Classes[j[1]].from[k] = j[2]
             /\ Out!IsRead(Out!Classes[j[1]], k, j[3])
             /\ e = <<j[1], k, j[3]>>
<1>1. Out!FromDocument(d).vals = Out!FromJson(Out!Classes, d.vals)
  BY ParsedFields
<1> QED
  BY <1>1 DEF Out!FromJson

LEMMA ParsedAreEdits ==
  ASSUME NEW d, IsNode(d)
  PROVE  AreEdits(Out!FromDocument(d).vals)
  BY ParsedValues DEF AreEdits

-----------------------------------------------------------------------------
\* An outbound that is written and read again.

LEMMA LeftFields ==
  ASSUME NEW f, NEW c, NEW k
  PROVE  <<c, k>> \in Out!Left(f) <=>
           \/ ~f.flow /\ c = "vless" /\ k \in {"testpre", "testseed"}
           \/ c = "socks" /\ k = "pass" /\ <<"socks", "user", "set">> \notin f.vals
           \/ c = "http" /\ k = "pass" /\ <<"http", "user", "set">> \notin f.vals
           \/ /\ c = "hysteria" /\ k \in {"udphopIntervalMin", "udphopIntervalMax"}
              /\ <<"hysteria", "udphopPort", "set">> \notin f.vals
           \/ c = "finalRule" /\ k = "blockDelay" /\ <<"finalRule", "action", "set">> \in f.vals
<1> DEFINE together == {<<"socks", "pass", "user">>, <<"http", "pass", "user">>,
                        <<"hysteria", "udphopIntervalMin", "udphopPort">>,
                        <<"hysteria", "udphopIntervalMax", "udphopPort">>}
           alone == {t \in together : <<t[1], t[3], "set">> \notin f.vals}
           flowing == {<<"vless", n>> : n \in IF f.flow THEN {} ELSE {"testpre", "testseed"}}
<1>1. <<c, k>> \in {<<t[1], t[2]>> : t \in alone} <=>
           \/ c = "socks" /\ k = "pass" /\ <<"socks", "user", "set">> \notin f.vals
           \/ c = "http" /\ k = "pass" /\ <<"http", "user", "set">> \notin f.vals
           \/ /\ c = "hysteria" /\ k \in {"udphopIntervalMin", "udphopIntervalMax"}
              /\ <<"hysteria", "udphopPort", "set">> \notin f.vals
  <2>1. <<c, k>> \in {<<t[1], t[2]>> : t \in alone} <=>
          \E t \in together : <<t[1], t[3], "set">> \notin f.vals /\ t[1] = c /\ t[2] = k
    <3> HIDE DEF together
    <3> QED
      OBVIOUS
  <2> QED
    BY <2>1
<1>2. <<c, k>> \in flowing <=> ~f.flow /\ c = "vless" /\ k \in {"testpre", "testseed"}
  OBVIOUS
<1>3. Out!Left(f) = flowing \cup {<<t[1], t[2]>> : t \in alone} \cup
                    (IF <<"finalRule", "action", "set">> \in f.vals
                     THEN {<<"finalRule", "blockDelay">>} ELSE {})
  BY DEF Out!Left
<1> HIDE DEF alone, flowing
<1> QED
  BY <1>1, <1>2, <1>3

LEMMA TogetherFields ==
  /\ "user" \in DOMAIN Out!Classes["socks"].to /\ "socks" \in DOMAIN Out!Classes
  /\ "user" \in DOMAIN Out!Classes["http"].to /\ "http" \in DOMAIN Out!Classes
  /\ "udphopPort" \in DOMAIN Out!Classes["hysteria"].to /\ "hysteria" \in DOMAIN Out!Classes
<1>1. ASSUME NEW c \in {"socks", "http", "hysteria"}
      PROVE  c \in DOMAIN Out!Classes /\ Out!Classes[c] = Out!Objects[c]
  <2>1. c \in DOMAIN Out!Objects
    BY DEF Out!Objects
  <2> QED
    BY <2>1 DEF Out!Classes
<1>2. /\ Out!Objects["socks"] = Out!SocksSettings /\ Out!Objects["http"] = Out!HttpSettings
      /\ Out!Objects["hysteria"] = Out!HysteriaStreamSettings
  BY DEF Out!Objects
<1>3. "user" \in DOMAIN Out!SocksSettings.to /\ "user" \in DOMAIN Out!HttpSettings.to
  BY DEF Out!SocksSettings, Out!HttpSettings, Out!Fields, Out!Same
<1>4. "udphopPort" \in DOMAIN Out!HysteriaStreamSettings.to
  BY DEF Out!HysteriaStreamSettings, Out!Fields, Out!Same
<1> QED
  BY <1>1, <1>2, <1>3, <1>4

\* Without a stream, tcp and none are read back; nothing of the parts is lost.
LEMMA JsonParts ==
  ASSUME NEW f, IsOutbound(f)
  PROVE  LET d == Out!Json(f) IN
         /\ Out!Parts(d) = Out!Parts(f) /\ Carried(d) = Carried(f)
         /\ Out!canEnableStream(d) <=> Out!canEnableStream(f)
<1> PICK d : d = Out!Json(f)
  OBVIOUS
<1>1. /\ d.protocol = f.protocol
      /\ Out!canEnableStream(f) => d.network = f.network /\ d.security = f.security
      /\ d.on = f.on \cap (Out!Parts(f) \cup Carried(f))
  BY JsonFields DEF IsOutbound
<1>2. Out!canEnableStream(d) <=> Out!canEnableStream(f)
  BY <1>1 DEF Out!canEnableStream
<1>3. Carried(d) = Carried(f)
  BY <1>1, <1>2 DEF Carried
<1>4. Out!Parts(d) = Out!Parts(f)
  <2>1. CASE Out!canEnableStream(f)
    <3>1. f.network = "tcp" => ("httpHeader" \in d.on <=> "httpHeader" \in f.on)
      BY <1>1, <2>1 DEF Carried
    <3>2. Out!StreamParts(f) \subseteq Out!Parts(f)
      BY <2>1 DEF Out!Parts
    <3>3. d.on \cap (Out!TcpMasks \cup Out!UdpMasks \cup {"sockopt"}) =
          f.on \cap (Out!TcpMasks \cup Out!UdpMasks \cup {"sockopt"})
      BY <1>1, <3>2 DEF Out!StreamParts
    <3>4. "quicParams" \in d.on <=> "quicParams" \in f.on
      BY <1>1, <3>2 DEF Out!StreamParts
    <3>5. "quicParams" \in f.on => d.on \cap {"quicParams", "brutal", "udpHop"} =
                                   f.on \cap {"quicParams", "brutal", "udpHop"}
      BY <1>1, <3>2 DEF Out!StreamParts
    <3>6. Out!StreamParts(d) = Out!StreamParts(f)
      BY <1>1, <2>1, <3>1, <3>3, <3>4, <3>5 DEF Out!StreamParts
    <3>7. d.on \cap {"freedomFragment", "freedomNoise", "finalRule", "dnsRule", "mux"} =
          f.on \cap {"freedomFragment", "freedomNoise", "finalRule", "dnsRule", "mux"}
      BY <1>1 DEF Out!Parts
    <3> QED
      BY <1>1, <1>2, <2>1, <3>6, <3>7 DEF Out!Parts
  <2>2. CASE ~Out!canEnableStream(f)
    <3>1. d.on \cap {"sockopt"} = f.on \cap {"sockopt"}
      BY <1>1, <2>2 DEF Out!Parts
    <3>2. d.on \cap {"freedomFragment", "freedomNoise", "finalRule", "dnsRule", "mux"} =
          f.on \cap {"freedomFragment", "freedomNoise", "finalRule", "dnsRule", "mux"}
      BY <1>1 DEF Out!Parts
    <3> QED
      BY <1>1, <1>2, <2>2, <3>1, <3>2 DEF Out!Parts
  <2> QED
    BY <2>1, <2>2
<1> QED
  BY <1>2, <1>3, <1>4

\* What is written as it was typed is read as it was typed.
LEMMA WrittenIsRead ==
  ASSUME NEW f, IsOutbound(f), NEW e \in f.vals, Writes(f, e[1], e[2], e[3]),
         e[3] # "cleared", e[2] # "customTables"
  PROVE  e \in Out!FromDocument(Out!Json(f)).vals
<1> PICK d : d = Out!Json(f)
  OBVIOUS
<1> DEFINE class == Out!Classes[e[1]]
           j == <<e[1], class.to[e[2]], e[3]>>
<1>1. j \in d.vals
  BY JsonValues
<1>2. IsNode(d) /\ e = <<e[1], e[2], e[3]>>
  BY JsonFields DEF IsOutbound, AreEdits
<1>3. Faithful(class) /\ e[2] \in DOMAIN class.to
  BY PartsAreClasses, ClassesAreFaithful DEF Writes, IsOutbound, Out!IsWritten, Out!FieldsOf
<1>4. e[2] \in DOMAIN class.from /\ class.from[e[2]] = class.to[e[2]]
      /\ Out!IsRead(class, e[2], e[3])
  BY <1>3 DEF Faithful, Out!IsRead
<1> QED
  BY <1>1, <1>2, <1>4, ParsedValues

LEMMA ReadWasWritten ==
  ASSUME NEW f, IsOutbound(f), NEW e \in Out!FromDocument(Out!Json(f)).vals, e[1] # "vless"
  PROVE  e \in f.vals
<1> PICK d : d = Out!Json(f)
  OBVIOUS
<1>1. IsNode(d)
  BY JsonFields DEF IsOutbound
<1>2. PICK j \in d.vals : \E n \in DOMAIN Out!Classes[j[1]].from :
        Out!Classes[j[1]].from[n] = j[2] /\ e = <<j[1], n, j[3]>>
  BY <1>1, ParsedValues
<1> PICK k \in DOMAIN Out!Classes[j[1]].from :
       Out!Classes[j[1]].from[k] = j[2] /\ e = <<j[1], k, j[3]>>
  BY <1>2
<1>3. j \notin Out!LegacyJson(f)
  BY LegacyIsVless
<1>4. PICK g \in f.vals : /\ Writes(f, g[1], g[2], g[3])
                          /\ j = <<g[1], Out!Classes[g[1]].to[g[2]], g[3]>>
  BY <1>3, JsonValues
<1>5. Faithful(Out!Classes[g[1]]) /\ g[2] \in DOMAIN Out!Classes[g[1]].to
  BY <1>4, PartsAreClasses, ClassesAreFaithful
  DEF Writes, IsOutbound, Out!IsWritten, Out!FieldsOf
<1>6. k = g[2]
  BY <1>4, <1>5 DEF Faithful, Injective
<1>7. g = <<g[1], g[2], g[3]>>
  BY DEF IsOutbound, AreEdits
<1> QED
  BY <1>4, <1>6, <1>7

\* A field that is written together with another one still is.
LEMMA WritesAgain ==
  ASSUME NEW f, IsOutbound(f), NEW c, NEW k, NEW v, Writes(f, c, k, v)
  PROVE  Writes(Out!FromDocument(Out!Json(f)), c, k, v)
<1> PICK d : d = Out!Json(f)
  OBVIOUS
<1> PICK g : g = Out!FromDocument(d)
  OBVIOUS
<1>1. IsNode(d) /\ d.flow = f.flow /\ d.legacy = f.legacy
  BY JsonFields DEF IsOutbound
<1>2. /\ g.protocol = d.protocol /\ g.on = d.on /\ g.network = d.network
      /\ g.security = d.security /\ g.legacy = d.legacy /\ g.flow = d.flow
  BY <1>1, ParsedFields
<1>3. Out!Parts(g) = Out!Parts(f)
  BY <1>2, SameParts, JsonParts
<1>4. ASSUME NEW field, <<c, field, "set">> \in f.vals,
             field \in DOMAIN Out!Classes[c].to, <<c, field>> \notin Out!Left(f),
             field # "customTables", c # "vless"
      PROVE  <<c, field, "set">> \in g.vals
  <2> DEFINE e == <<c, field, "set">>
  <2>1. e \in f.vals /\ e[1] = c /\ e[2] = field /\ e[3] = "set"
    BY <1>4
  <2>2. Writes(f, c, field, "set")
    BY <1>4 DEF Writes, Out!IsWritten, Out!FieldsOf
  <2> HIDE DEF e
  <2> QED
    BY <1>4, <2>1, <2>2, WrittenIsRead DEF e
<1>5. CASE c \in {"socks", "http"} /\ k = "pass"
  <2>1. <<c, "user", "set">> \in f.vals /\ <<c, "user">> \notin Out!Left(f)
    BY <1>5, LeftFields DEF Writes
  <2>2. <<c, "user", "set">> \in g.vals
    BY <1>4, <1>5, <2>1, TogetherFields
  <2> QED
    BY <1>2, <1>3, <1>5, <2>2, LeftFields DEF Writes
<1>6. CASE c = "hysteria" /\ k \in {"udphopIntervalMin", "udphopIntervalMax"}
  <2>1. <<c, "udphopPort", "set">> \in f.vals /\ <<c, "udphopPort">> \notin Out!Left(f)
    BY <1>6, LeftFields DEF Writes
  <2>2. <<c, "udphopPort", "set">> \in g.vals
    BY <1>4, <1>6, <2>1, TogetherFields
  <2> QED
    BY <1>2, <1>3, <1>6, <2>2, LeftFields DEF Writes
<1>7. CASE c = "finalRule" /\ k = "blockDelay"
  <2>1. <<"finalRule", "action", "set">> \notin f.vals
    BY <1>7, LeftFields DEF Writes
  <2>2. <<"finalRule", "action", "set">> \notin g.vals
    BY <2>1, ReadWasWritten
  <2> QED
    BY <1>2, <1>3, <1>7, <2>2, LeftFields DEF Writes
<1>8. CASE c = "vless"
  BY <1>1, <1>2, <1>3, <1>8, LeftFields DEF Writes
<1>9. CASE /\ ~(c \in {"socks", "http"} /\ k = "pass")
           /\ ~(c = "hysteria" /\ k \in {"udphopIntervalMin", "udphopIntervalMax"})
           /\ ~(c = "finalRule" /\ k = "blockDelay") /\ c # "vless"
  BY <1>3, <1>9, LeftFields DEF Writes
<1> QED
  BY <1>5, <1>6, <1>7, <1>8, <1>9

\* What the form writes is a document.
LEMMA JsonIsDocument ==
  ASSUME NEW f, IsOutbound(f), IsRendered(f)
  PROVE  IsDocument(Out!Json(f))
<1> PICK d : d = Out!Json(f)
  OBVIOUS
<1>1. /\ IsNode(d) /\ d.protocol = f.protocol /\ d.flow = f.flow /\ d.legacy = f.legacy
      /\ d.network  = IF Out!canEnableStream(f) THEN f.network ELSE "tcp"
      /\ d.security = IF Out!canEnableStream(f) THEN f.security ELSE "none"
      /\ d.on = f.on \cap (Out!Parts(f) \cup Carried(f))
  BY JsonFields DEF IsOutbound
<1>2. /\ Out!Parts(d) = Out!Parts(f) /\ Carried(d) = Carried(f)
      /\ Out!canEnableStream(d) <=> Out!canEnableStream(f)
  BY JsonParts
<1>3. IsPlaced(d)
  BY <1>1 DEF IsOutbound, IsPlaced, Out!Networks
<1>4. IsRendered(d)
  BY <1>1 DEF IsRendered
<1>5. Out!LegacyJson(d) = Out!LegacyJson(f)
  BY <1>1, SameLegacy
<1>6. Out!LegacyJson(d) \subseteq d.vals
  BY <1>5, JsonValues
<1>7. ASSUME NEW j \in d.vals \ Out!LegacyJson(d)
      PROVE  /\ j = <<j[1], j[2], j[3]>>
             /\ \E k : IsKeyOf(j[1], k, j[2]) /\ Writes(Out!FromDocument(d), j[1], k, j[3])
  <2> PICK e \in f.vals : /\ Writes(f, e[1], e[2], e[3])
                          /\ j = <<e[1], Out!Classes[e[1]].to[e[2]], e[3]>>
    BY <1>5, JsonValues
  <2>1. Writes(Out!FromDocument(d), e[1], e[2], e[3])
    BY WritesAgain
  <2> QED
    BY <2>1 DEF IsKeyOf
<1> QED
  BY <1>1, <1>2, <1>3, <1>4, <1>6, <1>7 DEF IsDocument

\* Reading a document and writing it again.
Again(d) == Out!Json(Out!Rendered(Out!FromDocument(d)))

LEMMA DocumentIsParsed ==
  ASSUME NEW d, IsDocument(d)
  PROVE  LET f == Out!FromDocument(d) IN
         /\ IsOutbound(f) /\ IsRendered(f) /\ f.tag = d.tag
         /\ Out!Rendered(f) = f
<1> PICK f : f = Out!FromDocument(d)
  OBVIOUS
<1>1. /\ IsNode(f) /\ f.tag = d.tag /\ f.protocol = d.protocol /\ f.flow = d.flow
      /\ f.network = d.network /\ f.security = d.security /\ f.on = d.on
  BY ParsedFields DEF IsDocument
<1>2. IsOutbound(f)
  BY <1>1, ParsedAreEdits DEF IsDocument, IsOutbound, IsPlaced
<1>3. IsRendered(f)
  BY <1>1 DEF IsDocument, IsRendered
<1>4. Out!Rendered(f) = [f EXCEPT !.on = f.on]
  BY <1>1, <1>3 DEF IsNode, IsRendered, Out!Rendered
<1> QED
  BY <1>1, <1>2, <1>3, <1>4 DEF IsNode

LEMMA DocumentSurvives ==
  ASSUME NEW d, IsDocument(d)
  PROVE  /\ Remembered(d.vals) \subseteq Again(d).vals
         /\ Again(d).vals \subseteq d.vals
         /\ [Again(d) EXCEPT !.vals = {}] = [d EXCEPT !.vals = {}]
<1> PICK f : f = Out!FromDocument(d)
  OBVIOUS
<1> PICK a : a = Out!Json(f)
  OBVIOUS
<1>1. IsOutbound(f) /\ Again(d) = a
  BY DocumentIsParsed DEF Again
<1>2. /\ IsNode(f) /\ f.tag = d.tag /\ f.protocol = d.protocol /\ f.flow = d.flow
      /\ f.network = d.network /\ f.security = d.security /\ f.on = d.on
      /\ f.legacy = d.legacy
  BY ParsedFields DEF IsDocument
<1>3. /\ Out!Parts(f) = Out!Parts(d) /\ Carried(f) = Carried(d)
      /\ Out!canEnableStream(f) <=> Out!canEnableStream(d)
  BY <1>2, SameParts
<1>4. Out!LegacyJson(f) = Out!LegacyJson(d)
  BY <1>2, SameLegacy
<1>5. [a EXCEPT !.vals = {}] = [d EXCEPT !.vals = {}]
  <2>1. /\ IsNode(a)
        /\ a.tag = d.tag /\ a.protocol = d.protocol /\ a.flow = d.flow /\ a.legacy = d.legacy
        /\ a.network = d.network /\ a.security = d.security /\ a.on = d.on
    BY <1>2, <1>3, JsonFields DEF IsDocument
  <2>2. IsNode(d)
    BY DEF IsDocument
  <2> QED
    BY <2>1, <2>2 DEF IsNode
<1>6. ASSUME NEW j \in Remembered(d.vals)
      PROVE  j \in a.vals
  <2>1. CASE j \in Out!LegacyJson(d)
    BY <1>1, <1>4, <2>1, JsonValues
  <2>2. CASE j \notin Out!LegacyJson(d)
    <3>1. j \in d.vals /\ ~Forgotten(j)
      BY DEF Remembered
    <3>2. j = <<j[1], j[2], j[3]>>
      BY <2>2, <3>1 DEF IsDocument
    <3>3. PICK k : IsKeyOf(j[1], k, j[2]) /\ Writes(f, j[1], k, j[3])
      BY <2>2, <3>1 DEF IsDocument
    <3> DEFINE class == Out!Classes[j[1]]
    <3>4. Faithful(class) /\ k \in DOMAIN class.to
      BY <1>1, <3>3, PartsAreClasses, ClassesAreFaithful
      DEF Writes, IsOutbound, Out!IsWritten, Out!FieldsOf
    <3>5. k \in DOMAIN class.from /\ class.from[k] = j[2] /\ Out!IsRead(class, k, j[3])
      BY <3>1, <3>3, <3>4 DEF Faithful, IsKeyOf, Forgotten, Out!IsRead
    <3>6. <<j[1], k, j[3]>> \in f.vals
      <4> HIDE DEF class
      <4>1. IsNode(d)
        BY DEF IsDocument
      <4> QED
        BY <3>1, <3>5, <4>1, ParsedValues DEF class
    <3> DEFINE e == <<j[1], k, j[3]>>
    <3>7. e \in f.vals /\ Writes(f, e[1], e[2], e[3])
          /\ j = <<e[1], Out!Classes[e[1]].to[e[2]], e[3]>>
      BY <3>2, <3>3, <3>6 DEF IsKeyOf
    <3> QED
      BY <1>1, <3>7, JsonValues
  <2> QED
    BY <2>1, <2>2
<1>7. ASSUME NEW j \in a.vals
      PROVE  j \in d.vals
  <2>1. CASE j \in Out!LegacyJson(d)
    BY <2>1 DEF IsDocument
  <2>2. CASE j \notin Out!LegacyJson(d)
    <3> PICK e \in f.vals : /\ Writes(f, e[1], e[2], e[3])
                            /\ j = <<e[1], Out!Classes[e[1]].to[e[2]], e[3]>>
      BY <1>1, <1>4, <2>2, JsonValues
    <3> PICK i \in d.vals : \E k \in DOMAIN Out!Classes[i[1]].from :
          /\ Out!Classes[i[1]].from[k] = i[2]
          /\ e = <<i[1], k, i[3]>>
      BY ParsedValues DEF IsDocument
    <3>1. /\ e[1] = i[1] /\ e[3] = i[3]
          /\ Out!Classes[e[1]].from[e[2]] = i[2]
      OBVIOUS
    <3>2. Faithful(Out!Classes[e[1]])
      BY <1>1, PartsAreClasses, ClassesAreFaithful DEF Writes, IsOutbound
    <3>3. j = <<i[1], i[2], i[3]>>
      BY <3>1, <3>2 DEF Faithful
    <3>4. i = <<i[1], i[2], i[3]>>
      <4>1. CASE i \in Out!LegacyJson(d)
        BY <4>1 DEF Out!LegacyJson
      <4>2. CASE i \notin Out!LegacyJson(d)
        BY <4>2 DEF IsDocument
      <4> QED
        BY <4>1, <4>2
    <3> QED
      BY <3>3, <3>4
  <2> QED
    BY <2>1, <2>2
<1> QED
  BY <1>1, <1>5, <1>6, <1>7

\* Another tag is typed into a document.
LEMMA TaggedDocument ==
  ASSUME NEW d, NEW t, IsDocument(d)
  PROVE  IsDocument([d EXCEPT !.tag = t])
<1> PICK g : g = [d EXCEPT !.tag = t]
  OBVIOUS
<1>1. IsNode(d)
  BY DEF IsDocument
<1>2. /\ IsNode(g) /\ g.protocol = d.protocol /\ g.flow = d.flow /\ g.legacy = d.legacy
      /\ g.network = d.network /\ g.security = d.security /\ g.on = d.on /\ g.vals = d.vals
  BY <1>1 DEF IsNode
<1>3. /\ Out!Parts(g) = Out!Parts(d) /\ Carried(g) = Carried(d)
      /\ Out!canEnableStream(g) <=> Out!canEnableStream(d)
      /\ Out!LegacyJson(g) = Out!LegacyJson(d)
  BY <1>2, SameParts, SameLegacy
<1> PICK f : f = Out!FromDocument(d)
  OBVIOUS
<1> PICK h : h = Out!FromDocument(g)
  OBVIOUS
<1>4. /\ h.protocol = f.protocol /\ h.flow = f.flow /\ h.legacy = f.legacy
      /\ h.network = f.network /\ h.security = f.security /\ h.on = f.on /\ h.vals = f.vals
  <2>1. /\ f.protocol = d.protocol /\ f.flow = d.flow /\ f.legacy = d.legacy
        /\ f.network = d.network /\ f.security = d.security /\ f.on = d.on
        /\ f.vals = Out!FromJson(Out!Classes, d.vals)
    BY <1>1, ParsedFields
  <2>2. /\ h.protocol = g.protocol /\ h.flow = g.flow /\ h.legacy = g.legacy
        /\ h.network = g.network /\ h.security = g.security /\ h.on = g.on
        /\ h.vals = Out!FromJson(Out!Classes, g.vals)
    BY <1>2, ParsedFields
  <2> QED
    BY <1>2, <2>1, <2>2
<1>5. Out!Parts(h) = Out!Parts(f)
  BY <1>4, SameParts
<1>6. ASSUME NEW c, NEW k, NEW v, Writes(f, c, k, v)
      PROVE  Writes(h, c, k, v)
  BY <1>4, <1>5, <1>6, LeftFields DEF Writes
<1>7. ASSUME NEW j \in g.vals \ Out!LegacyJson(g)
      PROVE  /\ j = <<j[1], j[2], j[3]>>
             /\ \E k : IsKeyOf(j[1], k, j[2]) /\ Writes(h, j[1], k, j[3])
  BY <1>2, <1>3, <1>6 DEF IsDocument
<1>8. IsPlaced(g) /\ IsRendered(g)
  BY <1>2 DEF IsDocument, IsPlaced, IsRendered
<1>9. /\ ~Out!canEnableStream(g) => g.network = "tcp" /\ g.security = "none"
      /\ g.on \subseteq Out!Parts(g) \cup Carried(g)
      /\ Out!LegacyJson(g) \subseteq g.vals
  BY <1>2, <1>3 DEF IsDocument
<1>10. IsDocument(g)
  BY <1>2, <1>7, <1>8, <1>9 DEF IsDocument
<1> QED
  BY <1>10

-----------------------------------------------------------------------------
(* What makes and changes an outbound leaves one. *)

\* Every edit is one of a field of a class, and of an object that is there.
IsRooted(f) ==
  \A e \in f.vals : IsEditOf(Out!Classes, e) /\ (e[1] \in Optional => e[1] \in f.on)

IsProper(f) == IsOutbound(f) /\ IsRooted(f)

LEMMA OptionalObjects ==
  Optional = Out!TcpMasks \cup Out!UdpMasks \cup
             {"sockopt", "externalProxy", "quicParams", "udpHop", "masquerade",
              "freedomFragment", "freedomNoise", "finalRule", "dnsRule"}
<1>1. In!TcpMasks = Out!TcpMasks
  BY DEF In!TcpMasks, Out!TcpMasks, In!TcpMask, Out!TcpMask
<1>2. In!UdpMasks = Out!UdpMasks
  BY DEF In!UdpMasks, Out!UdpMasks, In!UdpMask, Out!UdpMask
<1> QED
  BY <1>1, <1>2 DEF Optional

LEMMA MaskNames ==
  /\ Out!TcpMasks = {"fragment", "sudoku", "tcpHeader"}
  /\ Out!UdpMasks = {"salamander", "aes128gcm", "headerDns", "xdns", "xicmp", "udpHeader",
                     "noise", "mkcpOriginal"}
  BY DEF Out!TcpMasks, Out!UdpMasks, Out!TcpMask, Out!UdpMask

\* An optional object is written only when it is switched on.
LEMMA OptionalParts ==
  ASSUME NEW f, IsPlaced(f), NEW c \in Out!Parts(f), c \in Optional
  PROVE  c \in f.on
<1>1. c \notin Out!Protocols \cup Out!Networks \cup
               {"hysteria", "request", "tls", "reality", "peer", "none"}
  BY OptionalObjects, MaskNames DEF Out!Protocols, Out!Networks
<1>2. CASE c \in Out!StreamParts(f)
  BY <1>1, <1>2 DEF IsPlaced, Out!StreamParts
<1>3. CASE c \notin Out!StreamParts(f)
  BY <1>1, <1>3 DEF IsPlaced, Out!Parts
<1> QED
  BY <1>2, <1>3

\* Edits that are added or taken away.
LEMMA SameObjects ==
  ASSUME NEW f, NEW g, IsProper(f), IsNode(g), IsPlaced(g), g.on = f.on, AreEdits(g.vals),
         \A e \in g.vals \ f.vals : /\ IsEditOf(Out!Classes, e)
                                    /\ e[1] \in Optional => e[1] \in f.on
  PROVE  IsProper(g)
  BY DEF IsProper, IsOutbound, IsRooted

LEMMA NewOutbound ==
  ASSUME NEW p \in Out!Protocols
  PROVE  /\ IsProper(Out!NewForm(p)) /\ IsRendered(Out!NewForm(p))
         /\ IsNode(Out!NewForm(p)) /\ Out!NewForm(p).protocol = p
  BY DEF IsProper, IsOutbound, IsPlaced, IsRooted, IsRendered, IsNode, AreEdits, Out!NewForm,
         Out!Networks

LEMMA RenderedOutbound ==
  ASSUME NEW f, IsProper(f)
  PROVE  IsProper(Out!Rendered(f)) /\ IsRendered(Out!Rendered(f))
<1> PICK on : on = IF ~f.flow /\ f.network # "xhttp" THEN f.on ELSE f.on \ {"mux"}
  OBVIOUS
<1> PICK g : g = [f EXCEPT !.on = on]
  OBVIOUS
<1>1. Out!Rendered(f) = g
  BY DEF Out!Rendered
<1>2. IsNode(f)
  BY DEF IsProper, IsOutbound
<1>3. /\ IsNode(g) /\ g.protocol = f.protocol /\ g.network = f.network
      /\ g.security = f.security /\ g.flow = f.flow /\ g.vals = f.vals /\ g.on = on
  BY <1>2 DEF IsNode
<1>4. IsOutbound(g)
  BY <1>3 DEF IsProper, IsOutbound, IsPlaced
<1>5. "mux" \notin Optional
  BY OptionalObjects, MaskNames
<1>6. IsRooted(g)
  BY <1>3, <1>5 DEF IsProper, IsRooted
<1>7. IsRendered(g)
  BY <1>3 DEF IsRendered
<1> QED
  BY <1>1, <1>4, <1>6, <1>7 DEF IsProper

LEMMA ParsedOutbound ==
  ASSUME NEW d, IsDocument(d)
  PROVE  /\ IsProper(Out!FromDocument(d)) /\ IsRendered(Out!FromDocument(d))
         /\ Out!Rendered(Out!FromDocument(d)) = Out!FromDocument(d)
<1> PICK f : f = Out!FromDocument(d)
  OBVIOUS
<1>1. IsOutbound(f) /\ IsRendered(f) /\ Out!Rendered(f) = f
  BY DocumentIsParsed
<1>2. IsNode(d) /\ f.on = d.on /\ f.protocol = d.protocol /\ f.network = d.network
      /\ f.security = d.security
  BY ParsedFields DEF IsDocument
<1>3. ASSUME NEW e \in f.vals
      PROVE  IsEditOf(Out!Classes, e) /\ (e[1] \in Optional => e[1] \in f.on)
  <2> PICK j \in d.vals : \E k \in DOMAIN Out!Classes[j[1]].from : e = <<j[1], k, j[3]>>
    BY <1>2, ParsedValues
  <2> PICK k \in DOMAIN Out!Classes[j[1]].from : e = <<j[1], k, j[3]>>
    OBVIOUS
  <2>1. j[1] \in DOMAIN Out!Classes => IsEditOf(Out!Classes, e)
    BY ClassesAreFaithful DEF IsEditOf, Faithful
  <2>2. CASE j \in Out!LegacyJson(d)
    <3>1. j[1] = "vless"
      BY <2>2, LegacyIsVless
    <3>2. "vless" \in DOMAIN Out!Classes
      BY DEF Out!Classes, Out!Objects
    <3>3. "vless" \notin Optional
      BY OptionalObjects, MaskNames
    <3> QED
      BY <2>1, <3>1, <3>2, <3>3
  <2>3. CASE j \notin Out!LegacyJson(d)
    <3>1. j[1] \in Out!Parts(f)
      BY <2>3 DEF IsDocument, Writes
    <3> QED
      BY <1>1, <2>1, <3>1, PartsAreClasses, OptionalParts DEF IsOutbound
  <2> QED
    BY <2>2, <2>3
<1> QED
  BY <1>1, <1>3 DEF IsProper, IsRooted

LEMMA WithProtocolIsProper ==
  ASSUME NEW f, IsProper(f), NEW p \in Out!Protocols
  PROVE  IsProper(Out!WithProtocol(f, p))
<1> PICK vals : vals = {e \in f.vals : e[1] = "mux"}
  OBVIOUS
<1> PICK new : new = Out!NewForm(p)
  OBVIOUS
<1> PICK on : on = f.on \cap {"mux"}
  OBVIOUS
<1> PICK g : g = [new EXCEPT !.tag = f.tag, !.on = on, !.vals = vals]
  OBVIOUS
<1>1. Out!WithProtocol(f, p) = Out!Rendered(g)
  BY DEF Out!WithProtocol
<1>2. IsNode(new) /\ IsPlaced(new)
  BY NewOutbound DEF IsProper, IsOutbound
<1>3. /\ IsNode(g) /\ g.vals = vals /\ g.protocol = new.protocol
      /\ g.network = new.network /\ g.security = new.security
  BY <1>2 DEF IsNode
<1>4. IsOutbound(g)
  BY <1>2, <1>3 DEF IsProper, IsOutbound, IsPlaced, AreEdits
<1>5. "mux" \notin Optional
  BY OptionalObjects, MaskNames
<1>6. IsRooted(g)
  BY <1>3, <1>5 DEF IsProper, IsRooted
<1> QED
  BY <1>1, <1>4, <1>6, RenderedOutbound DEF IsProper

\* The tag, the transport, the security and the flow are chosen.
LEMMA ChosenIsProper ==
  ASSUME NEW f, IsProper(f), NEW g, IsNode(g), g.protocol = f.protocol,
         g.network \in Out!Networks \cup {"hysteria"},
         g.security \in {"none", "tls", "reality"}, g.on = f.on, g.vals = f.vals
  PROVE  IsProper(g)
  BY DEF IsProper, IsOutbound, IsPlaced, IsRooted

LEMMA EndpointsAreEdits ==
  ASSUME NEW p
  PROVE  AreEdits(Out!Endpoint(p))
  BY DEF AreEdits, Out!Endpoint

\* The fields that name the server belong to classes.
LEMMA EndpointsAreRooted ==
  ASSUME NEW p, NEW e \in Out!Endpoint(p)
  PROVE  IsEditOf(Out!Classes, e) /\ e[1] \notin Optional
<1> DEFINE servers == {"dns", "vmess", "vless", "trojan", "shadowsocks", "socks", "http",
                       "hysteria2"}
<1>1. \/ e[1] \in servers /\ e[2] \in {"address", "port"}
      \/ e[1] \in {"vmess", "vless"} /\ e[2] = "id"
      \/ e[1] \in {"trojan", "shadowsocks"} /\ e[2] = "password"
      \/ e[1] = "hysteria" /\ e[2] = "auth"
  BY DEF Out!Endpoint
<1>2. ASSUME NEW c \in servers \cup {"hysteria"}
      PROVE  c \in DOMAIN Out!Classes /\ Out!Classes[c] = Out!Objects[c]
  <2>1. c \in DOMAIN Out!Objects
    BY DEF Out!Objects
  <2> QED
    BY <2>1 DEF Out!Classes
<1>3. /\ Out!Objects["dns"] = Out!DNSSettings /\ Out!Objects["vmess"] = Out!VmessSettings
      /\ Out!Objects["vless"] = Out!VLESSSettings /\ Out!Objects["trojan"] = Out!TrojanSettings
      /\ Out!Objects["shadowsocks"] = Out!ShadowsocksSettings
      /\ Out!Objects["socks"] = Out!SocksSettings /\ Out!Objects["http"] = Out!HttpSettings
      /\ Out!Objects["hysteria2"] = Out!HysteriaSettings
      /\ Out!Objects["hysteria"] = Out!HysteriaStreamSettings
  BY DEF Out!Objects
<1>4. /\ {"address", "port"} \subseteq DOMAIN Out!DNSSettings.to
      /\ {"address", "port", "id"} \subseteq DOMAIN Out!VmessSettings.to
      /\ {"address", "port", "id"} \subseteq DOMAIN Out!VLESSSettings.to
      /\ {"address", "port", "password"} \subseteq DOMAIN Out!TrojanSettings.to
      /\ {"address", "port", "password"} \subseteq DOMAIN Out!ShadowsocksSettings.to
      /\ {"address", "port"} \subseteq DOMAIN Out!SocksSettings.to
      /\ {"address", "port"} \subseteq DOMAIN Out!HttpSettings.to
      /\ {"address", "port"} \subseteq DOMAIN Out!HysteriaSettings.to
  BY DEF Out!DNSSettings, Out!VmessSettings, Out!VLESSSettings, Out!TrojanSettings,
     Out!ShadowsocksSettings, Out!SocksSettings, Out!HttpSettings, Out!HysteriaSettings,
     Out!Fields, Out!Same
<1>5. "auth" \in DOMAIN Out!HysteriaStreamSettings.to
  BY DEF Out!HysteriaStreamSettings, Out!Fields, Out!Same
<1>6. servers \cup {"hysteria"} \subseteq {x \in servers \cup {"hysteria"} : x \notin Optional}
  BY OptionalObjects, MaskNames
<1> QED
  BY <1>1, <1>2, <1>3, <1>4, <1>5, <1>6 DEF IsEditOf

LEMMA FieldsAreProper ==
  ASSUME NEW f, IsProper(f), NEW vals \in FieldEdits(f)
  PROVE  IsProper([f EXCEPT !.vals = vals])
<1> PICK g : g = [f EXCEPT !.vals = vals]
  OBVIOUS
<1>1. PICK c \in Out!Parts(f) : \E k \in Out!FieldsOf(Out!Classes[c]) : \E v :
        vals = Edited(f.vals, c, k, v) \/ vals = f.vals \ {<<c, k, "set">>}
  BY DEF FieldEdits
<1> PICK k \in Out!FieldsOf(Out!Classes[c]) : \E v :
        vals = Edited(f.vals, c, k, v) \/ vals = f.vals \ {<<c, k, "set">>}
  BY <1>1
<1>2. AreEdits(vals)
  BY DEF IsProper, IsOutbound, AreEdits, Edited
<1>3. IsPlaced(f) /\ IsNode(f)
  BY DEF IsProper, IsOutbound
<1>4. c \in DOMAIN Out!Classes /\ k \in DOMAIN Out!Classes[c].to
      /\ (c \in Optional => c \in f.on)
  BY <1>3, PartsAreClasses, OptionalParts DEF Out!FieldsOf
<1>5. \A e \in vals \ f.vals : e[1] = c /\ e[2] = k
  BY DEF Edited
<1>6. /\ IsNode(g) /\ g.protocol = f.protocol /\ g.network = f.network
      /\ g.security = f.security /\ g.on = f.on /\ g.vals = vals
  BY <1>3 DEF IsNode
<1>7. IsPlaced(g)
  BY <1>3, <1>6 DEF IsPlaced
<1>8. \A e \in g.vals \ f.vals : IsEditOf(Out!Classes, e) /\ (e[1] \in Optional => e[1] \in f.on)
  BY <1>4, <1>5, <1>6 DEF IsEditOf
<1> QED
  BY <1>2, <1>6, <1>7, <1>8, SameObjects

LEMMA ToggledIsProper ==
  ASSUME NEW f, NEW s, IsProper(f)
  PROVE  IsProper(Toggled(f, s))
<1>1. IsNode(f) /\ IsPlaced(f) /\ AreEdits(f.vals) /\ IsRooted(f)
  BY DEF IsProper, IsOutbound
<1>2. ASSUME NEW on, NEW vals, AreEdits(vals),
             \A e \in vals : IsEditOf(Out!Classes, e) /\ (e[1] \in Optional => e[1] \in on)
      PROVE  IsProper([f EXCEPT !.on = on, !.vals = vals])
  <2> PICK g : g = [f EXCEPT !.on = on, !.vals = vals]
    OBVIOUS
  <2>1. /\ IsNode(g) /\ g.vals = vals /\ g.on = on /\ g.protocol = f.protocol
        /\ g.network = f.network /\ g.security = f.security
    BY <1>1 DEF IsNode
  <2>2. IsProper(g)
    BY <1>1, <1>2, <2>1 DEF IsProper, IsOutbound, IsPlaced, IsRooted
  <2> QED
    BY <2>2
<1>3. CASE s \in f.on
  <2> PICK on : on = f.on \ ({s} \cup Dropped(s))
    OBVIOUS
  <2> PICK vals : vals = Without(f.vals, Dropped(s))
    OBVIOUS
  <2>1. Toggled(f, s) = [f EXCEPT !.on = on, !.vals = vals]
    BY <1>3 DEF Toggled
  <2>2. s \in Optional => s \in Dropped(s)
    BY OptionalObjects, MaskNames DEF Dropped, Kept
  <2>3. AreEdits(vals)
    BY <1>1 DEF AreEdits, Without
  <2>4. \A e \in vals : IsEditOf(Out!Classes, e) /\ (e[1] \in Optional => e[1] \in on)
    BY <1>1, <2>2 DEF IsRooted, Without
  <2>5. IsProper([f EXCEPT !.on = on, !.vals = vals])
    BY <1>2, <2>3, <2>4
  <2> QED
    BY <2>1, <2>5
<1>4. CASE s \notin f.on
  <2> PICK on : on = f.on \cup {s}
    OBVIOUS
  <2> PICK vals : vals = IF ~MaskSetsMtu(f, s) THEN f.vals
                         ELSE IF s = "xdns" THEN Edited(f.vals, "kcp", "mtu", "set")
                         ELSE f.vals \ {<<"kcp", "mtu", "set">>}
    OBVIOUS
  <2>1. Toggled(f, s) = [f EXCEPT !.on = on, !.vals = vals]
    BY <1>4 DEF Toggled
  <2>2. \A e \in vals : e \in f.vals \/ e = <<"kcp", "mtu", "set">>
    BY DEF Edited
  <2>3. IsEditOf(Out!Classes, <<"kcp", "mtu", "set">>)
    <3>1. "kcp" \in DOMAIN Out!Objects /\ Out!Objects["kcp"] = Out!KcpStreamSettings
      BY DEF Out!Objects
    <3>2. "mtu" \in DOMAIN Out!KcpStreamSettings.to
      BY DEF Out!KcpStreamSettings, Out!Fields, Out!Same
    <3> QED
      BY <3>1, <3>2 DEF IsEditOf, Out!Classes
  <2>4. "kcp" \notin Optional
    BY OptionalObjects, MaskNames
  <2>5. AreEdits(vals)
    BY <1>1, <2>2 DEF AreEdits
  <2>6. \A e \in vals : IsEditOf(Out!Classes, e) /\ (e[1] \in Optional => e[1] \in on)
    BY <1>1, <2>2, <2>3, <2>4 DEF IsRooted
  <2>7. IsProper([f EXCEPT !.on = on, !.vals = vals])
    BY <1>2, <2>5, <2>6
  <2> QED
    BY <2>1, <2>7
<1> QED
  BY <1>3, <1>4

-----------------------------------------------------------------------------
(* A link becomes an outbound *)

IsLink(l) ==
  /\ l.protocol \in {"vmess", "vless", "trojan", "shadowsocks", "hysteria2"}
  /\ l.network \in Out!Networks \cup {"hysteria"}
  /\ l.security \in {"none", "tls", "reality"}

\* Every parameter goes into a field of a class.
LEMMA ParamsAreRooted ==
  ASSUME NEW p \in Out!VmessParams \cup Out!UrlParams
  PROVE  IsEditOf(Out!Classes, <<p[1], p[3], "set">>) /\ p[1] \notin Optional
<1> DEFINE parts == {"request", "kcp", "ws", "grpc", "httpupgrade", "xhttp", "tls", "reality",
                     "vless"}
<1>1. p[1] \in parts
  BY DEF Out!VmessParams, Out!UrlParams, Out!LinkParams
<1>2. /\ p[1] = "request" => p[3] \in {"host", "path"}
      /\ p[1] = "kcp" => p[3] \in {"mtu", "tti"}
      /\ p[1] = "ws" => p[3] \in {"host", "path"}
      /\ p[1] = "grpc" => p[3] \in {"authority", "serviceName", "multiMode"}
      /\ p[1] = "httpupgrade" => p[3] \in {"host", "path"}
      /\ p[1] = "xhttp" => p[3] \in {"host", "path", "mode"}
      /\ p[1] = "tls" => p[3] \in {"serverName", "alpn", "fingerprint", "echConfigList"}
      /\ p[1] = "reality" => p[3] \in {"publicKey", "fingerprint", "serverName", "shortId",
                                       "spiderX", "mldsa65Verify"}
      /\ p[1] = "vless" => p[3] = "encryption"
  BY DEF Out!VmessParams, Out!UrlParams, Out!LinkParams
<1>3. ASSUME NEW c \in parts
      PROVE  c \in DOMAIN Out!Classes /\ Out!Classes[c] = Out!Objects[c]
  <2>1. c \in DOMAIN Out!Objects
    BY DEF Out!Objects
  <2> QED
    BY <2>1 DEF Out!Classes
<1>4. /\ Out!Objects["request"] = Out!TcpStreamSettings
      /\ Out!Objects["kcp"] = Out!KcpStreamSettings /\ Out!Objects["ws"] = Out!WsStreamSettings
      /\ Out!Objects["grpc"] = Out!GrpcStreamSettings
      /\ Out!Objects["httpupgrade"] = Out!HttpUpgradeStreamSettings
      /\ Out!Objects["xhttp"] = Out!xHTTPStreamSettings
      /\ Out!Objects["tls"] = Out!TlsStreamSettings
      /\ Out!Objects["reality"] = Out!RealityStreamSettings
      /\ Out!Objects["vless"] = Out!VLESSSettings
  BY DEF Out!Objects
<1>5. /\ {"host", "path"} \subseteq DOMAIN Out!TcpStreamSettings.to
      /\ {"host", "path"} \subseteq DOMAIN Out!WsStreamSettings.to
      /\ {"authority", "serviceName", "multiMode"} \subseteq DOMAIN Out!GrpcStreamSettings.to
      /\ {"host", "path"} \subseteq DOMAIN Out!HttpUpgradeStreamSettings.to
      /\ {"host", "path", "mode"} \subseteq DOMAIN Out!xHTTPStreamSettings.to
  BY DEF Out!TcpStreamSettings, Out!WsStreamSettings, Out!GrpcStreamSettings,
     Out!HttpUpgradeStreamSettings, Out!xHTTPStreamSettings, Out!Fields, Out!Same
<1>6. /\ {"serverName", "alpn", "fingerprint", "echConfigList"}
           \subseteq DOMAIN Out!TlsStreamSettings.to
      /\ {"publicKey", "fingerprint", "serverName", "shortId", "spiderX", "mldsa65Verify"}
           \subseteq DOMAIN Out!RealityStreamSettings.to
      /\ "encryption" \in DOMAIN Out!VLESSSettings.to
  BY DEF Out!TlsStreamSettings, Out!RealityStreamSettings, Out!VLESSSettings,
     Out!Fields, Out!Same
<1>7. {"mtu", "tti"} \subseteq DOMAIN Out!KcpStreamSettings.to
  BY DEF Out!KcpStreamSettings, Out!Fields, Out!Same
<1>8. p[1] \notin Optional
  BY <1>1, OptionalObjects, MaskNames
<1>9. p[1] \in DOMAIN Out!Classes /\ p[3] \in DOMAIN Out!Classes[p[1]].to
  BY <1>1, <1>2, <1>3, <1>4, <1>5, <1>6, <1>7
<1> QED
  BY <1>8, <1>9 DEF IsEditOf

LEMMA LinkIsProper ==
  ASSUME NEW l, IsLink(l), NEW remark
  PROVE  IsProper(Out!fromLink(l, remark))
<1>1. IsProper(Out!fromHysteriaLink(l, remark))
  <2> PICK new : new = Out!NewForm("hysteria2")
    OBVIOUS
  <2> PICK vals : vals = Out!Endpoint("hysteria2")
    OBVIOUS
  <2> PICK g : g = [new EXCEPT !.tag = remark, !.network = "hysteria", !.vals = vals]
    OBVIOUS
  <2>1. Out!fromHysteriaLink(l, remark) = g
    BY DEF Out!fromHysteriaLink
  <2>2. IsNode(new) /\ IsPlaced(new)
    BY NewOutbound DEF IsProper, IsOutbound, Out!Protocols
  <2>3. /\ IsNode(g) /\ g.vals = vals /\ g.protocol = new.protocol
        /\ g.network = "hysteria" /\ g.security = new.security
    BY <2>2 DEF IsNode
  <2>4. AreEdits(g.vals) /\ IsRooted(g)
    BY <2>3, EndpointsAreEdits, EndpointsAreRooted DEF IsRooted
  <2> QED
    BY <2>1, <2>2, <2>3, <2>4 DEF IsProper, IsOutbound, IsPlaced
<1>2. ASSUME NEW params \in {Out!VmessParams, Out!UrlParams}
      PROVE  IsProper(Out!fromParamLink(l, remark, params))
  <2> PICK new : new = Out!NewForm(l.protocol)
    OBVIOUS
  <2> PICK on : on = l.on \cap {"httpHeader"}
    OBVIOUS
  <2> PICK f : f = [new EXCEPT !.tag = remark, !.network = l.network, !.security = l.security,
                               !.flow = l.flow, !.on = on]
    OBVIOUS
  <2> PICK read : read = {p \in params : p[1] \in Out!Parts(f) /\ p[2] \in l.params}
    OBVIOUS
  <2> PICK vals : vals = {<<p[1], p[3], "set">> : p \in read} \cup Out!Endpoint(l.protocol) \cup
                         IF l.protocol = "shadowsocks"
                         THEN {<<"shadowsocks", "method", "set">>,
                               <<"shadowsocks", "uot", "set">>}
                         ELSE {}
    OBVIOUS
  <2> PICK g : g = [f EXCEPT !.vals = vals]
    OBVIOUS
  <2>1. Out!fromParamLink(l, remark, params) = g
    BY DEF Out!fromParamLink
  <2>2. IsNode(new) /\ new.protocol = l.protocol
    BY NewOutbound DEF IsLink, Out!Protocols
  <2>3. /\ IsNode(f) /\ f.protocol = l.protocol /\ f.network = l.network
        /\ f.security = l.security
    BY <2>2 DEF IsNode
  <2>4. /\ IsNode(g) /\ g.protocol = l.protocol /\ g.network = l.network
        /\ g.security = l.security /\ g.vals = vals
    BY <2>3 DEF IsNode
  <2>5. IsPlaced(g)
    BY <2>4 DEF IsLink, IsPlaced, Out!Protocols
  <2>6. ASSUME NEW e \in vals
        PROVE  e = <<e[1], e[2], e[3]>> /\ IsEditOf(Out!Classes, e) /\ e[1] \notin Optional
    <3>1. CASE e \in Out!Endpoint(l.protocol)
      BY <3>1, EndpointsAreEdits, EndpointsAreRooted DEF AreEdits
    <3>2. CASE \E p \in read : e = <<p[1], p[3], "set">>
      BY <3>2, ParamsAreRooted
    <3>3. CASE e \in {<<"shadowsocks", "method", "set">>, <<"shadowsocks", "uot", "set">>}
      <4>1. "shadowsocks" \in DOMAIN Out!Objects
            /\ Out!Objects["shadowsocks"] = Out!ShadowsocksSettings
        BY DEF Out!Objects
      <4>2. {"method", "uot"} \subseteq DOMAIN Out!ShadowsocksSettings.to
        BY DEF Out!ShadowsocksSettings, Out!Fields, Out!Same
      <4>3. "shadowsocks" \notin Optional
        BY OptionalObjects, MaskNames
      <4> QED
        BY <3>3, <4>1, <4>2, <4>3 DEF IsEditOf, Out!Classes
    <3> QED
      BY <3>1, <3>2, <3>3
  <2>7. AreEdits(g.vals) /\ IsRooted(g)
    BY <2>4, <2>6 DEF AreEdits, IsRooted
  <2>8. IsProper(g)
    BY <2>4, <2>5, <2>7 DEF IsProper, IsOutbound
  <2> QED
    BY <2>1, <2>8
<1> QED
  BY <1>1, <1>2 DEF Out!fromLink, Out!fromVmessLink

\* What the inbounds page copies is a link.
LinkInv == link # None => IsLink(link)

LEMMA CopiedIsLink ==
  ASSUME NEW f, Good(f), In!canEnableStream(f), NEW t \in {"same", "tls", "none"}
  PROVE  IsLink(In!Link(f, t))
<1>1. In!Link(f, t).protocol = f.protocol /\ In!Link(f, t).network = f.network
  BY DEF In!Link
<1>2. In!Link(f, t).security = IF t = "same" \/ f.protocol = "hysteria2" THEN f.security ELSE t
  BY DEF In!Link
<1> QED
  BY <1>1, <1>2 DEF IsLink, Good, IsOffered, In!canEnableStream, In!Networks, Out!Networks

LEMMA LinkInitially == Init => LinkInv
<1> SUFFICES ASSUME Init
             PROVE  LinkInv
  OBVIOUS
<1>1. link = In!Link(SimpleForm["vlessReality"], "same") \/ link = None
  BY DEF Init
<1>2. Good(SimpleForm["vlessReality"])
  BY SimpleFormsAreGood DEF SimpleForm
<1>3. In!canEnableStream(SimpleForm["vlessReality"])
  <2> PICK new : new = In!NewForm("vless")
    OBVIOUS
  <2>1. \E vals : SimpleForm["vlessReality"] =
                    [new EXCEPT !.security = "reality", !.flow = TRUE, !.vals = vals]
    BY DEF SimpleForm
  <2>2. new = [protocol |-> "vless", flow |-> FALSE, on |-> {},
               network |-> "tcp", security |-> "none", vals |-> {}]
    BY DEF In!NewForm
  <2> QED
    BY <2>1, <2>2 DEF In!canEnableStream
<1> QED
  BY <1>1, <1>2, <1>3, CopiedIsLink DEF LinkInv

LEMMA LinkStepKeeps == FormInv /\ LinkInv /\ [Next]_vars => LinkInv'
<1> SUFFICES ASSUME FormInv, LinkInv, [Next]_vars
             PROVE  LinkInv'
  OBVIOUS
<1>1. CASE CopyLink
  <2>1. saved # None /\ In!canEnableStream(saved)
    BY <1>1 DEF CopyLink
  <2>2. PICK t \in {"same", "tls", "none"} : link' = In!Link(In!FromDocument(saved), t)
    BY <1>1 DEF CopyLink
  <2> PICK f : f = In!FromDocument(saved)
    OBVIOUS
  <2>3. \E vals : f = [saved EXCEPT !.vals = vals]
    BY DEF In!FromDocument
  <2>4. Good(saved) /\ Good(f)
    BY <2>1, FromDocumentIsGood DEF FormInv
  <2>5. f.protocol = saved.protocol
    BY <2>3, <2>4 DEF Good, IsForm
  <2>6. In!canEnableStream(f)
    BY <2>1, <2>5 DEF In!canEnableStream
  <2> QED
    BY <2>2, <2>4, <2>6, CopiedIsLink DEF LinkInv
<1>2. CASE convertLink
  BY <1>2 DEF convertLink, LinkInv
<1>3. ASSUME link' = link
      PROVE  LinkInv'
  BY <1>3 DEF LinkInv
<1>4. CASE \/ OpenAdd \/ AddSimple \/ streamNetworkChange \/ ChooseSecurity \/ ChooseFlow
           \/ Switch \/ EditField \/ Save \/ openEditInbound \/ resetTraffic
  BY <1>3, <1>4 DEF OpenAdd, AddSimple, streamNetworkChange, ChooseSecurity, ChooseFlow,
     Switch, EditField, Save, openEditInbound, resetTraffic, Choose
<1>5. CASE \/ OpenOutbound \/ SetProtocol \/ SetTag \/ SetEndpoint \/ SetNetwork \/ SetSecurity
           \/ SetFlow \/ SetSwitch \/ SetField \/ toggleJson \/ TypeField \/ TypeTag
           \/ TypeNonsense \/ TypeUnlisted \/ Ok \/ Close \/ deleteOutbound
  BY <1>3, <1>5 DEF OpenOutbound, SetProtocol, SetTag, SetEndpoint, SetNetwork, SetSecurity,
     SetFlow, SetSwitch, SetField, toggleJson, TypeField, TypeTag, TypeNonsense, TypeUnlisted,
     Ok, Close, deleteOutbound, Others
<1>6. CASE UNCHANGED vars
  BY <1>3, <1>6 DEF vars
<1> QED
  BY <1>1, <1>2, <1>4, <1>5, <1>6 DEF Next

-----------------------------------------------------------------------------
(* The modal and the template *)

IsComplete(f) ==
  f.protocol = "vless" =>
    IF f.legacy = "readonly" THEN f = Node("readonly")
    ELSE /\ \A k \in {"address", "port", "id"} : <<"vless", k, "set">> \in f.vals
         /\ <<"vless", "encryption", "cleared">> \notin f.vals

IsModal(m) ==
  m = [index |-> m.index, tab |-> m.tab, ob |-> m.ob, text |-> m.text, doc |-> m.doc,
       jsonValid |-> m.jsonValid, isValid |-> m.isValid]

\* The outbound is the one of the last document that was read.
IsCurrent(m) ==
  m.doc.tag = m.ob.tag /\ Remembered(m.doc.vals) \subseteq Out!Json(m.ob).vals

IsOutModal(m) ==
  /\ IsModal(m)
  /\ IsProper(m.ob) /\ IsRendered(m.ob) /\ IsDocument(m.doc) /\ IsCurrent(m)
  /\ m.text = "nonsense" => ~m.jsonValid

ModalInv ==
  modal # None => IsOutModal(modal) /\ modal.index \in {0} \cup DOMAIN template

TemplateInv ==
  /\ \E S : template \in Seq(S)
  /\ \A i \in DOMAIN template : IsDocument(template[i]) /\ IsComplete(template[i])
  /\ TagsAreUnique

NodeInv == ModalInv /\ TemplateInv

LEMMA VlessClass ==
  /\ Out!Classes["vless"].to =
       [k \in {"address", "port", "id", "encryption", "reverseTag", "testpre", "testseed"} |-> k]
  /\ Out!Classes["vless"].maps = {}
<1>1. "vless" \in DOMAIN Out!Objects
  BY DEF Out!Objects
<1>2. Out!Objects["vless"] = Out!VLESSSettings
  BY DEF Out!Objects
<1>3. Out!Classes["vless"] = Out!VLESSSettings
  BY <1>1, <1>2 DEF Out!Classes
<1> QED
  BY <1>3 DEF Out!VLESSSettings, Out!Fields, Out!Same

\* A valid outbound has what its JSON needs.
LEMMA ValidIsComplete ==
  ASSUME NEW f, IsOutbound(f), Out!validationIssues(f) = {}
  PROVE  IsComplete(Out!Json(f))
<1> SUFFICES ASSUME f.protocol = "vless"
             PROVE  IsComplete(Out!Json(f))
  BY JsonFields DEF IsOutbound, IsComplete
<1> DEFINE sent == {e \in f.vals : /\ <<e[1], e[2]>> \notin Out!Left(f)
                                   /\ ~(e[1] = "vless" /\ f.legacy = "readonly")}
           written == Out!ToJson(Out!Classes, Out!Parts(f), sent)
<1>1. /\ f.legacy # "readonly"
      /\ \A k \in {"address", "port", "id"} : <<"vless", k, "set">> \in f.vals
      /\ <<"vless", "encryption", "cleared">> \notin f.vals
  BY DEF Out!validationIssues
<1>2. Out!Json(f).vals = written \cup Out!LegacyJson(f)
  BY DEF Out!Json, IsOutbound, IsNode
<1>3. ASSUME NEW k \in {"address", "port", "id"}
      PROVE  <<"vless", k, "set">> \in written
  <2>1. <<"vless", k, "set">> \in sent
    <3> DEFINE together == {<<"socks", "pass", "user">>, <<"http", "pass", "user">>,
                            <<"hysteria", "udphopIntervalMin", "udphopPort">>,
                            <<"hysteria", "udphopIntervalMax", "udphopPort">>}
               alone == {t \in together : <<t[1], t[3], "set">> \notin f.vals}
    <3>1. \A t \in together : t[1] # "vless"
      OBVIOUS
    <3> HIDE DEF together
    <3>2. <<"vless", k>> \notin {<<t[1], t[2]>> : t \in alone}
      BY <3>1
    <3> HIDE DEF alone
    <3>3. <<"vless", k>> \notin Out!Left(f)
      BY <3>2 DEF Out!Left, alone, together
    <3> QED
      BY <1>1, <3>3
  <2>2. "vless" \in Out!Parts(f)
    BY DEF Out!Parts
  <2>3. Out!IsWritten(Out!Classes["vless"], k, "set")
    BY VlessClass DEF Out!IsWritten, Out!FieldsOf
  <2>4. /\ Out!Classes["vless"].to[k] = k
        /\ Out!Written(Out!Classes["vless"], k, "set") = "set"
    BY VlessClass DEF Out!Written
  <2> HIDE DEF sent
  <2> QED
    BY <2>1, <2>2, <2>3, <2>4 DEF Out!ToJson
<1>4. <<"vless", "encryption", "cleared">> \notin written
  <2> SUFFICES ASSUME NEW e \in sent,
                      Out!IsWritten(Out!Classes[e[1]], e[2], e[3]),
                      <<Out!Classes[e[1]].to[e[2]], Out!Written(Out!Classes[e[1]], e[2], e[3])>>
                        = <<"encryption", "cleared">>,
                      e[1] = "vless"
               PROVE  FALSE
    BY DEF Out!ToJson
  <2>1. e[2] = "encryption"
    BY VlessClass DEF Out!IsWritten, Out!FieldsOf
  <2>2. e[3] = "cleared"
    BY VlessClass DEF Out!Written
  <2>3. e \in f.vals /\ e = <<e[1], e[2], e[3]>>
    BY DEF IsOutbound, AreEdits
  <2> QED
    BY <1>1, <2>1, <2>2, <2>3
<1>5. <<"vless", "encryption", "cleared">> \notin Out!LegacyJson(f)
  BY Zenon DEF Out!LegacyJson
<1> HIDE DEF written
<1>6. Out!Json(f).legacy = f.legacy
  BY JsonFields DEF IsOutbound
<1> QED
  BY <1>1, <1>2, <1>3, <1>4, <1>5, <1>6 DEF IsComplete

-----------------------------------------------------------------------------
\* The parts of the modal's actions.

LEMMA CheckKeeps ==
  ASSUME NEW m, IsOutModal(m)
  PROVE  /\ IsOutModal(check(m)) /\ check(m).index = m.index
         /\ check(m).isValid <=> /\ m.ob.tag # "" /\ m.ob.tag \notin tags(m)
                                 /\ m.jsonValid
                                 /\ Out!validationIssues(m.ob) = {}
<1> DEFINE valid == /\ m.ob.tag # "" /\ m.ob.tag \notin tags(m)
                    /\ m.jsonValid
                    /\ Out!validationIssues(m.ob) = {}
<1>1. check(m) = [m EXCEPT !.isValid = valid]
  BY DEF check
<1> HIDE DEF valid
<1>2. IsModal(m)
  BY DEF IsOutModal
<1>3. /\ IsModal(check(m)) /\ check(m).isValid = valid /\ check(m).index = m.index
      /\ check(m).ob = m.ob /\ check(m).doc = m.doc /\ check(m).text = m.text
      /\ check(m).jsonValid = m.jsonValid
  BY <1>1, <1>2 DEF IsModal
<1>4. IsOutModal(check(m))
  BY <1>3 DEF IsOutModal, IsCurrent
<1> QED
  BY <1>3, <1>4 DEF valid

\* The editor shows the outbound, whatever it showed before.
LEMMA ShowsKeeps ==
  ASSUME NEW m, IsModal(m), IsProper(m.ob), IsRendered(m.ob)
  PROVE  IsOutModal(Shows(m)) /\ Shows(m).index = m.index
<1> PICK doc : doc = Out!Json(m.ob)
  OBVIOUS
<1>1. IsDocument(doc) /\ doc.tag = m.ob.tag
  BY JsonIsDocument, JsonFields DEF IsProper, IsOutbound
<1>2. Shows(m) = [m EXCEPT !.text = "document", !.doc = doc]
  BY DEF Shows
<1>3. /\ IsModal(Shows(m)) /\ Shows(m).index = m.index
      /\ Shows(m).ob = m.ob /\ Shows(m).doc = doc /\ Shows(m).text = "document"
  BY <1>2 DEF IsModal
<1>4. IsCurrent(Shows(m))
  BY <1>1, <1>3 DEF IsCurrent, Remembered
<1> QED
  BY <1>1, <1>3, <1>4 DEF IsOutModal

LEMMA OpenedModal ==
  ASSUME NEW i, NEW f, IsProper(f), IsRendered(f)
  PROVE  IsOutModal(Modal(i, f)) /\ Modal(i, f).index = i
<1> PICK doc : doc = Out!Json(f)
  OBVIOUS
<1>1. IsDocument(doc) /\ doc.tag = f.tag
  BY JsonIsDocument, JsonFields DEF IsProper, IsOutbound
<1> PICK m : m = Modal(i, f)
  OBVIOUS
<1>2. IsModal(m) /\ m.index = i /\ m.ob = f /\ m.doc = doc /\ m.text = "document"
  BY DEF IsModal, Modal
<1>3. IsCurrent(m)
  BY <1>1, <1>2 DEF IsCurrent, Remembered
<1> QED
  BY <1>1, <1>2, <1>3 DEF IsOutModal

\* The form tab: whatever outbound it makes of the modal's.
LEMMA FormTabKeeps ==
  ASSUME NEW f, IsOutModal(modal), IsProper(f), Becomes(f) \/ BecomesChecked(f)
  PROVE  IsOutModal(modal') /\ modal'.index = modal.index
<1> PICK ob : ob = Out!Rendered(f)
  OBVIOUS
<1> PICK m : m = [modal EXCEPT !.ob = ob]
  OBVIOUS
<1>1. IsProper(ob) /\ IsRendered(ob)
  BY RenderedOutbound
<1>2. IsModal(modal)
  BY DEF IsOutModal
<1>3. IsModal(m) /\ m.ob = ob /\ m.index = modal.index
  BY <1>2 DEF IsModal
<1>4. IsOutModal(Shows(m)) /\ Shows(m).index = modal.index
  BY <1>1, <1>3, ShowsKeeps
<1>5. IsOutModal(check(Shows(m))) /\ check(Shows(m)).index = modal.index
  BY <1>4, CheckKeeps
<1>6. modal' = Shows(m) \/ modal' = check(Shows(m))
  BY DEF Becomes, BecomesChecked
<1> QED
  BY <1>4, <1>5, <1>6

\* The editor: whatever document is typed.
LEMMA TypeDocumentKeeps ==
  ASSUME NEW doc, IsOutModal(modal), IsDocument(doc), TypeDocument(doc)
  PROVE  IsOutModal(modal') /\ modal'.index = modal.index
<1> PICK ob : ob = Out!Rendered(Out!FromDocument(doc))
  OBVIOUS
<1>1. IsProper(ob) /\ IsRendered(ob) /\ ob.tag = doc.tag
  BY ParsedOutbound, DocumentIsParsed
<1>2. Remembered(doc.vals) \subseteq Out!Json(ob).vals
  BY DocumentSurvives DEF Again
<1> PICK m : m = [modal EXCEPT !.text = "document", !.doc = doc, !.jsonValid = TRUE, !.ob = ob]
  OBVIOUS
<1>3. modal' = check(m)
  BY DEF TypeDocument
<1>4. IsModal(modal)
  BY DEF IsOutModal
<1>5. /\ IsModal(m) /\ m.index = modal.index /\ m.ob = ob /\ m.doc = doc
      /\ m.text = "document"
  BY <1>4 DEF IsModal
<1>6. IsCurrent(m)
  BY <1>1, <1>2, <1>5 DEF IsCurrent
<1>7. IsOutModal(m)
  BY <1>1, <1>5, <1>6 DEF IsOutModal
<1> QED
  BY <1>3, <1>5, <1>7, CheckKeeps

-----------------------------------------------------------------------------
(* Every action keeps the modal and the template. *)

LEMMA NodesInitially == Init => NodeInv
<1> SUFFICES ASSUME Init
             PROVE  NodeInv
  OBVIOUS
<1>1. template = <<Direct, Node("vnext"), Node("readonly")>> /\ modal = None
  BY DEF Init
<1>2. IsDocument(Direct) /\ Direct.tag = "direct" /\ Direct.protocol = "freedom"
  <2> PICK new : new = Out!NewForm("freedom")
    OBVIOUS
  <2>1. IsProper(new) /\ IsNode(new) /\ new.protocol = "freedom" /\ new.on = {}
    BY NewOutbound DEF Out!Protocols, Out!NewForm
  <2> PICK f : f = [new EXCEPT !.tag = "direct"]
    OBVIOUS
  <2>2. /\ IsNode(f) /\ f.tag = "direct" /\ f.protocol = "freedom" /\ f.on = {}
        /\ f.network = new.network /\ f.security = new.security /\ f.vals = new.vals
    BY <2>1 DEF IsNode
  <2>3. IsOutbound(f) /\ IsRendered(f)
    BY <2>1, <2>2 DEF IsProper, IsOutbound, IsPlaced, IsRendered
  <2>4. Direct = Out!Json(f)
    BY DEF Direct
  <2> QED
    BY <2>2, <2>3, <2>4, JsonFields, JsonIsDocument
<1>3. ASSUME NEW way
      PROVE  /\ IsDocument(Node(way)) /\ Node(way).tag = way
             /\ way = "vnext" => IsComplete(Node(way))
             /\ way = "readonly" => Node(way).legacy = "readonly"
  <2> PICK new : new = Out!NewForm("vless")
    OBVIOUS
  <2>1. IsProper(new) /\ IsNode(new) /\ new.protocol = "vless" /\ new.on = {}
    BY NewOutbound DEF Out!Protocols, Out!NewForm
  <2> PICK vals : vals = Out!Endpoint("vless")
    OBVIOUS
  <2>2. AreEdits(vals)
    BY EndpointsAreEdits
  <2> PICK f : f = [new EXCEPT !.tag = way, !.legacy = way, !.vals = vals]
    OBVIOUS
  <2>3. /\ IsNode(f) /\ f.tag = way /\ f.legacy = way /\ f.vals = vals /\ f.protocol = "vless"
        /\ f.network = new.network /\ f.security = new.security /\ f.on = {}
    BY <2>1 DEF IsNode
  <2>4. Node(way) = Out!Json(f)
    BY DEF Node
  <2>5. /\ \A k \in {"address", "port", "id"} : <<"vless", k, "set">> \in vals
        /\ <<"vless", "encryption", "cleared">> \notin vals
    BY DEF Out!Endpoint
  <2>6. way = "vnext" => Out!validationIssues(f) = {}
    BY <2>3, <2>5 DEF Out!validationIssues
  <2>7. IsOutbound(f) /\ IsRendered(f)
    BY <2>1, <2>2, <2>3 DEF IsProper, IsOutbound, IsPlaced, IsRendered
  <2>8. IsDocument(Node(way))
    BY <2>4, <2>7, JsonIsDocument
  <2>9. Node(way).tag = way /\ Node(way).legacy = way
    <3>1. Out!Json(f).tag = f.tag /\ Out!Json(f).legacy = f.legacy
      BY <2>3, JsonFields
    <3> QED
      BY <2>3, <2>4, <3>1
  <2>10. way = "vnext" => IsComplete(Node(way))
    BY <2>4, <2>6, <2>7, ValidIsComplete
  <2> QED
    BY <2>8, <2>9, <2>10
<1>4. \A i \in DOMAIN template : IsDocument(template[i]) /\ IsComplete(template[i])
  BY <1>1, <1>2, <1>3 DEF IsComplete
<1>5. TagsAreUnique
  <2>1. /\ DOMAIN template = {1, 2, 3}
        /\ template[1].tag = "direct" /\ template[2].tag = "vnext"
        /\ template[3].tag = "readonly"
    BY <1>1, <1>2, <1>3
  <2> QED
    BY <2>1 DEF TagsAreUnique
<1>6. template \in Seq({Direct, Node("vnext"), Node("readonly")})
  BY <1>1
<1> QED
  BY <1>1, <1>4, <1>5, <1>6 DEF NodeInv, ModalInv, TemplateInv

\* A step of the modal that leaves the template alone.
LEMMA ModalSteps ==
  ASSUME NodeInv, template' = template,
         modal' # None => /\ IsOutModal(modal')
                          /\ modal'.index \in {0} \cup DOMAIN template
  PROVE  NodeInv'
BY DEF NodeInv, ModalInv, TemplateInv, TagsAreUnique

\* The same for a modal that stays.
LEMMA ModalStays ==
  ASSUME NodeInv, modal # None, template' = template,
         IsOutModal(modal') /\ modal'.index = modal.index
  PROVE  NodeInv'
<1>1. modal.index \in {0} \cup DOMAIN template
  BY DEF NodeInv, ModalInv
<1> QED
  BY <1>1, ModalSteps

\* The last outbounds move up when one is deleted.
LEMMA RemovedFromSequence ==
  ASSUME NEW S, NEW s \in Seq(S), NEW i \in DOMAIN s
  PROVE  LET r == SubSeq(s, 1, i - 1) \o SubSeq(s, i + 1, Len(s)) IN
         /\ r \in Seq(S)
         /\ \A j \in DOMAIN r : IF j < i THEN j \in DOMAIN s /\ r[j] = s[j]
                                ELSE j + 1 \in DOMAIN s /\ r[j] = s[j + 1]
<1>1. /\ Len(s) \in Nat /\ DOMAIN s = 1 .. Len(s) /\ i \in 1 .. Len(s)
      /\ \A j \in 1 .. Len(s) : s[j] \in S
  BY LenProperties
<1> DEFINE a == SubSeq(s, 1, i - 1)
           b == SubSeq(s, i + 1, Len(s))
<1>2. /\ a \in Seq(S) /\ Len(a) = i - 1
      /\ \A j \in 1 .. i - 1 : a[j] = s[j]
  BY <1>1, SubSeqProperties
<1>3. /\ b \in Seq(S) /\ Len(b) = Len(s) - i
      /\ \A j \in 1 .. Len(s) - i : b[j] = s[j + i]
  BY <1>1, SubSeqProperties
<1> HIDE DEF a, b
<1>4. /\ a \o b \in Seq(S) /\ Len(a \o b) = Len(s) - 1
      /\ \A j \in 1 .. Len(s) - 1 : (a \o b)[j] = IF j <= i - 1 THEN a[j] ELSE b[j - (i - 1)]
  <2>1. Len(a) + Len(b) = Len(s) - 1
    BY <1>1, <1>2, <1>3
  <2>2. /\ a \o b \in Seq(S) /\ Len(a \o b) = Len(a) + Len(b)
        /\ \A j \in 1 .. Len(a) + Len(b) :
             (a \o b)[j] = IF j <= Len(a) THEN a[j] ELSE b[j - Len(a)]
    BY <1>2, <1>3, ConcatProperties
  <2>3. Len(a) = i - 1
    BY <1>2
  <2> QED
    BY <2>1, <2>2, <2>3
<1>5. DOMAIN (a \o b) = 1 .. Len(s) - 1
  BY <1>4, LenProperties
<1>6. ASSUME NEW j \in 1 .. Len(s) - 1
      PROVE  IF j < i THEN j \in DOMAIN s /\ (a \o b)[j] = s[j]
             ELSE j + 1 \in DOMAIN s /\ (a \o b)[j] = s[j + 1]
  <2>1. CASE j < i
    BY <1>1, <1>2, <1>4, <2>1
  <2>2. CASE ~(j < i)
    <3>1. j - (i - 1) \in 1 .. Len(s) - i /\ j - (i - 1) + i = j + 1
      BY <1>1, <2>2
    <3> QED
      BY <1>1, <1>3, <1>4, <2>2, <3>1
  <2> QED
    BY <2>1, <2>2
<1> QED
  BY <1>4, <1>5, <1>6 DEF a, b

LEMMA DeletionKeeps == NodeInv /\ deleteOutbound => NodeInv'
<1> SUFFICES ASSUME NodeInv, deleteOutbound
             PROVE  NodeInv'
  OBVIOUS
<1>1. PICK S : template \in Seq(S)
  BY DEF NodeInv, TemplateInv
<1>2. PICK i \in DOMAIN template :
        template' = SubSeq(template, 1, i - 1) \o SubSeq(template, i + 1, Len(template))
  BY DEF deleteOutbound
<1> DEFINE old(j) == IF j < i THEN j ELSE j + 1
<1>3. template' \in Seq(S)
  BY <1>1, <1>2, RemovedFromSequence
<1>4. \A j \in DOMAIN template' : old(j) \in DOMAIN template /\ template'[j] = template[old(j)]
  BY <1>1, <1>2, RemovedFromSequence
<1>5. \A j \in DOMAIN template' : j \in Nat
  BY <1>3
<1>6. i \in Nat
  BY <1>1
<1>7. \A j, k \in DOMAIN template' : j # k => old(j) # old(k)
  BY <1>5, <1>6
<1> HIDE DEF old
<1>8. TagsAreUnique'
  BY <1>4, <1>7 DEF NodeInv, TemplateInv, TagsAreUnique
<1>9. \A j \in DOMAIN template' : IsDocument(template'[j]) /\ IsComplete(template'[j])
  BY <1>4 DEF NodeInv, TemplateInv
<1>10. ModalInv'
  BY DEF deleteOutbound, ModalInv
<1> QED
  BY <1>3, <1>8, <1>9, <1>10 DEF NodeInv, TemplateInv

-----------------------------------------------------------------------------
(* The button *)

\* It writes a valid outbound, at its place or at the end.
LEMMA OkWrites ==
  ASSUME NodeInv, Ok
  PROVE  LET node == Out!Json(modal.ob) IN
         /\ IsOutModal(modal) /\ modal.jsonValid
         /\ IsDocument(node) /\ IsComplete(node) /\ node.tag = modal.ob.tag /\ node.tag # ""
         /\ \A i \in DOMAIN template \ {modal.index} : template[i].tag # node.tag
         /\ \E S : template' \in Seq(S)
         /\ \E k \in DOMAIN template' :
              /\ template'[k] = node
              /\ \A i \in DOMAIN template' \ {k} :
                   i \in DOMAIN template \ {modal.index} /\ template'[i] = template[i]
<1> PICK node : node = Out!Json(modal.ob)
  OBVIOUS
<1>1. IsOutModal(modal) /\ modal.index \in {0} \cup DOMAIN template
  BY DEF NodeInv, ModalInv, Ok
<1>2. /\ modal.ob.tag # "" /\ modal.ob.tag \notin tags(modal) /\ modal.jsonValid
      /\ Out!validationIssues(modal.ob) = {}
  BY <1>1, CheckKeeps DEF Ok
<1>3. IsOutbound(modal.ob) /\ IsRendered(modal.ob)
  BY <1>1 DEF IsOutModal, IsProper
<1>4. IsDocument(node) /\ node.tag = modal.ob.tag /\ IsComplete(node)
  BY <1>2, <1>3, JsonFields, JsonIsDocument, ValidIsComplete DEF IsOutbound
<1>5. \A i \in DOMAIN template \ {modal.index} : template[i].tag # node.tag
  BY <1>2, <1>4 DEF tags
<1>6. PICK S0 : template \in Seq(S0)
  BY DEF NodeInv, TemplateInv
<1> PICK S : S = S0 \cup {node}
  OBVIOUS
<1>7. template \in Seq(S) /\ node \in S
  BY <1>6
<1>8. DOMAIN template = 1 .. Len(template) /\ Len(template) \in Nat
  BY <1>7, LenProperties
<1>9. /\ template' \in Seq(S)
      /\ \E k \in DOMAIN template' :
           /\ template'[k] = node
           /\ \A i \in DOMAIN template' \ {k} :
                i \in DOMAIN template \ {modal.index} /\ template'[i] = template[i]
  <2>1. CASE modal.index = 0
    <3>1. template' = Append(template, node)
      BY <2>1 DEF Ok
    <3>2. /\ template' \in Seq(S) /\ Len(template') = Len(template) + 1
          /\ \A i \in 1 .. Len(template) : template'[i] = template[i]
          /\ template'[Len(template) + 1] = node
      BY <1>7, <3>1, AppendProperties
    <3>3. DOMAIN template' = 1 .. Len(template) + 1
      BY <3>2, LenProperties
    <3> QED
      BY <1>8, <2>1, <3>2, <3>3
  <2>2. CASE modal.index # 0
    <3>1. template' = [template EXCEPT ![modal.index] = node] /\ modal.index \in DOMAIN template
      BY <1>1, <2>2 DEF Ok
    <3>2. template' \in Seq(S) /\ DOMAIN template' = DOMAIN template
      BY <1>7, <1>8, <3>1, ExceptSeq
    <3> QED
      BY <3>1, <3>2
  <2> QED
    BY <2>1, <2>2
<1> QED
  BY <1>1, <1>2, <1>4, <1>5, <1>9

LEMMA OkKeeps == NodeInv /\ Ok => NodeInv'
<1> SUFFICES ASSUME NodeInv, Ok
             PROVE  NodeInv'
  OBVIOUS
<1> PICK node : node = Out!Json(modal.ob)
  OBVIOUS
<1>1. /\ IsDocument(node) /\ IsComplete(node) /\ node.tag # ""
      /\ \A i \in DOMAIN template \ {modal.index} : template[i].tag # node.tag
      /\ \E S : template' \in Seq(S)
  BY OkWrites
<1>2. PICK k \in DOMAIN template' :
        /\ template'[k] = node
        /\ \A i \in DOMAIN template' \ {k} :
             i \in DOMAIN template \ {modal.index} /\ template'[i] = template[i]
  BY OkWrites
<1>3. TagsAreUnique'
  <2>1. \A i \in DOMAIN template' : template'[i].tag # ""
    BY <1>1, <1>2 DEF NodeInv, TemplateInv, TagsAreUnique
  <2>2. \A i \in DOMAIN template' \ {k} : template'[i].tag # node.tag
    BY <1>1, <1>2
  <2>3. \A i \in DOMAIN template' \ {k} : \A j \in DOMAIN template' \ {k, i} :
          template'[i].tag # template'[j].tag
    BY <1>2 DEF NodeInv, TemplateInv, TagsAreUnique
  <2> QED
    BY <1>2, <2>1, <2>2, <2>3 DEF TagsAreUnique
<1>4. \A i \in DOMAIN template' : IsDocument(template'[i]) /\ IsComplete(template'[i])
  BY <1>1, <1>2 DEF NodeInv, TemplateInv
<1>5. ModalInv'
  BY DEF Ok, ModalInv
<1> QED
  BY <1>1, <1>3, <1>4, <1>5 DEF NodeInv, TemplateInv

-----------------------------------------------------------------------------
(* The steps of the page *)

LEMMA NodeStepKeeps == LinkInv /\ NodeInv /\ [Next]_vars => NodeInv'
<1> SUFFICES ASSUME LinkInv, NodeInv, [Next]_vars
             PROVE  NodeInv'
  OBVIOUS
<1> PICK ob : ob = modal.ob
  OBVIOUS
<1>0. modal # None => /\ IsOutModal(modal) /\ modal.index \in {0} \cup DOMAIN template
                      /\ IsModal(modal) /\ IsProper(ob) /\ IsNode(ob) /\ IsPlaced(ob)
  BY DEF NodeInv, ModalInv, IsOutModal, IsProper, IsOutbound
<1>f. ASSUME NEW f, modal # None, IsProper(f), Becomes(f) \/ BecomesChecked(f),
             template' = template
      PROVE  NodeInv'
  BY <1>0, <1>f, FormTabKeeps, ModalStays
<1>d. ASSUME NEW doc, modal # None, IsDocument(doc), TypeDocument(doc), template' = template
      PROVE  NodeInv'
  BY <1>0, <1>d, TypeDocumentKeeps, ModalStays
<1>u. ASSUME UNCHANGED nodes
      PROVE  NodeInv'
  BY <1>u, ModalSteps DEF nodes, NodeInv, ModalInv
<1>1. CASE OpenOutbound
  <2>1. CASE modal' = check(Modal(0, Out!NewForm("vless")))
    <3> PICK f : f = Out!NewForm("vless")
      OBVIOUS
    <3>1. IsProper(f) /\ IsRendered(f)
      BY NewOutbound DEF Out!Protocols
    <3>2. IsOutModal(modal') /\ modal'.index = 0
      BY <2>1, <3>1, OpenedModal, CheckKeeps
    <3> QED
      BY <1>1, <3>2, ModalSteps DEF OpenOutbound
  <2>2. ASSUME NEW i \in DOMAIN template,
               modal' = check(Modal(i, Out!Rendered(Out!FromDocument(template[i]))))
        PROVE  NodeInv'
    <3> PICK f : f = Out!Rendered(Out!FromDocument(template[i]))
      OBVIOUS
    <3>1. IsProper(f) /\ IsRendered(f)
      BY ParsedOutbound DEF NodeInv, TemplateInv
    <3>2. IsOutModal(modal') /\ modal'.index = i
      BY <2>2, <3>1, OpenedModal, CheckKeeps
    <3> QED
      BY <1>1, <3>2, ModalSteps DEF OpenOutbound
  <2> QED
    BY <1>1, <2>1, <2>2 DEF OpenOutbound
<1>2. CASE SetProtocol
  <2>1. \A p \in Out!Protocols : IsProper(Out!WithProtocol(ob, p))
    BY <1>0, <1>2, WithProtocolIsProper DEF SetProtocol, InForm
  <2> QED
    BY <1>2, <1>f, <2>1 DEF SetProtocol, InForm, Others
<1>3. CASE SetTag
  <2>1. ASSUME NEW t
        PROVE  IsProper([ob EXCEPT !.tag = t])
    <3> PICK g : g = [ob EXCEPT !.tag = t]
      OBVIOUS
    <3>1. /\ IsNode(g) /\ g.protocol = ob.protocol /\ g.network = ob.network
          /\ g.security = ob.security /\ g.on = ob.on /\ g.vals = ob.vals
      BY <1>0, <1>3 DEF SetTag, InForm, IsNode
    <3> QED
      BY <1>0, <1>3, <3>1, ChosenIsProper DEF SetTag, InForm, IsPlaced
  <2> QED
    BY <1>3, <1>f, <2>1 DEF SetTag, InForm, Others
<1>4. CASE SetEndpoint
  <2> PICK vals : vals = ob.vals \cup Out!Endpoint(ob.protocol)
    OBVIOUS
  <2> PICK g : g = [ob EXCEPT !.vals = vals]
    OBVIOUS
  <2>1. /\ IsNode(g) /\ g.protocol = ob.protocol /\ g.network = ob.network
        /\ g.security = ob.security /\ g.on = ob.on /\ g.vals = vals
    BY <1>0, <1>4 DEF SetEndpoint, InForm, IsNode
  <2>2. AreEdits(vals)
    BY <1>0, <1>4, EndpointsAreEdits
    DEF SetEndpoint, InForm, IsProper, IsOutbound, AreEdits
  <2>3. IsPlaced(g)
    BY <1>0, <1>4, <2>1 DEF SetEndpoint, InForm, IsPlaced
  <2>4. \A e \in g.vals \ ob.vals : IsEditOf(Out!Classes, e) /\ e[1] \notin Optional
    BY <2>1, EndpointsAreRooted
  <2>5. IsProper(g)
    BY <1>0, <1>4, <2>1, <2>2, <2>3, <2>4, SameObjects DEF SetEndpoint, InForm
  <2> QED
    BY <1>4, <1>f, <2>5 DEF SetEndpoint, InForm, Others
<1>5. CASE SetNetwork
  <2> PICK n \in Out!Networks \cup {"hysteria"} :
             LET moved == [ob EXCEPT !.network = n] IN
               Becomes(IF Out!canEnableTlsFlow(moved) THEN moved
                       ELSE [moved EXCEPT !.flow = FALSE])
    BY <1>5 DEF SetNetwork
  <2> PICK moved : moved = [ob EXCEPT !.network = n]
    OBVIOUS
  <2> PICK plain : plain = [moved EXCEPT !.flow = FALSE]
    OBVIOUS
  <2>1. /\ IsNode(moved) /\ moved.protocol = ob.protocol /\ moved.network = n
        /\ moved.security = ob.security /\ moved.on = ob.on /\ moved.vals = ob.vals
    BY <1>0, <1>5 DEF SetNetwork, InForm, IsNode
  <2>2. /\ IsNode(plain) /\ plain.protocol = ob.protocol /\ plain.network = n
        /\ plain.security = ob.security /\ plain.on = ob.on /\ plain.vals = ob.vals
    BY <2>1 DEF IsNode
  <2>3. IsProper(moved) /\ IsProper(plain)
    BY <1>0, <1>5, <2>1, <2>2, ChosenIsProper DEF SetNetwork, InForm, IsPlaced
  <2>4. Becomes(IF Out!canEnableTlsFlow(moved) THEN moved ELSE plain)
    OBVIOUS
  <2> QED
    BY <1>5, <1>f, <2>3, <2>4 DEF SetNetwork, InForm, Others
<1>6. CASE SetSecurity
  <2>1. ASSUME NEW s \in {"none", "tls", "reality"}
        PROVE  IsProper([ob EXCEPT !.security = s])
    <3> PICK g : g = [ob EXCEPT !.security = s]
      OBVIOUS
    <3>1. /\ IsNode(g) /\ g.protocol = ob.protocol /\ g.network = ob.network
          /\ g.security = s /\ g.on = ob.on /\ g.vals = ob.vals
      BY <1>0, <1>6 DEF SetSecurity, InForm, IsNode
    <3> QED
      BY <1>0, <1>6, <3>1, ChosenIsProper DEF SetSecurity, InForm, IsPlaced
  <2>2. \E s \in {"none", "tls", "reality"} : Becomes([ob EXCEPT !.security = s])
    BY <1>6 DEF SetSecurity
  <2> QED
    BY <1>6, <1>f, <2>1, <2>2 DEF SetSecurity, InForm, Others
<1>7. CASE SetFlow
  <2> PICK g : g = [ob EXCEPT !.flow = ~@]
    OBVIOUS
  <2>1. /\ IsNode(g) /\ g.protocol = ob.protocol /\ g.network = ob.network
        /\ g.security = ob.security /\ g.on = ob.on /\ g.vals = ob.vals
    BY <1>0, <1>7 DEF SetFlow, InForm, IsNode
  <2>2. IsProper(g)
    BY <1>0, <1>7, <2>1, ChosenIsProper DEF SetFlow, InForm, IsPlaced
  <2> QED
    BY <1>7, <1>f, <2>2 DEF SetFlow, InForm, Others
<1>8. CASE SetSwitch
  <2>1. \A s : IsProper(Toggled(ob, s))
    BY <1>0, <1>8, ToggledIsProper DEF SetSwitch, InForm
  <2> QED
    BY <1>8, <1>f, <2>1 DEF SetSwitch, InForm, Others
<1>9. CASE SetField
  <2>1. \A vals \in FieldEdits(ob) : IsProper([ob EXCEPT !.vals = vals])
    BY <1>0, <1>9, FieldsAreProper DEF SetField, InForm
  <2> QED
    BY <1>9, <1>f, <2>1 DEF SetField, InForm, Others
<1>10. CASE toggleJson
  <2> PICK m : m = Shows(modal)
    OBVIOUS
  <2> PICK j : j = [m EXCEPT !.tab = "json"]
    OBVIOUS
  <2> PICK f : f = [m EXCEPT !.tab = "form", !.jsonValid = TRUE]
    OBVIOUS
  <2>1. IsOutModal(m) /\ m.index = modal.index /\ m.text = "document"
    <3>1. IsOutModal(m) /\ m.index = modal.index
      BY <1>0, <1>10, ShowsKeeps DEF toggleJson, IsOutModal
    <3>2. IsModal(modal)
      BY <1>0, <1>10 DEF toggleJson
    <3>3. m.text = "document"
      BY <3>2 DEF Shows, IsModal
    <3> QED
      BY <3>1, <3>3
  <2>2. IsModal(m)
    BY <2>1 DEF IsOutModal
  <2>3. /\ IsModal(j) /\ j.index = m.index /\ j.ob = m.ob /\ j.doc = m.doc
        /\ j.text = m.text /\ j.jsonValid = m.jsonValid
    BY <2>2 DEF IsModal
  <2>4. /\ IsModal(f) /\ f.index = m.index /\ f.ob = m.ob /\ f.doc = m.doc
        /\ f.text = m.text
    BY <2>2 DEF IsModal
  <2>5. IsOutModal(j) /\ IsOutModal(f)
    BY <2>1, <2>3, <2>4 DEF IsOutModal, IsCurrent
  <2>6. modal' = j \/ modal' = check(f)
    BY <1>10 DEF toggleJson
  <2>7. IsOutModal(modal') /\ modal'.index = modal.index
    BY <2>1, <2>3, <2>4, <2>5, <2>6, CheckKeeps
  <2> QED
    BY <1>10, <2>7, ModalStays DEF toggleJson, Others
<1>11. CASE TypeField
  <2>1. ASSUME NEW vals \in FieldEdits(ob)
        PROVE  IsDocument(Out!Json([ob EXCEPT !.vals = vals]))
    <3> PICK g : g = [ob EXCEPT !.vals = vals]
      OBVIOUS
    <3>1. IsProper(g)
      BY <1>0, <1>11, FieldsAreProper DEF TypeField, InJson
    <3>2. g.on = ob.on /\ g.flow = ob.flow /\ g.network = ob.network
      BY <1>0, <1>11 DEF TypeField, InJson, IsNode
    <3>3. IsRendered(ob)
      BY <1>0, <1>11 DEF TypeField, InJson, IsOutModal
    <3>4. IsRendered(g)
      BY <3>2, <3>3 DEF IsRendered
    <3> QED
      BY <3>1, <3>4, JsonIsDocument DEF IsProper
  <2> QED
    BY <1>11, <1>d, <2>1 DEF TypeField, InJson, Others
<1>12. CASE TypeTag
  <2>1. \A t : IsDocument([modal.doc EXCEPT !.tag = t])
    BY <1>0, <1>12, TaggedDocument DEF TypeTag, InJson, IsOutModal
  <2> QED
    BY <1>12, <1>d, <2>1 DEF TypeTag, InJson, Others
<1>13. CASE TypeNonsense
  <2> PICK m : m = [modal EXCEPT !.text = "nonsense", !.jsonValid = FALSE]
    OBVIOUS
  <2>1. /\ IsModal(m) /\ m.index = modal.index /\ m.ob = modal.ob /\ m.doc = modal.doc
        /\ ~m.jsonValid
    BY <1>0, <1>13 DEF TypeNonsense, InJson, IsModal
  <2>2. IsOutModal(m)
    BY <1>0, <1>13, <2>1 DEF TypeNonsense, InJson, IsOutModal, IsCurrent
  <2>3. IsOutModal(modal') /\ modal'.index = modal.index
    BY <1>13, <2>1, <2>2, CheckKeeps DEF TypeNonsense
  <2> QED
    BY <1>13, <2>3, ModalStays DEF TypeNonsense, InJson, Others
<1>14. CASE TypeUnlisted
  <2> PICK m : m = [modal EXCEPT !.text = "unlisted", !.jsonValid = TRUE]
    OBVIOUS
  <2>1. /\ IsModal(m) /\ m.index = modal.index /\ m.ob = modal.ob /\ m.doc = modal.doc
        /\ m.text = "unlisted"
    BY <1>0, <1>14 DEF TypeUnlisted, InJson, IsModal
  <2>2. IsOutModal(m)
    BY <1>0, <1>14, <2>1 DEF TypeUnlisted, InJson, IsOutModal, IsCurrent
  <2> QED
    BY <1>14, <2>1, <2>2, ModalStays DEF TypeUnlisted, InJson, Others
<1>15. CASE convertLink
  <2> PICK remark : modal' = check(Shows([modal EXCEPT !.ob =
                                            Out!Rendered(Out!fromLink(link, remark))]))
    BY <1>15 DEF convertLink
  <2> PICK f : f = Out!Rendered(Out!fromLink(link, remark))
    OBVIOUS
  <2> PICK m : m = [modal EXCEPT !.ob = f]
    OBVIOUS
  <2>1. IsLink(link)
    BY <1>15 DEF convertLink, LinkInv
  <2>2. IsProper(f) /\ IsRendered(f)
    BY <2>1, LinkIsProper, RenderedOutbound
  <2>3. IsModal(m) /\ m.ob = f /\ m.index = modal.index
    BY <1>0, <1>15 DEF convertLink, InJson, IsModal
  <2>4. IsOutModal(Shows(m)) /\ Shows(m).index = modal.index
    BY <2>2, <2>3, ShowsKeeps
  <2>5. IsOutModal(modal') /\ modal'.index = modal.index
    BY <2>4, CheckKeeps
  <2> QED
    BY <1>15, <2>5, ModalStays DEF convertLink, InJson
<1>16. CASE Ok
  BY <1>16, OkKeeps
<1>17. CASE Close
  BY <1>17, ModalSteps DEF Close, Others
<1>18. CASE deleteOutbound
  BY <1>18, DeletionKeeps
<1>19. CASE \/ OpenAdd \/ AddSimple \/ streamNetworkChange \/ ChooseSecurity \/ ChooseFlow
            \/ Switch \/ EditField \/ Save \/ openEditInbound \/ resetTraffic \/ CopyLink
  <2>1. UNCHANGED nodes
    BY <1>19 DEF OpenAdd, AddSimple, streamNetworkChange, ChooseSecurity, ChooseFlow, Switch,
         EditField, Save, openEditInbound, resetTraffic, CopyLink, Choose
  <2> QED
    BY <2>1, <1>u
<1>20. CASE UNCHANGED vars
  BY <1>20, <1>u DEF vars, nodes
<1> QED
  BY <1>1, <1>2, <1>3, <1>4, <1>5, <1>6, <1>7, <1>8, <1>9, <1>10, <1>11, <1>12, <1>13,
     <1>14, <1>15, <1>16, <1>17, <1>18, <1>19, <1>20 DEF Next

PageInv == FormInv /\ LinkInv /\ NodeInv

LEMMA PageInvariance == Spec => []PageInv
<1>1. Init => PageInv
  BY Initially, LinkInitially, NodesInitially DEF PageInv
<1>2. PageInv /\ [Next]_vars => PageInv'
  BY StepKeeps, LinkStepKeeps, NodeStepKeeps DEF PageInv
<1> QED
  BY <1>1, <1>2, PTL DEF Spec

-----------------------------------------------------------------------------
(* What the template keeps *)

\* Whichever tabs, texts and links an outbound was made of, the template's tags
\* are unique, and its VLESS nodes are complete or untouched.
THEOREM TemplateIsUsable == Spec => []SavedNodesAreUsable
<1>1. PageInv => SavedNodesAreUsable
  BY DEF PageInv, NodeInv, TemplateInv, IsComplete, SavedNodesAreUsable, NodesAreComplete
<1> QED
  BY <1>1, PageInvariance, PTL

\* Opening an outbound of the template and pressing the button writes what was
\* there, for every outbound that any steps of the form, typed documents and
\* links can put there.
THEOREM NodesAreKept == Spec => []NodesSurviveEditing
<1>1. ASSUME NodeInv, NEW i \in DOMAIN template
      PROVE  LET again == Out!Json(Out!Rendered(Out!FromDocument(template[i]))) IN
             /\ Remembered(template[i].vals) \subseteq again.vals
             /\ again.vals \subseteq template[i].vals
             /\ [again EXCEPT !.vals = {}] = [template[i] EXCEPT !.vals = {}]
  <2>1. IsDocument(template[i])
    BY <1>1 DEF NodeInv, TemplateInv
  <2> QED
    BY <2>1, DocumentSurvives DEF Again
<1>2. PageInv => NodesSurviveEditing
  BY <1>1 DEF PageInv, NodesSurviveEditing
<1> QED
  BY <1>2, PageInvariance, PTL

\* The button on the JSON tab saves the document that can be seen there; a text
\* that is none is never saved.
THEOREM WhatIsShownIsSaved == Spec => SavesWhatIsShown
<1>1. ASSUME PageInv, Ok, modal.tab = "json"
      PROVE  /\ modal.text # "nonsense"
             /\ modal.text = "document" =>
                  \E i \in DOMAIN template' :
                    /\ template'[i].tag = modal.doc.tag
                    /\ Remembered(modal.doc.vals) \subseteq template'[i].vals
  <2> PICK node : node = Out!Json(modal.ob)
    OBVIOUS
  <2>1. /\ IsOutModal(modal) /\ modal.jsonValid /\ node.tag = modal.ob.tag
        /\ \E k \in DOMAIN template' : template'[k] = node
    BY <1>1, OkWrites DEF PageInv
  <2>2. modal.text # "nonsense"
    BY <2>1 DEF IsOutModal
  <2>3. node.tag = modal.doc.tag /\ Remembered(modal.doc.vals) \subseteq node.vals
    BY <2>1 DEF IsOutModal, IsCurrent
  <2> QED
    BY <2>1, <2>2, <2>3
<1>2. PageInv /\ [Next]_vars =>
        [Ok /\ modal.tab = "json" =>
           /\ modal.text # "nonsense"
           /\ modal.text = "document" =>
                \E i \in DOMAIN template' :
                  /\ template'[i].tag = modal.doc.tag
                  /\ Remembered(modal.doc.vals) \subseteq template'[i].vals]_vars
  BY <1>1
<1> QED
  BY <1>2, PageInvariance, PTL DEF Spec, SavesWhatIsShown

-----------------------------------------------------------------------------
(* Types *)

CountInv ==
  /\ page \in {"inbounds", "xray", "left"} /\ isNew \in BOOLEAN
  /\ choices \in 0..MaxChoices /\ edits \in 0..MaxEdits

LEMMA CountsInitially == Init => CountInv
<1>1. MaxChoices \in Nat /\ MaxEdits \in Nat
  BY BoundAssumption
<1>2. Init => page \in {"inbounds", "xray", "left"} /\ isNew \in BOOLEAN
  BY DEF Init
<1>3. Init => choices = MaxChoices /\ edits = MaxEdits
  BY DEF Init
<1> QED
  BY <1>1, <1>2, <1>3 DEF CountInv

LEMMA CountStepKeeps == CountInv /\ [Next]_vars => CountInv'
<1> SUFFICES ASSUME CountInv, [Next]_vars
             PROVE  CountInv'
  OBVIOUS
<1>0. MaxChoices \in Nat /\ MaxEdits \in Nat
  BY BoundAssumption
<1>1. Spend \/ SpendEdit \/ Free \/ CopyLink \/ UNCHANGED vars
  BY DEF Next, OpenAdd, AddSimple, streamNetworkChange, ChooseSecurity, ChooseFlow, Switch,
     EditField, Save, openEditInbound, resetTraffic, Choose, OpenOutbound, SetProtocol, SetTag,
     SetEndpoint, SetNetwork, SetSecurity, SetFlow, SetSwitch, SetField, toggleJson, TypeField,
     TypeTag, TypeNonsense, TypeUnlisted, convertLink, Ok, Close, deleteOutbound
<1>2. choices' \in 0..MaxChoices /\ edits' \in 0..MaxEdits
  BY <1>0, <1>1 DEF CountInv, Spend, SpendEdit, Free, CopyLink, vars
<1>3. isNew' \in BOOLEAN
  BY DEF CountInv, Next, OpenAdd, AddSimple, streamNetworkChange, ChooseSecurity, ChooseFlow,
     Switch, EditField, Save, openEditInbound, resetTraffic, CopyLink, Choose, OpenOutbound,
     SetProtocol, SetTag, SetEndpoint, SetNetwork, SetSecurity, SetFlow, SetSwitch, SetField,
     toggleJson, TypeField, TypeTag, TypeNonsense, TypeUnlisted, convertLink, Ok, Close,
     deleteOutbound, Others, inbounds, vars
<1>4. page' \in {"inbounds", "xray", "left"}
  BY DEF CountInv, Next, OpenAdd, AddSimple, streamNetworkChange, ChooseSecurity, ChooseFlow,
     Switch, EditField, Save, openEditInbound, resetTraffic, CopyLink, Choose, OpenOutbound,
     SetProtocol, SetTag, SetEndpoint, SetNetwork, SetSecurity, SetFlow, SetSwitch, SetField,
     toggleJson, TypeField, TypeTag, TypeNonsense, TypeUnlisted, convertLink, Ok, Close,
     deleteOutbound, Others, vars
<1> QED
  BY <1>2, <1>3, <1>4 DEF CountInv

\* Every edit of the two forms is one of a field of its class and of an object
\* that is there, whatever was switched, typed, parsed or imported.
THEOREM FormTypes == Spec => []TypeOK
<1>1. Spec => []CountInv
  BY CountsInitially, CountStepKeeps, PTL DEF Spec
<1>2. InboundInv /\ PageInv /\ CountInv => TypeOK
  <2> SUFFICES ASSUME InboundInv, PageInv, CountInv
               PROVE  TypeOK
    OBVIOUS
  <2>1. form # None =>
          /\ form.protocol \in In!Protocols
          /\ form.network \in In!Networks \cup {"hysteria"}
          /\ \A e \in form.vals : IsEditOf(In!Classes, e) /\ (e[1] \in Optional => e[1] \in form.on)
    BY DEF InboundInv, FormInv, RowInv, Good, IsOffered, IsFilledIn
  <2>2. ASSUME modal # None
        PROVE  /\ modal.ob.protocol \in Out!Protocols
               /\ modal.ob.network \in Out!Networks \cup {"hysteria"}
               /\ \A e \in modal.ob.vals : /\ IsEditOf(Out!Classes, e)
                                           /\ e[1] \in Optional => e[1] \in modal.ob.on
               /\ modal.index \in 0..Len(template)
    <3>1. IsProper(modal.ob)
      BY <2>2 DEF PageInv, NodeInv, ModalInv, IsOutModal
    <3>2. modal.index \in {0} \cup DOMAIN template /\ DOMAIN template = 1..Len(template)
          /\ Len(template) \in Nat
      BY <2>2 DEF PageInv, NodeInv, ModalInv, TemplateInv
    <3> QED
      BY <3>1, <3>2 DEF IsProper, IsOutbound, IsPlaced, IsRooted
  <2> QED
    BY <2>1, <2>2 DEF CountInv, TypeOK
<1> QED
  BY <1>1, <1>2, InboundInvariance, PageInvariance, PTL

-----------------------------------------------------------------------------
(* The link that is imported was copied from the row that is there. *)

CopiedInv ==
  /\ page = "inbounds" => link = None
  /\ form # None => page = "inbounds"
  /\ modal # None => page = "xray"
  /\ link # None /\ saved # None =>
       /\ In!canEnableStream(saved)
       /\ \E t \in {"same", "tls", "none"} : link = In!Link(In!FromDocument(saved), t)

LEMMA CopiedInitially == Init => CopiedInv
  BY DEF Init, CopiedInv

LEMMA CopiedStepKeeps == CopiedInv /\ [Next]_vars => CopiedInv'
<1> SUFFICES ASSUME CopiedInv, [Next]_vars
             PROVE  CopiedInv'
  OBVIOUS
<1> USE DEF CopiedInv
<1>1. CASE OpenAdd
  BY <1>1 DEF OpenAdd, nodes
<1>2. CASE AddSimple \/ resetTraffic
  BY <1>2 DEF AddSimple, resetTraffic, nodes
<1>3. CASE streamNetworkChange \/ ChooseSecurity \/ ChooseFlow \/ Switch \/ EditField
  <2>1. form # None /\ UNCHANGED <<page, saved, link, modal>>
    BY <1>3 DEF streamNetworkChange, ChooseSecurity, ChooseFlow, Switch, EditField, Choose, nodes
  <2> QED
    BY <2>1
<1>4. CASE Save
  BY <1>4 DEF Save, nodes
<1>5. CASE openEditInbound
  BY <1>5 DEF openEditInbound, nodes
<1>6. CASE CopyLink
  <2>1. \E t \in {"same", "tls", "none"} : link' = In!Link(In!FromDocument(saved), t)
    BY <1>6 DEF CopyLink
  <2> QED
    BY <1>6, <2>1 DEF CopyLink, nodes
<1>7. CASE OpenOutbound
  BY <1>7 DEF OpenOutbound, inbounds
<1>8. CASE convertLink
  BY <1>8 DEF convertLink, InJson
<1>9. CASE Ok
  BY <1>9 DEF Ok, inbounds
<1>10. CASE Close
  BY <1>10 DEF Close, Others, inbounds
<1>11. CASE deleteOutbound
  BY <1>11 DEF deleteOutbound, inbounds
<1>12. CASE \/ SetProtocol \/ SetTag \/ SetEndpoint \/ SetNetwork \/ SetSecurity \/ SetFlow
            \/ SetSwitch \/ SetField \/ toggleJson \/ TypeField \/ TypeTag \/ TypeNonsense
            \/ TypeUnlisted
  <2>1. modal # None /\ UNCHANGED <<page, form, saved, link>>
    BY <1>12 DEF SetProtocol, SetTag, SetEndpoint, SetNetwork, SetSecurity, SetFlow, SetSwitch,
         SetField, toggleJson, TypeField, TypeTag, TypeNonsense, TypeUnlisted, InForm, InJson,
         Others, inbounds
  <2> QED
    BY <2>1
<1>13. CASE UNCHANGED vars
  BY <1>13 DEF vars
<1> QED
  BY <1>1, <1>2, <1>3, <1>4, <1>5, <1>6, <1>7, <1>8, <1>9, <1>10, <1>11, <1>12, <1>13 DEF Next

-----------------------------------------------------------------------------
(* The two halves of the link format *)

\* What an outbound needs of a transport is in both formats, the mode of XHTTP
\* in VMess aside.
LEMMA TransportsAgree ==
  ASSUME NEW c \in DOMAIN Needed \ {"vless"}, NEW n \in Needed[c]
  PROVE  /\ \E p : <<c, n[1], p>> \in In!TransportParams /\ <<c, p, n[2]>> \in Out!UrlParams
         /\ \/ \E p : <<c, n[1], p>> \in In!VmessParams /\ <<c, p, n[2]>> \in Out!VmessParams
            \/ c = "xhttp" /\ n[2] = "mode"
<1> USE DEF Needed, In!TransportParams, In!VmessParams, Out!UrlParams, Out!VmessParams,
            Out!LinkParams
<1>1. CASE c = "request"
  <2>1. n = <<"path", "path">> \/ n = <<"headers", "host">>
    BY <1>1
  <2> QED
    BY <1>1, <2>1
<1>2. CASE c = "kcp"
  <2>1. n = <<"mtu", "mtu">> \/ n = <<"tti", "tti">>
    BY <1>2
  <2> QED
    BY <1>2, <2>1
<1>3. CASE c = "ws"
  <2>1. n = <<"path", "path">> \/ n = <<"host", "host">> \/ n = <<"headers", "host">>
    BY <1>3
  <2> QED
    BY <1>3, <2>1
<1>4. CASE c = "httpupgrade"
  <2>1. n = <<"path", "path">> \/ n = <<"host", "host">> \/ n = <<"headers", "host">>
    BY <1>4
  <2> QED
    BY <1>4, <2>1
<1>5. CASE c = "xhttp"
  <2>1. \/ n = <<"path", "path">> \/ n = <<"host", "host">> \/ n = <<"headers", "host">>
        \/ n = <<"mode", "mode">>
    BY <1>5
  <2> QED
    BY <1>5, <2>1
<1>6. CASE c = "grpc"
  <2>1. \/ n = <<"serviceName", "serviceName">> \/ n = <<"authority", "authority">>
        \/ n = <<"multiMode", "multiMode">>
    BY <1>6
  <2> QED
    BY <1>6, <2>1
<1> QED
  BY <1>1, <1>2, <1>3, <1>4, <1>5, <1>6

\* The same for the security; ECH is not in VMess.
SecuredBy(c) == IF c \in {"tls", "tlsSettings"} THEN "tls" ELSE "reality"

LEMMA SecuritiesAgree ==
  ASSUME NEW c \in DOMAIN NeededSecurity, NEW n \in NeededSecurity[c]
  PROVE  /\ \E p : /\ <<c, n[1], p>> \in (IF SecuredBy(c) = "tls"
                                          THEN In!TlsParams \cup {In!EchParam}
                                          ELSE In!RealityParams)
                   /\ <<SecuredBy(c), p, n[2]>> \in Out!UrlParams
         /\ \/ \E p : /\ <<c, n[1], p>> \in In!TlsParams
                      /\ <<"tls", p, n[2]>> \in Out!VmessParams
            \/ c \notin {"tls", "tlsSettings"} \/ n[2] = "echConfigList"
<1> USE DEF NeededSecurity, SecuredBy, In!TlsParams, In!EchParam, In!RealityParams,
            Out!UrlParams, Out!VmessParams, Out!LinkParams
<1>1. CASE c = "tls"
  <2>1. n = <<"sni", "serverName">> \/ n = <<"alpn", "alpn">>
    BY <1>1
  <2> QED
    BY <1>1, <2>1
<1>2. CASE c = "tlsSettings"
  <2>1. n = <<"fingerprint", "fingerprint">> \/ n = <<"echConfigList", "echConfigList">>
    BY <1>2
  <2> QED
    BY <1>2, <2>1
<1>3. CASE c = "reality"
  <2>1. n = <<"serverNames", "serverName">> \/ n = <<"shortIds", "shortId">>
    BY <1>3
  <2> QED
    BY <1>3, <2>1
<1>4. CASE c = "realitySettings"
  <2>1. \/ n = <<"publicKey", "publicKey">> \/ n = <<"fingerprint", "fingerprint">>
        \/ n = <<"spiderX", "spiderX">> \/ n = <<"mldsa65Verify", "mldsa65Verify">>
    BY <1>4
  <2> QED
    BY <1>4, <2>1
<1> QED
  BY <1>1, <1>2, <1>3, <1>4

-----------------------------------------------------------------------------
(* What a link carries, and what is read of it *)

\* Which object of an inbound is sent says what the inbound is.
LEMMA ObjectsOfInbound ==
  ASSUME NEW f, IsOffered(f), NEW c \in In!Parts(f)
  PROVE  /\ c \in DOMAIN Needed \ {"request", "vless"} => f.network = c
         /\ c = "request" => f.network = "tcp" /\ "httpHeader" \in f.on
         /\ c = "vless" => f.protocol = "vless"
         /\ c = "tcp" => f.network = "tcp"
         /\ c \in DOMAIN NeededSecurity => f.security = SecuredBy(c)
<1> DEFINE networks == {"kcp", "ws", "httpupgrade", "xhttp", "grpc", "tcp"}
           told == networks \cup {"request", "vless", "tls", "tlsSettings", "reality",
                                  "realitySettings"}
<1>1. /\ DOMAIN Needed \ {"request", "vless"} = networks \ {"tcp"}
      /\ DOMAIN NeededSecurity = {"tls", "tlsSettings", "reality", "realitySettings"}
  BY DEF Needed, NeededSecurity
<1>2. c \in In!SettingsParts(f) \cap told => c = "vless" /\ f.protocol = "vless"
  <2>1. In!Client(f.protocol) \cap told = {}
    BY DEF In!Client
  <2>2. {f.protocol} \cap told \subseteq {"vless"}
    BY DEF IsOffered, In!Protocols
  <2> QED
    BY <2>1, <2>2 DEF In!SettingsParts
<1>3. c \in In!TransportParts(f) \cap told =>
        \/ c = f.network /\ c \in networks
        \/ c = "request" /\ f.network = "tcp" /\ "httpHeader" \in f.on
  BY DEF In!TransportParts, IsOffered, In!Networks
<1>4. c \in In!SecurityParts(f) \cap told =>
        \/ c \in {"tls", "tlsSettings"} /\ f.security = "tls"
        \/ c \in {"reality", "realitySettings"} /\ f.security = "reality"
  BY DEF In!SecurityParts
<1>5. In!FinalMaskParts(f) \cap told = {}
  BY InboundMaskNames DEF In!FinalMaskParts
<1>6. c \in told =>
        \/ c \in In!SettingsParts(f) \/ c \in In!TransportParts(f)
        \/ c \in In!SecurityParts(f)
  BY <1>5 DEF In!Parts, In!StreamParts
<1> QED
  BY <1>1, <1>2, <1>3, <1>4, <1>6 DEF SecuredBy

\* What is read of a row is of an object that the row sends.
LEMMA ReadIsSent ==
  ASSUME NEW d, IsRow(d), NEW e \in In!FromDocument(d).vals
  PROVE  e = <<e[1], e[2], e[3]>> /\ e[1] \in In!Parts(d)
<1>1. IsForm(d)
  BY DEF IsRow, Good
<1> PICK j \in d.vals : \E k : e = <<j[1], k, j[3]>>
  BY <1>1, ReadValues
<1>2. \E k : Sends(d, j[1], k, j[3])
  BY DEF IsRow
<1> QED
  BY <1>2 DEF Sends

LEMMA LinkFields ==
  ASSUME NEW f, NEW t
  PROVE  LET l == In!Link(f, t) IN
         /\ l.protocol = f.protocol /\ l.network = f.network
         /\ l.flow = (f.flow /\ f.network = "tcp" /\ l.security = f.security
                      /\ l.security # "none")
         /\ l.on = f.on \cap {"httpHeader", "obfs"}
  BY DEF In!Link

\* What a link always carries.
Described(f) ==
  (IF f.protocol = "vmess" THEN In!VmessParams ELSE In!TransportParams) \cup
  (IF f.protocol = "vless" THEN {<<"vless", "encryption", "encryption">>} ELSE {})

LEMMA LinkDescribes ==
  ASSUME NEW f, NEW t, NEW u \in Described(f), NEW v \in {"set", "twice"},
         <<u[1], u[2], v>> \in f.vals
  PROVE  u[3] \in In!Link(f, t).params
<1> PICK protocol : protocol = f.protocol
  OBVIOUS
<1> QED
  BY DEF In!Link, Described

\* What it carries of its security.
SecuredParams(f) ==
  CASE f.security = "tls" -> In!TlsParams \cup IF f.protocol = "vmess" THEN {} ELSE {In!EchParam}
    [] f.security = "reality" -> In!RealityParams
    [] OTHER -> {}

LEMMA LinkSecures ==
  ASSUME NEW f, NEW t, In!Link(f, t).security = f.security, NEW u \in SecuredParams(f),
         <<u[1], u[2], "set">> \in f.vals
  PROVE  u[3] \in In!Link(f, t).params
  BY DEF In!Link, SecuredParams

LEMMA RenderedAlready ==
  ASSUME NEW f, IsNode(f), IsRendered(f)
  PROVE  Out!Rendered(f) = f
<1>1. (IF ~f.flow /\ f.network # "xhttp" THEN f.on ELSE f.on \ {"mux"}) = f.on
  BY DEF IsRendered
<1>2. Out!Rendered(f) = [f EXCEPT !.on = f.on]
  BY <1>1 DEF Out!Rendered
<1> QED
  BY <1>2 DEF IsNode

\* fromLink: every parameter of an object that the outbound has goes into it.
ParamsOf(protocol) == IF protocol = "vmess" THEN Out!VmessParams ELSE Out!UrlParams

LEMMA ImportedFields ==
  ASSUME NEW l, IsLink(l), l.protocol # "hysteria2", NEW remark
  PROVE  LET ob == Out!Rendered(Out!fromLink(l, remark)) IN
         /\ ob.protocol = l.protocol /\ ob.network = l.network /\ ob.security = l.security
         /\ ob.flow = l.flow /\ ob.on = l.on \cap {"httpHeader"}
         /\ \A p \in ParamsOf(l.protocol) :
              p[1] \in Out!Parts(ob) /\ p[2] \in l.params => <<p[1], p[3], "set">> \in ob.vals
<1> PICK params : params = ParamsOf(l.protocol)
  OBVIOUS
<1> PICK new : new = Out!NewForm(l.protocol)
  OBVIOUS
<1> PICK on : on = l.on \cap {"httpHeader"}
  OBVIOUS
<1> PICK f : f = [new EXCEPT !.tag = remark, !.network = l.network, !.security = l.security,
                             !.flow = l.flow, !.on = on]
  OBVIOUS
<1> PICK read : read = {p \in params : p[1] \in Out!Parts(f) /\ p[2] \in l.params}
  OBVIOUS
<1> PICK vals : vals = {<<p[1], p[3], "set">> : p \in read} \cup Out!Endpoint(l.protocol) \cup
                       IF l.protocol = "shadowsocks"
                       THEN {<<"shadowsocks", "method", "set">>, <<"shadowsocks", "uot", "set">>}
                       ELSE {}
  OBVIOUS
<1> PICK g : g = [f EXCEPT !.vals = vals]
  OBVIOUS
<1>1. Out!fromLink(l, remark) = g
  <2>1. Out!fromParamLink(l, remark, params) = g
    BY DEF Out!fromParamLink
  <2>2. Out!fromLink(l, remark) = Out!fromParamLink(l, remark, params)
    BY DEF Out!fromLink, Out!fromVmessLink, ParamsOf
  <2> QED
    BY <2>1, <2>2
<1>2. IsNode(new) /\ new.protocol = l.protocol
  BY NewOutbound DEF IsLink, Out!Protocols
<1>3. /\ IsNode(f) /\ f.protocol = l.protocol /\ f.network = l.network
      /\ f.security = l.security /\ f.flow = l.flow /\ f.on = on
  BY <1>2 DEF IsNode
<1>4. /\ IsNode(g) /\ g.protocol = l.protocol /\ g.network = l.network
      /\ g.security = l.security /\ g.flow = l.flow /\ g.on = on /\ g.vals = vals
  BY <1>3 DEF IsNode
<1>5. Out!Rendered(g) = g
  BY <1>4, RenderedAlready DEF IsRendered
<1>6. Out!Parts(g) = Out!Parts(f)
  <2>1. /\ g.protocol = f.protocol /\ g.on = f.on /\ g.network = f.network
        /\ g.security = f.security
    BY <1>3, <1>4
  <2> QED
    BY ONLY <2>1, SameParts
<1>7. \A p \in params :
        p[1] \in Out!Parts(g) /\ p[2] \in l.params => <<p[1], p[3], "set">> \in g.vals
  <2> SUFFICES ASSUME NEW p \in params, p[1] \in Out!Parts(g), p[2] \in l.params
               PROVE  <<p[1], p[3], "set">> \in vals
    BY <1>4
  <2>1. p \in read
    BY <1>6
  <2> QED
    BY <2>1
<1>8. /\ Out!Rendered(Out!fromLink(l, remark)) = g
      /\ g.flow = l.flow /\ g.on = l.on \cap {"httpHeader"}
  BY <1>1, <1>4, <1>5
<1> QED
  BY <1>4, <1>7, <1>8

\* Hysteria's links tell the protocol only.
LEMMA ImportedHysteria ==
  ASSUME NEW l, l.protocol = "hysteria2", NEW remark
  PROVE  LET ob == Out!Rendered(Out!fromLink(l, remark)) IN
         ob.protocol = "hysteria2" /\ ob.network = "hysteria" /\ ob.security = "none"
<1> PICK new : new = Out!NewForm("hysteria2")
  OBVIOUS
<1> PICK vals : vals = Out!Endpoint("hysteria2")
  OBVIOUS
<1> PICK g : g = [new EXCEPT !.tag = remark, !.network = "hysteria", !.vals = vals]
  OBVIOUS
<1>1. Out!fromLink(l, remark) = g
  BY DEF Out!fromLink, Out!fromHysteriaLink
<1>2. /\ IsNode(new) /\ new.protocol = "hysteria2" /\ new.security = "none"
      /\ ~new.flow
  BY NewOutbound DEF Out!NewForm, Out!Protocols
<1>3. /\ IsNode(g) /\ g.protocol = "hysteria2" /\ g.network = "hysteria"
      /\ g.security = "none" /\ ~g.flow
  BY <1>2 DEF IsNode
<1>4. Out!Rendered(Out!fromLink(l, remark)) = g
  BY <1>1, <1>3, RenderedAlready DEF IsRendered
<1> QED
  BY <1>3, <1>4

\* An outbound has the objects its fields name.
LEMMA ObjectsOfOutbound ==
  ASSUME NEW f, Out!canEnableStream(f)
  PROVE  /\ f.protocol \in Out!Parts(f)
         /\ f.network # "tcp" => f.network \in Out!Parts(f)
         /\ f.network = "tcp" /\ "httpHeader" \in f.on => "request" \in Out!Parts(f)
         /\ f.security # "none" => f.security \in Out!Parts(f)
  BY DEF Out!Parts, Out!StreamParts

\* convertLink: the modal's outbound is the one of the link.
LEMMA ConvertedOutbound ==
  ASSUME NodeInv, convertLink
  PROVE  \E remark : modal'.ob = Out!Rendered(Out!fromLink(link, remark))
<1> PICK remark : modal' = check(Shows([modal EXCEPT !.ob =
                                          Out!Rendered(Out!fromLink(link, remark))]))
  BY DEF convertLink
<1> PICK f : f = Out!Rendered(Out!fromLink(link, remark))
  OBVIOUS
<1> PICK m : m = [modal EXCEPT !.ob = f]
  OBVIOUS
<1> PICK doc : doc = Out!Json(m.ob)
  OBVIOUS
<1> PICK s : s = [m EXCEPT !.text = "document", !.doc = doc]
  OBVIOUS
<1>1. IsModal(modal)
  BY DEF convertLink, InJson, NodeInv, ModalInv, IsOutModal
<1>2. IsModal(m) /\ m.ob = f
  BY <1>1 DEF IsModal
<1>3. IsModal(s) /\ s.ob = f /\ Shows(m) = s
  BY <1>2 DEF IsModal, Shows
<1>4. \E valid : check(s) = [s EXCEPT !.isValid = valid]
  BY DEF check
<1>5. check(s).ob = f
  BY <1>3, <1>4 DEF IsModal
<1> QED
  BY <1>3, <1>5

-----------------------------------------------------------------------------
(* The two halves of the link format agree. *)

\* The transport and the encryption.
LEMMA TransportIsImported ==
  ASSUME NEW d, IsRow(d), In!canEnableStream(d), NEW t \in {"same", "tls", "none"}, NEW remark,
         NEW l, l = In!Link(In!FromDocument(d), t),
         NEW ob, ob = Out!Rendered(Out!fromLink(l, remark)),
         NEW e \in In!FromDocument(d).vals, e[1] \in DOMAIN Needed, e[3] \in {"set", "twice"},
         NEW n \in Needed[e[1]], n[1] = e[2], <<e[1], n[2]>> \notin NotCarried(ob)
  PROVE  <<e[1], n[2], "set">> \in ob.vals
<1> PICK f : f = In!FromDocument(d)
  OBVIOUS
<1>1. /\ Good(f) /\ f.protocol = d.protocol /\ f.network = d.network /\ f.on = d.on
  BY RowIsRead
<1>2. e \in f.vals /\ e = <<e[1], e[2], e[3]>> /\ e[1] \in In!Parts(d)
  BY ReadIsSent
<1>3. /\ e[1] \in DOMAIN Needed \ {"request", "vless"} => d.network = e[1]
      /\ e[1] = "request" => d.network = "tcp" /\ "httpHeader" \in d.on
      /\ e[1] = "vless" => d.protocol = "vless"
  BY <1>2, ObjectsOfInbound DEF IsRow, Good
<1>4. d.protocol # "hysteria2"
  <2> SUFFICES ASSUME d.protocol = "hysteria2"
               PROVE  FALSE
    OBVIOUS
  <2>1. d.network = "hysteria"
    BY DEF IsRow, Good, IsOffered
  <2>2. "hysteria" \notin DOMAIN Needed
    BY DEF Needed
  <2> QED
    BY <1>3, <2>1, <2>2
<1>5. l = In!Link(f, t) /\ IsLink(l)
  BY <1>1, CopiedIsLink DEF In!canEnableStream
<1>6. l.protocol = d.protocol /\ l.network = d.network /\ l.on = d.on \cap {"httpHeader", "obfs"}
  BY <1>1, <1>5, LinkFields
<1>7. /\ ob.protocol = l.protocol /\ ob.network = l.network
      /\ ob.on = l.on \cap {"httpHeader"}
      /\ \A p \in ParamsOf(l.protocol) :
           p[1] \in Out!Parts(ob) /\ p[2] \in l.params => <<p[1], p[3], "set">> \in ob.vals
  BY <1>4, <1>5, <1>6, ImportedFields
<1>8. e[1] \in Out!Parts(ob)
  <2>1. Out!canEnableStream(ob)
    BY <1>6, <1>7 DEF In!canEnableStream, Out!canEnableStream
  <2>2. "tcp" \notin DOMAIN Needed
    BY DEF Needed
  <2> QED
    BY <1>3, <1>6, <1>7, <2>1, <2>2, ObjectsOfOutbound
<1>9. \E p : <<e[1], n[1], p>> \in Described(f) /\ <<e[1], p, n[2]>> \in ParamsOf(l.protocol)
  <2>1. CASE e[1] = "vless"
    <3>1. n = <<"encryption", "encryption">>
      BY <2>1 DEF Needed
    <3>2. <<"vless", "encryption", "encryption">> \in Described(f)
      BY <1>1, <1>3, <2>1 DEF Described
    <3>3. <<"vless", "encryption", "encryption">> \in ParamsOf(l.protocol)
      BY <1>3, <1>6, <2>1 DEF ParamsOf, Out!UrlParams
    <3> QED
      BY <2>1, <3>1, <3>2, <3>3
  <2>2. CASE e[1] # "vless" /\ d.protocol = "vmess"
    <3>1. ~(e[1] = "xhttp" /\ n[2] = "mode")
      BY <1>6, <1>7, <2>2 DEF NotCarried
    <3>2. \E p : <<e[1], n[1], p>> \in In!VmessParams /\ <<e[1], p, n[2]>> \in Out!VmessParams
      BY <2>2, <3>1, TransportsAgree
    <3> QED
      BY <1>1, <1>6, <2>2, <3>2 DEF Described, ParamsOf
  <2>3. CASE e[1] # "vless" /\ d.protocol # "vmess"
    <3>1. \E p : <<e[1], n[1], p>> \in In!TransportParams /\ <<e[1], p, n[2]>> \in Out!UrlParams
      BY <2>3, TransportsAgree
    <3> QED
      BY <1>1, <1>6, <2>3, <3>1 DEF Described, ParamsOf
  <2> QED
    BY <2>1, <2>2, <2>3
<1> PICK p : <<e[1], n[1], p>> \in Described(f) /\ <<e[1], p, n[2]>> \in ParamsOf(l.protocol)
  BY <1>9
<1>10. p \in l.params
  <2> PICK u : u = <<e[1], n[1], p>>
    OBVIOUS
  <2> PICK v : v = e[3]
    OBVIOUS
  <2>1. /\ u \in Described(f) /\ v \in {"set", "twice"} /\ <<u[1], u[2], v>> \in f.vals
        /\ u[3] = p
    BY <1>2
  <2>2. u[3] \in In!Link(f, t).params
    BY ONLY <2>1, LinkDescribes
  <2> QED
    BY <1>5, <2>1, <2>2
<1> PICK q : q = <<e[1], p, n[2]>>
  OBVIOUS
<1>11. q \in ParamsOf(l.protocol) /\ q[1] = e[1] /\ q[2] = p /\ q[3] = n[2]
  OBVIOUS
<1> QED
  BY <1>7, <1>8, <1>10, <1>11

\* The security.
LEMMA SecurityIsImported ==
  ASSUME NEW d, IsRow(d), In!canEnableStream(d), NEW t \in {"same", "tls", "none"}, NEW remark,
         NEW l, l = In!Link(In!FromDocument(d), t), l.security = d.security,
         NEW ob, ob = Out!Rendered(Out!fromLink(l, remark)), ob.security = d.security,
         NEW e \in In!FromDocument(d).vals, e[1] \in DOMAIN NeededSecurity, e[3] = "set",
         NEW n \in NeededSecurity[e[1]], n[1] = e[2],
         <<ob.security, n[2]>> \notin NotCarried(ob)
  PROVE  <<ob.security, n[2], "set">> \in ob.vals
<1> PICK f : f = In!FromDocument(d)
  OBVIOUS
<1>1. /\ Good(f) /\ f.protocol = d.protocol /\ f.network = d.network /\ f.on = d.on
      /\ f.security = d.security
  BY RowIsRead
<1>2. e \in f.vals /\ e = <<e[1], e[2], e[3]>> /\ e[1] \in In!Parts(d)
  BY ReadIsSent
<1>3. d.security = SecuredBy(e[1]) /\ d.security \in {"tls", "reality"}
  BY <1>2, ObjectsOfInbound DEF IsRow, Good, SecuredBy
<1>4. l = In!Link(f, t) /\ IsLink(l)
  BY <1>1, CopiedIsLink DEF In!canEnableStream
<1>5. l.protocol = d.protocol
  BY <1>1, <1>4, LinkFields
<1>6. d.protocol # "hysteria2"
  BY <1>3, <1>5, ImportedHysteria
<1>7. /\ ob.protocol = l.protocol
      /\ \A p \in ParamsOf(l.protocol) :
           p[1] \in Out!Parts(ob) /\ p[2] \in l.params => <<p[1], p[3], "set">> \in ob.vals
  BY <1>4, <1>5, <1>6, ImportedFields
<1>8. d.security \in Out!Parts(ob)
  <2>1. Out!canEnableStream(ob)
    BY <1>5, <1>7 DEF In!canEnableStream, Out!canEnableStream
  <2> QED
    BY <1>3, <2>1, ObjectsOfOutbound
<1>9. \E p : /\ <<e[1], n[1], p>> \in SecuredParams(f)
             /\ <<d.security, p, n[2]>> \in ParamsOf(l.protocol)
  <2>1. CASE d.protocol = "vmess"
    <3>1. d.security = "tls"
      BY <1>3, <2>1 DEF IsRow, Good, Coherent
    <3>2. e[1] \in {"tls", "tlsSettings"}
      BY <1>3, <3>1 DEF SecuredBy
    <3>3. n[2] # "echConfigList"
      BY <1>5, <1>7, <2>1, <3>1 DEF NotCarried
    <3>4. \E p : <<e[1], n[1], p>> \in In!TlsParams /\ <<"tls", p, n[2]>> \in Out!VmessParams
      BY <3>2, <3>3, SecuritiesAgree
    <3> QED
      BY <1>1, <1>5, <2>1, <3>1, <3>4 DEF SecuredParams, ParamsOf
  <2>2. CASE d.protocol # "vmess"
    <3>1. \E p : /\ <<e[1], n[1], p>> \in (IF SecuredBy(e[1]) = "tls"
                                           THEN In!TlsParams \cup {In!EchParam}
                                           ELSE In!RealityParams)
                 /\ <<SecuredBy(e[1]), p, n[2]>> \in Out!UrlParams
      BY SecuritiesAgree
    <3> QED
      BY <1>1, <1>3, <1>5, <2>2, <3>1 DEF SecuredParams, ParamsOf
  <2> QED
    BY <2>1, <2>2
<1> PICK p : /\ <<e[1], n[1], p>> \in SecuredParams(f)
             /\ <<d.security, p, n[2]>> \in ParamsOf(l.protocol)
  BY <1>9
<1>10. p \in l.params
  <2> PICK u : u = <<e[1], n[1], p>>
    OBVIOUS
  <2>1. u \in SecuredParams(f) /\ <<u[1], u[2], "set">> \in f.vals /\ u[3] = p
    BY <1>2
  <2> QED
    BY <1>1, <1>4, <2>1, LinkSecures
<1> PICK q : q = <<d.security, p, n[2]>>
  OBVIOUS
<1>11. q \in ParamsOf(l.protocol) /\ q[1] = d.security /\ q[2] = p /\ q[3] = n[2]
  OBVIOUS
<1> QED
  BY <1>7, <1>8, <1>10, <1>11

-----------------------------------------------------------------------------
(* The import *)

\* A link copied from an inbound, through an external proxy or not, and imported
\* on the other page makes an outbound with the inbound's transport, security and
\* flow and with what it must know of them, for every inbound that any steps of
\* the form, saved, reset and reopened, can make.
THEOREM ImportsMatter == Spec => ImportKeepsWhatMatters
<1> DEFINE
      Imported ==
       LET ob == modal'.ob IN
       /\ <<ob.protocol, ob.network>> = <<saved.protocol, saved.network>>
       /\ saved.protocol # "hysteria2" =>
            /\ link.security = saved.security => Secured(ob) /\ ob.flow = saved.flow
            /\ "httpHeader" \in saved.on /\ saved.network = "tcp" <=> "httpHeader" \in ob.on
       /\ \A e \in In!FromDocument(saved).vals :
            /\ e[1] \in DOMAIN Needed /\ e[3] \in {"set", "twice"} =>
                 \A n \in Needed[e[1]] :
                   n[1] = e[2] /\ <<e[1], n[2]>> \notin NotCarried(ob) =>
                     <<e[1], n[2], "set">> \in ob.vals
            /\ e[1] \in DOMAIN NeededSecurity /\ e[3] = "set" /\ Secured(ob) =>
                 \A n \in NeededSecurity[e[1]] :
                   n[1] = e[2] /\ <<ob.security, n[2]>> \notin NotCarried(ob) =>
                     <<ob.security, n[2], "set">> \in ob.vals
<1>1. ASSUME InboundInv, PageInv, CopiedInv, convertLink, saved # None
      PROVE  Imported
  <2> PICK remark : modal'.ob = Out!Rendered(Out!fromLink(link, remark))
    BY <1>1, ConvertedOutbound DEF PageInv
  <2> PICK ob : ob = Out!Rendered(Out!fromLink(link, remark))
    OBVIOUS
  <2> PICK f : f = In!FromDocument(saved)
    OBVIOUS
  <2>1. IsRow(saved) /\ In!canEnableStream(saved) /\ IsLink(link) /\ link # None
    BY <1>1 DEF InboundInv, RowInv, PageInv, CopiedInv, LinkInv, convertLink
  <2> PICK t \in {"same", "tls", "none"} : link = In!Link(f, t)
    BY <1>1, <2>1 DEF CopiedInv
  <2>2. /\ Good(f) /\ f.protocol = saved.protocol /\ f.network = saved.network
        /\ f.security = saved.security /\ f.flow = saved.flow /\ f.on = saved.on
    BY <2>1, RowIsRead
  <2>3. /\ link.protocol = f.protocol /\ link.network = f.network
        /\ link.flow = (f.flow /\ f.network = "tcp" /\ link.security = f.security
                        /\ link.security # "none")
        /\ link.on = f.on \cap {"httpHeader", "obfs"}
    BY LinkFields
  <2>4. ASSUME saved.protocol # "hysteria2"
        PROVE  /\ ob.protocol = link.protocol /\ ob.network = link.network
               /\ ob.security = link.security /\ ob.flow = link.flow
               /\ ob.on = link.on \cap {"httpHeader"}
    BY <2>1, <2>2, <2>3, <2>4, ImportedFields
  <2>5. ob.protocol = saved.protocol /\ ob.network = saved.network
    <3>1. CASE saved.protocol = "hysteria2"
      <4>1. link.protocol = "hysteria2"
        BY <2>2, <2>3, <3>1
      <4>2. ob.protocol = "hysteria2" /\ ob.network = "hysteria"
        BY <4>1, ImportedHysteria
      <4>3. saved.network = "hysteria"
        BY <2>1, <3>1 DEF IsRow, Good, IsOffered
      <4> QED
        BY <3>1, <4>2, <4>3
    <3> QED
      BY <2>2, <2>3, <2>4, <3>1
  <2>6. ASSUME saved.protocol # "hysteria2", link.security = saved.security
        PROVE  Secured(ob) /\ ob.flow = saved.flow
    <3>1. saved.flow \in BOOLEAN /\ (saved.flow => In!canEnableTlsFlow(saved))
      BY <2>1 DEF IsRow, Good, Coherent
    <3>2. link.flow = saved.flow
      BY <2>2, <2>3, <2>6, <3>1 DEF In!canEnableTlsFlow
    <3> QED
      BY <2>4, <2>6, <3>2 DEF Secured
  <2>7. ASSUME saved.protocol # "hysteria2"
        PROVE  "httpHeader" \in saved.on /\ saved.network = "tcp" <=> "httpHeader" \in ob.on
    <3>1. "httpHeader" \in saved.on => saved.network = "tcp"
      <4>1. In!Carried("httpHeader") = "tcp"
        BY DEF In!Carried, In!Carrier
      <4>2. "httpHeader" \in saved.on => "tcp" \in In!Parts(saved)
        BY <2>1, <4>1 DEF IsRow
      <4> QED
        BY <2>1, <4>2, ObjectsOfInbound DEF IsRow, Good
    <3>2. ob.on = saved.on \cap {"httpHeader"}
      BY <2>2, <2>3, <2>4, <2>7
    <3> QED
      BY <3>1, <3>2
  <2>8. ASSUME NEW e \in f.vals, e[1] \in DOMAIN Needed, e[3] \in {"set", "twice"},
               NEW n \in Needed[e[1]], n[1] = e[2], <<e[1], n[2]>> \notin NotCarried(ob)
        PROVE  <<e[1], n[2], "set">> \in ob.vals
    BY <2>1, <2>8, TransportIsImported
  <2>9. ASSUME NEW e \in f.vals, e[1] \in DOMAIN NeededSecurity, e[3] = "set", Secured(ob),
               NEW n \in NeededSecurity[e[1]], n[1] = e[2],
               <<ob.security, n[2]>> \notin NotCarried(ob)
        PROVE  <<ob.security, n[2], "set">> \in ob.vals
    <3>1. link.security = saved.security /\ ob.security = saved.security
      BY <2>9 DEF Secured
    <3> QED
      BY <2>1, <2>9, <3>1, SecurityIsImported
  <2> QED
    BY <2>5, <2>6, <2>7, <2>8, <2>9
<1>2. InboundInv /\ PageInv /\ CopiedInv /\ [Next]_vars =>
        [convertLink /\ saved # None => Imported]_vars
  BY <1>1
<1>3. Spec => []CopiedInv
  BY CopiedInitially, CopiedStepKeeps, PTL DEF Spec
<1> QED
  BY <1>2, <1>3, InboundInvariance, PageInvariance, PTL DEF Spec, ImportKeepsWhatMatters

=============================================================================
