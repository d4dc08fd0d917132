---- MODULE OutboundModel ----
(***************************************************************************)
(* The outbound form's model (web/assets/js/model/outbound.js): the        *)
(* classes of an outbound, its JSON, what makes it valid, and the import   *)
(* of a share link. A form is a record                                     *)
(*   tag, protocol, network, security                                      *)
(*   flow    the vision flow                                               *)
(*   on      the switches that are on                                      *)
(*   vals    the edits                                                     *)
(*   legacy  how the settings of a VLESS outbound were written: flat, as   *)
(*           one vnext with one user, or (readonly) as a mixture of both   *)
(*           or a vnext with several servers or users                      *)
(***************************************************************************)
EXTENDS FormCodec

----------------------------------------------------------------------------
(* Transports and security *)

TcpStreamSettings == Fields({"host", "path"})

\* Mistake: fromJson reads the capacities under the names of the fields.
MistakenKcpStreamSettings ==
  [Fields({"mtu", "tti", "upCap", "downCap"}) EXCEPT !.to["upCap"] = "uplinkCapacity",
                                                     !.to["downCap"] = "downlinkCapacity"]

KcpStreamSettings ==
  LET keys == [Same({"mtu", "tti", "upCap", "downCap", "cwndMultiplier", "maxSendingWindow"})
                 EXCEPT !["upCap"] = "uplinkCapacity", !["downCap"] = "downlinkCapacity"]
  IN [Fields(DOMAIN keys) EXCEPT !.to = keys, !.from = keys]

WsStreamSettings == [Fields({"path", "host", "heartbeatPeriod"}) EXCEPT !.filled = {"path"}]
GrpcStreamSettings == Fields({"serviceName", "authority", "multiMode"})
HttpUpgradeStreamSettings == [Fields({"path", "host"}) EXCEPT !.filled = {"path"}]

xHTTPStreamSettings ==
  [Fields({"path", "host", "mode", "noGRPCHeader", "scMinPostsIntervalMs", "maxConcurrency",
           "maxConnections", "cMaxReuseTimes", "hMaxRequestTimes", "hMaxReusableSecs",
           "hKeepAlivePeriod"})
     EXCEPT !.filled = {"path", "scMinPostsIntervalMs", "maxConcurrency"}]

TlsStreamSettings == Fields({"serverName", "alpn", "fingerprint", "echConfigList",
                             "verifyPeerCertByName", "pinnedPeerCertSha256"})
RealityStreamSettings == Fields({"publicKey", "fingerprint", "serverName", "shortId",
                                 "spiderX", "mldsa65Verify"})

HysteriaStreamSettings ==
  LET keys == [Same({"auth", "congestion", "up", "down", "udphopPort", "udphopIntervalMin",
                     "udphopIntervalMax", "initStreamReceiveWindow", "maxStreamReceiveWindow",
                     "initConnectionReceiveWindow", "maxConnectionReceiveWindow",
                     "maxIdleTimeout", "keepAlivePeriod", "disablePathMTUDiscovery"})
                 EXCEPT !["udphopPort"] = "port", !["udphopIntervalMin"] = "intervalMin",
                        !["udphopIntervalMax"] = "intervalMax"]
      intervals == {"udphopIntervalMin", "udphopIntervalMax"}
  IN [Fields(DOMAIN keys) EXCEPT !.to = keys, !.from = keys,
                                 !.filled = intervals, !.restored = intervals]

SockoptStreamSettings ==
  Fields({"dialerProxy", "tcpFastOpen", "tcpKeepAliveInterval", "tcpMptcp", "penetrate",
          "addressPortStrategy", "trustedXForwardedFor"})

Mux == [Fields({"concurrency", "xudpConcurrency", "xudpProxyUDP443"})
          EXCEPT !.filled = {"concurrency", "xudpConcurrency"}]

----------------------------------------------------------------------------
(* Masks and QUIC *)

UdpMask == [salamander   |-> Fields({"password"}),
            aes128gcm    |-> Fields({"password"}),
            headerDns    |-> Fields({"domain"}),
            xdns         |-> Fields({"resolvers"}),
            xicmp        |-> Fields({"ip", "id"}),
            udpHeader    |-> Fields({"client", "server"}),
            noise        |-> Fields({"reset", "noise"}),
            mkcpOriginal |-> Fields({})]
TcpMask == [fragment  |-> [Fields({"packets", "length", "delay", "maxSplit"})
                             EXCEPT !.filled = {"packets"}],
            sudoku    |-> [Fields({"password", "ascii", "customTable", "customTables",
                                   "paddingMin", "paddingMax"}) EXCEPT !.lost = {"customTables"}],
            tcpHeader |-> Fields({"clients", "servers"})]

QuicParams ==
  LET numbers == {"initStreamReceiveWindow", "maxStreamReceiveWindow",
                  "initConnectionReceiveWindow", "maxConnectionReceiveWindow",
                  "maxIdleTimeout", "keepAlivePeriod", "maxIncomingStreams"}
  IN [Fields(numbers \cup {"congestion", "debug", "disablePathMTUDiscovery"})
        EXCEPT !.filled = numbers, !.restored = numbers]
QuicBrutal == [Fields({"brutalUp", "brutalDown"})
                 EXCEPT !.filled = {"brutalUp", "brutalDown"},
                        !.restored = {"brutalUp", "brutalDown"}]
QuicUdpHop == [Fields({"ports", "interval"}) EXCEPT !.filled = {"ports", "interval"}]

----------------------------------------------------------------------------
(* Settings of the protocols *)

FreedomSettings == Fields({"domainStrategy", "redirect"})
Fragment  == [Fields({"packets", "length", "interval", "maxSplit"}) EXCEPT !.filled = {"packets"}]
Noise     == [Fields({"type", "packet", "delay", "applyTo"}) EXCEPT !.filled = {"packet", "delay"}]
FinalRule == Fields({"action", "network", "port", "ip", "blockDelay"})

BlackholeSettings == Fields({"type"})
DNSSettings == [Fields({"network", "address", "port"}) EXCEPT !.filled = {"port"}]
DNSRule     == Fields({"action", "qtype", "domain"})

VmessSettings  == Fields({"address", "port", "id", "security"})
VLESSSettings  == [Fields({"address", "port", "id", "encryption", "reverseTag", "testpre",
                           "testseed"}) EXCEPT !.filled = {"encryption"}]
TrojanSettings == Fields({"address", "port", "password"})
ShadowsocksSettings == Fields({"address", "port", "password", "method", "uot", "UoTVersion"})
SocksSettings  == Fields({"address", "port", "user", "pass"})
HttpSettings   == Fields({"address", "port", "user", "pass"})
HysteriaSettings == [Fields({"address", "port"}) EXCEPT !.filled = {"port"}]

WireguardSettings ==
  [Fields({"mtu", "secretKey", "address", "workers", "domainStrategy", "reserved", "noKernelTun"})
     EXCEPT !.filled = {"mtu", "workers"}, !.restored = {"mtu", "workers"}]
Peer == LET keys == [Same({"publicKey", "psk", "allowedIPs", "endpoint", "keepAlive"})
                       EXCEPT !["psk"] = "preSharedKey"]
        IN [Fields(DOMAIN keys) EXCEPT !.to = keys, !.from = keys]

\* Every class but those of the masks.
Objects ==
  [request |-> TcpStreamSettings, kcp |-> KcpStreamSettings, ws |-> WsStreamSettings,
   grpc |-> GrpcStreamSettings, httpupgrade |-> HttpUpgradeStreamSettings,
   xhttp |-> xHTTPStreamSettings, hysteria |-> HysteriaStreamSettings,
   tls |-> TlsStreamSettings, reality |-> RealityStreamSettings,
   sockopt |-> SockoptStreamSettings, mux |-> Mux, quicParams |-> QuicParams,
   brutal |-> QuicBrutal, udpHop |-> QuicUdpHop,
   freedom |-> FreedomSettings, freedomFragment |-> Fragment, freedomNoise |-> Noise,
   finalRule |-> FinalRule, blackhole |-> BlackholeSettings, dns |-> DNSSettings,
   dnsRule |-> DNSRule, vmess |-> VmessSettings, vless |-> VLESSSettings,
   trojan |-> TrojanSettings, shadowsocks |-> ShadowsocksSettings, socks |-> SocksSettings,
   http |-> HttpSettings, wireguard |-> WireguardSettings, peer |-> Peer,
   hysteria2 |-> HysteriaSettings]

Classes ==
  [c \in DOMAIN Objects \cup DOMAIN UdpMask \cup DOMAIN TcpMask |->
     IF c \in DOMAIN Objects THEN Objects[c]
     ELSE IF c \in DOMAIN UdpMask THEN UdpMask[c] ELSE TcpMask[c]]

Protocols == {"freedom", "blackhole", "dns", "vmess", "vless", "trojan", "shadowsocks",
              "socks", "http", "wireguard", "hysteria2"}
Networks == {"tcp", "kcp", "ws", "grpc", "httpupgrade", "xhttp"}
TcpMasks == DOMAIN TcpMask
UdpMasks == DOMAIN UdpMask

----------------------------------------------------------------------------
(* The outbound as a whole *)

canEnableStream(f) == f.protocol \in {"vmess", "vless", "trojan", "shadowsocks", "hysteria2"}
canEnableTls(f) ==
  \/ f.protocol = "hysteria2"
  \/ /\ f.protocol \in {"vmess", "vless", "trojan", "shadowsocks"}
     /\ f.network \in {"tcp", "ws", "grpc", "httpupgrade", "xhttp"}
canEnableReality(f) ==
  f.protocol \in {"vless", "trojan"} /\ f.network \in {"tcp", "grpc", "xhttp"}
canEnableTlsFlow(f) ==
  f.security # "none" /\ f.network = "tcp" /\ f.protocol = "vless"
canEnableMux(f) ==
  /\ f.protocol \in {"vmess", "vless", "trojan", "shadowsocks", "http", "socks"}
  /\ ~f.flow /\ f.network # "xhttp"

\* new Outbound(), with the protocol p.
NewForm(p) == [tag |-> "", protocol |-> p, network |-> "tcp", security |-> "none",
               flow |-> FALSE, on |-> {}, vals |-> {}, legacy |-> "flat"]

\* The form asks canEnableMux, which switches mux off where it cannot be.
Rendered(f) == [f EXCEPT !.on = IF ~f.flow /\ f.network # "xhttp" THEN @ ELSE @ \ {"mux"}]

\* Set protocol: new settings and a new stream; mux and the tag stay.
WithProtocol(f, p) ==
  Rendered([NewForm(p) EXCEPT !.tag = f.tag, !.on = f.on \cap {"mux"},
                              !.vals = {e \in f.vals : e[1] = "mux"}])

StreamParts(f) ==
  (IF f.network # "tcp" THEN {f.network}
   ELSE IF "httpHeader" \in f.on THEN {"request"} ELSE {}) \cup
  ({f.security} \ {"none"}) \cup
  (f.on \cap (TcpMasks \cup UdpMasks \cup {"sockopt"})) \cup
  (IF "quicParams" \in f.on THEN f.on \cap {"quicParams", "brutal", "udpHop"} ELSE {})
Parts(f) ==
  {f.protocol} \cup (f.on \cap {"freedomFragment", "freedomNoise", "finalRule", "dnsRule", "mux"})
  \cup (IF f.protocol = "wireguard" THEN {"peer"} ELSE {})
  \cup (IF canEnableStream(f) THEN StreamParts(f) ELSE f.on \cap {"sockopt"})

\* The fields that are written only together with another one.
Left(f) ==
  {<<"vless", k>> : k \in IF f.flow THEN {} ELSE {"testpre", "testseed"}} \cup
  {<<t[1], t[2]>> : t \in
     {t \in {<<"socks", "pass", "user">>, <<"http", "pass", "user">>,
             <<"hysteria", "udphopIntervalMin", "udphopPort">>,
             <<"hysteria", "udphopIntervalMax", "udphopPort">>} :
        <<t[1], t[3], "set">> \notin f.vals}} \cup
  (IF <<"finalRule", "action", "set">> \in f.vals THEN {<<"finalRule", "blockDelay">>} ELSE {})

\* A legacy VLESS outbound keeps the JSON it was read from; one that has no
\* single server is shown empty and written back as it was.
LegacyJson(f) == CASE f.legacy = "flat"  -> {}
                   [] f.legacy = "vnext" -> {<<"vless", "level", "set">>}
                   [] OTHER -> {<<"vless", "vnext", "set">>}

\* Outbound.toJson. Without a stream, tcp and none are read back.
Json(f) ==
  LET sent == {e \in f.vals : /\ <<e[1], e[2]>> \notin Left(f)
                              /\ ~(e[1] = "vless" /\ f.legacy = "readonly")}
      carried == IF canEnableStream(f) /\ f.network = "tcp" THEN {"httpHeader"} ELSE {}
  IN [f EXCEPT !.network  = IF canEnableStream(f) THEN @ ELSE "tcp",
               !.security = IF canEnableStream(f) THEN @ ELSE "none",
               !.on   = @ \cap (Parts(f) \cup carried),
               !.vals = ToJson(Classes, Parts(f), sent) \cup LegacyJson(f)]

\* Outbound.fromJson.
FromDocument(json) == [json EXCEPT !.vals = FromJson(Classes, json.vals)]

\* Mistake: a node that the form cannot show is no issue.
MistakenValidationIssues(f) ==
  IF f.protocol # "vless" \/ f.legacy = "readonly" THEN {}
  ELSE {k \in {"address", "port", "id"} : <<"vless", k, "set">> \notin f.vals}

\* What VLESSSettings.validationIssues complains about.
validationIssues(f) ==
  IF f.protocol # "vless" THEN {}
  ELSE IF f.legacy = "readonly" THEN {"legacy"}
  ELSE {k \in {"address", "port", "id"} : <<"vless", k, "set">> \notin f.vals} \cup
       {e[2] : e \in f.vals \cap {<<"vless", "encryption", "cleared">>}}

----------------------------------------------------------------------------
(* What the form offers *)

\* The fields that name the server.
Endpoint(p) ==
  IF p \notin {"dns", "vmess", "vless", "trojan", "shadowsocks", "socks", "http", "hysteria2"}
  THEN {}
  ELSE {<<p, "address", "set">>, <<p, "port", "set">>} \cup
       CASE p \in {"vmess", "vless"}          -> {<<p, "id", "set">>}
         [] p \in {"trojan", "shadowsocks"}   -> {<<p, "password", "set">>}
         [] p = "hysteria2"                   -> {<<"hysteria", "auth", "set">>}
         [] OTHER                             -> {}

MasksOf(f) ==
  (IF f.network # "kcp" /\ f.network # "hysteria" THEN TcpMasks ELSE {}) \cup
  (IF f.protocol = "hysteria2" THEN {"salamander"}
   ELSE IF f.network = "kcp" THEN UdpMasks \ {"salamander"} ELSE {})

Switches(f) ==
  {"sockopt"} \cup
  (IF canEnableMux(f) THEN {"mux"} ELSE {}) \cup
  (CASE f.protocol = "freedom" -> {"freedomFragment", "freedomNoise", "finalRule"}
     [] f.protocol = "dns"     -> {"dnsRule"}
     [] OTHER -> {}) \cup
  (IF ~canEnableStream(f) THEN {}
   ELSE MasksOf(f) \cup (IF f.network = "tcp" THEN {"httpHeader"} ELSE {}) \cup
        (IF f.network = "xhttp" \/ f.protocol = "hysteria2" THEN {"quicParams"} ELSE {}) \cup
        (IF "quicParams" \in f.on THEN {"brutal", "udpHop"} ELSE {}))

\* The masks and the security that are there can be edited, whatever the
\* transport; the fields left out are hidden.
IsShown(f, c, field) ==
  /\ c \in Parts(f) /\ <<c, field>> \notin Left(f) \ {<<"socks", "pass">>, <<"http", "pass">>}
  /\ c = "mux" => canEnableMux(f)
  /\ c \in {"tls", "reality"} => canEnableTls(f)
  /\ c \in {"quicParams", "brutal", "udpHop"} => "quicParams" \in Switches(f)
  /\ <<c, field>> \in {<<"vless", "testpre">>, <<"vless", "testseed">>} => canEnableTlsFlow(f)

----------------------------------------------------------------------------
(* The import of a share link *)

\* Which parameter goes into which field: class, parameter, field.
LinkParams ==
  {<<"request", "host", "host">>, <<"request", "path", "path">>,
   <<"kcp", "mtu", "mtu">>, <<"kcp", "tti", "tti">>,
   <<"ws", "path", "path">>, <<"ws", "host", "host">>,
   <<"grpc", "authority", "authority">>,
   <<"httpupgrade", "path", "path">>, <<"httpupgrade", "host", "host">>,
   <<"xhttp", "path", "path">>, <<"xhttp", "host", "host">>, <<"xhttp", "mode", "mode">>,
   <<"tls", "sni", "serverName">>, <<"tls", "alpn", "alpn">>, <<"tls", "fp", "fingerprint">>}
VmessParams == LinkParams \cup {<<"grpc", "path", "serviceName">>, <<"grpc", "type", "multiMode">>}
UrlParams ==
  LinkParams \cup
  {<<"grpc", "serviceName", "serviceName">>, <<"grpc", "mode", "multiMode">>,
   <<"tls", "ech", "echConfigList">>,
   <<"reality", "pbk", "publicKey">>, <<"reality", "fp", "fingerprint">>,
   <<"reality", "sni", "serverName">>, <<"reality", "sid", "shortId">>,
   <<"reality", "spx", "spiderX">>, <<"reality", "pqv", "mldsa65Verify">>,
   <<"vless", "encryption", "encryption">>}

\* A Hysteria link gives a stream without security; the Hysteria parameters it
\* may carry are never written by the panel.
fromHysteriaLink(link, remark) ==
  [NewForm("hysteria2") EXCEPT !.tag = remark, !.network = "hysteria",
                               !.vals = Endpoint("hysteria2")]

fromParamLink(link, remark, params) ==
  LET f == [NewForm(link.protocol) EXCEPT
              !.tag = remark, !.network = link.network, !.security = link.security,
              !.flow = link.flow, !.on = link.on \cap {"httpHeader"}]
      read == {p \in params : p[1] \in Parts(f) /\ p[2] \in link.params}
  IN [f EXCEPT !.vals = {<<p[1], p[3], "set">> : p \in read} \cup Endpoint(link.protocol) \cup
                        IF link.protocol = "shadowsocks"
                        THEN {<<"shadowsocks", "method", "set">>, <<"shadowsocks", "uot", "set">>}
                        ELSE {}]

fromVmessLink(link, remark) == fromParamLink(link, remark, VmessParams)

fromLink(link, remark) ==
  CASE link.protocol = "vmess"     -> fromVmessLink(link, remark)
    [] link.protocol = "hysteria2" -> fromHysteriaLink(link, remark)
    [] OTHER                       -> fromParamLink(link, remark, UrlParams)
====
