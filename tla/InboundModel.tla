---- MODULE InboundModel ----
(***************************************************************************)
(* The inbound form's model (web/assets/js/model/inbound.js): the classes  *)
(* of an inbound, which of them its JSON holds, what the form offers, and  *)
(* the share link of a client. A form is a record                          *)
(*   protocol, network, security                                           *)
(*   flow   the client has the vision flow                                 *)
(*   on     the switches that are on: each adds objects to its owner       *)
(*   vals   the edits                                                      *)
(***************************************************************************)
EXTENDS FormCodec

----------------------------------------------------------------------------
(* Transports *)

TcpStreamSettings == Fields({"acceptProxyProtocol"})
TcpRequest  == [Fields({"version", "method", "path", "headers"}) EXCEPT
                  !.filled = {"version", "method"}, !.headers = {"headers"}]
TcpResponse == [Fields({"version", "status", "reason", "headers"}) EXCEPT
                  !.filled = {"version", "status", "reason"}, !.headers = {"headers"}]

KcpStreamSettings ==
  LET keys == [Same({"mtu", "tti", "upCap", "downCap", "cwndMultiplier", "maxSendingWindow"})
                 EXCEPT !["upCap"] = "uplinkCapacity", !["downCap"] = "downlinkCapacity"]
  IN [Fields(DOMAIN keys) EXCEPT !.to = keys, !.from = keys]

WsStreamSettings ==
  [Fields({"acceptProxyProtocol", "path", "host", "headers", "heartbeatPeriod"})
     EXCEPT !.filled = {"path"}, !.maps = {"headers"}]

GrpcStreamSettings == Fields({"serviceName", "authority", "multiMode"})

HTTPUpgradeStreamSettings ==
  [Fields({"acceptProxyProtocol", "path", "host", "headers"})
     EXCEPT !.filled = {"path"}, !.maps = {"headers"}]

\* The fields of the obfuscating padding; xPaddingObfsMode is the switch obfs.
ObfsFields == {"xPaddingKey", "xPaddingHeader", "xPaddingPlacement", "xPaddingMethod"}

xHTTPStreamSettings ==
  [Fields(ObfsFields \cup
          {"xPaddingBytes", "path", "host", "headers", "scMaxBufferedPosts", "scMaxEachPostBytes",
           "scStreamUpServerSecs", "noSSEHeader", "mode", "uplinkHTTPMethod",
           "sessionPlacement", "sessionKey", "seqPlacement", "seqKey",
           "uplinkDataPlacement", "uplinkDataKey", "uplinkChunkSize"})
     EXCEPT !.filled = {"path", "scMaxEachPostBytes", "scStreamUpServerSecs", "xPaddingBytes"},
            !.maps = {"headers"}]

HysteriaStreamSettings ==
  [Fields({"udpIdleTimeout"})
     EXCEPT !.filled = {"udpIdleTimeout"}, !.restored = {"udpIdleTimeout"}]

HysteriaMasquerade ==
  [Fields({"type", "dir", "url", "rewriteHost", "insecure", "content", "headers", "statusCode"})
     EXCEPT !.maps = {"headers"}]

----------------------------------------------------------------------------
(* Security *)

\* Mistake: fromJson reads the server name under the name of the field.
MistakenTlsStreamSettings ==
  [Fields({"sni", "certs", "alpn"}) EXCEPT !.to["sni"] = "serverName", !.filled = {"alpn"}]

TlsStreamSettings ==
  LET keys == [Same({"sni", "minVersion", "maxVersion", "cipherSuites", "rejectUnknownSni",
                     "disableSystemRoot", "enableSessionResumption", "certs", "alpn",
                     "echServerKeys"})
                 EXCEPT !["sni"] = "serverName", !["certs"] = "certificates"]
  IN [Fields(DOMAIN keys) EXCEPT !.to = keys, !.from = keys, !.filled = {"alpn"}]

\* A certificate is written as two files or as two texts, whatever useFile says.
TlsCertFiles == LET keys == [certFile |-> "certificateFile", keyFile |-> "keyFile",
                             oneTimeLoading |-> "oneTimeLoading", usage |-> "usage",
                             buildChain |-> "buildChain"]
                IN [Fields(DOMAIN keys) EXCEPT !.to = keys, !.from = keys]
TlsCertTexts == LET keys == [cert |-> "certificate", key |-> "key",
                             oneTimeLoading |-> "oneTimeLoading", usage |-> "usage",
                             buildChain |-> "buildChain"]
                IN [Fields(DOMAIN keys) EXCEPT !.to = keys, !.from = keys]

TlsClientSettings == [Fields({"fingerprint", "echConfigList"}) EXCEPT !.filled = {"fingerprint"}]

\* maxTimediff is written as maxTimeDiff and read as maxTimediff.
RealityStreamSettings ==
  LET fields == {"show", "xver", "target", "serverNames", "privateKey", "minClientVer",
                 "maxClientVer", "maxTimediff", "shortIds", "mldsa65Seed"}
      read == [Same(fields) EXCEPT !["target"] = "dest"]
  IN [Fields(fields) EXCEPT !.to = [read EXCEPT !["maxTimediff"] = "maxTimeDiff"],
                            !.from = read,
                            !.filled = {"target", "serverNames", "shortIds"}]

RealityClientSettings ==
  [Fields({"publicKey", "fingerprint", "spiderX", "mldsa65Verify"})
     EXCEPT !.filled = {"spiderX"}]

----------------------------------------------------------------------------
(* Socket options, masks, QUIC, sniffing *)

SockoptStreamSettings ==
  LET keys == [Same({"acceptProxyProtocol", "tcpFastOpen", "mark", "tproxy", "tcpMptcp",
                     "penetrate", "domainStrategy", "tcpMaxSeg", "dialerProxy",
                     "tcpKeepAliveInterval", "tcpKeepAliveIdle", "tcpUserTimeout",
                     "tcpcongestion", "V6Only", "tcpWindowClamp", "interfaceName",
                     "trustedXForwardedFor"}) EXCEPT !["interfaceName"] = "interface"]
  IN [Fields(DOMAIN keys) EXCEPT !.to = keys, !.from = keys]

\* The settings of a mask are rebuilt from its type; customTables is typed as a
\* text, and read only if it is a list.
UdpMask == [salamander   |-> Fields({"password"}),
            aes128gcm    |-> Fields({"password"}),
            headerDns    |-> Fields({"domain"}),
            xdns         |-> Fields({"domains"}),
            xicmp        |-> Fields({"ip", "id"}),
            udpHeader    |-> Fields({"client", "server"}),
            noise        |-> Fields({"reset", "noise"}),
            mkcpOriginal |-> Fields({})]
TcpMask == [fragment  |-> [Fields({"packets", "length", "delay", "maxSplit"})
                             EXCEPT !.filled = {"packets"}],
            sudoku    |-> [Fields({"password", "ascii", "customTable", "customTables",
                                   "paddingMin", "paddingMax"}) EXCEPT !.lost = {"customTables"}],
            tcpHeader |-> Fields({"clients", "servers"})]

\* A number that is not positive is not written, and so comes back.
QuicParams ==
  LET numbers == {"initStreamReceiveWindow", "maxStreamReceiveWindow",
                  "initConnectionReceiveWindow", "maxConnectionReceiveWindow",
                  "maxIdleTimeout", "keepAlivePeriod", "maxIncomingStreams"}
  IN [Fields(numbers \cup {"congestion", "debug", "disablePathMTUDiscovery"})
        EXCEPT !.filled = numbers, !.restored = numbers]
QuicBrutal == [Fields({"brutalUp", "brutalDown"})
                 EXCEPT !.filled = {"brutalUp", "brutalDown"},
                        !.restored = {"brutalUp", "brutalDown"}]
QuicUdpHop == [Fields({"ports", "interval"}) EXCEPT !.filled = {"ports", "interval"}]

ExternalProxy == Fields({"forceTls", "dest", "port", "remark"})

Sniffing == [Fields({"destOverride", "metadataOnly", "routeOnly", "ipsExcluded",
                     "domainsExcluded"})
               EXCEPT !.filled = {"destOverride"}, !.restored = {"destOverride"}]

----------------------------------------------------------------------------
(* Settings of the protocols *)

ClientBase == {"email", "limitIp", "totalGB", "expiryTime", "enable", "tgId", "subId",
               "comment", "reset"}

VmessSettings == Fields({})
VMESS == [Fields(ClientBase \cup {"id", "security"}) EXCEPT !.filled = {"id", "email", "subId"}]

\* The strings that are empty are not written; the seed only with a flow.
VLESSSettings == [Fields({"decryption", "encryption", "selectedAuth", "testseed"})
                    EXCEPT !.filled = {"decryption", "encryption"},
                           !.restored = {"decryption", "encryption"}]
VLESS == LET keys == [Same(ClientBase \cup {"id", "reverseTag"})
                        EXCEPT !["reverseTag"] = "reverse"]
         IN [Fields(DOMAIN keys) EXCEPT !.to = keys, !.from = keys,
                                        !.filled = {"id", "email", "subId"}]
VLESSFallback == [Fields({"name", "alpn", "path", "dest", "xver"})
                    EXCEPT !.filled = {"xver"}, !.restored = {"xver"}]

TrojanSettings == Fields({})
Trojan == [Fields(ClientBase \cup {"password"}) EXCEPT !.filled = {"password", "email", "subId"}]
TrojanFallback == [Fields({"name", "alpn", "path", "dest", "xver"})
                     EXCEPT !.filled = {"xver"}, !.restored = {"xver"}]

ShadowsocksSettings == [Fields({"method", "password", "network", "ivCheck"})
                          EXCEPT !.filled = {"password"}]
Shadowsocks == [Fields(ClientBase \cup {"method", "password"})
                  EXCEPT !.filled = {"password", "email", "subId"}]

HysteriaSettings == Fields({})
Hysteria == [Fields(ClientBase \cup {"auth"}) EXCEPT !.filled = {"auth", "email", "subId"}]

TunnelSettings == [Fields({"address", "port", "portMap", "network", "followRedirect"})
                     EXCEPT !.maps = {"portMap"}]

\* The accounts are written only with password authentication.
MixedSettings == [Fields({"udp", "ip"}) EXCEPT !.filled = {"ip"}]
SocksAccount == [Fields({"user", "pass"}) EXCEPT !.filled = {"user", "pass"}]

HttpSettings == Fields({"allowTransparent"})
HttpAccount == [Fields({"user", "pass"}) EXCEPT !.filled = {"user", "pass"}]

WireguardSettings == [Fields({"mtu", "secretKey", "noKernelTun"})
                        EXCEPT !.filled = {"mtu", "secretKey"}, !.restored = {"mtu"}]

\* A peer without a public key is given a new pair of keys.
WireguardPeer == LET keys == [Same({"privateKey", "publicKey", "psk", "allowedIPs", "keepAlive"})
                                EXCEPT !["psk"] = "preSharedKey"]
                 IN [Fields(DOMAIN keys) EXCEPT !.to = keys, !.from = keys,
                       !.filled = {"privateKey", "publicKey", "keepAlive"},
                       !.restored = {"publicKey", "keepAlive"}]

TunSettings == [Fields({"name", "mtu", "gateway", "dns", "userLevel",
                        "autoSystemRoutingTable", "autoOutboundsInterface"})
                  EXCEPT !.filled = {"name", "mtu", "autoOutboundsInterface"},
                         !.restored = {"name", "mtu"}]

----------------------------------------------------------------------------
(* The inbound as a whole *)

\* Every class but those of the masks.
Objects ==
  [tcp |-> TcpStreamSettings, request |-> TcpRequest, response |-> TcpResponse,
   kcp |-> KcpStreamSettings, ws |-> WsStreamSettings, grpc |-> GrpcStreamSettings,
   httpupgrade |-> HTTPUpgradeStreamSettings, xhttp |-> xHTTPStreamSettings,
   hysteria |-> HysteriaStreamSettings, masquerade |-> HysteriaMasquerade,
   tls |-> TlsStreamSettings, files |-> TlsCertFiles, texts |-> TlsCertTexts,
   tlsSettings |-> TlsClientSettings, reality |-> RealityStreamSettings,
   realitySettings |-> RealityClientSettings, sockopt |-> SockoptStreamSettings,
   externalProxy |-> ExternalProxy, quicParams |-> QuicParams, brutal |-> QuicBrutal,
   udpHop |-> QuicUdpHop, sniffing |-> Sniffing,
   vmess |-> VmessSettings, vmessClient |-> VMESS,
   vless |-> VLESSSettings, vlessClient |-> VLESS, vlessFallback |-> VLESSFallback,
   trojan |-> TrojanSettings, trojanClient |-> Trojan, trojanFallback |-> TrojanFallback,
   shadowsocks |-> ShadowsocksSettings, shadowsocksClient |-> Shadowsocks,
   hysteria2 |-> HysteriaSettings, hysteriaClient |-> Hysteria,
   tunnel |-> TunnelSettings, mixed |-> MixedSettings, socksAccount |-> SocksAccount,
   http |-> HttpSettings, httpAccount |-> HttpAccount,
   wireguard |-> WireguardSettings, peer |-> WireguardPeer, tun |-> TunSettings]

Classes ==
  [c \in DOMAIN Objects \cup DOMAIN UdpMask \cup DOMAIN TcpMask |->
     IF c \in DOMAIN Objects THEN Objects[c]
     ELSE IF c \in DOMAIN UdpMask THEN UdpMask[c] ELSE TcpMask[c]]

Protocols == {"vmess", "vless", "trojan", "shadowsocks", "hysteria2",
              "tunnel", "mixed", "http", "wireguard", "tun"}
Networks  == {"tcp", "kcp", "ws", "grpc", "httpupgrade", "xhttp"}
TcpMasks  == DOMAIN TcpMask
UdpMasks  == DOMAIN UdpMask

canEnableStream(f) == f.protocol \in {"vmess", "vless", "trojan", "shadowsocks", "hysteria2"}
canEnableTls(f) ==
  \/ f.protocol = "hysteria2"
  \/ /\ f.protocol \in {"vmess", "vless", "trojan", "shadowsocks"}
     /\ f.network \in {"tcp", "ws", "grpc", "httpupgrade", "xhttp"}
canEnableReality(f) ==
  f.protocol \in {"vless", "trojan"} /\ f.network \in {"tcp", "grpc", "xhttp"}
canEnableTlsFlow(f) ==
  f.security \in {"tls", "reality"} /\ f.network = "tcp" /\ f.protocol = "vless"

\* The clients of an inbound, edited here only while it is new.
Client(p) == CASE p = "vmess"       -> {"vmessClient"}
               [] p = "vless"       -> {"vlessClient"}
               [] p = "trojan"      -> {"trojanClient"}
               [] p = "shadowsocks" -> {"shadowsocksClient"}
               [] p = "hysteria2"   -> {"hysteriaClient"}
               [] OTHER             -> {}

\* The setter of protocol: new settings and a new stream. A new Inbound is one
\* of VLESS.
NewForm(p) ==
  [protocol |-> p, flow |-> FALSE, on |-> {},
   network  |-> IF p = "hysteria2" THEN "hysteria" ELSE "tcp",
   security |-> IF p = "hysteria2" THEN "tls" ELSE "none",
   vals     |-> IF p = "hysteria2" THEN {<<"tls", "alpn", "set">>} ELSE {}]

\* What the toJson of the settings, of the transport, of the security, of
\* finalmask and of the stream visit.
SettingsParts(f) ==
  {f.protocol} \cup Client(f.protocol) \cup
  CASE f.protocol = "vless"     -> f.on \cap {"vlessFallback"}
    [] f.protocol = "trojan"    -> f.on \cap {"trojanFallback"}
    [] f.protocol = "mixed"     -> IF "noauth" \in f.on THEN {} ELSE {"socksAccount"}
    [] f.protocol = "http"      -> {"httpAccount"}
    [] f.protocol = "wireguard" -> {"peer"}
    [] OTHER                    -> {}
TransportParts(f) ==
  {f.network} \cup
  CASE f.network = "tcp" /\ "httpHeader" \in f.on -> {"request", "response"}
    [] f.network = "hysteria"                     -> f.on \cap {"masquerade"}
    [] OTHER                                      -> {}
SecurityParts(f) ==
  CASE f.security = "tls"     -> {"tls", "tlsSettings",
                                  IF "texts" \in f.on THEN "texts" ELSE "files"}
    [] f.security = "reality" -> {"reality", "realitySettings"}
    [] OTHER                  -> {}
FinalMaskParts(f) ==
  (f.on \cap (TcpMasks \cup UdpMasks)) \cup
  IF "quicParams" \in f.on THEN f.on \cap {"quicParams", "brutal", "udpHop"} ELSE {}
StreamParts(f) ==
  TransportParts(f) \cup SecurityParts(f) \cup FinalMaskParts(f) \cup
  (f.on \cap {"sockopt", "externalProxy"})

\* Where a switch that is no object of its own is written.
Carrier == [httpHeader |-> "tcp", obfs |-> "xhttp", texts |-> "tls", noauth |-> "mixed",
            sniffs |-> "sniffing"]

Carried(s) == IF s \in DOMAIN Carrier THEN Carrier[s] ELSE s

\* The request of addInbound and updateInbound: without a stream, only its
\* socket options. A stream that is not sent is read back as a new one.
Parts(f) ==
  SettingsParts(f) \cup {"sniffing"} \cup
  (IF canEnableStream(f) THEN StreamParts(f) ELSE f.on \cap {"sockopt"})
Json(f) ==
  LET sent == {e \in f.vals : e[1] = "vless" /\ e[2] = "testseed" => f.flow}
  IN [f EXCEPT !.network  = IF canEnableStream(f) THEN @ ELSE "tcp",
               !.security = IF canEnableStream(f) THEN @ ELSE "none",
               !.on   = {s \in @ : Carried(s) \in Parts(f)},
               !.vals = ToJson(Classes, Parts(f), sent)]

\* Mistake: the encryption of VLESS is read only where the form shows it.
MistakenFromDocument(json) ==
  [json EXCEPT !.vals = {e \in FromJson(Classes, json.vals) :
                           e[1] = "vless" => json.security = "none"}]

\* Inbound.fromJson.
FromDocument(json) == [json EXCEPT !.vals = FromJson(Classes, json.vals)]

----------------------------------------------------------------------------
(* What the form offers *)

MasksOf(f) == IF f.network \in {"tcp", "httpupgrade", "ws", "grpc", "xhttp"} THEN TcpMasks
              ELSE IF f.network = "kcp" THEN UdpMasks \ {"salamander"}
              ELSE {"salamander"}

\* The switches of a form.
Switches(f) ==
  {"sniffs"} \cup
  (CASE f.protocol = "mixed"  -> {"noauth"}
     [] f.protocol = "vless" /\ f.network = "tcp"
        /\ <<"vless", "selectedAuth", "set">> \notin f.vals -> {"vlessFallback"}
     [] f.protocol = "trojan" /\ f.network = "tcp" -> {"trojanFallback"}
     [] OTHER -> {}) \cup
  (IF ~canEnableStream(f) THEN {}
   ELSE {"sockopt", "externalProxy"} \cup MasksOf(f) \cup
        (CASE f.network = "tcp"      -> {"httpHeader"}
           [] f.network = "xhttp"    -> {"obfs", "quicParams"}
           [] f.network = "hysteria" -> {"masquerade", "quicParams"}
           [] OTHER                  -> {}) \cup
        (IF f.security = "tls" THEN {"texts"} ELSE {}) \cup
        (IF "quicParams" \in f.on THEN {"brutal", "udpHop"} ELSE {}))

\* The fields of a form: those of the objects it would write, less what its
\* templates hide.
ShownParts(f, new) ==
  (SettingsParts(f) \ IF new THEN {} ELSE Client(f.protocol)) \cup
  (IF canEnableStream(f) THEN StreamParts(f) ELSE {}) \cup
  (IF "sniffs" \in f.on THEN {"sniffing"} ELSE {})
Hidden(f) ==
  {<<"xhttp", k>> : k \in IF "obfs" \in f.on THEN {} ELSE ObfsFields} \cup
  {<<"vless", k>> : k \in
     (IF f.security = "none" THEN {} ELSE {"decryption", "encryption", "selectedAuth"}) \cup
     (IF f.flow /\ canEnableTlsFlow(f) THEN {} ELSE {"testseed"})}
IsShown(f, new, c, field) ==
  /\ c \in ShownParts(f, new)
  /\ c \in TcpMasks \cup UdpMasks \cup {"quicParams", "vlessFallback", "trojanFallback"}
       => c \in Switches(f)
  /\ c \in {"brutal", "udpHop"} => "quicParams" \in Switches(f)
  /\ <<c, field>> \notin Hidden(f)

\* The part of a form that can be seen.
Visible(f, new) ==
  [on   |-> f.on \cap Switches(f),
   flow |-> f.flow,
   vals |-> {e \in f.vals : IsShown(f, new, e[1], e[2])}]

----------------------------------------------------------------------------
(* The share link of a client: which edit goes into which parameter *)

TransportParams ==
  {<<"request", "path", "path">>, <<"request", "headers", "host">>,
   <<"kcp", "mtu", "mtu">>, <<"kcp", "tti", "tti">>,
   <<"grpc", "serviceName", "serviceName">>, <<"grpc", "authority", "authority">>,
   <<"grpc", "multiMode", "mode">>,
   <<"xhttp", "mode", "mode">>, <<"xhttp", "xPaddingBytes", "x_padding_bytes">>} \cup
  {<<"xhttp", k, k>> : k \in ObfsFields} \cup
  UNION {{<<n, "path", "path">>, <<n, "host", "host">>, <<n, "headers", "host">>} :
           n \in {"ws", "httpupgrade", "xhttp"}}

\* A VMess link is a JSON object with keys of its own.
VmessParams ==
  (TransportParams \ {<<"grpc", "serviceName", "serviceName">>,
                      <<"grpc", "multiMode", "mode">>, <<"xhttp", "mode", "mode">>}) \cup
  {<<"grpc", "serviceName", "path">>, <<"grpc", "multiMode", "type">>,
   <<"xhttp", "mode", "type">>}

TlsParams == {<<"tls", "sni", "sni">>, <<"tls", "alpn", "alpn">>,
              <<"tlsSettings", "fingerprint", "fp">>}
EchParam == <<"tlsSettings", "echConfigList", "ech">>
\* Mistake: the link does not carry the short id.
MistakenRealityParams ==
  {<<"realitySettings", "publicKey", "pbk">>, <<"realitySettings", "fingerprint", "fp">>,
   <<"reality", "serverNames", "sni">>}

RealityParams ==
  {<<"realitySettings", "publicKey", "pbk">>, <<"realitySettings", "fingerprint", "fp">>,
   <<"reality", "serverNames", "sni">>, <<"reality", "shortIds", "sid">>,
   <<"realitySettings", "spiderX", "spx">>, <<"realitySettings", "mldsa65Verify", "pqv">>}

FinalMaskParams ==
  UNION {{<<m, k, "fm">> : k \in FieldsOf(Classes[m])} : m \in TcpMasks \cup UdpMasks}

\* A link is forced to TLS or to none by an external proxy; a forced one has no
\* parameters of a security the inbound does not use, except in VMess.
Link(f, forceTls) ==
  LET security == IF forceTls = "same" \/ f.protocol = "hysteria2" THEN f.security ELSE forceTls
      secured  == CASE security = "tls" /\ (f.security = "tls" \/ f.protocol = "vmess") ->
                         TlsParams \cup IF f.protocol = "vmess" THEN {} ELSE {EchParam}
                    [] security = "reality" -> RealityParams
                    [] OTHER -> {}
      user     == CASE f.protocol = "vmess"  -> {<<"vmessClient", "id", "user">>,
                                                 <<"vmessClient", "security", "scy">>}
                    [] f.protocol = "vless"  -> {<<"vlessClient", "id", "user">>,
                                                 <<"vless", "encryption", "encryption">>}
                    [] f.protocol = "trojan" -> {<<"trojanClient", "password", "user">>}
                    [] f.protocol = "shadowsocks" ->
                         {<<"shadowsocks", "method", "method">>,
                          <<"shadowsocks", "password", "user">>,
                          <<"shadowsocksClient", "password", "user">>}
                    [] OTHER -> {<<"hysteriaClient", "auth", "user">>,
                                 <<"salamander", "password", "obfs-password">>}
      carried  == user \cup secured \cup FinalMaskParams \cup
                  IF f.protocol = "vmess" THEN VmessParams ELSE TransportParams
  IN [protocol |-> f.protocol, network |-> f.network, security |-> security,
      flow   |-> f.flow /\ f.network = "tcp" /\ security = f.security /\ security # "none",
      on     |-> f.on \cap {"httpHeader", "obfs"},
      params |-> {t[3] : t \in {u \in carried : \E v \in {"set", "twice"} :
                                                  <<u[1], u[2], v>> \in f.vals}}]
====
