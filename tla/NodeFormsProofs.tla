--------------------------- MODULE NodeFormsProofs ---------------------------
(***************************************************************************)
(* Proofs about the inbounds page and its form, for any numbers of choices *)
(* and edits.                                                              *)
(*                                                                         *)
(* A saved inbound is coherent because the form always is: it can be saved *)
(* at any time.  Coherent says more of REALITY than the property does, for *)
(* a transport that forgot to take it away may be followed by another.     *)
(*                                                                         *)
(* A row survives being read and sent again because every class reads a    *)
(* field from the key it is written to, and an object is sent again when   *)
(* it was sent; and what could be seen of the form is in the row.          *)
(***************************************************************************)
EXTENDS NodeForms, TLAPS

IsForm(f) ==
  f = [protocol |-> f.protocol, flow |-> f.flow, on |-> f.on,
       network |-> f.network, security |-> f.security, vals |-> f.vals]

\* What there is to choose from.
IsOffered(f) ==
  /\ f.protocol \in In!Protocols
  /\ f.network \in In!Networks \cup {"hysteria"}
  /\ f.protocol = "hysteria2" => f.network = "hysteria"
  /\ f.security \in {"none", "tls", "reality"}

Coherent(f) ==
  /\ f.flow \in BOOLEAN
  /\ f.security = "tls" => In!canEnableTls(f)
  /\ f.security = "reality" => f.protocol \in {"vless", "trojan"} /\ In!canEnableTls(f)
  /\ f.flow => In!canEnableTlsFlow(f)

\* What a form, a saved inbound and a parsed one have in common.
Good(f) == IsForm(f) /\ IsOffered(f) /\ Coherent(f)

FormInv == /\ form # None => Good(form)
           /\ saved # None => Good(saved)

-----------------------------------------------------------------------------
\* What makes and changes a form keeps it coherent.

LEMMA NewFormIsGood ==
  ASSUME NEW p \in In!Protocols
  PROVE  Good(In!NewForm(p))
  BY DEF Good, IsForm, IsOffered, Coherent, In!NewForm, In!canEnableTls, In!canEnableTlsFlow,
         In!Networks

\* Only the network, the security and the flow matter.
LEMMA SameStreamIsGood ==
  ASSUME NEW f, NEW g, Good(f), IsForm(g),
         g.protocol = f.protocol, g.network = f.network,
         g.security = f.security, g.flow = f.flow
  PROVE  Good(g)
  BY DEF Good, IsOffered, Coherent, In!canEnableTls, In!canEnableTlsFlow

LEMMA JsonIsGood ==
  ASSUME NEW f, Good(f)
  PROVE  Good(In!Json(f))
<1>1. PICK on, vals : In!Json(f) =
        [f EXCEPT !.network  = IF In!canEnableStream(f) THEN @ ELSE "tcp",
                  !.security = IF In!canEnableStream(f) THEN @ ELSE "none",
                  !.on = on, !.vals = vals]
  BY DEF In!Json
<1> DEFINE g == In!Json(f)
<1>2. /\ IsForm(g)
      /\ g.protocol = f.protocol /\ g.flow = f.flow
      /\ g.network  = IF In!canEnableStream(f) THEN f.network ELSE "tcp"
      /\ g.security = IF In!canEnableStream(f) THEN f.security ELSE "none"
  BY <1>1 DEF Good, IsForm
<1>3. CASE In!canEnableStream(f)
  BY <1>2, <1>3, SameStreamIsGood
<1>4. CASE ~In!canEnableStream(f)
  BY <1>2, <1>4 DEF Good, IsOffered, Coherent, In!canEnableStream, In!canEnableTls,
                    In!canEnableTlsFlow, In!Networks
<1> QED
  BY <1>3, <1>4

LEMMA FromDocumentIsGood ==
  ASSUME NEW f, Good(f)
  PROVE  Good(In!FromDocument(f))
<1>1. PICK vals : In!FromDocument(f) = [f EXCEPT !.vals = vals]
  BY DEF In!FromDocument
<1> QED
  BY <1>1, SameStreamIsGood DEF Good, IsForm

LEMMA ToggledIsGood ==
  ASSUME NEW f, NEW s, Good(f)
  PROVE  Good(Toggled(f, s))
<1>1. PICK on, vals : Toggled(f, s) = [f EXCEPT !.on = on, !.vals = vals]
  BY DEF Toggled
<1> QED
  BY <1>1, SameStreamIsGood DEF Good, IsForm

\* A form whose flow is the only thing wrong with it is put right.
LEMMA FlowClearedIsGood ==
  ASSUME NEW f, IsForm(f), IsOffered(f), f.flow \in BOOLEAN, f.flow => f.protocol = "vless",
         f.security = "tls" => In!canEnableTls(f),
         f.security = "reality" => f.protocol \in {"vless", "trojan"} /\ In!canEnableTls(f)
  PROVE  Good(FlowCleared(f))
<1>1. CASE f.protocol = "vless" /\ ~In!canEnableTlsFlow(f)
  BY <1>1 DEF FlowCleared, Good, IsForm, IsOffered, Coherent, In!canEnableTls
<1>2. CASE ~(f.protocol = "vless" /\ ~In!canEnableTlsFlow(f))
  BY <1>2 DEF FlowCleared, Good, Coherent
<1> QED
  BY <1>1, <1>2

LEMMA NetworkChangedIsGood ==
  ASSUME NEW f, NEW n \in In!Networks, Good(f), In!canEnableStream(f), f.protocol # "hysteria2"
  PROVE  Good(NetworkChanged(f, n))
<1> DEFINE moved == [f EXCEPT !.network = n]
           plain == IF In!canEnableTls(moved) THEN moved ELSE [moved EXCEPT !.security = "none"]
           gone  == IF n = "kcp" THEN {} ELSE In!UdpMasks
           g     == [plain EXCEPT !.on = @ \ gone, !.vals = Without(@, gone)]
<1>1. NetworkChanged(f, n) = FlowCleared(g)
  BY DEF NetworkChanged
<1>2. /\ IsForm(moved) /\ moved.protocol = f.protocol /\ moved.flow = f.flow
      /\ moved.network = n /\ moved.security = f.security
  BY DEF Good, IsForm
<1>3. /\ IsForm(plain) /\ plain.protocol = f.protocol /\ plain.flow = f.flow
      /\ plain.network = n
      /\ plain.security = IF In!canEnableTls(moved) THEN f.security ELSE "none"
  <2>1. CASE In!canEnableTls(moved)
    BY <1>2, <2>1
  <2>2. CASE ~In!canEnableTls(moved)
    <3> HIDE DEF moved
    <3> QED
      BY <1>2, <2>2 DEF IsForm
  <2> QED
    BY <2>1, <2>2
<1>4. /\ IsForm(g) /\ g.protocol = f.protocol /\ g.flow = f.flow
      /\ g.network = n /\ g.security = plain.security
  <2>1. g = [plain EXCEPT !.on = g.on, !.vals = g.vals] /\ IsForm(plain)
    <3> HIDE DEF plain, gone
    <3> QED
      BY <1>3 DEF IsForm
  <2> HIDE DEF g, plain
  <2> QED
    BY <1>3, <2>1 DEF IsForm
<1>5. In!canEnableTls(moved) => In!canEnableTls(g)
  BY <1>2, <1>4 DEF In!canEnableTls
<1>6. f.flow \in BOOLEAN /\ (f.flow => f.protocol = "vless")
      /\ (f.security = "reality" => f.protocol \in {"vless", "trojan"})
  BY DEF Good, Coherent, In!canEnableTlsFlow
<1>7. g.security \in {"tls", "reality"} => g.security = f.security /\ In!canEnableTls(g)
  BY <1>3, <1>4, <1>5
<1>8. IsOffered(g)
  BY <1>3, <1>4 DEF Good, IsOffered
<1>9. Good(FlowCleared(g))
  <2> HIDE DEF g
  <2> QED
    BY <1>4, <1>6, <1>7, <1>8, FlowClearedIsGood
<1> QED
  BY <1>1, <1>9

LEMMA SimpleFormsAreGood ==
  ASSUME NEW t \in DOMAIN SimpleForm
  PROVE  Good(SimpleForm[t])
<1> DEFINE new == In!NewForm("vless")
<1>1. new = [protocol |-> "vless", flow |-> FALSE, on |-> {},
             network |-> "tcp", security |-> "none", vals |-> {}]
  BY DEF In!NewForm
<1>2. CASE t = "vlessReality"
  <2>1. \E vals : SimpleForm[t] = [new EXCEPT !.security = "reality", !.flow = TRUE, !.vals = vals]
    BY <1>2 DEF SimpleForm
  <2>2. \E vals : SimpleForm[t] = [protocol |-> "vless", flow |-> TRUE, on |-> {},
                                   network |-> "tcp", security |-> "reality", vals |-> vals]
    <3> HIDE DEF new
    <3> QED
      BY <1>1, <2>1
  <2> QED
    BY <2>2 DEF Good, IsForm, IsOffered, Coherent, In!canEnableTls, In!canEnableTlsFlow,
                In!Protocols, In!Networks
<1>3. CASE t = "vlessWs"
  <2>1. \E on, vals : SimpleForm[t] = [new EXCEPT !.network = "ws", !.security = "tls",
                                                  !.on = on, !.vals = vals]
    BY <1>3 DEF SimpleForm
  <2>2. \E on, vals : SimpleForm[t] = [protocol |-> "vless", flow |-> FALSE, on |-> on,
                                       network |-> "ws", security |-> "tls", vals |-> vals]
    <3> HIDE DEF new
    <3> QED
      BY <1>1, <2>1
  <2> QED
    BY <2>2 DEF Good, IsForm, IsOffered, Coherent, In!canEnableTls, In!canEnableTlsFlow,
                In!Protocols, In!Networks
<1>4. CASE t = "mixed"
  BY <1>4, NewFormIsGood DEF SimpleForm, In!Protocols
<1> QED
  BY <1>2, <1>3, <1>4 DEF SimpleForm

-----------------------------------------------------------------------------
\* Every action keeps the form and the row coherent.

LEMMA Initially == Init => FormInv
  BY DEF Init, FormInv

LEMMA StepKeeps == FormInv /\ [Next]_vars => FormInv'
<1> SUFFICES ASSUME FormInv, [Next]_vars
             PROVE  FormInv'
  OBVIOUS
<1> USE DEF FormInv
<1>1. CASE OpenAdd
  BY <1>1, NewFormIsGood DEF OpenAdd
<1>2. CASE AddSimple
  <2> PICK t \in DOMAIN SimpleForm : saved' = In!Json(SimpleForm[t])
    BY <1>2 DEF AddSimple
  <2> QED
    BY <1>2, SimpleFormsAreGood, JsonIsGood DEF AddSimple
<1>3. CASE streamNetworkChange
  <2> PICK n \in In!Networks \ {form.network} : Choose(NetworkChanged(form, n))
    BY <1>3 DEF streamNetworkChange
  <2> QED
    BY <1>3, NetworkChangedIsGood DEF streamNetworkChange, Choose
<1>4. CASE ChooseSecurity
  <2> PICK s \in {"none", "tls"} \cup IF In!canEnableReality(form) THEN {"reality"} ELSE {} :
             Choose(SecurityWatched([form EXCEPT !.security = s]))
    BY <1>4 DEF ChooseSecurity
  <2> DEFINE f == [form EXCEPT !.security = s]
  <2>1. /\ Good(form) /\ In!canEnableTls(form)
    BY <1>4 DEF ChooseSecurity
  <2>2. /\ IsForm(f) /\ f.protocol = form.protocol /\ f.network = form.network
        /\ f.flow = form.flow /\ f.security = s
    BY <2>1 DEF Good, IsForm
  <2>3. In!canEnableTls(f) /\ (s = "reality" => f.protocol \in {"vless", "trojan"})
    BY <2>1, <2>2 DEF In!canEnableTls, In!canEnableReality
  <2>4. f.flow \in BOOLEAN /\ (f.flow => f.protocol = "vless")
    BY <2>1, <2>2 DEF Good, Coherent, In!canEnableTlsFlow
  <2>5. IsOffered(f)
    BY <2>1, <2>2 DEF Good, IsOffered
  <2>6. Good(FlowCleared(f))
    BY <2>2, <2>3, <2>4, <2>5, FlowClearedIsGood
  <2> QED
    BY <2>6 DEF Choose, SecurityWatched
<1>5. CASE ChooseFlow
  <2>1. Good(form) /\ In!canEnableTlsFlow(form) /\ form' = [form EXCEPT !.flow = ~@]
    BY <1>5 DEF ChooseFlow, Choose
  <2>2. /\ IsForm(form') /\ form'.protocol = form.protocol /\ form'.network = form.network
        /\ form'.security = form.security /\ form'.flow = ~form.flow
    BY <2>1 DEF Good, IsForm
  <2>3. form'.flow \in BOOLEAN
    BY <2>2, Zenon
  <2>4. In!canEnableTlsFlow(form')
    BY <2>1, <2>2 DEF In!canEnableTlsFlow
  <2>5. Good(form')
    BY <2>1, <2>2, <2>3, <2>4 DEF Good, IsOffered, Coherent, In!canEnableTls
  <2> QED
    BY <1>5, <2>5 DEF ChooseFlow, Choose
<1>6. CASE Switch
  <2> PICK s \in In!Switches(form) : Choose(Toggled(form, s))
    BY <1>6 DEF Switch
  <2> QED
    BY <1>6, ToggledIsGood DEF Switch, Choose
<1>7. CASE EditField
  <2>1. \E vals : form' = [form EXCEPT !.vals = vals]
    BY <1>7 DEF EditField
  <2>2. Good(form) /\ saved' = saved
    BY <1>7 DEF EditField
  <2>3. Good(form')
    BY <2>1, <2>2, SameStreamIsGood DEF Good, IsForm
  <2> QED
    BY <2>2, <2>3
<1>8. CASE Save
  BY <1>8, JsonIsGood DEF Save
<1>9. CASE openEditInbound
  BY <1>9, JsonIsGood, FromDocumentIsGood DEF openEditInbound
<1>10. CASE resetTraffic
  BY <1>10, JsonIsGood, FromDocumentIsGood DEF resetTraffic
<1>11. CASE CopyLink
  BY <1>11 DEF CopyLink
<1>12. CASE convertLink
  BY <1>12 DEF convertLink
<1>13. ASSUME UNCHANGED inbounds
       PROVE  FormInv'
  BY <1>13 DEF inbounds
<1>14. CASE UNCHANGED vars
  BY <1>14 DEF vars
<1>15. CASE \/ OpenOutbound \/ SetProtocol \/ SetTag \/ SetEndpoint \/ SetNetwork \/ SetSecurity
            \/ SetFlow \/ SetSwitch \/ SetField \/ toggleJson \/ TypeField \/ TypeTag
            \/ TypeNonsense \/ TypeUnlisted \/ Ok \/ Close \/ deleteOutbound
  <2>1. UNCHANGED inbounds
    BY <1>15 DEF OpenOutbound, SetProtocol, SetTag, SetEndpoint, SetNetwork, SetSecurity,
         SetFlow, SetSwitch, SetField, toggleJson, TypeField, TypeTag, TypeNonsense,
         TypeUnlisted, Ok, Close, deleteOutbound, Others
  <2> QED
    BY <1>13, <2>1
<1> QED
  BY <1>1, <1>2, <1>3, <1>4, <1>5, <1>6, <1>7, <1>8, <1>9, <1>10, <1>11, <1>12,
     <1>14, <1>15 DEF Next

\* However the form was walked through, what is saved has a security that its
\* transport offers or kept, and a flow only where there can be one.
THEOREM SavedIsCoherent == Spec => []StreamIsCoherent
<1>1. FormInv => StreamIsCoherent
  BY DEF FormInv, Good, Coherent, StreamIsCoherent, In!canEnableTls, In!canEnableReality
<1> QED
  BY <1>1, Initially, StepKeeps, PTL DEF Spec

-----------------------------------------------------------------------------
(* The classes of an inbound *)

\* fromJson reads a field from the key it is written to, and from nobody
\* else's; only the maximal time difference of REALITY and the tables of a
\* Sudoku mask are not read.
Unread == {"maxTimediff", "customTables"}
Keyed(c) ==
  /\ DOMAIN c.from = DOMAIN c.to
  /\ \A k, l \in DOMAIN c.to : c.from[l] = c.to[k] => k = l
  /\ \A k \in DOMAIN c.to \ Unread : c.from[k] = c.to[k]
  /\ \A k \in DOMAIN c.to \cap Unread :
       c.to[k] \in {"maxTimediff", "maxTimeDiff", "customTables"}
  /\ c.lost \subseteq Unread

LEMMA FieldsAreKeyed ==
  ASSUME NEW S, NEW filled, NEW restored, NEW listed
  PROVE  /\ Keyed(In!Fields(S))
         /\ Keyed([In!Fields(S) EXCEPT !.filled = filled])
         /\ Keyed([In!Fields(S) EXCEPT !.filled = filled, !.restored = restored])
         /\ Keyed([In!Fields(S) EXCEPT !.filled = filled, !.headers = listed])
         /\ Keyed([In!Fields(S) EXCEPT !.filled = filled, !.maps = listed])
         /\ Keyed([In!Fields(S) EXCEPT !.maps = listed])
         /\ Keyed([In!Fields(S) EXCEPT !.lost = {"customTables"}])
  BY DEF Keyed, Unread, In!Fields, In!Same

Renaming(keys) ==
  /\ \A k, l \in DOMAIN keys : keys[k] = keys[l] => k = l
  /\ DOMAIN keys \cap Unread = {}

LEMMA RenamedFieldsAreKeyed ==
  ASSUME NEW keys, NEW filled, NEW restored, Renaming(keys)
  PROVE  /\ Keyed([In!Fields(DOMAIN keys) EXCEPT !.to = keys, !.from = keys])
         /\ Keyed([In!Fields(DOMAIN keys) EXCEPT !.to = keys, !.from = keys,
                                                 !.filled = filled])
         /\ Keyed([In!Fields(DOMAIN keys) EXCEPT !.to = keys, !.from = keys,
                                                 !.filled = filled, !.restored = restored])
  BY DEF Renaming, Keyed, In!Fields

\* Up to two fields are written under other names.
LEMMA RenamingKeepsApart ==
  ASSUME NEW S, NEW a, NEW b, NEW x, NEW y, x \notin S, y \notin S, x # y, S \cap Unread = {}
  PROVE  /\ Renaming([In!Same(S) EXCEPT ![a] = x])
         /\ Renaming([In!Same(S) EXCEPT ![a] = x, ![b] = y])
  BY DEF Renaming, In!Same

LEMMA KcpIsKeyed == Keyed(In!KcpStreamSettings)
<1> DEFINE fields == {"mtu", "tti", "upCap", "downCap", "cwndMultiplier", "maxSendingWindow"}
           keys == [In!Same(fields) EXCEPT !["upCap"] = "uplinkCapacity",
                                           !["downCap"] = "downlinkCapacity"]
<1>1. /\ "uplinkCapacity" \notin fields /\ "downlinkCapacity" \notin fields
      /\ fields \cap Unread = {}
  BY DEF Unread
<1>2. In!KcpStreamSettings = [In!Fields(DOMAIN keys) EXCEPT !.to = keys, !.from = keys]
  BY DEF In!KcpStreamSettings
<1> HIDE DEF fields
<1>3. Renaming(keys)
  BY <1>1, RenamingKeepsApart
<1> HIDE DEF keys
<1> QED
  BY <1>2, <1>3, RenamedFieldsAreKeyed

LEMMA TlsIsKeyed == Keyed(In!TlsStreamSettings)
<1> DEFINE fields == {"sni", "minVersion", "maxVersion", "cipherSuites", "rejectUnknownSni",
                      "disableSystemRoot", "enableSessionResumption", "certs", "alpn",
                      "echServerKeys"}
           keys == [In!Same(fields) EXCEPT !["sni"] = "serverName",
                                           !["certs"] = "certificates"]
<1>1. /\ "serverName" \notin fields /\ "certificates" \notin fields
      /\ fields \cap Unread = {}
  BY DEF Unread
<1>2. In!TlsStreamSettings =
        [In!Fields(DOMAIN keys) EXCEPT !.to = keys, !.from = keys, !.filled = {"alpn"}]
  BY DEF In!TlsStreamSettings
<1> HIDE DEF fields
<1>3. Renaming(keys)
  BY <1>1, RenamingKeepsApart
<1> HIDE DEF keys
<1> QED
  BY <1>2, <1>3, RenamedFieldsAreKeyed

LEMMA CertificatesAreKeyed == Keyed(In!TlsCertFiles) /\ Keyed(In!TlsCertTexts)
<1>1. Keyed(In!TlsCertFiles)
  <2> DEFINE keys == [certFile |-> "certificateFile", keyFile |-> "keyFile",
                      oneTimeLoading |-> "oneTimeLoading", usage |-> "usage",
                      buildChain |-> "buildChain"]
  <2>1. Renaming(keys)
    BY DEF Renaming, Unread
  <2>2. In!TlsCertFiles = [In!Fields(DOMAIN keys) EXCEPT !.to = keys, !.from = keys]
    BY DEF In!TlsCertFiles
  <2> HIDE DEF keys
  <2> QED
    BY <2>1, <2>2, RenamedFieldsAreKeyed
<1>2. Keyed(In!TlsCertTexts)
  <2> DEFINE keys == [cert |-> "certificate", key |-> "key",
                      oneTimeLoading |-> "oneTimeLoading", usage |-> "usage",
                      buildChain |-> "buildChain"]
  <2>1. Renaming(keys)
    BY DEF Renaming, Unread
  <2>2. In!TlsCertTexts = [In!Fields(DOMAIN keys) EXCEPT !.to = keys, !.from = keys]
    BY DEF In!TlsCertTexts
  <2> HIDE DEF keys
  <2> QED
    BY <2>1, <2>2, RenamedFieldsAreKeyed
<1> QED
  BY <1>1, <1>2

LEMMA SockoptIsKeyed == Keyed(In!SockoptStreamSettings)
<1> DEFINE fields == {"acceptProxyProtocol", "tcpFastOpen", "mark", "tproxy", "tcpMptcp",
                      "penetrate", "domainStrategy", "tcpMaxSeg", "dialerProxy",
                      "tcpKeepAliveInterval", "tcpKeepAliveIdle", "tcpUserTimeout",
                      "tcpcongestion", "V6Only", "tcpWindowClamp", "interfaceName",
                      "trustedXForwardedFor"}
           keys == [In!Same(fields) EXCEPT !["interfaceName"] = "interface"]
<1>1. /\ "interface" \notin fields /\ "" \notin fields /\ fields \cap Unread = {}
  BY DEF Unread
<1>2. In!SockoptStreamSettings = [In!Fields(DOMAIN keys) EXCEPT !.to = keys, !.from = keys]
  BY DEF In!SockoptStreamSettings
<1> HIDE DEF fields
<1>3. Renaming(keys)
  BY <1>1, RenamingKeepsApart
<1> HIDE DEF keys
<1> QED
  BY <1>2, <1>3, RenamedFieldsAreKeyed

LEMMA VlessClientIsKeyed == Keyed(In!VLESS)
<1> DEFINE fields == In!ClientBase \cup {"id", "reverseTag"}
           keys == [In!Same(fields) EXCEPT !["reverseTag"] = "reverse"]
           filled == {"id", "email", "subId"}
<1>1. /\ "reverse" \notin fields /\ "" \notin fields /\ fields \cap Unread = {}
  BY DEF Unread, In!ClientBase
<1>2. In!VLESS =
        [In!Fields(DOMAIN keys) EXCEPT !.to = keys, !.from = keys, !.filled = filled]
  BY DEF In!VLESS
<1> HIDE DEF fields, filled
<1>3. Renaming(keys)
  BY <1>1, RenamingKeepsApart
<1> HIDE DEF keys
<1> QED
  BY <1>2, <1>3, RenamedFieldsAreKeyed

LEMMA WireguardPeerIsKeyed == Keyed(In!WireguardPeer)
<1> DEFINE fields == {"privateKey", "publicKey", "psk", "allowedIPs", "keepAlive"}
           keys == [In!Same(fields) EXCEPT !["psk"] = "preSharedKey"]
           filled == {"privateKey", "publicKey", "keepAlive"}
           restored == {"publicKey", "keepAlive"}
<1>1. /\ "preSharedKey" \notin fields /\ "" \notin fields /\ fields \cap Unread = {}
  BY DEF Unread
<1>2. In!WireguardPeer = [In!Fields(DOMAIN keys) EXCEPT !.to = keys, !.from = keys,
                                                        !.filled = filled,
                                                        !.restored = restored]
  BY DEF In!WireguardPeer
<1> HIDE DEF fields, filled, restored
<1>3. Renaming(keys)
  BY <1>1, RenamingKeepsApart
<1> HIDE DEF keys
<1> QED
  BY <1>2, <1>3, RenamedFieldsAreKeyed

LEMMA RealityIsKeyed == Keyed(In!RealityStreamSettings)
<1> DEFINE fields == {"show", "xver", "target", "serverNames", "privateKey", "minClientVer",
                      "maxClientVer", "maxTimediff", "shortIds", "mldsa65Seed"}
           read == [In!Same(fields) EXCEPT !["target"] = "dest"]
           written == [read EXCEPT !["maxTimediff"] = "maxTimeDiff"]
           filled == {"target", "serverNames", "shortIds"}
<1>1. In!RealityStreamSettings =
        [In!Fields(fields) EXCEPT !.to = written, !.from = read, !.filled = filled]
  BY DEF In!RealityStreamSettings
<1>2. /\ "dest" \notin fields /\ "maxTimeDiff" \notin fields /\ "customTables" \notin fields
      /\ "target" \in fields /\ "maxTimediff" \in fields
  OBVIOUS
<1> HIDE DEF fields, filled
<1>3. /\ DOMAIN read = fields /\ DOMAIN written = fields
      /\ \A k \in fields : /\ read[k] = IF k = "target" THEN "dest" ELSE k
                           /\ written[k] = IF k = "maxTimediff" THEN "maxTimeDiff" ELSE read[k]
  BY <1>2 DEF In!Same
<1> HIDE DEF read, written
<1>4. /\ In!RealityStreamSettings.to = written /\ In!RealityStreamSettings.from = read
      /\ In!RealityStreamSettings.lost = {}
  BY <1>1 DEF In!Fields
<1> QED
  BY <1>2, <1>3, <1>4 DEF Keyed, Unread

LEMMA StreamsAreKeyed ==
  /\ Keyed(In!TcpStreamSettings) /\ Keyed(In!TcpRequest) /\ Keyed(In!TcpResponse)
  /\ Keyed(In!WsStreamSettings) /\ Keyed(In!GrpcStreamSettings)
  /\ Keyed(In!HTTPUpgradeStreamSettings) /\ Keyed(In!xHTTPStreamSettings)
  /\ Keyed(In!HysteriaStreamSettings) /\ Keyed(In!HysteriaMasquerade)
  /\ Keyed(In!TlsClientSettings) /\ Keyed(In!RealityClientSettings)
  /\ Keyed(In!QuicParams) /\ Keyed(In!QuicBrutal) /\ Keyed(In!QuicUdpHop)
  /\ Keyed(In!ExternalProxy) /\ Keyed(In!Sniffing)
  BY FieldsAreKeyed
  DEF In!TcpStreamSettings, In!TcpRequest, In!TcpResponse, In!WsStreamSettings,
      In!GrpcStreamSettings, In!HTTPUpgradeStreamSettings, In!xHTTPStreamSettings,
      In!HysteriaStreamSettings, In!HysteriaMasquerade, In!TlsClientSettings,
      In!RealityClientSettings, In!QuicParams, In!QuicBrutal, In!QuicUdpHop,
      In!ExternalProxy, In!Sniffing

LEMMA SettingsAreKeyed ==
  /\ Keyed(In!VmessSettings) /\ Keyed(In!VMESS) /\ Keyed(In!VLESSSettings)
  /\ Keyed(In!VLESSFallback) /\ Keyed(In!TrojanSettings) /\ Keyed(In!Trojan)
  /\ Keyed(In!TrojanFallback) /\ Keyed(In!ShadowsocksSettings) /\ Keyed(In!Shadowsocks)
  /\ Keyed(In!HysteriaSettings) /\ Keyed(In!Hysteria) /\ Keyed(In!TunnelSettings)
  /\ Keyed(In!MixedSettings) /\ Keyed(In!SocksAccount) /\ Keyed(In!HttpSettings)
  /\ Keyed(In!HttpAccount) /\ Keyed(In!WireguardSettings) /\ Keyed(In!TunSettings)
  BY FieldsAreKeyed
  DEF In!VmessSettings, In!VMESS, In!VLESSSettings, In!VLESSFallback, In!TrojanSettings,
      In!Trojan, In!TrojanFallback, In!ShadowsocksSettings, In!Shadowsocks,
      In!HysteriaSettings, In!Hysteria, In!TunnelSettings, In!MixedSettings,
      In!SocksAccount, In!HttpSettings, In!HttpAccount, In!WireguardSettings, In!TunSettings

LEMMA MasksAreKeyed ==
  /\ \A c \in DOMAIN In!UdpMask : Keyed(In!UdpMask[c])
  /\ \A c \in DOMAIN In!TcpMask : Keyed(In!TcpMask[c])
<1>1. ASSUME NEW c \in DOMAIN In!UdpMask
      PROVE  Keyed(In!UdpMask[c])
  <2>1. \E S : In!UdpMask[c] = In!Fields(S)
    BY DEF In!UdpMask
  <2> QED
    BY <2>1, FieldsAreKeyed
<1>2. ASSUME NEW c \in DOMAIN In!TcpMask
      PROVE  Keyed(In!TcpMask[c])
  <2>1. CASE c = "fragment"
    BY <2>1, FieldsAreKeyed DEF In!TcpMask
  <2>2. CASE c = "sudoku"
    BY <2>2, FieldsAreKeyed DEF In!TcpMask
  <2>3. CASE c = "tcpHeader"
    BY <2>3, FieldsAreKeyed DEF In!TcpMask
  <2> QED
    BY <2>1, <2>2, <2>3 DEF In!TcpMask
<1> QED
  BY <1>1, <1>2

LEMMA ClassesAreKeyed ==
  ASSUME NEW c \in DOMAIN In!Classes
  PROVE  Keyed(In!Classes[c])
<1>1. CASE c \in DOMAIN In!Objects
  <2>1. Keyed(In!Objects[c])
    BY <1>1, KcpIsKeyed, TlsIsKeyed, CertificatesAreKeyed, SockoptIsKeyed, VlessClientIsKeyed,
       WireguardPeerIsKeyed, RealityIsKeyed, StreamsAreKeyed, SettingsAreKeyed
    DEF In!Objects
  <2> QED
    BY <1>1, <2>1 DEF In!Classes
<1>2. CASE c \notin DOMAIN In!Objects
  BY <1>2, MasksAreKeyed DEF In!Classes
<1> QED
  BY <1>1, <1>2

-----------------------------------------------------------------------------
(* Forms and rows *)

\* Every edit is one of a field of a class, and of an object that is there.
IsFilledIn(f) ==
  \A e \in f.vals : /\ e = <<e[1], e[2], e[3]>> /\ IsEditOf(In!Classes, e)
                    /\ e[1] \in Optional => e[1] \in f.on

\* Field k of the object c is sent with the value v.
Sends(f, c, k, v) ==
  /\ c \in In!Parts(f) /\ In!IsWritten(In!Classes[c], k, v)
  /\ c = "vless" /\ k = "testseed" => f.flow

\* The row of an inbound: what its objects write.
IsRow(d) ==
  /\ Good(d)
  /\ ~In!canEnableStream(d) => d.network = "tcp" /\ d.security = "none"
  /\ \A s \in d.on : In!Carried(s) \in In!Parts(d)
  /\ \A j \in d.vals :
       /\ j = <<j[1], j[2], j[3]>>
       /\ \E k : /\ In!Classes[j[1]].to[k] = j[2] /\ Sends(d, j[1], k, j[3])
                 /\ ~(j[3] = "twice" /\ k \in In!Classes[j[1]].maps)

LEMMA InboundMaskNames ==
  /\ In!TcpMasks = {"fragment", "sudoku", "tcpHeader"}
  /\ In!UdpMasks = {"salamander", "aes128gcm", "headerDns", "xdns", "xicmp", "udpHeader",
                    "noise", "mkcpOriginal"}
  BY DEF In!TcpMasks, In!UdpMasks, In!TcpMask, In!UdpMask

\* Only objects that have a class are sent, and an optional one only when it is
\* switched on.
LEMMA InboundParts ==
  ASSUME NEW f, IsOffered(f), NEW c \in In!Parts(f)
  PROVE  c \in DOMAIN In!Classes /\ (c \in Optional => c \in f.on)
<1> DEFINE clients == {"vmessClient", "vlessClient", "trojanClient", "shadowsocksClient",
                       "hysteriaClient"}
           others == {"socksAccount", "httpAccount", "peer", "sniffing", "request", "response",
                      "tls", "tlsSettings", "texts", "files", "reality", "realitySettings",
                      "brutal"}
           switched == {"vlessFallback", "trojanFallback", "masquerade", "quicParams", "udpHop",
                        "sockopt", "externalProxy"}
<1>1. /\ In!Protocols \cup In!Networks \cup {"hysteria"} \subseteq DOMAIN In!Objects
      /\ clients \cup others \cup switched \subseteq DOMAIN In!Objects
  BY DEF In!Protocols, In!Networks, In!Objects
<1>2. DOMAIN In!Classes = DOMAIN In!Objects \cup In!UdpMasks \cup In!TcpMasks
  BY DEF In!Classes, In!UdpMasks, In!TcpMasks
<1>3. \A x \in In!Protocols \cup In!Networks \cup {"hysteria"} \cup clients \cup others :
        x \notin Optional
  BY InboundMaskNames DEF Optional, In!Protocols, In!Networks
<1>4. In!Client(f.protocol) \subseteq clients
  BY DEF In!Client
<1>5. In!SettingsParts(f) \subseteq
        {f.protocol} \cup clients \cup others \cup (f.on \cap switched)
  BY <1>4 DEF In!SettingsParts
<1>6. In!TransportParts(f) \subseteq {f.network} \cup others \cup (f.on \cap switched)
  BY DEF In!TransportParts
<1>7. In!SecurityParts(f) \subseteq others
  BY DEF In!SecurityParts
<1>8. In!FinalMaskParts(f) \subseteq
        others \cup (f.on \cap (switched \cup In!TcpMasks \cup In!UdpMasks))
  BY DEF In!FinalMaskParts
<1> HIDE DEF clients
<1>9. In!Parts(f) \subseteq {f.protocol, f.network} \cup clients \cup others \cup
                            (f.on \cap (switched \cup In!TcpMasks \cup In!UdpMasks))
  BY <1>5, <1>6, <1>7, <1>8 DEF In!Parts, In!StreamParts
<1> HIDE DEF others, switched
<1> QED
  BY <1>1, <1>2, <1>3, <1>9 DEF IsOffered

\* addInbound and updateInbound.
LEMMA SentFields ==
  ASSUME NEW f, IsForm(f)
  PROVE  LET d == In!Json(f) IN
         /\ IsForm(d) /\ d.protocol = f.protocol /\ d.flow = f.flow
         /\ d.network  = IF In!canEnableStream(f) THEN f.network ELSE "tcp"
         /\ d.security = IF In!canEnableStream(f) THEN f.security ELSE "none"
         /\ d.on = {s \in f.on : In!Carried(s) \in In!Parts(f)}
         /\ d.vals = In!ToJson(In!Classes, In!Parts(f),
                               {e \in f.vals : e[1] = "vless" /\ e[2] = "testseed" => f.flow})
<1> PICK vals : vals = In!ToJson(In!Classes, In!Parts(f),
                                 {e \in f.vals : e[1] = "vless" /\ e[2] = "testseed" => f.flow})
  OBVIOUS
<1> PICK on : on = {s \in f.on : In!Carried(s) \in In!Parts(f)}
  OBVIOUS
<1> PICK network : network = IF In!canEnableStream(f) THEN f.network ELSE "tcp"
  OBVIOUS
<1> PICK security : security = IF In!canEnableStream(f) THEN f.security ELSE "none"
  OBVIOUS
<1>1. In!Json(f) = [f EXCEPT !.network = network, !.security = security,
                             !.on = on, !.vals = vals]
  BY DEF In!Json, IsForm
<1> QED
  BY <1>1 DEF IsForm

LEMMA SentValues ==
  ASSUME NEW f, IsForm(f), NEW j
  PROVE  j \in In!Json(f).vals <=>
           \E e \in f.vals :
             /\ Sends(f, e[1], e[2], e[3])
             /\ j = <<e[1], In!Classes[e[1]].to[e[2]],
                      In!Written(In!Classes[e[1]], e[2], e[3])>>
<1> PICK sent : sent = {e \in f.vals : e[1] = "vless" /\ e[2] = "testseed" => f.flow}
  OBVIOUS
<1>1. In!Json(f).vals = In!ToJson(In!Classes, In!Parts(f), sent)
  BY SentFields
<1>2. j \in In!ToJson(In!Classes, In!Parts(f), sent) <=>
        \E e \in sent : /\ e[1] \in In!Parts(f)
                        /\ In!IsWritten(In!Classes[e[1]], e[2], e[3])
                        /\ j = <<e[1], In!Classes[e[1]].to[e[2]],
                                 In!Written(In!Classes[e[1]], e[2], e[3])>>
  BY DEF In!ToJson
<1> QED
  BY <1>1, <1>2 DEF Sends


LEMMA SentParts ==
  ASSUME NEW f, Good(f)
  PROVE  LET d == In!Json(f) IN
         In!Parts(d) = In!Parts(f) /\ (In!canEnableStream(d) <=> In!canEnableStream(f))
<1> PICK d : d = In!Json(f)
  OBVIOUS
<1>1. /\ d.protocol = f.protocol
      /\ In!canEnableStream(f) => d.network = f.network /\ d.security = f.security
      /\ d.on = {s \in f.on : In!Carried(s) \in In!Parts(f)}
  BY SentFields DEF Good
<1>2. In!canEnableStream(d) <=> In!canEnableStream(f)
  BY <1>1 DEF In!canEnableStream
<1>3. /\ In!Carried("httpHeader") = "tcp" /\ In!Carried("texts") = "tls"
      /\ In!Carried("noauth") = "mixed"
      /\ \A s \in In!TcpMasks \cup In!UdpMasks \cup
                {"vlessFallback", "trojanFallback", "masquerade", "quicParams", "brutal",
                 "udpHop", "sockopt", "externalProxy"} : In!Carried(s) = s
  BY InboundMaskNames DEF In!Carried, In!Carrier
<1>4. In!SettingsParts(d) = In!SettingsParts(f)
  <2>1. In!SettingsParts(f) \subseteq In!Parts(f)
    BY DEF In!Parts
  <2>2. f.protocol = "vless" =>
          d.on \cap {"vlessFallback"} = f.on \cap {"vlessFallback"}
    BY <1>1, <1>3, <2>1 DEF In!SettingsParts
  <2>3. f.protocol = "trojan" =>
          d.on \cap {"trojanFallback"} = f.on \cap {"trojanFallback"}
    BY <1>1, <1>3, <2>1 DEF In!SettingsParts
  <2>4. f.protocol = "mixed" => ("noauth" \in d.on <=> "noauth" \in f.on)
    BY <1>1, <1>3, <2>1 DEF In!SettingsParts
  <2> QED
    BY <1>1, <2>2, <2>3, <2>4 DEF In!SettingsParts
<1>5. CASE In!canEnableStream(f)
  <2>1. In!StreamParts(f) \subseteq In!Parts(f)
    BY <1>5 DEF In!Parts
  <2>2. In!TransportParts(d) = In!TransportParts(f)
    <3>1. In!TransportParts(f) \subseteq In!Parts(f)
      BY <2>1 DEF In!StreamParts
    <3>2. f.network = "tcp" => ("httpHeader" \in d.on <=> "httpHeader" \in f.on)
      BY <1>1, <1>3, <3>1 DEF In!TransportParts
    <3>3. f.network = "hysteria" => d.on \cap {"masquerade"} = f.on \cap {"masquerade"}
      BY <1>1, <1>3, <3>1 DEF In!TransportParts
    <3> QED
      BY <1>1, <1>5, <3>2, <3>3 DEF In!TransportParts
  <2>3. In!SecurityParts(d) = In!SecurityParts(f)
    <3>1. In!SecurityParts(f) \subseteq In!Parts(f)
      BY <2>1 DEF In!StreamParts
    <3>2. f.security = "tls" => ("texts" \in d.on <=> "texts" \in f.on)
      BY <1>1, <1>3, <3>1 DEF In!SecurityParts
    <3> QED
      BY <1>1, <1>5, <3>2 DEF In!SecurityParts
  <2>4. In!FinalMaskParts(d) = In!FinalMaskParts(f)
    <3>1. In!FinalMaskParts(f) \subseteq In!Parts(f)
      BY <2>1 DEF In!StreamParts
    <3>2. d.on \cap (In!TcpMasks \cup In!UdpMasks) = f.on \cap (In!TcpMasks \cup In!UdpMasks)
      BY <1>1, <1>3, <3>1 DEF In!FinalMaskParts
    <3>3. "quicParams" \in d.on <=> "quicParams" \in f.on
      BY <1>1, <1>3, <3>1 DEF In!FinalMaskParts
    <3>4. "quicParams" \in f.on => d.on \cap {"quicParams", "brutal", "udpHop"} =
                                   f.on \cap {"quicParams", "brutal", "udpHop"}
      BY <1>1, <1>3, <3>1 DEF In!FinalMaskParts
    <3> QED
      BY <3>2, <3>3, <3>4 DEF In!FinalMaskParts
  <2>5. d.on \cap {"sockopt", "externalProxy"} = f.on \cap {"sockopt", "externalProxy"}
    BY <1>1, <1>3, <2>1 DEF In!StreamParts
  <2> QED
    BY <1>2, <1>4, <1>5, <2>2, <2>3, <2>4, <2>5 DEF In!Parts, In!StreamParts
<1>6. CASE ~In!canEnableStream(f)
  <2>1. d.on \cap {"sockopt"} = f.on \cap {"sockopt"}
    BY <1>1, <1>3, <1>6 DEF In!Parts
  <2> QED
    BY <1>2, <1>4, <1>6, <2>1 DEF In!Parts
<1> QED
  BY <1>2, <1>5, <1>6

\* What is saved is a row.
LEMMA SavedIsRow ==
  ASSUME NEW f, Good(f)
  PROVE  IsRow(In!Json(f))
<1> PICK d : d = In!Json(f)
  OBVIOUS
<1>1. /\ Good(d) /\ In!Parts(d) = In!Parts(f) /\ IsForm(f)
      /\ In!canEnableStream(d) <=> In!canEnableStream(f)
  BY JsonIsGood, SentParts DEF Good
<1>2. /\ d.flow = f.flow /\ d.on = {s \in f.on : In!Carried(s) \in In!Parts(f)}
      /\ ~In!canEnableStream(f) => d.network = "tcp" /\ d.security = "none"
  BY <1>1, SentFields
<1>3. ASSUME NEW j \in d.vals
      PROVE  /\ j = <<j[1], j[2], j[3]>>
             /\ \E k : /\ In!Classes[j[1]].to[k] = j[2] /\ Sends(d, j[1], k, j[3])
                       /\ ~(j[3] = "twice" /\ k \in In!Classes[j[1]].maps)
  <2> PICK e \in f.vals : /\ Sends(f, e[1], e[2], e[3])
                          /\ j = <<e[1], In!Classes[e[1]].to[e[2]],
                                   In!Written(In!Classes[e[1]], e[2], e[3])>>
    BY <1>1, SentValues
  <2>1. j[1] = e[1] /\ j[2] = In!Classes[e[1]].to[e[2]]
        /\ j[3] = In!Written(In!Classes[e[1]], e[2], e[3])
    OBVIOUS
  <2>2. Sends(d, j[1], e[2], j[3])
    BY <1>1, <1>2, <2>1 DEF Sends, In!Written, In!IsWritten
  <2>3. ~(j[3] = "twice" /\ e[2] \in In!Classes[j[1]].maps)
    BY <2>1 DEF In!Written
  <2> QED
    BY <2>1, <2>2, <2>3
<1> QED
  BY <1>1, <1>2, <1>3 DEF IsRow

\* Inbound.fromJson.
LEMMA ReadFields ==
  ASSUME NEW d, IsForm(d)
  PROVE  LET f == In!FromDocument(d) IN
         /\ IsForm(f) /\ f.protocol = d.protocol /\ f.flow = d.flow /\ f.network = d.network
         /\ f.security = d.security /\ f.on = d.on
         /\ f.vals = In!FromJson(In!Classes, d.vals)
<1> PICK vals : vals = In!FromJson(In!Classes, d.vals)
  OBVIOUS
<1>1. In!FromDocument(d) = [d EXCEPT !.vals = vals]
  BY DEF In!FromDocument
<1> QED
  BY <1>1 DEF IsForm

LEMMA ReadValues ==
  ASSUME NEW d, IsForm(d), NEW e
  PROVE  e \in In!FromDocument(d).vals <=>
           \E j \in d.vals : \E k \in DOMAIN In!Classes[j[1]].from :
             /\ In!Classes[j[1]].from[k] = j[2]
             /\ In!IsRead(In!Classes[j[1]], k, j[3])
             /\ e = <<j[1], k, j[3]>>
<1>1. In!FromDocument(d).vals = In!FromJson(In!Classes, d.vals)
  BY ReadFields
<1> QED
  BY <1>1 DEF In!FromJson

\* What depends on the choices only.
LEMMA SameChoices ==
  ASSUME NEW f, NEW g, g.protocol = f.protocol, g.on = f.on, g.network = f.network,
         g.security = f.security
  PROVE  /\ In!Parts(g) = In!Parts(f)
         /\ In!canEnableStream(g) <=> In!canEnableStream(f)
<1>1. In!canEnableStream(g) <=> In!canEnableStream(f)
  BY DEF In!canEnableStream
<1>2. In!SettingsParts(g) = In!SettingsParts(f)
  BY DEF In!SettingsParts
<1>3. In!TransportParts(g) = In!TransportParts(f) /\ In!SecurityParts(g) = In!SecurityParts(f)
      /\ In!FinalMaskParts(g) = In!FinalMaskParts(f)
  BY DEF In!TransportParts, In!SecurityParts, In!FinalMaskParts
<1> QED
  BY <1>1, <1>2, <1>3 DEF In!Parts, In!StreamParts

\* A row becomes a form with the same choices.
LEMMA RowIsRead ==
  ASSUME NEW d, IsRow(d)
  PROVE  LET f == In!FromDocument(d) IN
         /\ Good(f) /\ IsFilledIn(f) /\ In!Parts(f) = In!Parts(d)
         /\ f.protocol = d.protocol /\ f.flow = d.flow /\ f.network = d.network
         /\ f.security = d.security /\ f.on = d.on
<1> PICK f : f = In!FromDocument(d)
  OBVIOUS
<1>1. Good(f) /\ IsForm(d) /\ IsOffered(d)
  BY FromDocumentIsGood DEF IsRow, Good
<1>2. /\ f.protocol = d.protocol /\ f.flow = d.flow /\ f.network = d.network
      /\ f.security = d.security /\ f.on = d.on
  BY <1>1, ReadFields
<1>3. ASSUME NEW e \in f.vals
      PROVE  /\ e = <<e[1], e[2], e[3]>> /\ IsEditOf(In!Classes, e)
             /\ e[1] \in Optional => e[1] \in f.on
  <2>1. PICK j \in d.vals : \E k \in DOMAIN In!Classes[j[1]].from : e = <<j[1], k, j[3]>>
    BY <1>1, ReadValues
  <2>2. j[1] \in In!Parts(d)
    BY DEF IsRow, Sends
  <2>3. j[1] \in DOMAIN In!Classes /\ (j[1] \in Optional => j[1] \in d.on)
    BY <1>1, <2>2, InboundParts
  <2>4. DOMAIN In!Classes[j[1]].from = DOMAIN In!Classes[j[1]].to
    BY <2>3, ClassesAreKeyed DEF Keyed
  <2> QED
    BY <1>2, <2>1, <2>3, <2>4 DEF IsEditOf
<1>4. In!Parts(f) = In!Parts(d)
  BY <1>2, SameChoices
<1> QED
  BY <1>1, <1>2, <1>3, <1>4 DEF IsFilledIn


-----------------------------------------------------------------------------
(* What a row says survives being read and sent again. *)

LEMMA KeyIsRead ==
  ASSUME NEW d, IsRow(d), NEW j \in d.vals, NEW k \in DOMAIN In!Classes[j[1]].to,
         In!Classes[j[1]].to[k] = j[2], k \notin Unread, j[3] # "cleared"
  PROVE  <<j[1], k, j[3]>> \in In!FromDocument(d).vals
<1> DEFINE class == In!Classes[j[1]]
<1>1. IsForm(d) /\ IsOffered(d) /\ j[1] \in In!Parts(d)
  BY DEF IsRow, Good, Sends
<1>2. Keyed(class)
  BY <1>1, InboundParts, ClassesAreKeyed
<1>3. k \in DOMAIN class.from /\ class.from[k] = j[2] /\ In!IsRead(class, k, j[3])
  BY <1>2 DEF Keyed, Unread, In!IsRead
<1> QED
  BY <1>1, <1>3, ReadValues

LEMMA SentAgain ==
  ASSUME NEW d, IsRow(d), NEW j \in d.vals, NEW k \in DOMAIN In!Classes[j[1]].to,
         In!Classes[j[1]].to[k] = j[2], k \notin Unread, j[3] # "cleared"
  PROVE  j \in In!Json(In!FromDocument(d)).vals
<1> PICK f : f = In!FromDocument(d)
  OBVIOUS
<1> PICK e : e = <<j[1], k, j[3]>>
  OBVIOUS
<1>1. e \in f.vals /\ e[1] = j[1] /\ e[2] = k /\ e[3] = j[3]
  BY KeyIsRead
<1>2. IsForm(f) /\ In!Parts(f) = In!Parts(d) /\ f.flow = d.flow
  BY RowIsRead DEF Good
<1>3. IsOffered(d) /\ j = <<j[1], j[2], j[3]>>
  BY DEF IsRow, Good
<1>4. PICK l : /\ In!Classes[j[1]].to[l] = j[2] /\ Sends(d, j[1], l, j[3])
               /\ ~(j[3] = "twice" /\ l \in In!Classes[j[1]].maps)
  BY DEF IsRow
<1>5. Keyed(In!Classes[j[1]]) /\ l \in DOMAIN In!Classes[j[1]].to
  BY <1>3, <1>4, InboundParts, ClassesAreKeyed DEF Sends, In!IsWritten, In!FieldsOf
<1>6. k = l
  <2>1. In!Classes[j[1]].from[k] = In!Classes[j[1]].to[k]
    BY <1>5 DEF Keyed
  <2> QED
    BY <1>4, <1>5, <2>1 DEF Keyed
<1>7. Sends(f, e[1], e[2], e[3])
  BY <1>1, <1>2, <1>4, <1>6 DEF Sends
<1>8. In!Written(In!Classes[e[1]], e[2], e[3]) = j[3]
  BY <1>1, <1>4, <1>6 DEF In!Written
<1>9. j = <<e[1], In!Classes[e[1]].to[e[2]], In!Written(In!Classes[e[1]], e[2], e[3])>>
  BY <1>1, <1>3, <1>8
<1> QED
  BY <1>1, <1>2, <1>7, <1>9, SentValues

LEMMA NothingIsInvented ==
  ASSUME NEW d, IsRow(d), NEW j \in In!Json(In!FromDocument(d)).vals
  PROVE  j \in d.vals
<1> PICK f : f = In!FromDocument(d)
  OBVIOUS
<1>1. IsForm(f) /\ IsForm(d) /\ IsOffered(d)
  BY RowIsRead DEF Good, IsRow
<1>2. PICK e \in f.vals : /\ Sends(f, e[1], e[2], e[3])
                          /\ j = <<e[1], In!Classes[e[1]].to[e[2]],
                                   In!Written(In!Classes[e[1]], e[2], e[3])>>
  BY <1>1, SentValues
<1>3. PICK i \in d.vals : \E k \in DOMAIN In!Classes[i[1]].from :
         In!Classes[i[1]].from[k] = i[2] /\ e = <<i[1], k, i[3]>>
  BY <1>1, ReadValues
<1>4. /\ e[2] \in DOMAIN In!Classes[e[1]].from /\ In!Classes[e[1]].from[e[2]] = i[2]
      /\ e[1] = i[1] /\ e[3] = i[3]
  BY <1>3
<1>5. PICK l : /\ In!Classes[i[1]].to[l] = i[2] /\ Sends(d, i[1], l, i[3])
               /\ ~(i[3] = "twice" /\ l \in In!Classes[i[1]].maps)
  BY DEF IsRow
<1>6. Keyed(In!Classes[i[1]]) /\ l \in DOMAIN In!Classes[i[1]].to
  BY <1>1, <1>5, InboundParts, ClassesAreKeyed DEF Sends, In!IsWritten, In!FieldsOf
<1>7. e[2] = l
  BY <1>4, <1>5, <1>6 DEF Keyed
<1>8. In!Written(In!Classes[e[1]], e[2], e[3]) = i[3]
  BY <1>4, <1>5, <1>7 DEF In!Written
<1>9. i = <<i[1], i[2], i[3]>>
  BY DEF IsRow
<1>10. j = i
  BY <1>2, <1>4, <1>5, <1>7, <1>8, <1>9
<1> QED
  BY <1>10

LEMMA ChoicesAreSentAgain ==
  ASSUME NEW d, IsRow(d)
  PROVE  LET e == In!Json(In!FromDocument(d)) IN
         /\ IsForm(e) /\ e.protocol = d.protocol /\ e.flow = d.flow /\ e.network = d.network
         /\ e.security = d.security /\ e.on = d.on
<1> PICK f : f = In!FromDocument(d)
  OBVIOUS
<1>1. /\ IsForm(f) /\ In!Parts(f) = In!Parts(d) /\ f.protocol = d.protocol
      /\ f.flow = d.flow /\ f.network = d.network /\ f.security = d.security /\ f.on = d.on
  BY RowIsRead DEF Good
<1>2. In!canEnableStream(f) <=> In!canEnableStream(d)
  BY <1>1 DEF In!canEnableStream
<1>3. {s \in f.on : In!Carried(s) \in In!Parts(f)} = d.on
  BY <1>1 DEF IsRow
<1>4. ~In!canEnableStream(d) => d.network = "tcp" /\ d.security = "none"
  BY DEF IsRow
<1> QED
  BY <1>1, <1>2, <1>3, <1>4, SentFields

-----------------------------------------------------------------------------
(* What could be seen of a form is in the row. *)

Agrees(seen, row) ==
  /\ seen.flow = row.flow /\ seen.on \subseteq row.on
  /\ \A e \in Remembered(seen.vals) :
       /\ e = <<e[1], e[2], e[3]>> /\ IsEditOf(In!Classes, e)
       /\ \E v \in {e[3], "set"} : <<e[1], In!Classes[e[1]].to[e[2]], v>> \in row.vals

\* A switch that is offered is sent.
LEMMA SwitchesAreSent ==
  ASSUME NEW f, NEW s \in f.on \cap In!Switches(f)
  PROVE  In!Carried(s) \in In!Parts(f)
<1>1. /\ In!Carried("httpHeader") = "tcp" /\ In!Carried("texts") = "tls"
      /\ In!Carried("noauth") = "mixed" /\ In!Carried("obfs") = "xhttp"
      /\ In!Carried("sniffs") = "sniffing"
      /\ \A x \in In!TcpMasks \cup In!UdpMasks \cup
                {"vlessFallback", "trojanFallback", "masquerade", "quicParams", "brutal",
                 "udpHop", "sockopt", "externalProxy"} : In!Carried(x) = x
  BY InboundMaskNames DEF In!Carried, In!Carrier
<1>2. CASE s \in {"sniffs", "noauth", "vlessFallback", "trojanFallback"}
  <2>1. s = "noauth" => f.protocol = "mixed"
    BY InboundMaskNames DEF In!Switches, In!MasksOf
  <2>2. s = "vlessFallback" => f.protocol = "vless"
    BY InboundMaskNames DEF In!Switches, In!MasksOf
  <2>3. s = "trojanFallback" => f.protocol = "trojan"
    BY InboundMaskNames DEF In!Switches, In!MasksOf
  <2> QED
    BY <1>1, <1>2, <2>1, <2>2, <2>3 DEF In!Parts, In!SettingsParts
<1>3. CASE s \notin {"sniffs", "noauth", "vlessFallback", "trojanFallback"}
  <2> DEFINE common == {"sockopt", "externalProxy"} \cup In!TcpMasks \cup In!UdpMasks \cup
                       {"httpHeader", "obfs", "masquerade", "quicParams", "texts", "brutal",
                        "udpHop"}
  <2>0. In!MasksOf(f) \subseteq In!TcpMasks \cup In!UdpMasks
    BY InboundMaskNames DEF In!MasksOf
  <2>1. In!canEnableStream(f) /\ s \in common
    <3>1. CASE ~In!canEnableStream(f)
      BY <1>3, <3>1 DEF In!Switches
    <3>2. CASE In!canEnableStream(f)
      BY <1>3, <2>0, <3>2 DEF In!Switches
    <3> QED
      BY <3>1, <3>2
  <2>2. /\ s = "httpHeader" => f.network = "tcp"
        /\ s = "obfs" => f.network = "xhttp"
        /\ s = "masquerade" => f.network = "hysteria"
        /\ s = "texts" => f.security = "tls"
        /\ s \in {"brutal", "udpHop"} => "quicParams" \in f.on
    BY InboundMaskNames DEF In!Switches, In!MasksOf
  <2>3. In!Carried(s) \in In!StreamParts(f)
    BY <1>1, <2>1, <2>2
    DEF In!StreamParts, In!TransportParts, In!SecurityParts, In!FinalMaskParts
  <2> QED
    BY <2>1, <2>3 DEF In!Parts
<1> QED
  BY <1>2, <1>3

LEMMA SeenFields ==
  ASSUME NEW f, NEW new
  PROVE  LET seen == In!Visible(f, new) IN
         /\ seen.on = f.on \cap In!Switches(f) /\ seen.flow = f.flow
         /\ seen.vals = {e \in f.vals : In!IsShown(f, new, e[1], e[2])}
  BY DEF In!Visible

LEMMA SavedAsSeen ==
  ASSUME NEW f, NEW new, Good(f), IsFilledIn(f)
  PROVE  Agrees(In!Visible(f, new), In!Json(f))
<1> PICK d : d = In!Json(f)
  OBVIOUS
<1> PICK seen : seen = In!Visible(f, new)
  OBVIOUS
<1>1. /\ IsForm(f) /\ d.flow = f.flow
      /\ d.on = {s \in f.on : In!Carried(s) \in In!Parts(f)}
  BY SentFields DEF Good
<1>2. /\ seen.on = f.on \cap In!Switches(f) /\ seen.flow = f.flow
      /\ seen.vals = {e \in f.vals : In!IsShown(f, new, e[1], e[2])}
  BY SeenFields
<1>3. seen.on \subseteq d.on
  BY <1>1, <1>2, SwitchesAreSent
<1>4. ASSUME NEW e \in Remembered(seen.vals)
      PROVE  /\ e = <<e[1], e[2], e[3]>> /\ IsEditOf(In!Classes, e)
             /\ \E v \in {e[3], "set"} : <<e[1], In!Classes[e[1]].to[e[2]], v>> \in d.vals
  <2>1. e \in f.vals /\ In!IsShown(f, new, e[1], e[2]) /\ e[3] # "blank"
    BY <1>2 DEF Remembered, Forgotten
  <2>2. e = <<e[1], e[2], e[3]>> /\ IsEditOf(In!Classes, e)
    BY <2>1 DEF IsFilledIn
  <2>3. e[1] \in In!Parts(f)
    BY <2>1 DEF In!IsShown, In!ShownParts, In!Parts
  <2>4. e[1] = "vless" /\ e[2] = "testseed" => f.flow
    BY <2>1 DEF In!IsShown, In!Hidden
  <2>5. Sends(f, e[1], e[2], e[3])
    BY <2>1, <2>2, <2>3, <2>4 DEF Sends, In!IsWritten, In!FieldsOf, IsEditOf
  <2> PICK v : v = In!Written(In!Classes[e[1]], e[2], e[3])
    OBVIOUS
  <2>6. v \in {e[3], "set"}
    BY DEF In!Written
  <2>7. <<e[1], In!Classes[e[1]].to[e[2]], v>> \in d.vals
    BY <1>1, <2>1, <2>5, SentValues
  <2> QED
    BY <2>2, <2>6, <2>7
<1> QED
  BY <1>1, <1>2, <1>3, <1>4 DEF Agrees

\* What was seen is still in a row that was read and sent again.
LEMMA ResetAsSeen ==
  ASSUME NEW d, NEW seen, IsRow(d), Agrees(seen, d)
  PROVE  Agrees(seen, In!Json(In!FromDocument(d)))
<1> PICK again : again = In!Json(In!FromDocument(d))
  OBVIOUS
<1>1. again.flow = d.flow /\ again.on = d.on
  BY ChoicesAreSentAgain
<1>2. ASSUME NEW e \in Remembered(seen.vals)
      PROVE  \E v \in {e[3], "set"} : <<e[1], In!Classes[e[1]].to[e[2]], v>> \in again.vals
  <2>1. /\ IsEditOf(In!Classes, e) /\ e[2] \notin Unread /\ e[3] # "cleared"
    BY DEF Agrees, Remembered, Forgotten, Unread
  <2> PICK v \in {e[3], "set"} : <<e[1], In!Classes[e[1]].to[e[2]], v>> \in d.vals
    BY DEF Agrees
  <2> PICK j : j = <<e[1], In!Classes[e[1]].to[e[2]], v>>
    OBVIOUS
  <2>2. j \in d.vals /\ j[1] = e[1] /\ j[2] = In!Classes[e[1]].to[e[2]] /\ j[3] # "cleared"
    BY <2>1
  <2>3. j \in again.vals
    BY <2>1, <2>2, SentAgain DEF IsEditOf
  <2> QED
    BY <2>3
<1> QED
  BY <1>1, <1>2 DEF Agrees

-----------------------------------------------------------------------------
(* Every action keeps the form filled in and the row sound. *)

RowInv ==
  /\ form # None => IsFilledIn(form)
  /\ saved # None => IsRow(saved)
  /\ page = "inbounds" /\ saved # None => Agrees(shown, saved)

LEMMA TlsFields ==
  ASSUME NEW k \in {"sni", "alpn"}, NEW v
  PROVE  IsEditOf(In!Classes, <<"tls", k, v>>)
<1>1. "tls" \in DOMAIN In!Objects /\ In!Objects["tls"] = In!TlsStreamSettings
  BY DEF In!Objects
<1>2. k \in DOMAIN In!TlsStreamSettings.to
  BY DEF In!TlsStreamSettings, In!Fields, In!Same
<1> QED
  BY <1>1, <1>2 DEF IsEditOf, In!Classes

LEMMA NewFormIsFilledIn ==
  ASSUME NEW p
  PROVE  IsFilledIn(In!NewForm(p))
<1>1. IsEditOf(In!Classes, <<"tls", "alpn", "set">>)
  BY TlsFields
<1>2. "tls" \notin Optional
  BY InboundMaskNames DEF Optional
<1>3. In!NewForm(p).vals \subseteq {<<"tls", "alpn", "set">>}
  BY DEF In!NewForm
<1> QED
  BY <1>1, <1>2, <1>3 DEF IsFilledIn

LEMMA SimpleFormsAreFilledIn ==
  ASSUME NEW t \in DOMAIN SimpleForm
  PROVE  IsFilledIn(SimpleForm[t])
<1> PICK new : new = In!NewForm("vless")
  OBVIOUS
<1>1. IsForm(new)
  BY NewFormIsGood DEF In!Protocols, Good
<1>2. {"tls", "reality", "realitySettings", "ws", "texts"} \cap Optional = {}
  BY InboundMaskNames DEF Optional
<1>3. CASE t = "vlessReality"
  <2> PICK vals : vals = {<<"reality", "privateKey", "set">>,
                          <<"realitySettings", "publicKey", "set">>}
    OBVIOUS
  <2>1. SimpleForm[t] = [new EXCEPT !.security = "reality", !.flow = TRUE, !.vals = vals]
    BY <1>3 DEF SimpleForm
  <2>2. SimpleForm[t].vals = vals
    BY <1>1, <2>1 DEF IsForm
  <2>3. /\ {"reality", "realitySettings"} \subseteq DOMAIN In!Objects
        /\ In!Objects["reality"] = In!RealityStreamSettings
        /\ In!Objects["realitySettings"] = In!RealityClientSettings
    BY DEF In!Objects
  <2>4. "publicKey" \in DOMAIN In!RealityClientSettings.to
    BY DEF In!RealityClientSettings, In!Fields, In!Same
  <2>5. "privateKey" \in DOMAIN In!RealityStreamSettings.to
    BY DEF In!RealityStreamSettings, In!Fields, In!Same
  <2>6. /\ In!Classes["reality"] = In!RealityStreamSettings
        /\ In!Classes["realitySettings"] = In!RealityClientSettings
        /\ {"reality", "realitySettings"} \subseteq DOMAIN In!Classes
    BY <2>3 DEF In!Classes
  <2> QED
    BY <1>2, <2>2, <2>4, <2>5, <2>6 DEF IsFilledIn, IsEditOf
<1>4. CASE t = "vlessWs"
  <2> PICK vals : vals = {<<"ws", "path", "set">>, <<"ws", "host", "set">>,
                          <<"tls", "sni", "set">>,
                          <<"texts", "cert", "set">>, <<"texts", "key", "set">>}
    OBVIOUS
  <2>1. SimpleForm[t] = [new EXCEPT !.network = "ws", !.security = "tls", !.on = {"texts"},
                                    !.vals = vals]
    BY <1>4 DEF SimpleForm
  <2>2. SimpleForm[t].vals = vals
    BY <1>1, <2>1 DEF IsForm
  <2>3. /\ {"ws", "texts"} \subseteq DOMAIN In!Objects
        /\ In!Objects["ws"] = In!WsStreamSettings /\ In!Objects["texts"] = In!TlsCertTexts
    BY DEF In!Objects
  <2>4. {"path", "host"} \subseteq DOMAIN In!WsStreamSettings.to
    BY DEF In!WsStreamSettings, In!Fields, In!Same
  <2>5. {"cert", "key"} \subseteq DOMAIN In!TlsCertTexts.to
    BY DEF In!TlsCertTexts, In!Fields
  <2>6. /\ In!Classes["ws"] = In!WsStreamSettings /\ In!Classes["texts"] = In!TlsCertTexts
        /\ {"ws", "texts"} \subseteq DOMAIN In!Classes
    BY <2>3 DEF In!Classes
  <2>7. IsEditOf(In!Classes, <<"tls", "sni", "set">>)
    BY TlsFields
  <2> QED
    BY <1>2, <2>2, <2>4, <2>5, <2>6, <2>7 DEF IsFilledIn, IsEditOf
<1>5. CASE t = "mixed"
  BY <1>5, NewFormIsFilledIn DEF SimpleForm
<1> QED
  BY <1>3, <1>4, <1>5 DEF SimpleForm

\* Edits stay with their objects.
LEMMA FewerObjects ==
  ASSUME NEW f, NEW g, NEW gone, IsFilledIn(f), g.on = f.on \ gone,
         g.vals = Without(f.vals, gone)
  PROVE  IsFilledIn(g)
  BY DEF IsFilledIn, Without

LEMMA SameFields ==
  ASSUME NEW f, NEW g, IsFilledIn(f), g.on = f.on, g.vals = f.vals
  PROVE  IsFilledIn(g)
  BY DEF IsFilledIn

LEMMA FlowClearedKeeps ==
  ASSUME NEW f, IsForm(f)
  PROVE  FlowCleared(f).on = f.on /\ FlowCleared(f).vals = f.vals
  BY DEF FlowCleared, IsForm

LEMMA NetworkChangedIsFilledIn ==
  ASSUME NEW f, NEW n, IsForm(f), IsFilledIn(f)
  PROVE  IsFilledIn(NetworkChanged(f, n))
<1> PICK gone : gone = IF n = "kcp" THEN {} ELSE In!UdpMasks
  OBVIOUS
<1> PICK moved : moved = [f EXCEPT !.network = n]
  OBVIOUS
<1> PICK plain : plain = IF In!canEnableTls(moved) THEN moved
                         ELSE [moved EXCEPT !.security = "none"]
  OBVIOUS
<1> PICK g : g = [plain EXCEPT !.on = @ \ gone, !.vals = Without(@, gone)]
  OBVIOUS
<1>1. NetworkChanged(f, n) = FlowCleared(g)
  BY DEF NetworkChanged
<1>2. IsForm(moved) /\ moved.on = f.on /\ moved.vals = f.vals
  BY DEF IsForm
<1>3. IsForm(plain) /\ plain.on = f.on /\ plain.vals = f.vals
  BY <1>2 DEF IsForm
<1>4. IsForm(g) /\ g.on = f.on \ gone /\ g.vals = Without(f.vals, gone)
  BY <1>3 DEF IsForm
<1>5. IsFilledIn(g)
  BY <1>4, FewerObjects
<1> QED
  BY <1>1, <1>4, <1>5, FlowClearedKeeps, SameFields

LEMMA ToggledIsFilledIn ==
  ASSUME NEW f, NEW s, IsForm(f), IsFilledIn(f)
  PROVE  IsFilledIn(Toggled(f, s))
<1> PICK g : g = Toggled(f, s)
  OBVIOUS
<1>1. CASE s \in f.on
  <2>1. /\ g.on = f.on \ ({s} \cup Dropped(s)) /\ g.vals = Without(f.vals, Dropped(s))
    BY <1>1 DEF Toggled, IsForm
  <2>2. s \in Optional => s \in Dropped(s)
    BY InboundMaskNames DEF Optional, Dropped, Kept
  <2> QED
    BY <2>1, <2>2 DEF IsFilledIn, Without
<1>2. CASE s \notin f.on
  <2> PICK vals : vals = IF ~MaskSetsMtu(f, s) THEN f.vals
                         ELSE IF s = "xdns" THEN Edited(f.vals, "kcp", "mtu", "set")
                         ELSE f.vals \ {<<"kcp", "mtu", "set">>}
    OBVIOUS
  <2>1. g = [f EXCEPT !.on = @ \cup {s}, !.vals = vals]
    BY <1>2 DEF Toggled
  <2>2. g.on = f.on \cup {s} /\ g.vals = vals
    BY <2>1 DEF IsForm
  <2>3. \A e \in vals : e \in f.vals \/ e = <<"kcp", "mtu", "set">>
    BY DEF Edited
  <2>4. IsEditOf(In!Classes, <<"kcp", "mtu", "set">>)
    <3>1. "kcp" \in DOMAIN In!Objects /\ In!Objects["kcp"] = In!KcpStreamSettings
      BY DEF In!Objects
    <3>2. "mtu" \in DOMAIN In!KcpStreamSettings.to
      BY DEF In!KcpStreamSettings, In!Fields, In!Same
    <3> QED
      BY <3>1, <3>2 DEF IsEditOf, In!Classes
  <2>5. "kcp" \notin Optional
    BY InboundMaskNames DEF Optional
  <2> QED
    BY <2>2, <2>3, <2>4, <2>5 DEF IsFilledIn
<1> QED
  BY <1>1, <1>2

\* A field of an object that the form shows.
LEMMA EditedIsFilledIn ==
  ASSUME NEW f, Good(f), IsFilledIn(f), NEW new, NEW c \in In!ShownParts(f, new),
         NEW k \in In!FieldsOf(In!Classes[c]), NEW v
  PROVE  IsFilledIn([f EXCEPT !.vals = Edited(@, c, k, v)])
<1> PICK vals : vals = Edited(f.vals, c, k, v)
  OBVIOUS
<1> PICK g : g = [f EXCEPT !.vals = vals]
  OBVIOUS
<1>1. g.on = f.on /\ g.vals = vals
  BY DEF Good, IsForm
<1>2. c \in In!Parts(f)
  BY DEF In!ShownParts, In!Parts
<1>3. IsEditOf(In!Classes, <<c, k, v>>) /\ (c \in Optional => c \in f.on)
  BY <1>2, InboundParts DEF Good, IsEditOf, In!FieldsOf
<1>4. IsFilledIn(g)
  BY <1>1, <1>3 DEF IsFilledIn, Edited
<1> QED
  BY <1>4

LEMMA RowsInitially == Init => RowInv
  BY DEF Init, RowInv

LEMMA RowStepKeeps == FormInv /\ RowInv /\ [Next]_vars => RowInv'
<1> SUFFICES ASSUME FormInv, RowInv, [Next]_vars
             PROVE  RowInv'
  OBVIOUS
<1>0. /\ form # None => Good(form) /\ IsFilledIn(form) /\ IsForm(form)
      /\ saved # None => IsRow(saved)
  BY DEF FormInv, RowInv, Good
<1>f. ASSUME NEW f, IsFilledIn(f), Choose(f)
      PROVE  RowInv'
  BY <1>f DEF Choose, RowInv
<1>1. CASE OpenAdd
  BY <1>1, NewFormIsFilledIn DEF OpenAdd, RowInv
<1>2. CASE AddSimple
  <2> PICK t \in DOMAIN SimpleForm : /\ saved' = In!Json(SimpleForm[t])
                                    /\ shown' = In!Visible(SimpleForm[t], TRUE)
    BY <1>2 DEF AddSimple
  <2>1. IsRow(saved') /\ Agrees(shown', saved')
    BY SimpleFormsAreGood, SimpleFormsAreFilledIn, SavedIsRow, SavedAsSeen
  <2> QED
    BY <1>2, <2>1 DEF AddSimple, RowInv
<1>3. CASE streamNetworkChange
  <2> PICK n \in In!Networks \ {form.network} : Choose(NetworkChanged(form, n))
    BY <1>3 DEF streamNetworkChange
  <2>1. IsFilledIn(NetworkChanged(form, n))
    BY <1>0, <1>3, NetworkChangedIsFilledIn DEF streamNetworkChange
  <2> QED
    BY <1>f, <2>1
<1>4. CASE ChooseSecurity
  <2> PICK s : Choose(SecurityWatched([form EXCEPT !.security = s]))
    BY <1>4 DEF ChooseSecurity
  <2> PICK f : f = [form EXCEPT !.security = s]
    OBVIOUS
  <2>1. IsForm(f) /\ f.on = form.on /\ f.vals = form.vals /\ IsFilledIn(form)
    BY <1>0, <1>4 DEF ChooseSecurity, IsForm
  <2>2. IsFilledIn(FlowCleared(f))
    BY <2>1, FlowClearedKeeps, SameFields
  <2> QED
    BY <1>f, <2>2 DEF SecurityWatched
<1>5. CASE ChooseFlow
  <2> PICK f : f = [form EXCEPT !.flow = ~@]
    OBVIOUS
  <2>1. f.on = form.on /\ f.vals = form.vals /\ IsFilledIn(form)
    BY <1>0, <1>5 DEF ChooseFlow, IsForm
  <2>2. IsFilledIn(f)
    BY <2>1, SameFields
  <2> QED
    BY <1>5, <1>f, <2>2 DEF ChooseFlow
<1>6. CASE Switch
  <2> PICK s \in In!Switches(form) : Choose(Toggled(form, s))
    BY <1>6 DEF Switch
  <2>1. IsFilledIn(Toggled(form, s))
    BY <1>0, <1>6, ToggledIsFilledIn DEF Switch
  <2> QED
    BY <1>f, <2>1
<1>7. CASE EditField
  <2>1. PICK c \in In!ShownParts(form, isNew) : \E k \in In!FieldsOf(In!Classes[c]) :
          \E v : form' = [form EXCEPT !.vals = Edited(@, c, k, v)]
    BY <1>7 DEF EditField
  <2> PICK k \in In!FieldsOf(In!Classes[c]) :
        \E v : form' = [form EXCEPT !.vals = Edited(@, c, k, v)]
    BY <2>1
  <2> PICK v : form' = [form EXCEPT !.vals = Edited(@, c, k, v)]
    OBVIOUS
  <2>2. IsFilledIn(form')
    BY <1>0, <1>7, EditedIsFilledIn DEF EditField
  <2> QED
    BY <1>7, <2>2 DEF EditField, RowInv
<1>8. CASE Save
  <2>1. IsRow(saved') /\ Agrees(shown', saved')
    BY <1>0, <1>8, SavedIsRow, SavedAsSeen DEF Save
  <2> QED
    BY <1>8, <2>1 DEF Save, RowInv
<1>9. CASE openEditInbound
  <2> PICK d : d = In!Json(In!FromDocument(saved))
    OBVIOUS
  <2>1. Good(In!FromDocument(saved))
    BY <1>0, <1>9, RowIsRead DEF openEditInbound
  <2>2. IsFilledIn(In!FromDocument(d))
    BY <2>1, SavedIsRow, RowIsRead
  <2> QED
    BY <1>9, <2>2 DEF openEditInbound, RowInv
<1>10. CASE resetTraffic
  <2>1. IsRow(saved) /\ Agrees(shown, saved) /\ Good(In!FromDocument(saved))
    BY <1>10, RowIsRead DEF resetTraffic, RowInv
  <2>2. IsRow(saved') /\ Agrees(shown, saved')
    BY <1>10, <2>1, SavedIsRow, ResetAsSeen DEF resetTraffic
  <2> QED
    BY <1>10, <2>2 DEF resetTraffic, RowInv
<1>11. CASE CopyLink
  BY <1>11 DEF CopyLink, RowInv
<1>12. CASE convertLink
  BY <1>12 DEF convertLink, RowInv
<1>13. CASE \/ OpenOutbound \/ SetProtocol \/ SetTag \/ SetEndpoint \/ SetNetwork \/ SetSecurity
            \/ SetFlow \/ SetSwitch \/ SetField \/ toggleJson \/ TypeField \/ TypeTag
            \/ TypeNonsense \/ TypeUnlisted \/ Ok \/ Close \/ deleteOutbound \/ UNCHANGED vars
  <2>1. UNCHANGED inbounds /\ page' \in {page, "left"}
    BY <1>13 DEF OpenOutbound, SetProtocol, SetTag, SetEndpoint, SetNetwork, SetSecurity,
         SetFlow, SetSwitch, SetField, toggleJson, TypeField, TypeTag, TypeNonsense,
         TypeUnlisted, Ok, Close, deleteOutbound, Others, vars, inbounds
  <2> QED
    BY <2>1 DEF inbounds, RowInv
<1> QED
  BY <1>1, <1>2, <1>3, <1>4, <1>5, <1>6, <1>7, <1>8, <1>9, <1>10, <1>11, <1>12, <1>13 DEF Next

InboundInv == FormInv /\ RowInv

LEMMA InboundInvariance == Spec => []InboundInv
<1>1. Init => InboundInv
  BY Initially, RowsInitially DEF InboundInv
<1>2. InboundInv /\ [Next]_vars => InboundInv'
  BY StepKeeps, RowStepKeeps DEF InboundInv
<1> QED
  BY <1>1, <1>2, PTL DEF Spec

\* Resetting the traffic of an inbound sends the configuration that was there,
\* whichever form it was made in.
THEOREM ResetKeeps == Spec => ResetKeepsConfiguration
<1>1. ASSUME RowInv, resetTraffic
      PROVE  /\ Remembered(saved.vals) \subseteq saved'.vals
             /\ saved'.vals \subseteq saved.vals
             /\ [saved' EXCEPT !.vals = {}] = [saved EXCEPT !.vals = {}]
  <2> PICK d : d = saved
    OBVIOUS
  <2> PICK e : e = In!Json(In!FromDocument(d))
    OBVIOUS
  <2>1. IsRow(d) /\ saved' = e
    BY <1>1 DEF RowInv, resetTraffic
  <2>2. Remembered(d.vals) \subseteq e.vals
    <3> SUFFICES ASSUME NEW j \in Remembered(d.vals)
                 PROVE  j \in e.vals
      OBVIOUS
    <3>1. PICK k : In!Classes[j[1]].to[k] = j[2] /\ Sends(d, j[1], k, j[3])
      BY <2>1 DEF IsRow, Remembered
    <3>2. /\ k \in DOMAIN In!Classes[j[1]].to /\ Keyed(In!Classes[j[1]])
      BY <2>1, <3>1, InboundParts, ClassesAreKeyed
      DEF IsRow, Good, Sends, In!IsWritten, In!FieldsOf
    <3>3. k \notin Unread /\ j[3] # "cleared"
      BY <3>1, <3>2 DEF Keyed, Remembered, Forgotten
    <3> QED
      BY <2>1, <3>1, <3>2, <3>3, SentAgain DEF Remembered
  <2>3. e.vals \subseteq d.vals
    BY <2>1, NothingIsInvented
  <2>4. [e EXCEPT !.vals = {}] = [d EXCEPT !.vals = {}]
    <3>1. /\ IsForm(e) /\ e.protocol = d.protocol /\ e.flow = d.flow /\ e.network = d.network
          /\ e.security = d.security /\ e.on = d.on
      BY <2>1, ChoicesAreSentAgain
    <3>2. IsForm(d)
      BY <2>1 DEF IsRow, Good
    <3> QED
      BY <3>1, <3>2 DEF IsForm
  <2> QED
    BY <2>1, <2>2, <2>3, <2>4
<1>2. InboundInv /\ [Next]_vars =>
        [resetTraffic => /\ Remembered(saved.vals) \subseteq saved'.vals
                         /\ saved'.vals \subseteq saved.vals
                         /\ [saved' EXCEPT !.vals = {}] = [saved EXCEPT !.vals = {}]]_vars
  BY <1>1 DEF InboundInv
<1> QED
  BY <1>2, InboundInvariance, PTL DEF Spec, ResetKeepsConfiguration

\* The form that opens on a row shows what was seen when it was saved, also
\* after resets.
THEOREM ReopenedAsSaved == Spec => ReopenShowsWhatWasSaved
<1> DEFINE Shown == /\ <<form'.protocol, form'.network, form'.security, form'.flow>> =
                       <<saved.protocol, saved.network, saved.security, shown.flow>>
                    /\ shown.on \subseteq form'.on
                    /\ \A e \in Remembered(shown.vals) :
                         e \in form'.vals \/ <<e[1], e[2], "set">> \in form'.vals
<1>1. ASSUME RowInv, openEditInbound
      PROVE  Shown
  <2> PICK d : d = In!Json(In!FromDocument(saved))
    OBVIOUS
  <2> PICK f : f = In!FromDocument(d)
    OBVIOUS
  <2>1. /\ IsRow(saved) /\ Agrees(shown, saved) /\ Good(In!FromDocument(saved))
    BY <1>1, RowIsRead DEF openEditInbound, RowInv
  <2>2. /\ IsRow(d) /\ Agrees(shown, d)
        /\ d.protocol = saved.protocol /\ d.network = saved.network
        /\ d.security = saved.security
    BY <2>1, SavedIsRow, ResetAsSeen, ChoicesAreSentAgain
  <2>3. /\ f.protocol = d.protocol /\ f.flow = d.flow /\ f.network = d.network
        /\ f.security = d.security /\ f.on = d.on
    BY <2>2, RowIsRead
  <2>4. ASSUME NEW e \in Remembered(shown.vals)
        PROVE  e \in f.vals \/ <<e[1], e[2], "set">> \in f.vals
    <3>1. /\ e = <<e[1], e[2], e[3]>> /\ IsEditOf(In!Classes, e)
          /\ e[2] \notin Unread /\ e[3] # "cleared"
      BY <2>2 DEF Agrees, Remembered, Forgotten, Unread
    <3> PICK v \in {e[3], "set"} : <<e[1], In!Classes[e[1]].to[e[2]], v>> \in d.vals
      BY <2>2 DEF Agrees
    <3> PICK j : j = <<e[1], In!Classes[e[1]].to[e[2]], v>>
      OBVIOUS
    <3>2. j \in d.vals /\ j[1] = e[1] /\ j[2] = In!Classes[e[1]].to[e[2]] /\ j[3] = v
      OBVIOUS
    <3>3. <<j[1], e[2], j[3]>> \in f.vals
      BY <2>2, <3>1, <3>2, KeyIsRead DEF IsEditOf
    <3> QED
      BY <3>1, <3>2, <3>3
  <2>5. form' = f
    BY <1>1 DEF openEditInbound
  <2> QED
    BY <2>2, <2>3, <2>4, <2>5 DEF Agrees
<1>2. InboundInv /\ [Next]_vars => [openEditInbound => Shown]_vars
  BY <1>1 DEF InboundInv
<1> QED
  BY <1>2, InboundInvariance, PTL DEF Spec, ReopenShowsWhatWasSaved

=============================================================================
