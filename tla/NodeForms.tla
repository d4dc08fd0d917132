---- MODULE NodeForms ----
(***************************************************************************)
(* The two forms of the panel in which nodes are made: the inbound form of *)
(* the inbounds page and the outbound form of the Xray page, with what     *)
(* joins them, the share link. A person edits a form in steps; the form    *)
(* becomes JSON, is saved, is read back when it is opened again, becomes a *)
(* link, and the link an outbound.                                         *)
(***************************************************************************)
EXTENDS Naturals, Sequences, FiniteSets

CONSTANTS
  MaxChoices,  \* bound: choices of protocol, transport, security, switches
  MaxEdits,    \* bound: fields that are edited
  MaxNodes     \* bound: outbounds of the template

ASSUME BoundAssumption == {MaxChoices, MaxEdits, MaxNodes} \subseteq Nat

In  == INSTANCE InboundModel
Out == INSTANCE OutboundModel

VARIABLES
  page,      \* the page that is open
  form,      \* inModal.inbound, or None when the modal is closed
  isNew,     \* not inModal.isEdit
  shown,     \* the visible part of the form when it was last saved
  saved,     \* the inbound's row, as sent to the server
  link,      \* the share link that was copied last
  modal,     \* outModal, or None
  template,  \* templateSettings.outbounds
  choices,   \* what is left of MaxChoices
  edits      \* what is left of MaxEdits

vars == <<page, form, isNew, shown, saved, link, modal, template, choices, edits>>
inbounds == <<form, isNew, shown, saved>>
nodes == <<modal, template>>

None == [none |-> TRUE]

\* The edits of the objects that are gone.
Without(vals, objects) == {e \in vals : e[1] \notin objects}
Edited(vals, c, f, v) == {e \in vals : <<e[1], e[2]>> # <<c, f>>} \cup {<<c, f, v>>}

\* Switched off, an object is dropped with all it holds, except these.
Kept == {"brutal", "texts", "mux"}
Dropped(s) == IF s = "quicParams" THEN {"quicParams", "brutal", "udpHop"} ELSE {s} \ Kept

\* The type of a UDP mask other than the first offered sets the MTU of kcp.
MaskSetsMtu(f, s) == f.network = "kcp" /\ s \in In!UdpMasks \ {"aes128gcm"}

\* Mistake: what is switched off is only hidden.
MistakenToggled(f, s) ==
  [f EXCEPT !.on = IF s \in f.on THEN @ \ {s} ELSE @ \cup {s}]

Toggled(f, s) ==
  IF s \in f.on
  THEN [f EXCEPT !.on = @ \ ({s} \cup Dropped(s)), !.vals = Without(@, Dropped(s))]
  ELSE [f EXCEPT !.on = @ \cup {s},
                 !.vals = IF ~MaskSetsMtu(f, s) THEN @
                          ELSE IF s = "xdns" THEN Edited(@, "kcp", "mtu", "set")
                          ELSE @ \ {<<"kcp", "mtu", "set">>}]

Spend == choices > 0 /\ choices' = choices - 1 /\ UNCHANGED edits
SpendEdit == edits > 0 /\ edits' = edits - 1 /\ UNCHANGED choices
Free == UNCHANGED <<choices, edits>>

----------------------------------------------------------------------------
(* The inbounds page *)

\* The forms of the simple mode, ready to be saved: keys, domain and
\* certificate are there.
SimpleForm == [
  vlessReality |-> [In!NewForm("vless") EXCEPT
    !.security = "reality", !.flow = TRUE,
    !.vals = {<<"reality", "privateKey", "set">>, <<"realitySettings", "publicKey", "set">>}],
  vlessWs |-> [In!NewForm("vless") EXCEPT
    !.network = "ws", !.security = "tls", !.on = {"texts"},
    !.vals = {<<"ws", "path", "set">>, <<"ws", "host", "set">>, <<"tls", "sni", "set">>,
              <<"texts", "cert", "set">>, <<"texts", "key", "set">>}],
  mixed |-> In!NewForm("mixed")]

\* The flow needs a transport and a security; anything else clears it.
FlowCleared(f) ==
  IF f.protocol = "vless" /\ ~In!canEnableTlsFlow(f) THEN [f EXCEPT !.flow = FALSE] ELSE f

\* Mistake: there is no watcher.
MistakenSecurityWatched(f) == f

\* The watcher of stream.security.
SecurityWatched(f) == FlowCleared(f)

\* streamNetworkChange. Its second test assigns a field nobody reads, so
\* REALITY stays selected on WebSocket and HTTPUpgrade.
NetworkChanged(f, n) ==
  LET moved == [f EXCEPT !.network = n]
      plain == IF In!canEnableTls(moved) THEN moved ELSE [moved EXCEPT !.security = "none"]
      gone  == IF n = "kcp" THEN {} ELSE In!UdpMasks
  IN FlowCleared([plain EXCEPT !.on = @ \ gone, !.vals = Without(@, gone)])

OpenAdd ==
  /\ page = "inbounds" /\ form = None /\ saved = None
  /\ \E p \in In!Protocols : form' = In!NewForm(p)
  /\ isNew' = TRUE
  /\ Free /\ UNCHANGED <<page, shown, saved, link, nodes>>

AddSimple ==
  /\ page = "inbounds" /\ form = None /\ saved = None
  /\ \E t \in DOMAIN SimpleForm :
       /\ saved' = In!Json(SimpleForm[t])
       /\ shown' = In!Visible(SimpleForm[t], TRUE)
  /\ Free /\ UNCHANGED <<page, form, isNew, link, nodes>>

Choose(f) == form' = f /\ Spend /\ UNCHANGED <<page, isNew, shown, saved, link, nodes>>

streamNetworkChange ==
  /\ form # None /\ In!canEnableStream(form) /\ form.protocol # "hysteria2"
  /\ \E n \in In!Networks \ {form.network} : Choose(NetworkChanged(form, n))

ChooseSecurity ==
  /\ form # None /\ In!canEnableTls(form) /\ form.protocol # "hysteria2"
  /\ \E s \in {"none", "tls"} \cup IF In!canEnableReality(form) THEN {"reality"} ELSE {} :
       s # form.security /\ Choose(SecurityWatched([form EXCEPT !.security = s]))

ChooseFlow ==
  /\ form # None /\ isNew /\ In!canEnableTlsFlow(form)
  /\ Choose([form EXCEPT !.flow = ~@])

Switch ==
  /\ form # None
  /\ \E s \in In!Switches(form) : Choose(Toggled(form, s))

EditField ==
  /\ form # None /\ SpendEdit
  /\ \E c \in In!ShownParts(form, isNew) : \E f \in In!FieldsOf(In!Classes[c]) :
       /\ In!IsShown(form, isNew, c, f)
       /\ \E v \in In!Inputs(In!Classes[c], f) :
            form' = [form EXCEPT !.vals = Edited(@, c, f, v)]
  /\ UNCHANGED <<page, isNew, shown, saved, link, nodes>>

\* addInbound and updateInbound.
Save ==
  /\ form # None
  /\ saved' = In!Json(form)
  /\ shown' = In!Visible(form, isNew)
  /\ form' = None
  /\ Free /\ UNCHANGED <<page, isNew, link, nodes>>

\* openEditInbound: the row is parsed, and show() makes a copy of it.
openEditInbound ==
  /\ page = "inbounds" /\ form = None /\ saved # None
  /\ form' = In!FromDocument(In!Json(In!FromDocument(saved)))
  /\ isNew' = FALSE
  /\ Free /\ UNCHANGED <<page, shown, saved, link, nodes>>

\* resetTraffic sends the whole inbound, parsed and written anew.
resetTraffic ==
  /\ page = "inbounds" /\ form = None /\ saved # None
  /\ saved' = In!Json(In!FromDocument(saved))
  /\ Free /\ UNCHANGED <<page, form, isNew, shown, link, nodes>>

\* A client's link is copied, through an external proxy if there is one, and
\* the person goes to the other page, where nothing is left to be chosen.
CopyLink ==
  /\ page = "inbounds" /\ form = None /\ saved # None
  /\ In!canEnableStream(saved)
  /\ \E t \in {"same"} \cup IF "externalProxy" \in saved.on THEN {"tls", "none"} ELSE {} :
       link' = In!Link(In!FromDocument(saved), t)
  /\ page' = "xray"
  /\ isNew' = FALSE /\ shown' = None
  /\ choices' = 0 /\ edits' = 0
  /\ UNCHANGED <<form, saved, nodes>>

----------------------------------------------------------------------------
(* The Xray page *)

\* outModal: which outbound it edits (0: none, it adds one), the tab, the
\* outbound, what the editor of the JSON tab holds (a document, or a text that
\* is no document, or one that Outbound.fromJson throws on), and the result of
\* the last check().
Modal(index, ob) ==
  [index |-> index, tab |-> "form", ob |-> ob, text |-> "document", doc |-> Out!Json(ob),
   jsonValid |-> TRUE, isValid |-> FALSE]

\* The tags of the other outbounds.
tags(m) == {template[i].tag : i \in DOMAIN template \ {m.index}}

\* Mistake: a text that is no document is no reason not to save.
MistakenCheck(m) ==
  [m EXCEPT !.isValid = /\ m.ob.tag # "" /\ m.ob.tag \notin tags(m)
                        /\ Out!validationIssues(m.ob) = {}]

check(m) ==
  [m EXCEPT !.isValid = /\ m.ob.tag # "" /\ m.ob.tag \notin tags(m)
                        /\ m.jsonValid
                        /\ Out!validationIssues(m.ob) = {}]

\* The document of an outbound is in the editor only on the JSON tab.
Shows(m) == [m EXCEPT !.text = "document", !.doc = Out!Json(m.ob)]

\* One who comes with a link adds an outbound.
OpenOutbound ==
  /\ page = "xray" /\ modal = None
  /\ \/ /\ Len(template) < MaxNodes
        /\ modal' = check(Modal(0, Out!NewForm("vless")))
     \/ /\ saved = None
        /\ \E i \in DOMAIN template :
             modal' = check(Modal(i, Out!Rendered(Out!FromDocument(template[i]))))
  /\ Free /\ UNCHANGED <<page, inbounds, link, template>>

\* A field of the form tab is changed: the outbound becomes f, and the form
\* asks for a check or not.
InForm == modal # None /\ modal.tab = "form"
Becomes(f) == modal' = Shows([modal EXCEPT !.ob = Out!Rendered(f)])
BecomesChecked(f) == modal' = check(Shows([modal EXCEPT !.ob = Out!Rendered(f)]))
Others == UNCHANGED <<page, inbounds, link, template>>

SetProtocol ==
  /\ InForm /\ Spend
  /\ \E p \in Out!Protocols \ {modal.ob.protocol} : BecomesChecked(Out!WithProtocol(modal.ob, p))
  /\ Others

SetTag ==
  /\ InForm /\ Spend
  /\ \E t \in ({"", "node"} \cup {template[i].tag : i \in DOMAIN template}) \ {modal.ob.tag} :
       BecomesChecked([modal.ob EXCEPT !.tag = t])
  /\ Others

\* The address, the port and the user of the server are filled in.
SetEndpoint ==
  /\ InForm /\ Free
  /\ ~(Out!Endpoint(modal.ob.protocol) \subseteq modal.ob.vals)
  /\ BecomesChecked([modal.ob EXCEPT !.vals = @ \cup Out!Endpoint(modal.ob.protocol)])
  /\ Others

SetNetwork ==
  /\ InForm /\ Spend /\ Out!canEnableStream(modal.ob)
  /\ \E n \in Out!Networks \cup IF modal.ob.protocol = "hysteria2" THEN {"hysteria"} ELSE {} :
       LET moved == [modal.ob EXCEPT !.network = n] IN
       /\ n # modal.ob.network
       /\ Becomes(IF Out!canEnableTlsFlow(moved) THEN moved ELSE [moved EXCEPT !.flow = FALSE])
  /\ Others

SetSecurity ==
  /\ InForm /\ Spend /\ Out!canEnableTls(modal.ob)
  /\ \E s \in {"none", "tls"} \cup IF Out!canEnableReality(modal.ob) THEN {"reality"} ELSE {} :
       s # modal.ob.security /\ Becomes([modal.ob EXCEPT !.security = s])
  /\ Others

SetFlow ==
  /\ InForm /\ Spend /\ Out!canEnableTlsFlow(modal.ob)
  /\ Becomes([modal.ob EXCEPT !.flow = ~@])
  /\ Others

SetSwitch ==
  /\ InForm /\ Spend
  /\ \E s \in Out!Switches(modal.ob) : Becomes(Toggled(modal.ob, s))
  /\ Others

\* A field is set, or emptied again.
FieldEdits(f) ==
  (UNION {UNION {{Edited(f.vals, c, k, v) : v \in Out!Inputs(Out!Classes[c], k)} \cup
                 {f.vals \ {<<c, k, "set">>}} :
                   k \in {x \in Out!FieldsOf(Out!Classes[c]) : Out!IsShown(f, c, x)}} :
            c \in Out!Parts(f)}) \ {f.vals}

SetField ==
  /\ InForm /\ SpendEdit
  /\ \E vals \in FieldEdits(modal.ob) : BecomesChecked([modal.ob EXCEPT !.vals = vals])
  /\ Others

toggleJson ==
  /\ modal # None
  /\ modal' = IF modal.tab = "form"
              THEN [Shows(modal) EXCEPT !.tab = "json"]
              ELSE check([Shows(modal) EXCEPT !.tab = "form", !.jsonValid = TRUE])
  /\ Free /\ Others

\* The listener of the editor. The settings that hold a list of servers, users
\* or peers make fromJson throw when the list is missing: nothing is said, the
\* outbound stays and check() does not run.
Throws == {"vmess", "trojan", "shadowsocks", "socks", "http", "wireguard"}

InJson == modal # None /\ modal.tab = "json"
TypeDocument(doc) ==
  modal' = check([modal EXCEPT !.text = "document", !.doc = doc, !.jsonValid = TRUE,
                               !.ob = Out!Rendered(Out!FromDocument(doc))])

TypeField ==
  /\ InJson /\ SpendEdit
  /\ \E vals \in FieldEdits(modal.ob) : TypeDocument(Out!Json([modal.ob EXCEPT !.vals = vals]))
  /\ Others

TypeTag ==
  /\ InJson /\ Spend
  /\ \E t \in ({"", "node"} \cup {template[i].tag : i \in DOMAIN template}) \ {modal.doc.tag} :
       TypeDocument([modal.doc EXCEPT !.tag = t])
  /\ Others

TypeNonsense ==
  /\ InJson /\ Spend
  /\ modal' = check([modal EXCEPT !.text = "nonsense", !.jsonValid = FALSE])
  /\ Others

TypeUnlisted ==
  /\ InJson /\ Spend /\ modal.ob.protocol \in Throws
  /\ modal' = [modal EXCEPT !.text = "unlisted", !.jsonValid = TRUE]
  /\ Others

\* convertLink: the remark of the link becomes the tag.
convertLink ==
  /\ InJson /\ link # None
  /\ \E remark \in {"node", "direct"} :
       modal' = check(Shows([modal EXCEPT !.ob = Out!Rendered(Out!fromLink(link, remark))]))
  /\ link' = None /\ saved' = None
  /\ IF saved = None THEN Spend ELSE Free
  /\ UNCHANGED <<page, form, isNew, shown, template>>

\* The button is disabled by the last check; ok() checks again. Then the page
\* is left: another visit starts from another template.
Ok ==
  /\ modal # None /\ modal.isValid /\ check(modal).isValid
  /\ template' = LET node == Out!Json(modal.ob) IN
                 IF modal.index = 0 THEN Append(template, node)
                 ELSE [template EXCEPT ![modal.index] = node]
  /\ modal' = None /\ page' = "left"
  /\ Free /\ UNCHANGED <<inbounds, link>>

Close ==
  /\ modal # None /\ modal' = None
  /\ Free /\ Others

deleteOutbound ==
  /\ page = "xray" /\ modal = None
  /\ \E i \in DOMAIN template :
       template' = SubSeq(template, 1, i - 1) \o SubSeq(template, i + 1, Len(template))
  /\ Spend /\ UNCHANGED <<page, inbounds, link, modal>>

----------------------------------------------------------------------------
(* The specification *)

\* The template of the Xray page: the outbound to the Internet, and two VLESS
\* nodes of old, one of which the form cannot show.
Direct == Out!Json([Out!NewForm("freedom") EXCEPT !.tag = "direct"])
Node(way) == Out!Json([Out!NewForm("vless") EXCEPT
                         !.tag = way, !.legacy = way, !.vals = Out!Endpoint("vless")])

Init ==
  /\ page \in {"inbounds", "xray"}
  /\ template = <<Direct, Node("vnext"), Node("readonly")>>
  /\ form = None /\ isNew = FALSE /\ shown = None /\ saved = None
  /\ link = IF page = "xray" THEN In!Link(SimpleForm["vlessReality"], "same") ELSE None
  /\ modal = None
  /\ choices = MaxChoices /\ edits = MaxEdits

Next ==
  \/ OpenAdd \/ AddSimple \/ streamNetworkChange \/ ChooseSecurity \/ ChooseFlow
  \/ Switch \/ EditField \/ Save \/ openEditInbound \/ resetTraffic \/ CopyLink
  \/ OpenOutbound \/ SetProtocol \/ SetTag \/ SetEndpoint \/ SetNetwork \/ SetSecurity
  \/ SetFlow \/ SetSwitch \/ SetField \/ toggleJson \/ TypeField \/ TypeTag
  \/ TypeNonsense \/ TypeUnlisted \/ convertLink \/ Ok \/ Close \/ deleteOutbound

Spec == Init /\ [][Next]_vars

----------------------------------------------------------------------------
(* Properties *)

IsEditOf(classes, e) == e[1] \in DOMAIN classes /\ e[2] \in DOMAIN classes[e[1]].to
Optional == In!TcpMasks \cup In!UdpMasks \cup
            {"sockopt", "externalProxy", "quicParams", "udpHop", "masquerade",
             "freedomFragment", "freedomNoise", "finalRule", "dnsRule"}

\* Type invariant: every edit is one of a field of its class, and of an object
\* that is there: what is switched off leaves nothing that could be saved.
TypeOK ==
  /\ page \in {"inbounds", "xray", "left"} /\ isNew \in BOOLEAN
  /\ choices \in 0..MaxChoices /\ edits \in 0..MaxEdits
  /\ form # None => /\ form.protocol \in In!Protocols
                    /\ form.network \in In!Networks \cup {"hysteria"}
                    /\ \A e \in form.vals : /\ IsEditOf(In!Classes, e)
                                            /\ e[1] \in Optional => e[1] \in form.on
  /\ modal # None => /\ modal.ob.protocol \in Out!Protocols
                     /\ modal.ob.network \in Out!Networks \cup {"hysteria"}
                     /\ \A e \in modal.ob.vals : /\ IsEditOf(Out!Classes, e)
                                                  /\ e[1] \in Optional => e[1] \in modal.ob.on
                     /\ modal.index \in 0..Len(template)

\* However the form was walked through, an inbound is saved with TLS only on a
\* transport that offers it, with REALITY only where it is offered or where the
\* form forgets to take it away (WebSocket, HTTPUpgrade), and with the vision
\* flow only on VLESS over TCP with one of the two: Xray refuses the others.
\* It takes streamNetworkChange and the watcher of the security together.
StreamIsCoherent ==
  saved # None =>
    /\ saved.security = "tls" => In!canEnableTls(saved)
    /\ saved.security = "reality" =>
         In!canEnableReality(saved) \/ saved.network \in {"ws", "httpupgrade"}
    /\ saved.flow => In!canEnableTlsFlow(saved)

\* What the classes are known not to read back: the maximal time difference of
\* REALITY (written under another name), the tables of a Sudoku mask, a field
\* that was emptied and has a default, a header without a name.
Forgotten(e) ==
  \/ e[2] \in {"maxTimediff", "maxTimeDiff", "customTables"}
  \/ e[3] \in {"cleared", "blank"}
Remembered(vals) == {e \in vals : ~Forgotten(e)}

\* Editing an inbound shows what was saved: the transport, the security, the
\* flow, the switches and every field that could be seen; of a header that was
\* given twice, at least one.
ReopenShowsWhatWasSaved ==
  [][openEditInbound =>
       /\ <<form'.protocol, form'.network, form'.security, form'.flow>> =
          <<saved.protocol, saved.network, saved.security, shown.flow>>
       /\ shown.on \subseteq form'.on
       /\ \A e \in Remembered(shown.vals) :
            e \in form'.vals \/ <<e[1], e[2], "set">> \in form'.vals]_vars

\* Resetting the traffic of an inbound does not change its configuration,
\* though the whole of it is parsed, written and sent again, hidden fields too.
ResetKeepsConfiguration ==
  [][resetTraffic =>
       /\ Remembered(saved.vals) \subseteq saved'.vals
       /\ saved'.vals \subseteq saved.vals
       /\ [saved' EXCEPT !.vals = {}] = [saved EXCEPT !.vals = {}]]_vars

\* What an outbound must know of an inbound to reach it.
Needed ==
  [request     |-> {<<"path", "path">>, <<"headers", "host">>},
   kcp         |-> {<<"mtu", "mtu">>, <<"tti", "tti">>},
   ws          |-> {<<"path", "path">>, <<"host", "host">>, <<"headers", "host">>},
   httpupgrade |-> {<<"path", "path">>, <<"host", "host">>, <<"headers", "host">>},
   xhttp       |-> {<<"path", "path">>, <<"host", "host">>, <<"headers", "host">>,
                    <<"mode", "mode">>},
   grpc        |-> {<<"serviceName", "serviceName">>, <<"authority", "authority">>,
                    <<"multiMode", "multiMode">>},
   vless       |-> {<<"encryption", "encryption">>}]
NeededSecurity ==
  [tls             |-> {<<"sni", "serverName">>, <<"alpn", "alpn">>},
   tlsSettings     |-> {<<"fingerprint", "fingerprint">>, <<"echConfigList", "echConfigList">>},
   reality         |-> {<<"serverNames", "serverName">>, <<"shortIds", "shortId">>},
   realitySettings |-> {<<"publicKey", "publicKey">>, <<"fingerprint", "fingerprint">>,
                        <<"spiderX", "spiderX">>, <<"mldsa65Verify", "mldsa65Verify">>}]

\* A link imported on the Xray page gives an outbound with the transport, the
\* security, the flow and the settings of the inbound it was copied from: the
\* two halves of the format, genLink and fromLink, agree for each protocol.
\* The exceptions are what one of them leaves out: the mode of XHTTP and the ECH
\* configuration in VMess, everything about the security in Hysteria, and what an
\* external proxy replaces.
NotCarried(f) ==
  CASE f.protocol = "vmess" -> {<<"xhttp", "mode">>, <<"tls", "echConfigList">>}
    [] OTHER -> {}
Secured(ob) == ob.security = saved.security /\ link.security = saved.security
ImportKeepsWhatMatters ==
  [][convertLink /\ saved # None =>
       LET ob == modal'.ob IN
       /\ <<ob.protocol, ob.network>> = <<saved.protocol, saved.network>>
       /\ saved.protocol # "hysteria2" =>
            /\ link.security = saved.security => Secured(ob) /\ ob.flow = saved.flow
            /\ "httpHeader" \in saved.on /\ saved.network = "tcp" <=> "httpHeader" \in ob.on
       /\ \A e \in In!FromDocument(saved).vals :
            /\ e[1] \in DOMAIN Needed /\ e[3] \in {"set", "twice"} =>
                 \A n \in Needed[e[1]] :
                   n[1] = e[2] /\ <<e[1], n[2]>> \notin NotCarried(ob) =>
                     <<e[1], n[2], "set">> \in ob.vals
            /\ e[1] \in DOMAIN NeededSecurity /\ e[3] = "set" /\ Secured(ob) =>
                 \A n \in NeededSecurity[e[1]] :
                   n[1] = e[2] /\ <<ob.security, n[2]>> \notin NotCarried(ob) =>
                     <<ob.security, n[2], "set">> \in ob.vals]_vars

\* Opening an outbound of the template and pressing the button changes nothing
\* in it, whichever steps or texts it was made of; the settings of a legacy
\* VLESS node keep what the form does not know.
NodesSurviveEditing ==
  \A i \in DOMAIN template :
    LET again == Out!Json(Out!Rendered(Out!FromDocument(template[i]))) IN
    /\ Remembered(template[i].vals) \subseteq again.vals
    /\ again.vals \subseteq template[i].vals
    /\ [again EXCEPT !.vals = {}] = [template[i] EXCEPT !.vals = {}]

\* What is saved from the JSON tab is the text that can be seen there, except
\* one that fromJson throws on: then the button saves the outbound from before.
SavesWhatIsShown ==
  [][Ok /\ modal.tab = "json" =>
       /\ modal.text # "nonsense"
       /\ modal.text = "document" =>
            \E i \in DOMAIN template' :
              /\ template'[i].tag = modal.doc.tag
              /\ Remembered(modal.doc.vals) \subseteq template'[i].vals]_vars

\* Routing rules name the outbounds by their tags: none is without and no two have
\* the same. The tag of an imported link and one typed as JSON count as well.
TagsAreUnique ==
  \A i \in DOMAIN template :
    /\ template[i].tag # ""
    /\ \A j \in DOMAIN template \ {i} : template[i].tag # template[j].tag

\* A VLESS node that is written in a way the form cannot show is never changed,
\* and any other one has a server, a user and an encryption: Xray would not
\* start with less.
NodesAreComplete ==
  \A i \in DOMAIN template :
    template[i].protocol = "vless" =>
      IF template[i].legacy = "readonly" THEN template[i] = Node("readonly")
      ELSE /\ \A k \in {"address", "port", "id"} : <<"vless", k, "set">> \in template[i].vals
           /\ <<"vless", "encryption", "cleared">> \notin template[i].vals

\* The two together, in whatever order the tabs, the link and the tag were used:
\* what the button lets through is what the last check has seen.
SavedNodesAreUsable == TagsAreUnique /\ NodesAreComplete
====
