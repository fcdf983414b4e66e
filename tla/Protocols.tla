------------------------------ MODULE Protocols ------------------------------
(***************************************************************************)
(* What an instance's file means: the rules that make it valid, the        *)
(* sing-box configuration generated from it, the subscription node of each *)
(* of its inbounds, and the proxies the four client formats make of a      *)
(* node.  The two ends of a connection are converted by different code:    *)
(* Accepts says which proxies a generated inbound lets in.                 *)
(*                                                                         *)
(* Credentials (uuid, password, user name with password), methods and keys *)
(* are names; a pair of a private and a public key is one name.  The parts *)
(* of a transport and of TLS that are copied unchanged on both sides are   *)
(* left out, ports stand for addresses, and None is an empty field.        *)
(***************************************************************************)
EXTENDS Naturals, Sequences, SequencesExt

CONSTANTS
    None,       \* an empty field
    Words,      \* names, credentials, methods, keys, ids and paths
    TwoKeys     \* the methods 2022-*, which ask for the server's key and the user's together

NoTLS == [enabled |-> FALSE, cert |-> FALSE, reality |-> None, utls |-> FALSE]
NoUser == [name |-> None, cred |-> None, method |-> None, flow |-> None, alter |-> 0,
           tag |-> None, remark |-> None]
NoOutbound == [name |-> None, type |-> None, ref |-> None, server |-> None, port |-> 0,
               cred |-> None, method |-> None, alter |-> 0, flow |-> None, auth |-> None,
               tls |-> NoTLS, transport |-> None]

\* What the files can say (internal/domain/models.go), as far as inbounds go.
Text == Words \cup {None}
RealitySettings == [private : Text, public : Text, short : Text, shorts : Seq(Words)]
TLSSettings == [enabled : BOOLEAN, cert : BOOLEAN, utls : BOOLEAN,
                reality : RealitySettings \cup {None}]
TransportSettings == [type : Words, path : Text]
UserSettings == [name : Text, cred : Text, method : Text, flow : Text, alter : Nat,
                 tag : Seq(Words) \cup {None}, remark : Text]
SubSettings == [user : Text, remark : Text, server : Text]
InboundSettings == [name : Words, type : Words, port : Nat, loopback : BOOLEAN,
                    tag : Seq(Words) \cup {None}, users : Seq(UserSettings), tls : TLSSettings,
                    transport : TransportSettings \cup {None}, auth : Text, method : Text,
                    sub : SubSettings \cup {None}]

\* The TLS of a generated inbound, and that of a client.
GeneratedTLS == [cert : BOOLEAN, key : Text, shorts : SUBSET Text]
ProxyTLS == [utls : BOOLEAN, key : Text, short : Text]

ASSUME ProtocolsAssumption ==
    /\ None \notin Words /\ {"vision", "noauth"} \subseteq Words
    /\ \A method \in TwoKeys : method \in Words
    /\ None \notin RealitySettings \cup GeneratedTLS \cup ProxyTLS

Password(auth) == auth \notin {None, "noauth"}

\* ApplyInboundDefaults.  A tag is the sequence of its words; the default is TYPE-NAME.
ApplyDefaults(in) ==
    [in EXCEPT !.tag = IF @ = None THEN <<in.type, in.name>> ELSE @,
               !.auth = IF @ = None THEN "noauth" ELSE @]

-----------------------------------------------------------------------------
(* ValidateInstance *)

InboundTypes == {"vmess", "vless", "anytls", "shadowsocks", "socks5", "http"}
RemoteTypes == InboundTypes \cup {"trojan", "hysteria2"}
Transports == {"http", "ws", "quic", "grpc", "httpupgrade"}
SupportsTransport(type) == type \in {"vmess", "vless"}
Local(type) == type \in {"socks5", "http"}

ValidTransport(transport) == transport # None => transport.type \in Transports

ValidFlow(flow, transport) == flow # None => flow = "vision" /\ transport = None

\* validateInboundTLS: REALITY brings its own keys, anything else a certificate; uTLS is for clients.
ValidInboundTLS(tls) ==
    /\ tls.reality # None => tls.reality.private # None
    /\ ~tls.utls
    /\ tls.enabled /\ tls.reality = None => tls.cert

\* validateInboundAuth
ValidInboundAuth(global, in) ==
    Local(in.type) /\ ~Password(in.auth) => ~global.strict \/ in.loopback

ValidUser(in, user) ==
    /\ user.cred # None
    /\ in.type = "vmess" => user.flow = None
    /\ in.type = "vless" => ValidFlow(user.flow, in.transport) /\ user.alter = 0
    /\ in.type = "shadowsocks" => user.method # None \/ in.method # None

ValidUsers(in) ==
    ~Local(in.type) => in.users # <<>> /\ \A user \in ToSet(in.users) : ValidUser(in, user)

ValidSubscription(in) ==
    in.sub # None =>
        /\ in.sub.user # None /\ in.sub.remark # None
        /\ in.users # <<>> => \E user \in ToSet(in.users) : user.name = in.sub.user

ValidInbound(global, in) ==
    /\ in.type \in InboundTypes
    /\ in.type = "anytls" => in.tls.enabled
    /\ ValidInboundTLS(in.tls)
    /\ SupportsTransport(in.type) => ValidTransport(in.transport)
    /\ ValidInboundAuth(global, in)
    /\ ValidUsers(in)
    /\ ValidSubscription(in)

\* validateOutboundRemote
ValidRemote(out) ==
    /\ out.server # None
    /\ out.tls.reality # None => out.tls.reality.public # None
    /\ SupportsTransport(out.type) => ValidTransport(out.transport)
    /\ ~Local(out.type) => out.cred # None
    /\ out.type = "vmess" => out.flow = None
    /\ out.type = "vless" => ValidFlow(out.flow, out.transport) /\ out.alter = 0
    /\ out.type = "shadowsocks" => out.method # None
    /\ out.type = "anytls" => out.tls.enabled

ValidOutbound(out) ==
    \/ out.type \in {"direct", "block"}
    \/ out.type = "ref" /\ out.ref # None
    \/ out.type \in RemoteTypes /\ ValidRemote(out)

NoDuplicates(s) == \A j, k \in DOMAIN s : s[j] = s[k] => j = k
Names(s) == {s[k].name : k \in DOMAIN s}
Column(s, Of(_)) == [k \in DOMAIN s |-> Of(s[k])]
NameOf(x) == x.name
TagOf(x) == x.tag

\* validateGroups: groups list outbounds, never other groups.
ValidGroups(instance) ==
    /\ Names(instance.groups) \cap Names(instance.outbounds) = {}
    /\ NoDuplicates(Column(instance.groups, NameOf))
    /\ \A k \in DOMAIN instance.groups :
          /\ instance.groups[k].members # {}
          /\ instance.groups[k].members \subseteq Names(instance.outbounds)

\* validateRoute, for the default and for the targets of the rules.
ValidRoute(instance) ==
    instance.routes # {} /\
    instance.routes \subseteq Names(instance.outbounds) \cup Names(instance.groups)

ValidInstance(global, instance) ==
    /\ instance.inbounds # <<>>
    /\ NoDuplicates(Column(instance.inbounds, NameOf))
    /\ NoDuplicates(Column(Column(instance.inbounds, ApplyDefaults), TagOf))
    /\ \A in \in ToSet(instance.inbounds) : ValidInbound(global, ApplyDefaults(in))
    /\ NoDuplicates(Column(instance.outbounds, NameOf))
    /\ \A out \in ToSet(instance.outbounds) : ValidOutbound(out)
    /\ ValidGroups(instance)
    /\ ValidRoute(instance)

-----------------------------------------------------------------------------
(* The generated configuration: BuildConfigWithInstances *)

\* realityShortIDs: the list wins over the single one.
ShortIDs(reality) ==
    IF reality.shorts # <<>> THEN ToSet(reality.shorts)
    ELSE IF reality.short # None THEN {reality.short} ELSE {}

\* For a client the single one wins.
ShortID(reality) ==
    IF reality.short # None THEN reality.short
    ELSE IF reality.shorts # <<>> THEN Head(reality.shorts) ELSE None

TLSOn(tls, force) == tls.enabled \/ force \/ tls.reality # None \/ tls.utls

\* convertTLS and convertReality, inbound side.
ServerTLS(tls, force) ==
    IF ~TLSOn(tls, force) THEN None
    ELSE [cert |-> tls.cert,
          key |-> IF tls.reality = None THEN None ELSE tls.reality.private,
          shorts |-> IF tls.reality = None THEN {} ELSE ShortIDs(tls.reality)]

\* convertTLS and convertReality, outbound side; singBoxTLS in the templates.
ClientTLS(tls, force) ==
    IF ~TLSOn(tls, force) THEN None
    ELSE [utls |-> tls.utls,
          key |-> IF tls.reality = None THEN None ELSE tls.reality.public,
          short |-> IF tls.reality = None THEN None ELSE ShortID(tls.reality)]

ServerMethod(in) ==
    IF in.method # None \/ in.users = <<>> THEN in.method ELSE Head(in.users).method

ConvertInbound(in) ==
    [type |-> in.type, tag |-> in.tag, port |-> in.port, loopback |-> in.loopback,
     tls |-> ServerTLS(in.tls, in.type = "anytls"),
     transport |-> IF SupportsTransport(in.type) THEN in.transport ELSE None,
     method |-> IF in.type = "shadowsocks" THEN ServerMethod(in) ELSE None,
     users |-> IF ~Local(in.type) THEN ToSet(in.users)
               ELSE IF Password(in.auth) THEN {[NoUser EXCEPT !.cred = in.auth]} ELSE {}]

\* convertOutbound: the settings of the type, and auth over any other credential.
ConvertOutbound(out) ==
    [name |-> out.name, type |-> out.type, server |-> out.server, port |-> out.port,
     cred |-> IF Password(out.auth) THEN out.auth ELSE out.cred,
     method |-> out.method,
     flow |-> IF out.type = "vless" THEN out.flow ELSE None,
     alter |-> IF out.type = "vmess" THEN out.alter ELSE 0,
     tls |-> ClientTLS(out.tls, out.type = "anytls"),
     transport |-> IF SupportsTransport(out.type) THEN out.transport ELSE None]

\* The inbounds a reference can mean: in the other instance, by name.
Referenced(conf, i, ref) ==
    IF ref.instance = i \/ ref.instance \notin DOMAIN conf THEN {}
    ELSE IF conf[ref.instance] = None THEN {}
    ELSE {in \in ToSet(conf[ref.instance].inbounds) : in.name = ref.inbound /\ Local(in.type)}

\* validateOutboundRefs
RefsResolve(conf) ==
    \A i \in DOMAIN conf : conf[i] # None =>
        \A out \in ToSet(conf[i].outbounds) :
            out.type = "ref" => Referenced(conf, i, out.ref) # {}

\* Mutant: the endpoint is copied without its credential.
ResolveRef_NoAuth(conf, i, out) ==
    IF out.type # "ref" THEN out
    ELSE LET in == CHOOSE in \in Referenced(conf, i, out.ref) : TRUE
         IN [NoOutbound EXCEPT !.name = out.name, !.type = in.type, !.server = "127.0.0.1",
                               !.port = in.port]

\* resolveOutboundRef: a new outbound of its type, its port on this host and its auth; an
\* unspecified address is replaced by the loopback one.
ResolveRef(conf, i, out) ==
    IF out.type # "ref" THEN out
    ELSE LET in == CHOOSE in \in Referenced(conf, i, out.ref) : TRUE
         IN [NoOutbound EXCEPT !.name = out.name, !.type = in.type, !.server = "127.0.0.1",
                               !.port = in.port, !.auth = ApplyDefaults(in).auth]

Generate(conf, i) ==
    [inbounds |-> Column(Column(conf[i].inbounds, ApplyDefaults), ConvertInbound),
     outbounds |-> [k \in DOMAIN conf[i].outbounds |->
                       ConvertOutbound(ResolveRef(conf, i, conf[i].outbounds[k]))],
     groups |-> conf[i].groups,
     routes |-> conf[i].routes]

-----------------------------------------------------------------------------
(* Subscription nodes: buildSubscriptionNode *)

\* Mutant: the first user's.
FirstUser(in, name) == IF in.users = <<>> THEN NoUser ELSE Head(in.users)

\* findInboundUser: the first one of that name.
FindUser(in, name) ==
    LET found == {k \in DOMAIN in.users : in.users[k].name = name}
    IN IF found = {} THEN NoUser ELSE in.users[Min(found)]

\* Mutant: without the uTLS that REALITY needs.
NodeTLS_Plain(in) ==
    [in.tls EXCEPT !.cert = FALSE, !.enabled = @ \/ in.type = "anytls",
                   !.reality = IF @ = None THEN None ELSE [@ EXCEPT !.private = None]]

\* The inbound's TLS without what only the server may know.
NodeTLS(in) ==
    [in.tls EXCEPT !.cert = FALSE, !.utls = @ \/ in.tls.reality # None,
                   !.enabled = @ \/ in.type = "anytls",
                   !.reality = IF @ = None THEN None ELSE [@ EXCEPT !.private = None]]

Host(global, in) == IF in.sub.server # None THEN in.sub.server ELSE global.host

FirstOf(value, default) == IF value # None THEN value ELSE default

Node(global, i, in) ==
    LET user == FindUser(in, in.sub.user) IN
    [id |-> <<i, in.sub.user, in.name>>, user |-> in.sub.user, protocol |-> in.type,
     server |-> Host(global, in), port |-> in.port,
     tag |-> FirstOf(user.tag, <<i>> \o in.tag),
     remark |-> FirstOf(in.sub.remark, FirstOf(user.remark, in.name)),
     tls |-> NodeTLS(in), transport |-> in.transport,
     cred |-> IF Local(in.type) THEN None ELSE user.cred,
     auth |-> IF Local(in.type) THEN in.auth ELSE None,
     method |-> IF in.type = "shadowsocks" THEN FirstOf(user.method, in.method) ELSE None,
     alter |-> IF in.type = "vmess" THEN user.alter ELSE 0,
     flow |-> IF in.type = "vless" THEN user.flow ELSE None]

\* The inbounds with a subscription, at their places in the file.
Subscribed(instance) ==
    [k \in {k \in DOMAIN instance.inbounds : instance.inbounds[k].sub # None} |->
        ApplyDefaults(instance.inbounds[k])]

\* BuildSubscriptionInput; it fails as a whole for a node without a server.
CanExport(global, instance) ==
    \A in \in ToSet(Subscribed(instance)) : Host(global, in) # None
Input(global, i, instance) == Column(Subscribed(instance), LAMBDA in : Node(global, i, in))

\* validateSubscriptionNode
ValidNode(node) ==
    /\ node.user # None /\ node.tag # None /\ node.remark # None /\ node.server # None
    /\ SupportsTransport(node.protocol) => ValidTransport(node.transport)
    /\ ~Local(node.protocol) => node.cred # None
    /\ node.protocol = "anytls" => node.tls.enabled
    /\ node.protocol = "shadowsocks" => node.method # None
    /\ Local(node.protocol) => node.auth # None

\* validateSubscriptionMergeRules, over the nodes of all inputs.
Mergeable(nodes) ==
    \A j, k \in DOMAIN nodes : j # k =>
        /\ nodes[j].id # nodes[k].id
        /\ nodes[j].tag # nodes[k].tag
        /\ nodes[j].user = nodes[k].user => nodes[j].remark # nodes[k].remark

-----------------------------------------------------------------------------
(* What a client is given: Render for sboxsub, RenderUserConfig for        *)
(* export-config.  A proxy has the name the client shows and what it       *)
(* connects with.                                                          *)

Formats == {"sing-box", "clash", "surge"}   \* premium-clash is rendered as clash

\* FilterNodesForFormat, filterNodesForUserConfig
Supports(format, protocol) ==
    \/ format = "sing-box"
    \/ protocol \in {"vmess", "shadowsocks", "socks5", "http"}
    \/ format = "surge" /\ protocol = "anytls"

Credential(node) == IF Password(node.auth) THEN node.auth ELSE node.cred

\* outboundFromSubscriptionNode, singBoxOutbound
SingBoxProxy(node) ==
    [name |-> node.tag, type |-> node.protocol, port |-> node.port, cred |-> Credential(node),
     method |-> node.method, alter |-> node.alter, flow |-> node.flow,
     tls |-> ClientTLS(node.tls, node.protocol = "anytls"),
     transport |-> IF SupportsTransport(node.protocol) THEN node.transport ELSE None]

\* A text format has neither TLS nor flow.
TextProxy(node) ==
    [SingBoxProxy(node) EXCEPT !.name = node.remark, !.flow = None, !.tls = None, !.transport = None]

\* clashNetwork: the type of the transport without its path.  The template says alterId 0.
ClashProxy(source, node) ==
    [TextProxy(node) EXCEPT
        !.alter = IF source = "sboxsub" THEN 0 ELSE @,
        !.transport = IF node.protocol # "vmess" \/ node.transport = None THEN None
                      ELSE [node.transport EXCEPT !.path = None]]

\* surgeVMessSuffix: WebSocket or nothing.  AnyTLS is TLS by itself.
SurgeProxy(node) ==
    [TextProxy(node) EXCEPT
        !.transport = IF node.protocol # "vmess" \/ node.transport = None THEN None
                      ELSE IF node.transport.type = "ws" THEN node.transport ELSE None,
        !.tls = IF node.protocol = "anytls" THEN [utls |-> FALSE, key |-> None, short |-> None] ELSE None]

Proxy(source, format, node) ==
    CASE format = "sing-box" -> SingBoxProxy(node)
      [] format = "clash" -> ClashProxy(source, node)
      [] format = "surge" -> SurgeProxy(node)

\* The proxies of a user, at the places of their nodes.
Proxies(source, format, user, nodes) ==
    [p \in {p \in DOMAIN nodes : nodes[p].user = user /\ Supports(format, nodes[p].protocol)} |->
        Proxy(source, format, nodes[p])]

-----------------------------------------------------------------------------
(* The programs at both ends, as far as these settings go *)

\* sing-box check: these two inbounds have no TLS.
Checks(generated) ==
    \A in \in ToSet(generated.inbounds) : in.type \in {"shadowsocks", "socks5"} => in.tls = None

\* A handshake succeeds: both or neither, and REALITY with the right key, a known id and uTLS.
Handshake(server, client) ==
    /\ server = None <=> client = None
    /\ server # None =>
          /\ server.key = client.key
          /\ server.key # None => client.utls
          /\ server.key # None => client.short \in (IF server.shorts = {} THEN {None} ELSE server.shorts)

\* A user who may come in: the old VMess header needs an alterId, vision both sides and TLS,
\* and a proxy has one key only.
Authenticates(in, proxy, user) ==
    /\ proxy.cred = user.cred
    /\ in.type = "vmess" /\ proxy.alter > 0 => user.alter > 0
    /\ in.type = "vless" => proxy.flow = user.flow /\ (proxy.flow = "vision" => in.tls # None)
    /\ in.type = "shadowsocks" => proxy.method = in.method /\ in.method \notin TwoKeys

Accepts(in, proxy) ==
    /\ in.type = proxy.type /\ in.port = proxy.port
    /\ in.transport = proxy.transport
    /\ Handshake(in.tls, proxy.tls)
    /\ in.users = {} \/ \E user \in in.users : Authenticates(in, proxy, user)

Reaches(generated, proxy) == \E in \in ToSet(generated.inbounds) : Accepts(in, proxy)
=============================================================================
