---------------------------- MODULE DeliveryProofs ----------------------------
(***************************************************************************)
(* Proofs about Delivery, for any instances, files, users and edits: the   *)
(* configuration always loads, what the generator, the nodes and the       *)
(* renderers make of an inbound fits together, no user is given another's  *)
(* credential, and no client gets two proxies of one name.                 *)
(***************************************************************************)
EXTENDS Delivery, WellFoundedInduction, TLAPS

-----------------------------------------------------------------------------
(* Numbers and users *)

Below == {p \in Nat \X Nat : p[1] < p[2]}

\* Among natural numbers there is a least one, and Min is it.
LEMMA MinFound == \A S \in SUBSET Nat : S # {} => Min(S) \in S
<1> SUFFICES ASSUME NEW S \in SUBSET Nat, S # {} PROVE \E k \in S : \A l \in S : k <= l
  BY DEF Min
<1>1. IsWellFoundedOn(Below, Nat)
  BY NatLessThanWellFounded DEF OpToRel, Below
<1>2. PICK k \in S : \A l \in S : ~(<<l, k>> \in Below)
  BY <1>1, WFMin
<1>3. \A l \in S : ~(l < k)
  BY <1>2 DEF Below
<1> QED BY <1>3

\* findInboundUser finds a user of the name, unless there is none.
LEMMA UserFound ==
    ASSUME NEW in \in InboundSettings, NEW name
    PROVE  \/ /\ FindUser(in, name) \in ToSet(in.users)
              /\ FindUser(in, name).name = name
           \/ /\ FindUser(in, name) = NoUser
              /\ \A user \in ToSet(in.users) : user.name # name
<1> DEFINE found == {k \in DOMAIN in.users : in.users[k].name = name}
<1>1. in.users \in Seq(UserSettings)
  BY DEF InboundSettings
<1>2. found \in SUBSET Nat
  BY <1>1
<1>3. CASE found = {}
  BY <1>3 DEF FindUser, ToSet
<1>4. CASE found # {}
  <2>1. Min(found) \in found
    BY <1>2, <1>4, MinFound
  <2>2. FindUser(in, name) = in.users[Min(found)]
    BY <1>4 DEF FindUser
  <2> HIDE DEF found
  <2>3. Min(found) \in DOMAIN in.users /\ in.users[Min(found)].name = name
    BY <2>1 DEF found
  <2> QED BY <2>2, <2>3 DEF ToSet
<1> QED BY <1>3, <1>4

\* The user an inbound is shared with is one of its users, where it has any.
LEMMA SharedUser ==
    ASSUME NEW in \in InboundSettings, NEW global_, ValidInbound(global_, in), in.sub # None,
           ~Local(in.type)
    PROVE  /\ FindUser(in, in.sub.user) \in ToSet(in.users)
           /\ FindUser(in, in.sub.user).name = in.sub.user
<1>1. in.users # <<>> /\ \E user \in ToSet(in.users) : user.name = in.sub.user
  BY DEF ValidInbound, ValidUsers, ValidSubscription
<1> QED BY <1>1, UserFound

-----------------------------------------------------------------------------
(* Both ends of a connection *)

\* What the generator makes of the inbound's TLS and a client of its node's fits.
LEMMA TLSFits ==
    ASSUME NEW in \in InboundSettings, in.tls.reality # None =>
               /\ in.tls.reality.public = in.tls.reality.private
               /\ ShortID(in.tls.reality) # None =>
                      ShortID(in.tls.reality) \in ShortIDs(in.tls.reality)
    PROVE  Handshake(ServerTLS(in.tls, in.type = "anytls"),
                     ClientTLS(NodeTLS(in), in.type = "anytls"))
<1> DEFINE tls == in.tls
           force == in.type = "anytls"
           node == NodeTLS(in)
           server == ServerTLS(tls, force)
           client == ClientTLS(node, force)
<1>1. tls \in TLSSettings
  BY DEF InboundSettings
<1>2. /\ node.utls = (tls.utls \/ tls.reality # None)
      /\ node.enabled = (tls.enabled \/ force)
      /\ node.reality = IF tls.reality = None THEN None
                        ELSE [tls.reality EXCEPT !.private = None]
  BY <1>1 DEF NodeTLS, TLSSettings
<1>3. CASE tls.reality = None
  <2>1. node.reality = None
    BY <1>2, <1>3
  <2>2. TLSOn(node, force) <=> TLSOn(tls, force)
    BY <1>2, <1>3, <2>1 DEF TLSOn
  <2>3. CASE ~TLSOn(tls, force)
    BY <2>2, <2>3 DEF ServerTLS, ClientTLS, Handshake
  <2>4. CASE TLSOn(tls, force)
    <3>1. server = [cert |-> tls.cert, key |-> None, shorts |-> {}]
      BY <1>3, <2>4 DEF ServerTLS
    <3>2. client = [utls |-> node.utls, key |-> None, short |-> None]
      BY <2>1, <2>2, <2>4 DEF ClientTLS
    <3>3. tls.cert \in BOOLEAN /\ node.utls \in BOOLEAN
      BY <1>1, <1>2 DEF TLSSettings
    <3>4. server \in GeneratedTLS
      BY <3>1, <3>3 DEF GeneratedTLS, Text
    <3>5. client \in ProxyTLS
      BY <3>2, <3>3 DEF ProxyTLS, Text
    <3> QED BY <3>1, <3>2, <3>4, <3>5, ProtocolsAssumption DEF Handshake
  <2> QED BY <2>3, <2>4
<1>4. CASE tls.reality # None
  <2> DEFINE reality == tls.reality
  <2>1. reality \in RealitySettings
    BY <1>1, <1>4 DEF TLSSettings
  <2>2. /\ node.reality.public = reality.public
        /\ node.reality.short = reality.short /\ node.reality.shorts = reality.shorts
    BY <1>2, <1>4, <2>1 DEF RealitySettings
  <2>3. node.reality \in RealitySettings
    BY <1>2, <1>4, <2>1 DEF RealitySettings, Text
  <2>4. ShortID(node.reality) = ShortID(reality)
    BY <2>2 DEF ShortID
  <2>5. node.reality # None
    BY <2>3, ProtocolsAssumption
  <2>6. TLSOn(node, force) /\ TLSOn(tls, force)
    BY <1>4, <2>5 DEF TLSOn
  <2>7. server = [cert |-> tls.cert, key |-> reality.private, shorts |-> ShortIDs(reality)]
    BY <1>4, <2>6 DEF ServerTLS
  <2>8. client = [utls |-> TRUE, key |-> reality.public, short |-> ShortID(reality)]
    BY <1>2, <1>4, <2>2, <2>4, <2>5, <2>6 DEF ClientTLS
  <2>9. reality.shorts \in Seq(Words) /\ reality.short \in Text
    BY <2>1 DEF RealitySettings
  <2>10. reality.shorts # <<>> => Head(reality.shorts) \in Words
    BY <2>9
  <2>11. ShortIDs(reality) \in SUBSET Text /\ ShortID(reality) \in Text
    BY <2>9, <2>10 DEF ShortIDs, ShortID, Text, ToSet
  <2>12. ShortID(reality) = None => ShortIDs(reality) = {}
    BY <2>9, <2>10, ProtocolsAssumption DEF ShortIDs, ShortID
  <2>13. server \in GeneratedTLS /\ client \in ProxyTLS
    <3>1. tls.cert \in BOOLEAN /\ reality.private \in Text /\ reality.public \in Text
      BY <1>1, <2>1 DEF TLSSettings, RealitySettings
    <3>2. server \in GeneratedTLS
      BY <2>7, <2>11, <3>1 DEF GeneratedTLS
    <3>3. \A utls \in BOOLEAN, key, short \in Text :
              [utls |-> utls, key |-> key, short |-> short] \in ProxyTLS
      BY DEF ProxyTLS
    <3>4. client \in ProxyTLS
      BY <2>8, <2>11, <3>1, <3>3
    <3> QED BY <3>2, <3>4
  <2>14. server # None /\ client # None
    BY <2>13, ProtocolsAssumption
  <2>15. ShortID(reality) \in (IF ShortIDs(reality) = {} THEN {None} ELSE ShortIDs(reality))
    BY <1>4, <2>12
  <2> QED BY <1>4, <2>7, <2>8, <2>14, <2>15 DEF Handshake
<1> QED BY <1>3, <1>4

\* The generated inbound has TLS when one of its reasons holds, and only then.
LEMMA ServedOverTLS ==
    ASSUME NEW in \in InboundSettings, NEW force \in BOOLEAN
    PROVE  ServerTLS(in.tls, force) = None <=> ~TLSOn(in.tls, force)
<1> DEFINE tls == in.tls
<1>1. tls.cert \in BOOLEAN /\ tls.reality \in RealitySettings \cup {None}
  BY DEF InboundSettings, TLSSettings
<1>2. CASE TLSOn(tls, force)
  <2>1. \A cert \in BOOLEAN, key \in Text, shorts \in SUBSET Text :
            [cert |-> cert, key |-> key, shorts |-> shorts] # None
    BY ProtocolsAssumption DEF GeneratedTLS
  <2>2. CASE tls.reality = None
    BY <1>1, <1>2, <2>1, <2>2 DEF ServerTLS, Text
  <2>3. CASE tls.reality # None
    <3>1. tls.reality \in RealitySettings
      BY <1>1, <2>3
    <3>2. tls.reality.private \in Text /\ tls.reality.short \in Text
          /\ tls.reality.shorts \in Seq(Words)
      BY <3>1 DEF RealitySettings
    <3>3. ShortIDs(tls.reality) \in SUBSET Text
      BY <3>2 DEF ShortIDs, Text, ToSet
    <3> QED BY <1>1, <1>2, <2>1, <2>3, <3>2, <3>3 DEF ServerTLS
  <2> QED BY <2>2, <2>3
<1>3. CASE ~TLSOn(tls, force)
  BY <1>3 DEF ServerTLS
<1> QED BY <1>2, <1>3

\* Whoever has the credential, method and flow of an inbound's node may come in.
LEMMA ComesIn ==
    ASSUME NEW in \in InboundSettings, NEW g, NEW i, NEW format, NEW proxy,
           ValidInbound(g, in), in.sub # None, Expressible(format, in),
           proxy.cred = Credential(Node(g, i, in)),
           proxy.method = Node(g, i, in).method,
           proxy.alter \in {0, Node(g, i, in).alter},
           in.type = "vless" => proxy.flow = Node(g, i, in).flow
    PROVE  \/ ConvertInbound(in).users = {}
           \/ \E user \in ConvertInbound(in).users : Authenticates(ConvertInbound(in), proxy, user)
<1> DEFINE node == Node(g, i, in)
           made == ConvertInbound(in)
           user == FindUser(in, in.sub.user)
<1>1. made.type = in.type
  BY DEF ConvertInbound
<1>2. CASE Local(in.type)
  <2>1. made.users = IF Password(in.auth) THEN {[NoUser EXCEPT !.cred = in.auth]} ELSE {}
    BY <1>2 DEF ConvertInbound
  <2>2. CASE Password(in.auth)
    <3>1. node.auth = in.auth
      BY <1>2 DEF Node
    <3>2. proxy.cred = in.auth
      BY <2>2, <3>1 DEF Credential
    <3>3. [NoUser EXCEPT !.cred = in.auth].cred = in.auth
      BY DEF NoUser
    <3>4. Authenticates(made, proxy, [NoUser EXCEPT !.cred = in.auth])
      BY <1>1, <1>2, <3>2, <3>3 DEF Authenticates, Local
    <3> QED BY <2>1, <2>2, <3>4
  <2> QED BY <2>1, <2>2
<1>3. CASE ~Local(in.type)
  <2>1. made.users = ToSet(in.users) /\ user \in ToSet(in.users)
    BY <1>3, SharedUser DEF ConvertInbound
  <2>2. proxy.cred = user.cred
    <3>1. node.auth = None /\ node.cred = user.cred
      BY <1>3 DEF Node
    <3> QED BY <3>1 DEF Credential, Password
  <2>3. in.type = "vmess" /\ proxy.alter > 0 => user.alter > 0
    BY DEF Node
  <2>4. in.type = "vless" => proxy.flow = user.flow /\ (proxy.flow = "vision" => made.tls # None)
    <3>1. SUFFICES ASSUME in.type = "vless"
                   PROVE  proxy.flow = user.flow /\ (proxy.flow = "vision" => made.tls # None)
      OBVIOUS
    <3>2. proxy.flow = user.flow
      BY <3>1 DEF Node
    <3>3. ASSUME proxy.flow = "vision" PROVE made.tls # None
      <4>1. user.flow # None
        BY <3>2, <3>3, ProtocolsAssumption
      <4>2. TLSOn(in.tls, FALSE)
        BY <3>1, <4>1 DEF Expressible
      <4>3. made.tls = ServerTLS(in.tls, FALSE)
        BY <3>1 DEF ConvertInbound
      <4> QED BY <4>2, <4>3, ServedOverTLS
    <3> QED BY <3>2, <3>3
  <2>5. in.type = "shadowsocks" => proxy.method = made.method /\ made.method \notin TwoKeys
    BY DEF Node, Expressible, ConvertInbound
  <2> QED BY <1>1, <2>1, <2>2, <2>3, <2>4, <2>5 DEF Authenticates
<1> QED BY <1>2, <1>3

\* A client that has all of the node's settings comes in: a sing-box outbound, whoever wrote it.
LEMMA SingBoxFits ==
    ASSUME NEW in \in InboundSettings, NEW g, NEW i, NEW proxy,
           ValidInbound(g, in), in.sub # None, Expressible("sing-box", in),
           \A field \in {"type", "port", "cred", "method", "alter", "flow", "tls", "transport"} :
               proxy[field] = SingBoxProxy(Node(g, i, in))[field]
    PROVE  Accepts(ConvertInbound(in), proxy)
<1> DEFINE node == Node(g, i, in)
<1>1. /\ proxy.type = in.type /\ proxy.port = in.port
      /\ proxy.cred = Credential(node) /\ proxy.method = node.method
      /\ proxy.alter = node.alter /\ proxy.flow = node.flow
      /\ proxy.tls = ClientTLS(NodeTLS(in), in.type = "anytls")
      /\ proxy.transport = IF SupportsTransport(in.type) THEN in.transport ELSE None
  BY DEF SingBoxProxy, Node
<1>2. Handshake(ServerTLS(in.tls, in.type = "anytls"), proxy.tls)
  BY <1>1, TLSFits DEF Expressible
<1>3. \/ ConvertInbound(in).users = {}
      \/ \E user \in ConvertInbound(in).users : Authenticates(ConvertInbound(in), proxy, user)
  <2> HIDE DEF node
  <2>1. proxy.alter \in {0, node.alter} /\ (in.type = "vless" => proxy.flow = node.flow)
    BY <1>1
  <2> QED BY <1>1, <2>1, ComesIn DEF node
<1> QED BY <1>1, <1>2, <1>3 DEF Accepts, ConvertInbound

\* What the two text formats keep of a node.
LEMMA TextKeeps ==
    ASSUME NEW node, NEW source, NEW format \in {"clash", "surge"}
    PROVE  LET proxy == Proxy(source, format, node)
           IN /\ proxy.name = node.remark
              /\ proxy.type = node.protocol /\ proxy.port = node.port
              /\ proxy.cred = Credential(node) /\ proxy.method = node.method
              /\ proxy.alter \in {0, node.alter}
BY DEF Proxy, ClashProxy, SurgeProxy, TextProxy, SingBoxProxy

\* Without TLS on either side nothing is to be agreed on.
LEMMA PlainFits == Handshake(None, None)
BY DEF Handshake

\* A Clash client comes in when its format can say the inbound's settings.
LEMMA ClashFits ==
    ASSUME NEW in \in InboundSettings, NEW g, NEW i, NEW source,
           ValidInbound(g, in), in.sub # None, Supports("clash", in.type), Expressible("clash", in)
    PROVE  Accepts(ConvertInbound(in), Proxy(source, "clash", Node(g, i, in)))
<1> DEFINE node == Node(g, i, in)
           proxy == Proxy(source, "clash", node)
           made == ConvertInbound(in)
<1>1. in.type \in {"vmess", "shadowsocks", "socks5", "http"}
  BY DEF Supports
<1>2. node.protocol = in.type /\ node.port = in.port /\ node.transport = in.transport
  BY DEF Node
<1>3. /\ proxy.type = in.type /\ proxy.port = in.port
      /\ proxy.cred = Credential(node) /\ proxy.method = node.method
      /\ proxy.alter \in {0, node.alter}
  BY <1>2, TextKeeps
<1>4. proxy.tls = None
  BY DEF Proxy, ClashProxy, TextProxy, SingBoxProxy
<1>5. made.tls = None
  <2>1. made.tls = ServerTLS(in.tls, FALSE)
    BY <1>1 DEF ConvertInbound
  <2> QED BY <2>1 DEF Expressible, ServerTLS
<1>6. proxy.transport = IF in.type # "vmess" \/ in.transport = None THEN None
                        ELSE [in.transport EXCEPT !.path = None]
  BY <1>2 DEF Proxy, ClashProxy, TextProxy, SingBoxProxy
<1>7. made.transport = proxy.transport
  <2>1. made.transport = IF in.type = "vmess" THEN in.transport ELSE None
    BY <1>1 DEF ConvertInbound, SupportsTransport
  <2>2. CASE in.type = "vmess" /\ in.transport # None
    <3>1. in.transport \in TransportSettings /\ in.transport.path = None
      BY <2>2 DEF InboundSettings, Expressible
    <3>2. [in.transport EXCEPT !.path = None] = in.transport
      BY <3>1 DEF TransportSettings
    <3> QED BY <1>6, <2>1, <2>2, <3>2
  <2> QED BY <1>6, <2>1, <2>2
<1>8. made.users = {} \/ \E user \in made.users : Authenticates(made, proxy, user)
  <2> HIDE DEF node, proxy, made
  <2>1. in.type # "vless"
    BY <1>1
  <2> QED BY <1>3, <2>1, ComesIn DEF node, made
<1>9. made.type = in.type /\ made.port = in.port
  BY DEF ConvertInbound
<1> QED BY <1>3, <1>4, <1>5, <1>7, <1>8, <1>9, PlainFits DEF Accepts

\* And so does a Surge client, whose AnyTLS is over TLS and the rest is not.
LEMMA SurgeFits ==
    ASSUME NEW in \in InboundSettings, NEW g, NEW i, NEW source,
           ValidInbound(g, in), in.sub # None, Supports("surge", in.type), Expressible("surge", in)
    PROVE  Accepts(ConvertInbound(in), Proxy(source, "surge", Node(g, i, in)))
<1> DEFINE node == Node(g, i, in)
           proxy == Proxy(source, "surge", node)
           made == ConvertInbound(in)
<1>1. in.type \in {"vmess", "shadowsocks", "socks5", "http", "anytls"}
  BY DEF Supports
<1>2. node.protocol = in.type /\ node.port = in.port /\ node.transport = in.transport
  BY DEF Node
<1>3. /\ proxy.type = in.type /\ proxy.port = in.port
      /\ proxy.cred = Credential(node) /\ proxy.method = node.method
      /\ proxy.alter \in {0, node.alter}
  BY <1>2, TextKeeps
<1>4. Handshake(made.tls, proxy.tls)
  <2>1. CASE in.type = "anytls"
    <3>1. proxy.tls = [utls |-> FALSE, key |-> None, short |-> None]
      BY <1>2, <2>1 DEF Proxy, SurgeProxy, TextProxy, SingBoxProxy
    <3>2. in.tls.reality = None
      BY <2>1 DEF Expressible
    <3>3. made.tls = [cert |-> in.tls.cert, key |-> None, shorts |-> {}]
      BY <2>1, <3>2 DEF ConvertInbound, ServerTLS, TLSOn
    <3>4. in.tls.cert \in BOOLEAN
      BY DEF InboundSettings, TLSSettings
    <3>5. \A cert \in BOOLEAN : [cert |-> cert, key |-> None, shorts |-> {}] # None
      BY ProtocolsAssumption DEF GeneratedTLS, Text
    <3>6. \A utls \in BOOLEAN : [utls |-> utls, key |-> None, short |-> None] # None
      BY ProtocolsAssumption DEF ProxyTLS, Text
    <3>7. made.tls # None /\ proxy.tls # None
      BY <3>1, <3>3, <3>4, <3>5, <3>6
    <3> QED BY <3>1, <3>3, <3>7 DEF Handshake
  <2>2. CASE in.type # "anytls"
    <3>1. proxy.tls = None
      BY <1>2, <2>2 DEF Proxy, SurgeProxy, TextProxy, SingBoxProxy
    <3>2. made.tls = ServerTLS(in.tls, FALSE)
      BY <2>2 DEF ConvertInbound
    <3>3. made.tls = None
      BY <2>2, <3>2 DEF Expressible, ServerTLS
    <3> QED BY <3>1, <3>3, PlainFits
  <2> QED BY <2>1, <2>2
<1>5. made.transport = proxy.transport
  <2>1. made.transport = IF in.type = "vmess" THEN in.transport ELSE None
    BY <1>1 DEF ConvertInbound, SupportsTransport
  <2>2. proxy.transport = IF in.type # "vmess" \/ in.transport = None THEN None
                          ELSE IF in.transport.type = "ws" THEN in.transport ELSE None
    BY <1>2 DEF Proxy, SurgeProxy, TextProxy, SingBoxProxy
  <2>3. in.transport # None => in.transport.type = "ws"
    BY DEF Expressible
  <2> QED BY <2>1, <2>2, <2>3
<1>6. made.users = {} \/ \E user \in made.users : Authenticates(made, proxy, user)
  <2> HIDE DEF node, proxy, made
  <2>1. in.type # "vless"
    BY <1>1
  <2> QED BY <1>3, <2>1, ComesIn DEF node, made
<1>7. made.type = in.type /\ made.port = in.port
  BY DEF ConvertInbound
<1> QED BY <1>3, <1>4, <1>5, <1>6, <1>7 DEF Accepts

\* In every format that supports and can say an inbound, its node lets a client in.
LEMMA NodeFits ==
    ASSUME NEW in \in InboundSettings, NEW g, NEW i, NEW source, NEW format \in Formats,
           ValidInbound(g, in), in.sub # None, Supports(format, in.type), Expressible(format, in)
    PROVE  /\ Accepts(ConvertInbound(in), Proxy(source, format, Node(g, i, in)))
           /\ Proxy(source, format, Node(g, i, in)).name = NameIn(format, Node(g, i, in))
<1> DEFINE node == Node(g, i, in)
<1>1. CASE format = "sing-box"
  <2>1. Proxy(source, format, node) = SingBoxProxy(node)
    BY <1>1 DEF Proxy
  <2>2. Accepts(ConvertInbound(in), SingBoxProxy(node))
    <3> HIDE DEF node
    <3> QED BY <1>1, SingBoxFits DEF node
  <2>3. SingBoxProxy(node).name = node.tag
    BY DEF SingBoxProxy
  <2> QED BY <1>1, <2>1, <2>2, <2>3 DEF NameIn
<1>2. CASE format = "clash"
  BY <1>2, ClashFits, TextKeeps DEF NameIn
<1>3. CASE format = "surge"
  BY <1>3, SurgeFits, TextKeeps DEF NameIn
<1> QED BY <1>1, <1>2, <1>3 DEF Formats

-----------------------------------------------------------------------------
(* The configuration: LoadAgentConfigSet accepted whatever is on disk *)

\* The inbounds of a file, as they are after ApplyInboundDefaults or before.
InboundOK(in) ==
    /\ in \in InboundSettings
    /\ in.auth \notin DOMAIN Owner
    /\ \A user \in ToSet(in.users) : user.cred \in DOMAIN Owner => Owner[user.cred] = user.name

FileOK(file) ==
    /\ DOMAIN file = {"enabled", "inbounds", "outbounds", "groups", "routes"}
    /\ file.inbounds \in Seq(InboundSettings)
    /\ \A in \in ToSet(file.inbounds) : InboundOK(in)

\* The invariant: the files have the fields of their type, and load together.
ConfOK ==
    /\ DOMAIN conf = Instances
    /\ \A i \in Instances : conf[i] # None => FileOK(conf[i])
    /\ Loads(conf)

\* Every file there can be has the fields of its type.
LEMMA FilesOK == \A file \in Files \ {None} : FileOK(file)
<1> TAKE file \in Files \ {None}
<1>1. /\ DOMAIN file = {"enabled", "inbounds", "outbounds", "groups", "routes"}
      /\ file.inbounds \in Seq(InboundSettings)
  BY DeliveryAssumption
<1>2. \A in \in ToSet(file.inbounds) : in \in InboundSettings
  BY <1>1 DEF ToSet
<1>3. \A in \in ToSet(file.inbounds) : InboundOK(in)
  BY <1>2, DeliveryAssumption DEF InboundOK
<1> QED BY <1>1, <1>3 DEF FileOK

\* Defaults keep the type and bring nobody's credential.
LEMMA DefaultsOK ==
    ASSUME NEW in, InboundOK(in)
    PROVE  /\ InboundOK(ApplyDefaults(in))
           /\ ApplyDefaults(in).name = in.name /\ ApplyDefaults(in).sub = in.sub
<1> DEFINE tag == IF in.tag = None THEN <<in.type, in.name>> ELSE in.tag
           auth == IF in.auth = None THEN "noauth" ELSE in.auth
           filled == ApplyDefaults(in)
<1>1. in \in InboundSettings
  BY DEF InboundOK
<1>2. filled = [in EXCEPT !.tag = tag, !.auth = auth]
  BY DEF ApplyDefaults
<1>3. tag \in Seq(Words) \cup {None} /\ auth \in Text
  <2>1. in.type \in Words /\ in.name \in Words /\ in.tag \in Seq(Words) \cup {None} /\ in.auth \in Text
    BY <1>1 DEF InboundSettings
  <2> QED BY <2>1, ProtocolsAssumption DEF Text
<1> HIDE DEF tag, auth
<1>4. filled \in InboundSettings
  BY <1>1, <1>2, <1>3 DEF InboundSettings
<1>5. filled.users = in.users /\ filled.name = in.name /\ filled.sub = in.sub /\ filled.auth = auth
  BY <1>1, <1>2 DEF InboundSettings
<1>6. auth \notin DOMAIN Owner
  BY DeliveryAssumption DEF InboundOK, auth
<1> QED BY <1>4, <1>5, <1>6 DEF InboundOK

\* An edit leaves a configuration that loads.
LEMMA ConfigureConf ==
    ASSUME ConfOK, NEW i \in Instances, NEW text, text # None => FileOK(text), Configure(i, text)
    PROVE  ConfOK'
<1>1. DOMAIN conf' = Instances /\ Loads(conf')
  BY DEF Configure, ConfOK
<1>2. \A j \in Instances : conf'[j] # None => FileOK(conf'[j])
  BY DEF Configure, ConfOK
<1>3. Loads(conf)'
  <2>1. global' = global
    BY DEF Configure
  <2> QED BY <1>1, <2>1 DEF Loads
<1> QED BY <1>1, <1>2, <1>3 DEF ConfOK

\* The configuration loads, always.
LEMMA ConfInduction == Spec => []ConfOK
<1>1. Init => ConfOK
  <2> SUFFICES ASSUME Init PROVE ConfOK
    OBVIOUS
  <2>1. conf \in Starts /\ Loads(conf)
    BY DEF Init
  <2>2. DOMAIN conf = Instances
    BY <2>1, DeliveryAssumption
  <2>3. \A i \in Instances : conf[i] \in Files
    BY <2>1 DEF Files
  <2> QED BY <2>1, <2>2, <2>3, FilesOK DEF ConfOK
<1>2. ConfOK /\ [Next]_vars => ConfOK'
  <2> SUFFICES ASSUME ConfOK, [Next]_vars PROVE ConfOK'
    OBVIOUS
  <2>1. ASSUME NEW i \in Instances, NEW text \in Offered[i], Configure(i, text) PROVE ConfOK'
    <3>1. text # None => FileOK(text)
      BY FilesOK DEF Files
    <3> QED BY <2>1, <3>1, ConfigureConf
  <2>2. ASSUME NEW i \in Instances, NEW node, Relay(i, node) PROVE ConfOK'
    <3> DEFINE text == [conf[i] EXCEPT !.outbounds = <<Written(node)>>, !.groups = <<>>, !.routes = {"relay"}]
    <3>1. conf[i] # None /\ Configure(i, text)
      BY <2>2 DEF Relay
    <3>2. FileOK(conf[i])
      BY <3>1 DEF ConfOK
    <3>3. DOMAIN text = DOMAIN conf[i] /\ text.inbounds = conf[i].inbounds
      BY <3>2 DEF FileOK
    <3>4. FileOK(text)
      BY <3>2, <3>3 DEF FileOK
    <3> HIDE DEF text
    <3> QED BY <3>1, <3>4, ConfigureConf
  <2>3. ASSUME UNCHANGED <<global, conf>> PROVE ConfOK'
    BY <2>3 DEF ConfOK, Loads
  <2>4. CASE UNCHANGED vars
    BY <2>3, <2>4 DEF vars
  <2>5. ASSUME NEW i \in Instances, Restart(i) \/ Stop(i) PROVE ConfOK'
    BY <2>3, <2>5 DEF Restart, Stop
  <2>6. ASSUME NEW targets \in Targets, Export(targets) PROVE ConfOK'
    BY <2>3, <2>6 DEF Export
  <2>7. ASSUME NEW bundle \in bundles, NEW replaceAll \in BOOLEAN, Import(bundle, replaceAll) PROVE ConfOK'
    BY <2>3, <2>7 DEF Import
  <2> QED BY <2>1, <2>2, <2>4, <2>5, <2>6, <2>7 DEF Next
<1> QED BY <1>1, <1>2, PTL DEF Spec

\* The inbounds of a file that loads are valid, with their defaults.
LEMMA Served ==
    ASSUME ConfOK, NEW i \in Instances, conf[i] # None, NEW k \in DOMAIN conf[i].inbounds
    PROVE  LET in == ApplyDefaults(conf[i].inbounds[k])
           IN /\ in \in InboundSettings /\ InboundOK(in) /\ ValidInbound(global, in)
              /\ in.sub = conf[i].inbounds[k].sub /\ in.name = conf[i].inbounds[k].name
<1>1. InboundOK(conf[i].inbounds[k])
  BY DEF ConfOK, FileOK, ToSet
<1>2. ValidInbound(global, ApplyDefaults(conf[i].inbounds[k]))
  BY DEF ConfOK, Loads, ValidInstance, ToSet
<1> QED BY <1>1, <1>2, DefaultsOK DEF InboundOK

-----------------------------------------------------------------------------
(* Clients connect *)

\* Whatever nodes a client's proxies are rendered from: when the node of an inbound that runs
\* is among them, one of the proxies lets its user in.
LEMMA LetsIn ==
    ASSUME ConfOK, NEW i \in Instances, Runs(i), NEW k \in DOMAIN Subscribed(conf[i]),
           NEW in, in = Subscribed(conf[i])[k],
           NEW format \in Formats, Supports(format, in.type), Expressible(format, in),
           NEW source, NEW nodes, NEW p \in DOMAIN nodes, nodes[p] = Node(global, i, in)
    PROVE  \E proxy \in ToSet(Proxies(source, format, in.sub.user, nodes)) :
               proxy.name = NameIn(format, Node(global, i, in)) /\ Reaches(live[i], proxy)
<1> DEFINE proxy == Proxy(source, format, Node(global, i, in))
           made == ConvertInbound(in)
<1>1. conf[i] # None /\ live[i] = Generate(conf, i)
  BY DEF Runs
<1>2. k \in DOMAIN conf[i].inbounds /\ conf[i].inbounds[k].sub # None /\ in = ApplyDefaults(conf[i].inbounds[k])
  BY DEF Subscribed
<1>3. in \in InboundSettings /\ ValidInbound(global, in) /\ in.sub # None
  BY <1>1, <1>2, Served
<1>4. Accepts(made, proxy) /\ proxy.name = NameIn(format, Node(global, i, in))
  BY <1>3, NodeFits
<1>5. made \in ToSet(live[i].inbounds)
  BY <1>1, <1>2 DEF Generate, Column, ToSet
<1>6. proxy \in ToSet(Proxies(source, format, in.sub.user, nodes))
  <2>1. nodes[p].user = in.sub.user /\ nodes[p].protocol = in.type
    BY DEF Node
  <2>2. p \in DOMAIN Proxies(source, format, in.sub.user, nodes)
    BY <2>1 DEF Proxies
  <2>3. Proxies(source, format, in.sub.user, nodes)[p] = proxy
    BY <2>1 DEF Proxies
  <2> QED BY <2>2, <2>3 DEF ToSet
<1> HIDE DEF proxy, made
<1> QED BY <1>4, <1>5, <1>6 DEF Reaches

(***************************************************************************)
(* Whoever an instance is shared with gets, from the server and from       *)
(* export-config, a proxy with which the running instance lets him in, in  *)
(* every format that can say its settings: generator, nodes and renderers  *)
(* agree for every file the validation accepts.                            *)
(***************************************************************************)
THEOREM ClientsConnect == Spec => []Connects
<1>1. ConfOK => Connects
  <2> SUFFICES ASSUME ConfOK, NEW i \in Instances, Runs(i),
                      NEW in \in ToSet(Subscribed(conf[i])), NEW format \in Formats,
                      Supports(format, in.type), Expressible(format, in)
               PROVE  LET node == Node(global, i, in)
                          Lets(source, nodes) ==
                              \E proxy \in ToSet(Proxies(source, format, in.sub.user, nodes)) :
                                  proxy.name = NameIn(format, node) /\ Reaches(live[i], proxy)
                      IN /\ Lets("export-config", Input(global, i, conf[i]))
                         /\ i \in DOMAIN inputs /\ inputs[i] = Input(global, i, conf[i]) =>
                                Lets("sboxsub", AllNodes)
    BY DEF Connects
  <2>1. PICK k \in DOMAIN Subscribed(conf[i]) : in = Subscribed(conf[i])[k]
    BY DEF ToSet
  <2>2. /\ k \in DOMAIN Input(global, i, conf[i])
        /\ Input(global, i, conf[i])[k] = Node(global, i, in)
    BY <2>1 DEF Input, Column
  <2>3. \E proxy \in ToSet(Proxies("export-config", format, in.sub.user, Input(global, i, conf[i]))) :
            proxy.name = NameIn(format, Node(global, i, in)) /\ Reaches(live[i], proxy)
    BY <2>1, <2>2, LetsIn
  <2>4. ASSUME i \in DOMAIN inputs, inputs[i] = Input(global, i, conf[i])
        PROVE  \E proxy \in ToSet(Proxies("sboxsub", format, in.sub.user, AllNodes)) :
                   proxy.name = NameIn(format, Node(global, i, in)) /\ Reaches(live[i], proxy)
    <3>1. <<i, k>> \in DOMAIN AllNodes /\ AllNodes[<<i, k>>] = Node(global, i, in)
      BY <2>2, <2>4 DEF AllNodes, Nodes, Places
    <3> QED BY <2>1, <3>1, LetsIn
  <2> QED BY <2>3, <2>4
<1> QED BY <1>1, ConfInduction, PTL

(***************************************************************************)
(* An instance that relays reaches the one behind it, through a reference  *)
(* or through an outbound written from a node, when both run what their    *)
(* files say.                                                              *)
(***************************************************************************)
THEOREM RelaysConnect == Spec => []Relays
<1>1. ConfOK => Relays
  <2> SUFFICES ASSUME ConfOK, NEW i \in Instances, NEW j \in Instances, i # j, Runs(i), Runs(j),
                      NEW k \in DOMAIN conf[i].outbounds,
                      NEW in \in ToSet(Column(conf[j].inbounds, ApplyDefaults)),
                      Leads(conf[i].outbounds[k], j, in)
               PROVE  Reaches(live[j], live[i].outbounds[k])
    BY DEF Relays
  <2> DEFINE out == conf[i].outbounds[k]
             made == ConvertInbound(in)
             proxy == ConvertOutbound(ResolveRef(conf, i, out))
  <2>1. /\ conf[i] # None /\ live[i] = Generate(conf, i)
        /\ conf[j] # None /\ live[j] = Generate(conf, j)
    BY DEF Runs
  <2>2. live[i].outbounds[k] = proxy
    BY <2>1 DEF Generate
  <2>3. PICK n \in DOMAIN conf[j].inbounds : in = ApplyDefaults(conf[j].inbounds[n])
    BY DEF ToSet, Column
  <2>4. in \in InboundSettings /\ ValidInbound(global, in) /\ in.name = conf[j].inbounds[n].name
    BY <2>1, <2>3, Served
  <2>5. made \in ToSet(live[j].inbounds)
    BY <2>1, <2>3 DEF Generate, Column, ToSet
  <2>6. ASSUME out.type = "ref", out.ref = [instance |-> j, inbound |-> in.name], ~TLSOn(in.tls, FALSE)
        PROVE  Accepts(made, proxy)
    <3> DEFINE found == Referenced(conf, i, out.ref)
               back == CHOOSE x \in found : TRUE
    <3>1. found = {x \in ToSet(conf[j].inbounds) : x.name = in.name /\ Local(x.type)}
      BY <2>1, <2>6 DEF Referenced, ConfOK
    <3>2. found # {}
      BY <2>1, <2>6 DEF ConfOK, Loads, RefsResolve, ToSet
    <3> HIDE DEF found
    <3>3. back \in found
      BY <3>2
    <3> HIDE DEF back
    <3>4. PICK m \in DOMAIN conf[j].inbounds : back = conf[j].inbounds[m]
      BY <3>1, <3>3 DEF ToSet
    <3>5. m = n
      <4>1. NoDuplicates(Column(conf[j].inbounds, NameOf))
        BY <2>1 DEF ConfOK, Loads, ValidInstance
      <4>2. conf[j].inbounds[m].name = conf[j].inbounds[n].name
        BY <2>4, <3>1, <3>3, <3>4
      <4> QED BY <4>1, <4>2 DEF NoDuplicates, Column, NameOf
    <3>6. ApplyDefaults(back) = in /\ Local(back.type)
      BY <2>3, <3>1, <3>3, <3>4, <3>5
    <3>7. back.type = in.type /\ back.port = in.port
      <4>1. back \in InboundSettings
        BY <2>1, <3>4 DEF ConfOK, FileOK, ToSet, InboundOK
      <4> QED BY <3>6, <4>1 DEF ApplyDefaults, InboundSettings
    <3>8. ResolveRef(conf, i, out) =
              [NoOutbound EXCEPT !.name = out.name, !.type = in.type, !.server = "127.0.0.1",
                                 !.port = in.port, !.auth = in.auth]
      BY <2>6, <3>6, <3>7 DEF ResolveRef, found, back
    <3>9. /\ proxy.type = in.type /\ proxy.port = in.port
          /\ proxy.cred = IF Password(in.auth) THEN in.auth ELSE None
          /\ proxy.tls = None /\ proxy.transport = None
      <4>1. in.type # "anytls" /\ ~SupportsTransport(in.type)
        BY <3>6, <3>7 DEF Local, SupportsTransport
      <4> QED BY <3>8, <4>1 DEF ConvertOutbound, NoOutbound, NoTLS, ClientTLS, TLSOn
    <3>10. /\ made.type = in.type /\ made.port = in.port /\ made.tls = None /\ made.transport = None
           /\ made.users = IF Password(in.auth) THEN {[NoUser EXCEPT !.cred = in.auth]} ELSE {}
      BY <2>6, <3>6, <3>7 DEF ConvertInbound, Local, SupportsTransport, ServerTLS
    <3>11. ASSUME Password(in.auth)
           PROVE  Authenticates(made, proxy, [NoUser EXCEPT !.cred = in.auth])
      <4>1. [NoUser EXCEPT !.cred = in.auth].cred = in.auth
        BY DEF NoUser
      <4> HIDE DEF made, proxy
      <4> QED BY <3>6, <3>7, <3>9, <3>10, <3>11, <4>1 DEF Authenticates, Local
    <3> HIDE DEF made, proxy
    <3> QED BY <3>9, <3>10, <3>11, PlainFits DEF Accepts
  <2>7. ASSUME in.sub # None, out = Written(Node(global, j, in)), Expressible("sing-box", in)
        PROVE  Accepts(made, proxy)
    <3> DEFINE node == Node(global, j, in)
    <3>1. out.type = in.type
      BY <2>7 DEF Written, Node
    <3>2. out.type # "ref"
      BY <2>4, <3>1 DEF ValidInbound, InboundTypes
    <3>3. proxy = ConvertOutbound(Written(node))
      BY <2>7, <3>2 DEF ResolveRef
    <3>4. \A field \in {"type", "port", "cred", "method", "alter", "flow", "tls", "transport"} :
              ConvertOutbound(Written(node))[field] = SingBoxProxy(node)[field]
      <4> DEFINE written == ConvertOutbound(Written(node))
                 rendered == SingBoxProxy(node)
      <4>1. (node.protocol # "vless" => node.flow = None) /\ (node.protocol # "vmess" => node.alter = 0)
        BY DEF Node
      <4> HIDE DEF node
      <4>2. /\ written.type = rendered.type /\ written.port = rendered.port /\ written.cred = rendered.cred
            /\ written.method = rendered.method /\ written.transport = rendered.transport /\ written.tls = rendered.tls
        BY DEF ConvertOutbound, Written, SingBoxProxy, Credential
      <4>3. written.alter = rendered.alter /\ written.flow = rendered.flow
        BY <4>1 DEF ConvertOutbound, Written, SingBoxProxy
      <4> HIDE DEF written, rendered
      <4>4. \A field \in {"type", "port", "cred", "method", "alter", "flow", "tls", "transport"} :
                written[field] = rendered[field]
        BY <4>2, <4>3
      <4> QED BY <4>4 DEF written, rendered
    <3> HIDE DEF node, proxy, made
    <3> QED BY <2>4, <2>7, <3>3, <3>4, SingBoxFits DEF node, made
  <2> HIDE DEF made, proxy
  <2>8. Accepts(made, proxy)
    BY <2>6, <2>7 DEF Leads
  <2> QED BY <2>2, <2>5, <2>8 DEF Reaches
<1> QED BY <1>1, ConfInduction, PTL

-----------------------------------------------------------------------------
(* Credentials stay with their users *)

OwnNode(node) ==
    /\ node.auth \notin DOMAIN Owner
    /\ node.cred \in DOMAIN Owner => Owner[node.cred] = node.user
OwnNodes(files) == \A i \in DOMAIN files : \A k \in DOMAIN files[i] : OwnNode(files[i][k])

\* The invariant: in every bundle and in the inputs, of whatever age, a credential stands
\* beside its user.
CredentialsOK ==
    /\ \A bundle \in bundles : OwnNodes(bundle)
    /\ OwnNodes(inputs)

\* A node takes the credential of the user it is for, or of nobody.
LEMMA NodeOwn ==
    ASSUME NEW in, InboundOK(in), NEW g, NEW i
    PROVE  OwnNode(Node(g, i, in))
<1> DEFINE user == FindUser(in, in.sub.user)
           node == Node(g, i, in)
<1>1. node.user = in.sub.user /\ node.auth \in {None, in.auth} /\ node.cred \in {None, user.cred}
  BY DEF Node
<1>2. node.auth \notin DOMAIN Owner
  BY <1>1, DeliveryAssumption DEF InboundOK
<1>3. user.cred \in DOMAIN Owner => Owner[user.cred] = in.sub.user
  <2>1. CASE user \in ToSet(in.users) /\ user.name = in.sub.user
    BY <2>1 DEF InboundOK
  <2>2. CASE user = NoUser
    BY <2>2, DeliveryAssumption DEF NoUser
  <2> QED BY <2>1, <2>2, UserFound DEF InboundOK
<1>4. node.cred \in DOMAIN Owner => Owner[node.cred] = node.user
  BY <1>1, <1>3, DeliveryAssumption
<1> HIDE DEF node
<1> QED BY <1>2, <1>4 DEF OwnNode, node

\* Credentials stand beside their users in every bundle and every input.
LEMMA CredentialsInduction == Spec => []CredentialsOK
<1>1. Init => CredentialsOK
  BY DEF Init, CredentialsOK, OwnNodes
<1>2. ConfOK /\ CredentialsOK /\ [Next]_vars => CredentialsOK'
  <2> SUFFICES ASSUME ConfOK, CredentialsOK, [Next]_vars PROVE CredentialsOK'
    OBVIOUS
  <2>1. ASSUME UNCHANGED <<bundles, inputs>> PROVE CredentialsOK'
    BY <2>1 DEF CredentialsOK
  <2>2. CASE UNCHANGED vars
    BY <2>1, <2>2 DEF vars
  <2>3. ASSUME NEW i \in Instances, NEW text, Configure(i, text) PROVE CredentialsOK'
    BY <2>1, <2>3 DEF Configure
  <2>4. ASSUME NEW i \in Instances, NEW node, Relay(i, node) PROVE CredentialsOK'
    BY <2>3, <2>4 DEF Relay
  <2>5. ASSUME NEW i \in Instances, Restart(i) \/ Stop(i) PROVE CredentialsOK'
    BY <2>1, <2>5 DEF Restart, Stop
  <2>6. ASSUME NEW targets \in Targets, Export(targets) PROVE CredentialsOK'
    <3>1. OwnNodes(Exported(targets))
      <4> SUFFICES ASSUME NEW i \in DOMAIN Exported(targets), NEW k \in DOMAIN Exported(targets)[i]
                   PROVE  OwnNode(Exported(targets)[i][k])
        BY DEF OwnNodes
      <4>1. i \in Instances /\ conf[i] # None
        BY <2>6 DEF Targets, Exported
      <4>2. Exported(targets)[i] = Input(global, i, conf[i])
        BY DEF Exported
      <4>3. /\ k \in DOMAIN conf[i].inbounds
            /\ Exported(targets)[i][k] = Node(global, i, ApplyDefaults(conf[i].inbounds[k]))
        BY <4>2 DEF Input, Subscribed, Column
      <4>4. InboundOK(ApplyDefaults(conf[i].inbounds[k]))
        BY <4>1, <4>3, Served
      <4> QED BY <4>3, <4>4, NodeOwn
    <3>2. bundles' = bundles \cup {Exported(targets)} /\ inputs' = inputs
      BY <2>6 DEF Export
    <3> QED BY <3>1, <3>2 DEF CredentialsOK
  <2>7. ASSUME NEW bundle \in bundles, NEW replaceAll \in BOOLEAN, Import(bundle, replaceAll)
        PROVE  CredentialsOK'
    <3>1. OwnNodes(bundle)
      BY DEF CredentialsOK
    <3>2. OwnNodes(Kept(bundle))
      BY <3>1 DEF CredentialsOK, OwnNodes, Kept
    <3>3. inputs' \in {bundle, Kept(bundle)} /\ bundles' = bundles
      BY <2>7 DEF Import
    <3> QED BY <3>1, <3>2, <3>3 DEF CredentialsOK
  <2> QED BY <2>2, <2>3, <2>4, <2>5, <2>6, <2>7 DEF Next
<1> QED BY <1>1, <1>2, ConfInduction, PTL DEF Spec

(***************************************************************************)
(* No client of the subscription server gets the credential of another     *)
(* user, whatever was imported, in whatever order.                         *)
(***************************************************************************)
THEOREM CredentialsAreOwn == Spec => []OwnCredentials
<1>1. CredentialsOK => OwnCredentials
  <2> SUFFICES ASSUME CredentialsOK, NEW user \in Users, NEW format \in Formats,
                      NEW proxy \in ToSet(Proxies("sboxsub", format, user, AllNodes)),
                      proxy.cred \in DOMAIN Owner
               PROVE  Owner[proxy.cred] = user
    BY DEF OwnCredentials
  <2>1. PICK p \in DOMAIN AllNodes : AllNodes[p].user = user /\ proxy = Proxy("sboxsub", format, AllNodes[p])
    BY DEF ToSet, Proxies
  <2>2. p \in Places(inputs) /\ AllNodes[p] = inputs[p[1]][p[2]]
    BY <2>1 DEF AllNodes, Nodes
  <2>3. p[1] \in DOMAIN inputs /\ p[2] \in DOMAIN inputs[p[1]]
    BY <2>2 DEF Places
  <2>4. OwnNode(AllNodes[p])
    BY <2>2, <2>3 DEF CredentialsOK, OwnNodes
  <2>5. proxy.cred = Credential(AllNodes[p])
    BY <2>1 DEF Proxy, ClashProxy, SurgeProxy, TextProxy, SingBoxProxy, Formats
  <2>6. proxy.cred = AllNodes[p].cred
    BY <2>4, <2>5 DEF Credential, OwnNode
  <2> QED BY <2>1, <2>4, <2>6 DEF OwnNode
<1> QED BY <1>1, CredentialsInduction, PTL

-----------------------------------------------------------------------------
(* Names *)

\* The inputs could be imported together: Import checks what it leaves, kept files included.
LEMMA InputsMergeable == Spec => []Mergeable(Nodes(inputs))
<1>1. Init => Mergeable(Nodes(inputs))
  BY DEF Init, Mergeable, Nodes, Places
<1>2. Mergeable(Nodes(inputs)) /\ [Next]_vars => Mergeable(Nodes(inputs))'
  <2> SUFFICES ASSUME Mergeable(Nodes(inputs)), [Next]_vars PROVE Mergeable(Nodes(inputs'))
    BY DEF Mergeable, Nodes, Places
  <2>1. CASE inputs' = inputs
    BY <2>1
  <2>2. ASSUME NEW bundle \in bundles, NEW replaceAll \in BOOLEAN, Import(bundle, replaceAll)
        PROVE  Mergeable(Nodes(inputs'))
    BY <2>2 DEF Import, Importable
  <2> QED BY <2>1, <2>2 DEF vars, Next, Configure, Relay, Restart, Stop, Export
<1> QED BY <1>1, <1>2, PTL DEF Spec

(***************************************************************************)
(* A client never gets two proxies of one name.                            *)
(***************************************************************************)
THEOREM ProxyNamesUnique == Spec => []NamesUnique
<1>1. Mergeable(Nodes(inputs)) => NamesUnique
  <2> SUFFICES ASSUME Mergeable(AllNodes), NEW user \in Users, NEW format \in Formats,
                      NEW p \in DOMAIN AllNodes, NEW q \in DOMAIN AllNodes,
                      AllNodes[p].user = user, AllNodes[q].user = user,
                      Proxy("sboxsub", format, AllNodes[p]).name = Proxy("sboxsub", format, AllNodes[q]).name
               PROVE  p = q
    BY DEF NamesUnique, NoDuplicates, Column, NameOf, Proxies, AllNodes
  <2>1. CASE format = "sing-box"
    <3>1. AllNodes[p].tag = AllNodes[q].tag
      BY <2>1 DEF Proxy, SingBoxProxy
    <3> QED BY <3>1 DEF Mergeable
  <2>2. CASE format \in {"clash", "surge"}
    <3>1. AllNodes[p].remark = AllNodes[q].remark
      BY <2>2, TextKeeps
    <3> QED BY <3>1 DEF Mergeable
  <2> QED BY <2>1, <2>2 DEF Formats
<1> QED BY <1>1, InputsMergeable, PTL
=============================================================================
