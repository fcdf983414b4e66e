------------------------------ MODULE MCDelivery ------------------------------
(* Every kind of inbound in instance "a", valid or not; "b" relays or competes. *)
EXTENDS Delivery

User(name, alter, flow, method) ==
    [NoUser EXCEPT !.name = name, !.cred = name \o "'s", !.alter = alter, !.flow = flow, !.method = method]
Alice(method, flow) == User("alice", 0, flow, method)

Certificate == [NoTLS EXCEPT !.enabled = TRUE, !.cert = TRUE]
Reality(private, public, short, shorts) ==
    [NoTLS EXCEPT !.reality = [private |-> private, public |-> public, short |-> short, shorts |-> shorts]]
TLSs == {NoTLS, Certificate, [NoTLS EXCEPT !.enabled = TRUE], [Certificate EXCEPT !.utls = TRUE],
         Reality("pair", "pair", "s1", <<>>), Reality("pair", "pair", None, <<"s1", "s2">>),
         Reality("pair", "pair", "s1", <<"s2">>), Reality("pair", None, None, <<>>),
         Reality(None, "pair", None, <<>>),
         [Reality("pair", "pair", "s1", <<"s2", "s1">>) EXCEPT !.enabled = TRUE]}
TransportsOf(type) ==
    IF SupportsTransport(type)
    THEN {None, [type |-> "ws", path |-> None], [type |-> "ws", path |-> "p"], [type |-> "grpc", path |-> None],
          [type |-> "quic", path |-> None], [type |-> "tcp", path |-> None]}
    ELSE {None}
UsersOf(type) ==
    CASE type = "vmess" -> {<<>>, <<Alice(None, None), User("bob", 1, None, None)>>}
      [] type = "vless" -> {<<Alice(None, f), User("bob", n, None, None)>> : f \in {None, "vision"}, n \in 0..1}
      [] type = "shadowsocks" -> {<<Alice(m, None), User("bob", 0, None, n)>> : m, n \in {None, "m1"}}
      [] OTHER -> {<<>>, <<Alice(None, None), User("bob", 0, None, None)>>}

Sub(user, remark) == [user |-> user, remark |-> remark, server |-> None]
Inbound(type, port, users, tls, transport, auth, method, sub) ==
    [name |-> "in", type |-> type, port |-> port, loopback |-> FALSE, tag |-> None, users |-> users,
     tls |-> tls, transport |-> transport, auth |-> auth, method |-> method, sub |-> sub]

Direct == [name |-> "direct", type |-> "direct", ref |-> None, server |-> None, port |-> 0, cred |-> None,
           method |-> None, alter |-> 0, flow |-> None, auth |-> None, tls |-> NoTLS, transport |-> None]
Instance(inbounds) ==
    [enabled |-> TRUE, inbounds |-> inbounds, outbounds |-> <<Direct>>, groups |-> <<>>, routes |-> {"direct"}]

MCInbounds == UNION {
    {Inbound(type, 1, users, tls, transport, auth, method, sub) :
        users \in UsersOf(type), tls \in TLSs, transport \in TransportsOf(type),
        auth \in IF Local(type) THEN {None, "noauth", "shared"} ELSE {None},
        method \in IF type = "shadowsocks" THEN {None, "m1", "2022"} ELSE {None},
        sub \in {None, Sub("alice", "r1"), Sub("bob", "r1"), Sub("carol", "r1")}} : type \in InboundTypes}

Socks == [Inbound("socks5", 2, <<>>, NoTLS, None, "shared", None, Sub("alice", "r2")) EXCEPT !.name = "local"]
Ref == [Direct EXCEPT !.name = "back", !.type = "ref", !.ref = [instance |-> "a", inbound |-> "in"]]
Group(members) == [name |-> "auto", members |-> members]

Relaying ==
    [Instance(<<[Socks EXCEPT !.sub = None]>>) EXCEPT
        !.outbounds = <<Direct, Ref>>, !.groups = <<Group({"back", "direct"})>>, !.routes = {"auto", "back"}]
Competing(remark, tag, enabled) ==
    [Instance(<<[Socks EXCEPT !.sub.remark = remark, !.tag = tag, !.sub.server = "edge"]>>) EXCEPT !.enabled = enabled]
Vision == Instance(<<Inbound("vless", 1, <<User("bob", 0, "vision", None)>>, Reality("pair", "pair", "s1", <<>>), None,
                             None, None, Sub("bob", "r3")), Socks>>)

MCWords == STRING
MCGlobals == {[host |-> "host", strict |-> FALSE], [host |-> None, strict |-> TRUE]}
MCStarts == {[i \in Instances |-> IF i = "a" THEN Instance(<<in>>) ELSE b] : in \in MCInbounds, b \in {None, Relaying}}
MCOffered == [i \in Instances |-> IF i = "a" THEN {None, Vision}
                                  ELSE {Competing("r1", None, TRUE), Competing("r2", <<"t">>, FALSE)}]
MCOwner == [c \in {"alice's", "bob's"} |-> IF c = "alice's" THEN "alice" ELSE "bob"]
=============================================================================
