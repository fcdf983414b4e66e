------------------------------- MODULE Delivery -------------------------------
(***************************************************************************)
(* From an instance's file to a user's client.  The agent generates what   *)
(* the instances serve and exports a bundle of subscription nodes; the     *)
(* bundle is carried to the subscription server and imported there, beside *)
(* the inputs of earlier bundles or instead of them; clients fetch what is *)
(* rendered from the inputs.  Every step happens when the operator does    *)
(* it, so the configuration, the running instances and the inputs are of   *)
(* different ages.                                                         *)
(*                                                                         *)
(* A fetch changes nothing: Proxies says what it would get.  Each command  *)
(* is one step; how they fail halfway is in Runtime and SubServer.         *)
(***************************************************************************)
EXTENDS Protocols

CONSTANTS
    Instances,
    Globals,    \* config.yaml: [host : the external_host or None, strict : BOOLEAN]
    Starts,     \* the configurations to begin with
    Offered,    \* what an edit can make of each instance's file
    Users,
    Owner,      \* [credentials that belong to one user -> Users]
    MaxEdits    \* bound on the changes of the configuration

\* The files of the instances, to begin with and after an edit.
Files == {c[i] : c \in Starts, i \in Instances} \cup UNION {Offered[i] : i \in Instances}

\* Their fields are of the types that YAML is read into, and the credentials that belong to
\* one user stand beside his name.
ASSUME DeliveryAssumption ==
    /\ \A c \in Starts : DOMAIN c = Instances
    /\ \A file \in Files \ {None} :
          /\ DOMAIN file = {"enabled", "inbounds", "outbounds", "groups", "routes"}
          /\ file.inbounds \in Seq(InboundSettings)
    /\ {None, "noauth"} \cap DOMAIN Owner = {}
    /\ \A file \in Files \ {None} : \A in \in ToSet(file.inbounds) :
          /\ in.auth \notin DOMAIN Owner
          /\ \A user \in ToSet(in.users) :
                user.cred \in DOMAIN Owner => Owner[user.cred] = user.name

VARIABLES
    global,
    conf,       \* the instances' files
    live,       \* what sing-box runs for each instance
    bundles,    \* the bundles exported so far: for each source that has any, its nodes
    inputs,     \* the inputs of the subscription server, likewise
    edits

vars == <<global, conf, live, bundles, inputs, edits>>

\* LoadAgentConfigSet
Loads(c) ==
    /\ \A i \in Instances : c[i] # None => ValidInstance(global, c[i])
    /\ RefsResolve(c)
    /\ \A i, j \in Instances : i # j /\ c[i] # None /\ c[j] # None /\ c[i].enabled /\ c[j].enabled =>
          \A in \in ToSet(c[i].inbounds), other \in ToSet(c[j].inbounds) : in.port # other.port

Init ==
    /\ global \in Globals
    /\ conf \in {c \in Starts : Loads(c)}
    /\ live = [i \in Instances |-> None]
    /\ bundles = {} /\ inputs = <<>>
    /\ edits = 0

\* The nodes of some inputs, by file and place.
Places(files) == UNION {{i} \X DOMAIN files[i] : i \in DOMAIN files}
Nodes(files) == [p \in Places(files) |-> files[p[1]][p[2]]]

-----------------------------------------------------------------------------
(* The agent *)

Configure(i, text) ==
    /\ edits < MaxEdits /\ edits' = edits + 1
    /\ text # conf[i]
    /\ conf' = [conf EXCEPT ![i] = text]
    /\ Loads(conf')
    /\ UNCHANGED <<global, live, bundles, inputs>>

\* An outbound written by hand with the settings of a node.
Written(node) ==
    [name |-> "relay", type |-> node.protocol, ref |-> None, server |-> node.server, port |-> node.port,
     cred |-> node.cred, method |-> node.method, alter |-> node.alter, flow |-> node.flow,
     auth |-> node.auth, tls |-> node.tls, transport |-> node.transport]

Relay(i, node) ==
    /\ conf[i] # None
    /\ Configure(i, [conf[i] EXCEPT !.outbounds = <<Written(node)>>, !.groups = <<>>, !.routes = {"relay"}])

\* restart: the checked configuration of the instance runs.
Restart(i) ==
    /\ conf[i] # None
    /\ Checks(Generate(conf, i))
    /\ live' = [live EXCEPT ![i] = Generate(conf, i)]
    /\ UNCHANGED <<global, conf, bundles, inputs, edits>>

Stop(i) ==
    /\ live[i] # None
    /\ live' = [live EXCEPT ![i] = None]
    /\ UNCHANGED <<global, conf, bundles, inputs, edits>>

\* TargetInstances: the enabled ones, or the one named.
Targets ==
    LET present == {i \in Instances : conf[i] # None}
    IN {{i \in present : conf[i].enabled}} \cup {{i} : i \in present}

\* The nodes of the targets that have any.
Exported(targets) ==
    [i \in {i \in targets : DOMAIN Input(global, i, conf[i]) # {}} |-> Input(global, i, conf[i])]

\* sub export: BuildSubscriptionInputs and BuildBundle.
Export(targets) ==
    /\ \A i \in targets : CanExport(global, conf[i])
    /\ DOMAIN Exported(targets) # {}
    /\ \A node \in ToSet(Nodes(Exported(targets))) : ValidNode(node)
    /\ Mergeable(Nodes(Exported(targets)))
    /\ bundles' = bundles \cup {Exported(targets)}
    /\ UNCHANGED <<global, conf, live, inputs, edits>>

-----------------------------------------------------------------------------
(* The subscription server *)

\* loadExistingInputsForMerge: the files the bundle does not bring.
Kept(bundle) ==
    [i \in DOMAIN bundle \cup DOMAIN inputs |->
        IF i \in DOMAIN bundle THEN bundle[i] ELSE inputs[i]]

\* Mutant: only what comes in is checked.
ImportableAlone(bundle, final) == Mergeable(Nodes(bundle))

\* BuildIndexFromInputs of all of them.
Importable(bundle, final) == Mergeable(Nodes(final))

Import(bundle, replaceAll) ==
    LET final == IF replaceAll THEN bundle ELSE Kept(bundle)
    IN /\ Importable(bundle, final)
       /\ inputs' = final
       /\ UNCHANGED <<global, conf, live, bundles, edits>>

Next ==
    \/ \E i \in Instances :
          \/ \E text \in Offered[i] : Configure(i, text)
          \/ \E bundle \in bundles : \E node \in ToSet(Nodes(bundle)) : Relay(i, node)
          \/ Restart(i)
          \/ Stop(i)
    \/ \E targets \in Targets : Export(targets)
    \/ \E bundle \in bundles, replaceAll \in BOOLEAN : Import(bundle, replaceAll)

Spec == Init /\ [][Next]_vars

-----------------------------------------------------------------------------
(* What it must guarantee *)

AllNodes == Nodes(inputs)

\* The transports that are also a network of Clash's vmess.
ClashNetworks == {"ws", "grpc"}

(***************************************************************************)
(* What the settings of an inbound must be for a client of this format to  *)
(* come in at all.  Without this the file is accepted, exported and        *)
(* served, and nobody connects: README, "What the models found".           *)
(***************************************************************************)
Expressible(format, in) ==
    LET user == FindUser(in, in.sub.user)
        reality == in.tls.reality
    IN /\ ~in.loopback
       /\ in.type = "shadowsocks" =>
             FirstOf(user.method, in.method) = ServerMethod(in) /\ ServerMethod(in) \notin TwoKeys
       /\ in.type = "vless" /\ user.flow # None => TLSOn(in.tls, FALSE)
       /\ reality # None =>
             /\ reality.public = reality.private
             /\ ShortID(reality) # None => ShortID(reality) \in ShortIDs(reality)
       /\ format = "clash" =>
             /\ ~TLSOn(in.tls, FALSE)
             /\ in.transport # None => in.transport.type \in ClashNetworks /\ in.transport.path = None
       /\ format = "surge" =>
             /\ IF in.type = "anytls" THEN reality = None ELSE ~TLSOn(in.tls, FALSE)
             /\ in.transport # None => in.transport.type = "ws"

Runs(i) == conf[i] # None /\ live[i] # None /\ live[i] = Generate(conf, i)
NameIn(format, node) == IF format = "sing-box" THEN node.tag ELSE node.remark

(***************************************************************************)
(* When an instance runs what its file says and the server has its nodes,  *)
(* every user it is shared with gets from the server, and from             *)
(* export-config, a proxy with which the instance lets him in: generator,  *)
(* node and renderers agree on credentials, method, transport, TLS,        *)
(* REALITY and flow, for every format that can say them.                   *)
(***************************************************************************)
Connects ==
    \A i \in Instances : Runs(i) /\ CanExport(global, conf[i]) =>
        \A in \in ToSet(Subscribed(conf[i])), format \in Formats :
            Supports(format, in.type) /\ Expressible(format, in) =>
                LET node == Node(global, i, in)
                    Lets(source, nodes) ==
                        \E proxy \in ToSet(Proxies(source, format, in.sub.user, nodes)) :
                            proxy.name = NameIn(format, node) /\ Reaches(live[i], proxy)
                IN /\ Lets("export-config", Input(global, i, conf[i]))
                   /\ i \in DOMAIN inputs /\ inputs[i] = Input(global, i, conf[i]) =>
                          Lets("sboxsub", AllNodes)

\* An outbound refers to this inbound of instance j, or was written from its node.
Leads(out, j, in) ==
    \/ /\ out.type = "ref"
       /\ out.ref = [instance |-> j, inbound |-> in.name]
       /\ ~TLSOn(in.tls, FALSE)
    \/ /\ in.sub # None
       /\ Host(global, in) # None
       /\ out = Written(Node(global, j, in))
       /\ Expressible("sing-box", in)

(***************************************************************************)
(* Relaying instances reach the ones behind them, when both run what their *)
(* files say: a reference to a socks5/http inbound (over plain TCP: a      *)
(* reference carries no TLS), and an outbound written from a node.         *)
(***************************************************************************)
Relays ==
    \A i, j \in Instances : i # j /\ Runs(i) /\ Runs(j) =>
        \A k \in DOMAIN conf[i].outbounds :
            \A in \in ToSet(Column(conf[j].inbounds, ApplyDefaults)) :
                Leads(conf[i].outbounds[k], j, in) => Reaches(live[j], live[i].outbounds[k])

(***************************************************************************)
(* No user's client ever gets the credential of another user, whatever the *)
(* age of the inputs.                                                      *)
(***************************************************************************)
OwnCredentials ==
    \A user \in Users, format \in Formats :
        \A proxy \in ToSet(Proxies("sboxsub", format, user, AllNodes)) :
            proxy.cred \in DOMAIN Owner => Owner[proxy.cred] = user

(***************************************************************************)
(* A client never gets two proxies of one name, even from inputs of        *)
(* instances that are long gone: names are what groups and rules refer to. *)
(***************************************************************************)
NamesUnique ==
    \A user \in Users, format \in Formats :
        NoDuplicates(Column(Proxies("sboxsub", format, user, AllNodes), NameOf))
=============================================================================
