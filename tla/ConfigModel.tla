---------------------------- MODULE ConfigModel ----------------------------
(***************************************************************************)
(* The agent's configuration as data: one global config.yaml and one file  *)
(* per instance under instances/, the cross-file rules that decide whether *)
(* the set loads at all, and the sing-box JSON generated from it.          *)
(*                                                                         *)
(* An instance file is an entry [enabled, body]; the body stands for       *)
(* everything else in the file.  Bodies are opaque except for what the     *)
(* other files can see of them: the instances they reference, the ports    *)
(* they listen on, and the local socks5/http endpoint a reference copies.  *)
(***************************************************************************)
EXTENDS Naturals

CONSTANTS
    Instances,  \* instance names, numbered in the order of their file names
    Globals,    \* the possible contents of config.yaml
    Bodies,     \* the possible contents of an instance file, "enabled" apart
    LogLevel,   \* [Globals -> LogLevels]: what the generated JSON takes from config.yaml
    LogLevels,
    Refs,       \* [Bodies -> SUBSET Instances]: targets of its "ref" outbounds
    Ports,      \* [Bodies -> SUBSET Nat]: the inbound and API ports it declares
    Exposed,    \* [Bodies -> Endpoints \cup {None}]: its socks5/http inbound, if any
    Endpoints,
    None        \* an absent file, entry or endpoint

Entry == [enabled : BOOLEAN, body : Bodies]

ASSUME ConfigAssumption ==
    /\ Instances \subseteq Nat
    /\ LogLevel \in [Globals -> LogLevels]
    /\ Refs \in [Bodies -> SUBSET Instances]
    /\ Ports \in [Bodies -> SUBSET Nat]
    /\ Exposed \in [Bodies -> Endpoints \cup {None}]
    /\ None \notin Entry \cup Endpoints \cup Globals

ConfigSets == [Instances -> Entry \cup {None}]

Present(s) == {i \in Instances : s[i] # None}
Enabled(s) == {i \in Present(s) : s[i].enabled}

(***************************************************************************)
(* validateOutboundRefs: every reference names another instance that has   *)
(* the socks5/http inbound; it may be a disabled one.                      *)
(***************************************************************************)
RefsResolve(s) ==
    \A i \in Present(s) : \A r \in Refs[s[i].body] :
        /\ r # i
        /\ r \in Present(s)
        /\ Exposed[s[r].body] # None

\* validatePortConflicts: two enabled instances never share a port.
PortsDistinct(s) ==
    \A i, j \in Enabled(s) : i # j => Ports[s[i].body] \cap Ports[s[j].body] = {}

\* LoadAgentConfigSet succeeds: every command of sboxctl starts with it.
Loadable(s) == RefsResolve(s) /\ PortsDistinct(s)

(***************************************************************************)
(* The sing-box JSON of an instance: its body, the log level of the global *)
(* config, and the endpoint of every instance it references, copied in.    *)
(* "enabled" is hashed with the file but leaves no trace in the JSON.      *)
(***************************************************************************)
Generated(g, s, i) ==
    [log |-> LogLevel[g],
     body |-> s[i].body,
     endpoints |-> [r \in Refs[s[i].body] |-> Exposed[s[r].body]]]

Contents == UNION {[log : LogLevels, body : {b}, endpoints : [Refs[b] -> Endpoints]]
                   : b \in Bodies}
=============================================================================
