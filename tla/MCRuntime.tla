------------------------------ MODULE MCRuntime ------------------------------
(* Small configurations for TLC: two instances, the second of which may      *)
(* reference the first; at log level "debug" sing-box check rejects all      *)
(* bodies but "plain".                                                       *)
EXTENDS Runtime, TLC

MCInstances == {1, 2}
MCGlobals == {"info", "debug"}
MCBodies == {"plain", "moved", "ref"}
FewBodies == {"plain", "ref"}
MCLogLevel == [g \in Globals |-> g]
MCRefs == [b \in Bodies |-> IF b = "ref" THEN {1} ELSE {}]
MCPorts == [b \in Bodies |->
    CASE b = "plain" -> {1} [] b = "moved" -> {2} [] b = "ref" -> {3}]
MCExposed == [b \in Bodies |->
    CASE b = "plain" -> "a" [] b = "moved" -> "b" [] OTHER -> None]
MCEndpoints == {"a", "b"}
MCAccepts(c) == c.log = "debug" => c.body = "plain"

ProcSymmetry == Permutations(Procs)

(* The concurrent runs start from one configuration: both instances enabled, *)
(* the second referencing the first.                                         *)
MCInit == Init /\ global = "info" /\ inst = (1 :> [enabled |-> TRUE, body |-> "plain"] @@
                          2 :> [enabled |-> TRUE, body |-> "ref"])
MCSpec == MCInit /\ [][Next]_vars
=============================================================================
