---------------------------- MODULE MCSubServer ----------------------------
(* Two files; "b" in both is the conflict (a node id used twice).            *)
EXTENDS SubServer

MCFiles == {1, 2}
MCVersions == {"a", "b"}
MCCompatible(d) == \E f \in Files : d[f] # "b"

(* The inputs of a small installation: one file.                             *)
MCInit == Init /\ dir = [f \in Files |-> IF f = 1 THEN "b" ELSE None]
MCSpec == MCInit /\ [][Next]_vars /\ WF_vars(ServerStep)
=============================================================================
