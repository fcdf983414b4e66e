------------------------------- MODULE MCStore -------------------------------
(* Two instances, "a" as a.yaml or a.yml and "b" as b.yaml, and three ports. *)
EXTENDS Store, TLC

MCInstanceOf == [f \in 1..3 |-> IF f = 3 THEN "b" ELSE "a"]
MCYaml == [n \in Instances |-> IF n = "a" THEN 1 ELSE 3]

Text(name, enabled, ports, socks, refs, open) ==
    [name |-> name, enabled |-> enabled, ports |-> ports, socks |-> socks, refs |-> refs,
     open |-> open]
Global(strict) == [range |-> 1..3, strict |-> strict]

MCContents == InstanceText \cup GlobalText \cup {Broken}

TextA == Text("a", TRUE, <<1>>, TRUE, {}, FALSE)
DisabledA == Text("a", FALSE, <<1>>, TRUE, {}, TRUE)
TextB == Text("b", TRUE, <<2>>, TRUE, {"a"}, FALSE)

MCTemplates == {Text("a", TRUE, <<1, 2>>, TRUE, {}, FALSE), Text("a", TRUE, <<1>>, FALSE, {"a"}, FALSE)}
MCDefault == Global(TRUE)
MCTyped == {Text("b", TRUE, <<1>>, TRUE, {}, TRUE), Global(FALSE), Broken}

ProcSymmetry == Permutations(Procs)

Set(a, yml, b, config) == <<a, yml, b, config>>
MCStarts == {Absent, Set(TextA, None, TextB, Global(TRUE))}

\* Over the second start: a.yml is new, beside a.yaml, b.yaml left out, config.yaml replaced.
\* The exports replace instance files.
MCArchives == {Set(None, DisabledA, None, Global(FALSE))}
=============================================================================
