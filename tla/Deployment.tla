----------------------------- MODULE Deployment -----------------------------
(***************************************************************************)
(* What the runtime promises of its catalogue, the record of what is       *)
(* deployed: it changes as a whole, to the complete outcome of a command   *)
(* that loaded one configuration set and had all of its files accepted,    *)
(* and a command for one instance changes the entry of that instance only. *)
(***************************************************************************)
EXTENDS ConfigModel

CONSTANTS Procs, Accepts(_)

VARIABLES
    global, inst,   \* the configuration, changed by anyone at any time
    loaded,         \* what each command loaded
    catalogue       \* the content deployed for each instance

vars == <<global, inst, loaded, catalogue>>

NoLoad == [global |-> None, inst |-> [i \in Instances |-> None]]

Init ==
    /\ global \in Globals
    /\ inst \in ConfigSets
    /\ loaded = [p \in Procs |-> NoLoad]
    /\ catalogue = [i \in Instances |-> None]

Reconfigure ==
    /\ \/ global' \in Globals /\ UNCHANGED inst
       \/ \E i \in Instances, e \in Entry \cup {None} :
             inst' = [inst EXCEPT ![i] = e] /\ UNCHANGED global
    /\ \/ UNCHANGED loaded
       \/ \E p \in Procs : loaded' = [loaded EXCEPT ![p] = NoLoad]
    /\ UNCHANGED catalogue

Take(p) ==
    /\ Loadable(inst)
    /\ loaded' = [loaded EXCEPT ![p] = [global |-> global, inst |-> inst]]
    /\ UNCHANGED <<global, inst, catalogue>>

Drop(p) ==
    /\ loaded' = [loaded EXCEPT ![p] = NoLoad]
    /\ UNCHANGED <<global, inst, catalogue>>

Deployable(p, i) == Accepts(Generated(loaded[p].global, loaded[p].inst, i))

DeployAll(p) ==
    /\ loaded[p] # NoLoad
    /\ \A i \in Enabled(loaded[p].inst) : Deployable(p, i)
    /\ catalogue' = [i \in Instances |->
          IF i \in Enabled(loaded[p].inst)
          THEN Generated(loaded[p].global, loaded[p].inst, i) ELSE None]
    /\ UNCHANGED <<global, inst, loaded>>

DeployOne(p, i) ==
    /\ loaded[p] # NoLoad
    /\ i \in Present(loaded[p].inst)
    /\ Deployable(p, i)
    /\ catalogue' = [catalogue EXCEPT ![i] = Generated(loaded[p].global, loaded[p].inst, i)]
    /\ UNCHANGED <<global, inst, loaded>>

Next ==
    \/ Reconfigure
    \/ \E p \in Procs : Take(p) \/ Drop(p) \/ DeployAll(p)
    \/ \E p \in Procs, i \in Instances : DeployOne(p, i)

Spec == Init /\ [][Next]_vars
=============================================================================
