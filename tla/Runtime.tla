------------------------------- MODULE Runtime -------------------------------
(***************************************************************************)
(* How configuration reaches the sing-box services of an agent.  A         *)
(* lifecycle command (sboxctl start/restart, or the restart that follows   *)
(* an edit) loads the configuration set, compares the JSON it generates    *)
(* with runtime/manifest.json and the generated files, lets sing-box check *)
(* every new file, writes them one at a time, rewrites the manifest and    *)
(* calls the service manager.  Nothing is locked: commands interleave at   *)
(* every one of these steps, and any of them can die or fail in between.   *)
(***************************************************************************)
EXTENDS ConfigModel

CONSTANTS
    Procs,          \* concurrent sboxctl invocations
    All,            \* the empty TARGET: every enabled instance
    Stopped,        \* a service that is not running
    Accepts(_),     \* the verdict of "sing-box check -c" on a content
    Operations,     \* the lifecycle commands offered: {"start", "restart"} or fewer
    Systemd,        \* TRUE: systemctl; FALSE: launchctl
    MaxChanges,     \* bound on the operator's changes: edits, adds, removes, stops
    MaxFaults       \* bound on commands cut short and on service crashes

ASSUME RuntimeAssumption ==
    /\ All \notin Instances
    /\ Stopped \notin Contents /\ None \notin Contents
    /\ None \notin [source : Entry, content : Contents]
    /\ Operations \subseteq {"start", "restart"}
    /\ Systemd \in BOOLEAN
    /\ MaxChanges \in Nat /\ MaxFaults \in Nat
    /\ \A c \in Contents : Accepts(c) \in BOOLEAN

VARIABLES
    global,     \* config.yaml
    inst,       \* instances/*.yaml
    disk,       \* runtime/generated/sing-box/*.json
    manifest,   \* runtime/manifest.json
    running,    \* the content each service was started with, or Stopped
    pc,         \* where each command is
    job,        \* its operation and target
    loaded,     \* the configuration set it loaded
    plan,       \* its runtime plan
    todo,       \* changes it has yet to apply, then services it has yet to call
    changes,    \* the operator's changes so far
    faults,     \* commands cut short and service crashes so far
    disturbed   \* history: something else wrote since this command loaded

config == <<global, inst>>
runtime == <<disk, manifest>>
vars == <<global, inst, disk, manifest, running, pc, job, loaded, plan, todo,
          changes, faults, disturbed>>

Targets == Instances \cup {All}
Writes == {"create", "update", "delete"}
Actions == Writes \cup {"no-change", "none"}

\* One file of the manifest: the hash of the instance entry and of the JSON,
\* a hash being its preimage.
ManifestFile == [source : Entry, content : Contents]
Manifests == [config : Globals \cup {None}, files : [Instances -> ManifestFile \cup {None}]]
NoManifest == [config |-> None, files |-> [i \in Instances |-> None]]

Plans == [desired : [Instances -> Contents \cup {None}],
          action : [Instances -> Actions],
          existing : Manifests]
NoPlan == [desired |-> [i \in Instances |-> None],
           action |-> [i \in Instances |-> "none"],
           existing |-> NoManifest]

Jobs == [op : {"start", "restart", "edit", "remove"}, target : Targets]
NoJob == [op |-> "start", target |-> All]

Loads == [global : Globals \cup {None}, inst : ConfigSets]
NoLoad == [global |-> None, inst |-> [i \in Instances |-> None]]

TypeOK ==
    /\ global \in Globals /\ inst \in ConfigSets
    /\ disk \in [Instances -> Contents \cup {None}]
    /\ manifest \in Manifests
    /\ running \in [Instances -> Contents \cup {Stopped}]
    /\ pc \in [Procs -> {"idle", "plan", "check", "apply", "services", "done",
                         "edited", "purge"}]
    /\ job \in [Procs -> Jobs]
    /\ loaded \in [Procs -> Loads]
    /\ plan \in [Procs -> Plans]
    /\ todo \in [Procs -> SUBSET Instances]
    /\ changes \in 0..MaxChanges /\ faults \in 0..MaxFaults
    /\ disturbed \in [Procs -> BOOLEAN]

-----------------------------------------------------------------------------
(* Helpers of the plan *)

\* Mutant: a named target is skipped when it is disabled.
Selected_EnabledOnly(s, target) == Enabled(s) \cap (IF target = All THEN Instances ELSE {target})

\* selectTargetInstances: a named target is taken even when it is disabled.
Selected(s, target) == IF target = All THEN Enabled(s) ELSE {target}

InScope(target, i) == target = All \/ i = target

\* What the plan wants in each file: None where it wants no file.
DesiredFiles(cfg, target) ==
    [i \in Instances |-> IF i \in Selected(cfg.inst, target)
                         THEN Generated(cfg.global, cfg.inst, i) ELSE None]

\* Mutant: the hash of the file on disk is not compared.
DesiredAction_ManifestOnly(cfg, want, existing, i) ==
    IF existing.files[i] = None \/ disk[i] = None THEN "create"
    ELSE IF \/ existing.files[i].content # want
            \/ existing.config # cfg.global
            \/ existing.files[i].source # cfg.inst[i]
         THEN "update" ELSE "no-change"

\* desiredAction: a file nobody recorded, or that is gone, is created; any
\* difference between the plan, the manifest and the disk is an update.
DesiredAction(cfg, want, existing, i) ==
    IF existing.files[i] = None \/ disk[i] = None THEN "create"
    ELSE IF \/ disk[i] # want
            \/ existing.files[i].content # want
            \/ existing.config # cfg.global
            \/ existing.files[i].source # cfg.inst[i]
         THEN "update" ELSE "no-change"

\* buildChanges: recorded files of the target scope that are no longer
\* wanted are deleted; the rest of the manifest is left alone.
BuildChanges(cfg, target, desired, existing) ==
    [i \in Instances |->
        IF desired[i] # None THEN DesiredAction(cfg, desired[i], existing, i)
        ELSE IF existing.files[i] # None /\ InScope(target, i) THEN "delete"
        ELSE "none"]

\* Mutant: the entries of the other instances are not carried over.
AppliedManifest_TargetOnly(p) ==
    [config |-> loaded[p].global,
     files |-> [i \in Instances |->
        IF plan[p].desired[i] # None
        THEN [source |-> loaded[p].inst[i], content |-> plan[p].desired[i]]
        ELSE None]]

\* Mutant: the hash of config.yaml stays the one that was read.
AppliedManifest_OldConfig(p) ==
    [config |-> plan[p].existing.config,
     files |-> [i \in Instances |->
        IF plan[p].desired[i] # None
        THEN [source |-> loaded[p].inst[i], content |-> plan[p].desired[i]]
        ELSE IF ~InScope(job[p].target, i) THEN plan[p].existing.files[i]
        ELSE None]]

\* buildAppliedManifest: what the plan wanted, and for a named target the
\* entries of the other instances as they were when the plan was built.
AppliedManifest(p) ==
    [config |-> loaded[p].global,
     files |-> [i \in Instances |->
        IF plan[p].desired[i] # None
        THEN [source |-> loaded[p].inst[i], content |-> plan[p].desired[i]]
        ELSE IF ~InScope(job[p].target, i) THEN plan[p].existing.files[i]
        ELSE None]]

\* The next one in path order (and in the order of the service names).
First(S) == {i \in S : \A j \in S : i <= j}

\* Mutant: only the new files count, not the updated ones.
Wanted_NewOnly(p) == {i \in Instances : plan[p].action[i] = "create"}
Wanted(p) == {i \in Instances : plan[p].desired[i] # None}
Changed(p) == {i \in Instances : plan[p].action[i] \in Writes}

\* The history variable: p's write disturbs every other command.
DisturbedBy(p) == [q \in Procs |-> q # p \/ disturbed[q]]
EveryoneDisturbed == [q \in Procs |-> TRUE]

-----------------------------------------------------------------------------
Init ==
    /\ global \in Globals
    /\ inst \in ConfigSets /\ Loadable(inst)
    /\ disk = [i \in Instances |-> None]
    /\ manifest = NoManifest
    /\ running = [i \in Instances |-> Stopped]
    /\ pc = [p \in Procs |-> "idle"]
    /\ job = [p \in Procs |-> NoJob]
    /\ loaded = [p \in Procs |-> NoLoad]
    /\ plan = [p \in Procs |-> NoPlan]
    /\ todo = [p \in Procs |-> {}]
    /\ changes = 0 /\ faults = 0
    /\ disturbed = [p \in Procs |-> FALSE]

\* A command that ends forgets everything: it was a process of its own.
Forget(p, j) ==
    /\ job' = [job EXCEPT ![p] = j]
    /\ loaded' = [loaded EXCEPT ![p] = NoLoad]
    /\ plan' = [plan EXCEPT ![p] = NoPlan]
    /\ todo' = [todo EXCEPT ![p] = {}]

\* LoadAgentConfigSet, the first thing a command does; the target must exist.
Load(p, op, target) ==
    /\ Loadable(inst)
    /\ target # All => inst[target] # None
    /\ job' = [job EXCEPT ![p] = [op |-> op, target |-> target]]
    /\ loaded' = [loaded EXCEPT ![p] = [global |-> global, inst |-> inst]]
    /\ plan' = [plan EXCEPT ![p] = NoPlan]
    /\ todo' = [todo EXCEPT ![p] = {}]
    /\ disturbed' = [disturbed EXCEPT ![p] = FALSE]

\* sboxctl start [TARGET], sboxctl restart [TARGET].
Lifecycle(p) ==
    /\ pc[p] \in {"idle", "done"}
    /\ \E op \in Operations, target \in Targets : Load(p, op, target)
    /\ pc' = [pc EXCEPT ![p] = "plan"]
    /\ UNCHANGED <<config, runtime, running, changes, faults>>

\* BuildPlan, the part after loading: reads the manifest and hashes the files.
BuildPlan(p) ==
    /\ pc[p] = "plan"
    /\ LET desired == DesiredFiles(loaded[p], job[p].target)
       IN  plan' = [plan EXCEPT ![p] =
               [desired |-> desired,
                action |-> BuildChanges(loaded[p], job[p].target, desired, manifest),
                existing |-> manifest]]
    /\ pc' = [pc EXCEPT ![p] = "check"]
    /\ UNCHANGED <<config, runtime, running, job, loaded, todo, changes, faults, disturbed>>

\* CheckPlan: sing-box must accept every wanted file before anything is written.
\* A plan without changes skips ApplyPlan's writes, the manifest's included.
CheckPlan(p) ==
    /\ pc[p] = "check"
    /\ IF \A i \in Wanted(p) : Accepts(plan[p].desired[i])
       THEN /\ IF Changed(p) # {}
               THEN /\ pc' = [pc EXCEPT ![p] = "apply"]
                    /\ todo' = [todo EXCEPT ![p] = Changed(p)]
               ELSE /\ pc' = [pc EXCEPT ![p] = "services"]
                    /\ todo' = [todo EXCEPT ![p] = Wanted(p)]
            /\ UNCHANGED <<job, loaded, plan>>
       ELSE /\ pc' = [pc EXCEPT ![p] = "idle"]
            /\ Forget(p, NoJob)
    /\ UNCHANGED <<config, runtime, running, changes, faults, disturbed>>

\* ApplyPlan's loop: the changes in path order, each one an atomic rename or
\* remove; the wanted content is None exactly when the action is a delete.
ApplyChange(p) ==
    /\ pc[p] = "apply"
    /\ \E i \in First(todo[p]) :
          /\ disk' = [disk EXCEPT ![i] = plan[p].desired[i]]
          /\ todo' = [todo EXCEPT ![p] = @ \ {i}]
    /\ disturbed' = DisturbedBy(p)
    /\ UNCHANGED <<config, manifest, running, pc, job, loaded, plan, changes, faults>>

\* The end of ApplyPlan: the manifest is replaced as a whole.
WriteManifest(p) ==
    /\ pc[p] = "apply" /\ todo[p] = {}
    /\ manifest' = AppliedManifest(p)
    /\ pc' = [pc EXCEPT ![p] = "services"]
    /\ todo' = [todo EXCEPT ![p] = Wanted(p)]
    /\ disturbed' = DisturbedBy(p)
    /\ UNCHANGED <<config, disk, running, job, loaded, plan, changes, faults>>

\* Mutant: a start without a file is not an error.
Started_Unread(i) == disk[i]

\* A service reads its file when it starts, and fails without one.
Started(i) == IF disk[i] = None THEN Stopped ELSE disk[i]

\* Manager.Run: the services in name order.  "systemctl start" leaves a
\* running unit as it is; "systemctl restart" and "launchctl kickstart -k"
\* start it again.
RunService(p) ==
    /\ pc[p] = "services"
    /\ \E i \in First(todo[p]) :
          /\ running' = [running EXCEPT ![i] =
                 IF Systemd /\ job[p].op = "start" /\ @ # Stopped THEN @ ELSE Started(i)]
          /\ todo' = [todo EXCEPT ![p] = @ \ {i}]
    /\ disturbed' = DisturbedBy(p)
    /\ UNCHANGED <<config, runtime, pc, job, loaded, plan, changes, faults>>

Finish(p) ==
    /\ pc[p] = "services" /\ todo[p] = {}
    /\ pc' = [pc EXCEPT ![p] = "done"]
    /\ UNCHANGED <<config, runtime, running, job, loaded, plan, todo, changes, faults, disturbed>>

\* The command is killed, or its next step fails: it stops where it is.
Abort(p) ==
    /\ pc[p] \notin {"idle", "done"}
    /\ faults < MaxFaults
    /\ faults' = faults + 1
    /\ pc' = [pc EXCEPT ![p] = "idle"]
    /\ Forget(p, NoJob)
    /\ UNCHANGED <<config, runtime, running, changes, disturbed>>

-----------------------------------------------------------------------------
(* Changes of the configuration *)

\* sboxctl config NAME: the draft alone is validated, not the set it joins.
EditInstance(p) ==
    /\ pc[p] \in {"idle", "done"}
    /\ changes < MaxChanges /\ changes' = changes + 1
    /\ Loadable(inst)
    /\ \E i \in Present(inst), e \in Entry :
          /\ e # inst[i]
          /\ inst' = [inst EXCEPT ![i] = e]
          /\ Forget(p, [op |-> "edit", target |-> i])
    /\ pc' = [pc EXCEPT ![p] = "edited"]
    /\ disturbed' = DisturbedBy(p)
    /\ UNCHANGED <<global, runtime, running, faults>>

\* restartEditedInstanceIfRunning: nothing to do for a stopped service, an
\* error when the set no longer loads, otherwise a restart of that target.
RestartEdited(p) ==
    LET i == job[p].target IN
    /\ pc[p] = "edited"
    /\ IF running[i] # Stopped /\ Loadable(inst) /\ inst[i] # None
       THEN /\ Load(p, "restart", i)
            /\ pc' = [pc EXCEPT ![p] = "plan"]
       ELSE /\ pc' = [pc EXCEPT ![p] = "idle"]
            /\ Forget(p, NoJob)
            /\ UNCHANGED disturbed
    /\ UNCHANGED <<config, runtime, running, changes, faults>>

\* sboxctl config: the new global config is validated with every instance.
EditGlobal ==
    /\ changes < MaxChanges /\ changes' = changes + 1
    /\ Loadable(inst)
    /\ \E g \in Globals \ {global} : global' = g
    /\ disturbed' = EveryoneDisturbed
    /\ UNCHANGED <<inst, runtime, running, pc, job, loaded, plan, todo, faults>>

\* sboxctl add, clone, member add, member remove: the new or changed instance
\* is validated with the set it joins; nothing is restarted.
WriteInstance ==
    /\ changes < MaxChanges /\ changes' = changes + 1
    /\ Loadable(inst)
    /\ \E i \in Instances, e \in Entry :
          /\ e # inst[i]
          /\ inst' = [inst EXCEPT ![i] = e]
          /\ Loadable(inst')
    /\ disturbed' = EveryoneDisturbed
    /\ UNCHANGED <<global, runtime, running, pc, job, loaded, plan, todo, faults>>

\* sboxctl remove NAME [--purge]: the rest of the set is not validated.
RemoveInstance(p) ==
    /\ pc[p] \in {"idle", "done"}
    /\ changes < MaxChanges /\ changes' = changes + 1
    /\ Loadable(inst)
    /\ \E i \in Present(inst), purge \in BOOLEAN :
          /\ inst' = [inst EXCEPT ![i] = None]
          /\ IF purge
             THEN /\ pc' = [pc EXCEPT ![p] = "purge"]
                  /\ Forget(p, [op |-> "remove", target |-> i])
             ELSE /\ pc' = [pc EXCEPT ![p] = "idle"]
                  /\ Forget(p, NoJob)
    /\ disturbed' = DisturbedBy(p)
    /\ UNCHANGED <<global, runtime, running, faults>>

\* The second step of remove --purge: the file goes, its manifest entry stays.
PurgeGenerated(p) ==
    /\ pc[p] = "purge"
    /\ disk' = [disk EXCEPT ![job[p].target] = None]
    /\ pc' = [pc EXCEPT ![p] = "idle"]
    /\ Forget(p, NoJob)
    /\ disturbed' = DisturbedBy(p)
    /\ UNCHANGED <<config, manifest, running, changes, faults>>

-----------------------------------------------------------------------------
(* Services *)

\* sboxctl stop [TARGET], one service of it.
StopService ==
    /\ changes < MaxChanges /\ changes' = changes + 1
    /\ Loadable(inst)
    /\ \E i \in Present(inst) :
          /\ running[i] # Stopped
          /\ running' = [running EXCEPT ![i] = Stopped]
    /\ disturbed' = EveryoneDisturbed
    /\ UNCHANGED <<config, runtime, pc, job, loaded, plan, todo, faults>>

\* The process dies; Restart=on-failure brings it back, or systemd gives up.
Respawn ==
    /\ faults < MaxFaults /\ faults' = faults + 1
    /\ \E i \in Instances, stays \in BOOLEAN :
          /\ running[i] # Stopped
          /\ running' = [running EXCEPT ![i] = IF stays THEN Started(i) ELSE Stopped]
    /\ disturbed' = EveryoneDisturbed
    /\ UNCHANGED <<config, runtime, pc, job, loaded, plan, todo, changes>>

Command(p) == \/ Lifecycle(p) \/ BuildPlan(p) \/ CheckPlan(p) \/ ApplyChange(p)
              \/ WriteManifest(p) \/ RunService(p) \/ Finish(p) \/ Abort(p)
              \/ EditInstance(p) \/ RestartEdited(p)
              \/ RemoveInstance(p) \/ PurgeGenerated(p)

Next == \/ \E p \in Procs : Command(p)
        \/ EditGlobal \/ WriteInstance \/ StopService \/ Respawn

Spec == Init /\ [][Next]_vars

-----------------------------------------------------------------------------
(* Properties *)

\* Nothing that sing-box did not accept is ever in a generated file or in a
\* running service, whatever commands overlap and wherever they die:
\* CheckPlan comes before the first write and ApplyPlan writes what it checked.
OnlyChecked ==
    \A i \in Instances :
        /\ disk[i] # None => Accepts(disk[i])
        /\ running[i] # Stopped => Accepts(running[i])

Quiet(p) == pc[p] = "done" /\ ~disturbed[p]

\* A start or restart nobody disturbed leaves every selected instance as the
\* configuration has it, in the file, in the manifest and in the service
\* (systemd's start, which leaves a running unit alone, only promises that
\* the unit runs), and a full one leaves no other entry nor recorded file:
\* whatever earlier commands left behind half done, the plan repairs it.
QuietRunConverges ==
    \A p \in Procs : Quiet(p) =>
        LET target == job[p].target
            want == DesiredFiles([global |-> global, inst |-> inst], target)
            selected == Selected(inst, target)
        IN  /\ \A i \in selected :
                  /\ disk[i] = want[i]
                  /\ manifest.files[i] = [source |-> inst[i], content |-> want[i]]
                  /\ running[i] # Stopped
                  /\ job[p].op = "restart" \/ ~Systemd => running[i] = want[i]
            /\ target = All => \A i \in Instances \ selected :
                  /\ manifest.files[i] = None
                  /\ plan[p].existing.files[i] # None => disk[i] = None

\* After it, the same command again finds nothing to change, and neither does
\* the command for one of the instances a full run covered ("no-change").
QuietRunIsIdempotent ==
    \A p \in Procs : Quiet(p) =>
        LET cfg == [global |-> global, inst |-> inst] IN
        \A target \in {job[p].target} \cup Selected(inst, job[p].target) :
            LET action == BuildChanges(cfg, target, DesiredFiles(cfg, target), manifest)
            IN  \A i \in Instances : action[i] \notin Writes

\* As long as no command was cut short, a generated file the manifest does
\* not know of exists only while an apply is under way; no later full run
\* would delete it.  It takes commands that do not overlap.
NoOrphans ==
    faults = 0 /\ (\A p \in Procs : pc[p] # "apply") =>
        \A i \in Instances : disk[i] # None => manifest.files[i] # None

\* A command for one target leaves the other instances' manifest entries as
\* they are.  It takes commands that do not overlap: the manifest is rewritten
\* from the copy read when the plan was built.
TargetScope ==
    [][\A p \in Procs : WriteManifest(p) /\ job[p].target # All =>
          \A i \in Instances \ {job[p].target} : manifest'.files[i] = manifest.files[i]]_vars

\* The refinement mapping: the contents the manifest records.
Catalogue == [i \in Instances |->
    IF manifest.files[i] = None THEN None ELSE manifest.files[i].content]

Published == INSTANCE Deployment WITH catalogue <- Catalogue

\* The manifest implements the abstract deployment: it moves from one complete
\* deployment of a configuration that was loaded to the next.
ImplementsDeployment == Published!Spec
=============================================================================
