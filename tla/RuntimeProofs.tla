---------------------------- MODULE RuntimeProofs ----------------------------
(***************************************************************************)
(* Proofs about Runtime, for every set of instances, configurations and    *)
(* concurrent commands.                                                    *)
(***************************************************************************)
EXTENDS Runtime, TLAPS

\* What a command that has loaded its configuration set knows about it.
LoadedOK(p) ==
    pc[p] \in {"plan", "check", "apply", "services", "done"} =>
        /\ loaded[p].global \in Globals
        /\ Loadable(loaded[p].inst)
        /\ job[p].target # All => loaded[p].inst[job[p].target] # None

\* Its plan, once built, wants what its own configuration generates.
PlannedOK(p) ==
    pc[p] \in {"check", "apply", "services", "done"} =>
        plan[p].desired = DesiredFiles(loaded[p], job[p].target)

\* Past the check, all of it is accepted.
CheckedOK(p) ==
    pc[p] \in {"apply", "services", "done"} =>
        \A i \in Instances : plan[p].desired[i] # None => Accepts(plan[p].desired[i])

\* The steps that follow an edit or a purging removal concern one instance.
TargetedOK(p) == pc[p] \in {"edited", "purge"} => job[p].target \in Instances

SafeInv ==
    /\ TypeOK
    /\ \A p \in Procs : LoadedOK(p) /\ PlannedOK(p) /\ CheckedOK(p) /\ TargetedOK(p)
    /\ OnlyChecked

\* A selected instance is one of the set.
LEMMA SelectedPresent ==
    ASSUME NEW s \in ConfigSets, NEW t \in Targets, t # All => s[t] # None
    PROVE  Selected(s, t) \subseteq Present(s)
BY DEF Selected, Present, Enabled, Targets

\* The JSON of an instance of a loadable set is well formed: each of its
\* references finds an endpoint to copy.
LEMMA GeneratedType ==
    ASSUME NEW s \in ConfigSets, NEW g \in Globals, Loadable(s), NEW i \in Present(s)
    PROVE  Generated(g, s, i) \in Contents
<1> DEFINE b == s[i].body
           e == [r \in Refs[b] |-> Exposed[s[r].body]]
<1>1. s[i] \in Entry /\ b \in Bodies
  BY DEF ConfigSets, Present, Entry
<1>2. LogLevel[g] \in LogLevels
  BY ConfigAssumption
<1>3. ASSUME NEW r \in Refs[b] PROVE Exposed[s[r].body] \in Endpoints
  <2>1. r \in Present(s) /\ Exposed[s[r].body] # None
    BY DEF Loadable, RefsResolve
  <2>2. s[r].body \in Bodies
    BY <2>1 DEF ConfigSets, Present, Entry
  <2> QED BY <2>1, <2>2, ConfigAssumption
<1>4. e \in [Refs[b] -> Endpoints]
  BY <1>3
<1>5. Generated(g, s, i) = [log |-> LogLevel[g], body |-> b, endpoints |-> e]
  BY DEF Generated
<1>6. Generated(g, s, i) \in [log : LogLevels, body : {b}, endpoints : [Refs[b] -> Endpoints]]
  BY <1>2, <1>4, <1>5
<1> QED BY <1>1, <1>6 DEF Contents

\* So the plan's wanted files have the right type, and are exactly those of
\* the selected instances.
LEMMA DesiredType ==
    ASSUME NEW c \in Loads, NEW t \in Targets,
           c.global \in Globals, Loadable(c.inst), t # All => c.inst[t] # None
    PROVE  /\ DesiredFiles(c, t) \in [Instances -> Contents \cup {None}]
           /\ \A i \in Instances :
                 /\ i \in Selected(c.inst, t) => DesiredFiles(c, t)[i] = Generated(c.global, c.inst, i)
                 /\ DesiredFiles(c, t)[i] # None <=> i \in Selected(c.inst, t)
                 /\ DesiredFiles(c, t)[i] # None => c.inst[i] \in Entry
<1>1. c.inst \in ConfigSets
  BY DEF Loads
<1>2. Selected(c.inst, t) \subseteq Present(c.inst)
  BY <1>1, SelectedPresent
<1>3. \A i \in Selected(c.inst, t) : Generated(c.global, c.inst, i) \in Contents
  BY <1>1, <1>2, GeneratedType
<1>4. \A i \in Present(c.inst) : c.inst[i] \in Entry
  BY <1>1 DEF ConfigSets, Present
<1> QED BY <1>2, <1>3, <1>4, RuntimeAssumption DEF DesiredFiles

\* The invariant holds before any command.
LEMMA InitSafe == Init => SafeInv
<1> SUFFICES ASSUME Init PROVE SafeInv
  OBVIOUS
<1>1. NoManifest \in Manifests
  BY DEF NoManifest, Manifests
<1>2. NoPlan \in Plans /\ NoLoad \in Loads /\ NoJob \in Jobs
  BY <1>1 DEF NoPlan, Plans, Actions, Writes, NoLoad, Loads, ConfigSets, NoJob, Jobs, Targets
<1>3. TypeOK
  BY <1>1, <1>2, RuntimeAssumption DEF Init, TypeOK
<1> QED BY <1>3 DEF Init, SafeInv, LoadedOK, PlannedOK, CheckedOK, TargetedOK, OnlyChecked

\* Forgetting and loading keep the types.
LEMMA ForgetType ==
    ASSUME TypeOK, NEW p \in Procs, NEW j \in Jobs, Forget(p, j)
    PROVE  /\ job' \in [Procs -> Jobs]
           /\ loaded' \in [Procs -> Loads]
           /\ plan' \in [Procs -> Plans]
           /\ todo' \in [Procs -> SUBSET Instances]
<1>1. NoManifest \in Manifests
  BY DEF NoManifest, Manifests
<1>2. NoPlan \in Plans /\ NoLoad \in Loads
  BY <1>1 DEF NoPlan, Plans, Actions, Writes, NoLoad, Loads, ConfigSets
<1> QED BY <1>2 DEF Forget, TypeOK

\* A load keeps the types, and the command then holds what was on disk.
LEMMA LoadType ==
    ASSUME TypeOK, NEW p \in Procs, NEW op \in {"start", "restart"}, NEW t \in Targets,
           Load(p, op, t)
    PROVE  /\ job' \in [Procs -> Jobs]
           /\ loaded' \in [Procs -> Loads]
           /\ plan' \in [Procs -> Plans]
           /\ todo' \in [Procs -> SUBSET Instances]
           /\ disturbed' \in [Procs -> BOOLEAN]
           /\ loaded'[p] = [global |-> global, inst |-> inst]
           /\ job'[p] = [op |-> op, target |-> t]
<1>1. NoManifest \in Manifests
  BY DEF NoManifest, Manifests
<1>2. NoPlan \in Plans
  BY <1>1 DEF NoPlan, Plans, Actions, Writes
<1>3. [global |-> global, inst |-> inst] \in Loads
  BY DEF TypeOK, Loads
<1>4. [op |-> op, target |-> t] \in Jobs
  BY DEF Jobs
<1> QED BY <1>2, <1>3, <1>4 DEF Load, TypeOK

\* The facts about a command only depend on its own part of the state.
LEMMA CommandFrame ==
    ASSUME NEW q \in Procs,
           pc'[q] = pc[q], job'[q] = job[q], loaded'[q] = loaded[q], plan'[q] = plan[q],
           LoadedOK(q), PlannedOK(q), CheckedOK(q), TargetedOK(q)
    PROVE  LoadedOK(q)' /\ PlannedOK(q)' /\ CheckedOK(q)' /\ TargetedOK(q)'
BY DEF LoadedOK, PlannedOK, CheckedOK, TargetedOK, DesiredFiles

\* No step of any command, of the operator or of a service leaves the types.
THEOREM TypeStep == SafeInv /\ [Next]_vars => TypeOK'
<1> SUFFICES ASSUME SafeInv, [Next]_vars PROVE TypeOK'
  OBVIOUS
<1> USE DEF SafeInv
<1>1. CASE UNCHANGED vars
  BY <1>1 DEF vars, TypeOK
<1>2. ASSUME NEW p \in Procs, Lifecycle(p) PROVE TypeOK'
  <2>1. PICK op \in {"start", "restart"}, t \in Targets : Load(p, op, t)
    BY <1>2, RuntimeAssumption DEF Lifecycle
  <2> QED BY <1>2, <2>1, LoadType DEF Lifecycle, TypeOK, config, runtime
<1>3. ASSUME NEW p \in Procs, BuildPlan(p) PROVE TypeOK'
  <2> DEFINE d == DesiredFiles(loaded[p], job[p].target)
             a == BuildChanges(loaded[p], job[p].target, d, manifest)
  <2>1. d \in [Instances -> Contents \cup {None}]
    BY <1>3, DesiredType DEF BuildPlan, LoadedOK, TypeOK, Jobs
  <2>2. a \in [Instances -> Actions]
    BY DEF BuildChanges, DesiredAction, Actions, Writes
  <2>3. [desired |-> d, action |-> a, existing |-> manifest] \in Plans
    BY <2>1, <2>2 DEF Plans, TypeOK
  <2>4. plan' \in [Procs -> Plans]
    BY <1>3, <2>3 DEF BuildPlan, TypeOK
  <2>5. pc' \in [Procs -> {"idle", "plan", "check", "apply", "services", "done", "edited", "purge"}]
    BY <1>3 DEF BuildPlan, TypeOK
  <2> QED BY <1>3, <2>4, <2>5 DEF BuildPlan, TypeOK, config, runtime
<1>4. ASSUME NEW p \in Procs, CheckPlan(p) PROVE TypeOK'
  <2>1. NoJob \in Jobs
    BY DEF NoJob, Jobs, Targets
  <2>2. CASE Forget(p, NoJob)
    BY <1>4, <2>1, <2>2, ForgetType DEF CheckPlan, TypeOK, config, runtime
  <2>3. CASE ~Forget(p, NoJob)
    BY <1>4, <2>3 DEF CheckPlan, TypeOK, config, runtime, Changed, Wanted
  <2> QED BY <2>2, <2>3
<1>5. ASSUME NEW p \in Procs, ApplyChange(p) PROVE TypeOK'
  <2>1. plan[p].desired \in [Instances -> Contents \cup {None}]
    BY DEF TypeOK, Plans
  <2> QED BY <1>5, <2>1 DEF ApplyChange, TypeOK, config, First, DisturbedBy
<1>6. ASSUME NEW p \in Procs, WriteManifest(p) PROVE TypeOK'
  <2>1. AppliedManifest(p) \in Manifests
    <3>1. /\ plan[p].desired \in [Instances -> Contents \cup {None}]
          /\ plan[p].existing.files \in [Instances -> ManifestFile \cup {None}]
          /\ loaded[p].global \in Globals \cup {None}
      BY DEF TypeOK, Plans, Manifests, Loads
    <3>2. \A i \in Instances : plan[p].desired[i] # None => loaded[p].inst[i] \in Entry
      BY <1>6, DesiredType DEF WriteManifest, LoadedOK, PlannedOK, TypeOK, Jobs
    <3>3. \A i \in Instances : plan[p].desired[i] # None =>
             [source |-> loaded[p].inst[i], content |-> plan[p].desired[i]] \in ManifestFile
      BY <3>1, <3>2 DEF ManifestFile
    <3> QED BY <3>1, <3>3 DEF AppliedManifest, Manifests
  <2> QED BY <1>6, <2>1 DEF WriteManifest, TypeOK, config, Wanted, DisturbedBy
<1>7. ASSUME NEW p \in Procs, RunService(p) PROVE TypeOK'
  <2>1. \A i \in Instances : Started(i) \in Contents \cup {Stopped}
    BY DEF Started, TypeOK
  <2> QED BY <1>7, <2>1 DEF RunService, TypeOK, config, runtime, First, DisturbedBy
<1>8. ASSUME NEW p \in Procs, Finish(p) PROVE TypeOK'
  BY <1>8 DEF Finish, TypeOK, config, runtime
<1>9. ASSUME NEW p \in Procs, Abort(p) PROVE TypeOK'
  <2>1. NoJob \in Jobs
    BY DEF NoJob, Jobs, Targets
  <2> QED BY <1>9, <2>1, ForgetType, RuntimeAssumption DEF Abort, TypeOK, config, runtime
<1>10. ASSUME NEW p \in Procs, EditInstance(p) PROVE TypeOK'
  <2>1. PICK i \in Present(inst), e \in Entry :
           inst' = [inst EXCEPT ![i] = e] /\ Forget(p, [op |-> "edit", target |-> i])
    BY <1>10 DEF EditInstance
  <2>2. [op |-> "edit", target |-> i] \in Jobs /\ i \in Instances
    BY <2>1 DEF Jobs, Targets, Present
  <2>3. inst' \in ConfigSets
    BY <2>1, <2>2 DEF ConfigSets, TypeOK
  <2> QED BY <1>10, <2>1, <2>2, <2>3, ForgetType, RuntimeAssumption
        DEF EditInstance, TypeOK, runtime, DisturbedBy
<1>11. ASSUME NEW p \in Procs, RestartEdited(p) PROVE TypeOK'
  <2>1. CASE Load(p, "restart", job[p].target)
    BY <1>11, <2>1, LoadType DEF RestartEdited, TypeOK, config, runtime, Jobs
  <2>2. CASE Forget(p, NoJob) /\ UNCHANGED disturbed
    <3>1. NoJob \in Jobs
      BY DEF NoJob, Jobs, Targets
    <3> QED BY <1>11, <2>2, <3>1, ForgetType DEF RestartEdited, TypeOK, config, runtime
  <2> QED BY <1>11, <2>1, <2>2 DEF RestartEdited
<1>12. ASSUME NEW p \in Procs, RemoveInstance(p) PROVE TypeOK'
  <2>1. PICK i \in Present(inst) :
           /\ inst' = [inst EXCEPT ![i] = None]
           /\ \/ Forget(p, [op |-> "remove", target |-> i]) /\ pc' = [pc EXCEPT ![p] = "purge"]
              \/ Forget(p, NoJob) /\ pc' = [pc EXCEPT ![p] = "idle"]
    BY <1>12 DEF RemoveInstance
  <2>2. [op |-> "remove", target |-> i] \in Jobs /\ NoJob \in Jobs /\ i \in Instances
    BY <2>1 DEF Jobs, Targets, Present, NoJob
  <2>3. inst' \in ConfigSets
    BY <2>1, <2>2 DEF ConfigSets, TypeOK
  <2> QED BY <1>12, <2>1, <2>2, <2>3, ForgetType, RuntimeAssumption
        DEF RemoveInstance, TypeOK, runtime, DisturbedBy
<1>13. ASSUME NEW p \in Procs, PurgeGenerated(p) PROVE TypeOK'
  <2>1. NoJob \in Jobs
    BY DEF NoJob, Jobs, Targets
  <2> QED BY <1>13, <2>1, ForgetType DEF PurgeGenerated, TypeOK, config, DisturbedBy
<1>14. CASE EditGlobal
  BY <1>14, RuntimeAssumption DEF EditGlobal, TypeOK, runtime, EveryoneDisturbed
<1>15. CASE WriteInstance
  BY <1>15, RuntimeAssumption
     DEF WriteInstance, TypeOK, ConfigSets, runtime, EveryoneDisturbed
<1>16. CASE StopService
  BY <1>16, RuntimeAssumption
     DEF StopService, TypeOK, Present, config, runtime, EveryoneDisturbed
<1>17. CASE Respawn
  <2>1. \A i \in Instances : Started(i) \in Contents \cup {Stopped}
    BY DEF Started, TypeOK
  <2> QED BY <1>17, <2>1, RuntimeAssumption
        DEF Respawn, TypeOK, config, runtime, EveryoneDisturbed
<1> QED BY <1>1, <1>2, <1>3, <1>4, <1>5, <1>6, <1>7, <1>8, <1>9, <1>10, <1>11, <1>12,
           <1>13, <1>14, <1>15, <1>16, <1>17 DEF Next, Command

-----------------------------------------------------------------------------
(* Only checked contents are installed *)

CommandOK(q) == LoadedOK(q) /\ PlannedOK(q) /\ CheckedOK(q) /\ TargetedOK(q)

\* A command that is idle after its step, or has just loaded, is in order.
LEMMA IdleOK ==
    ASSUME NEW q \in Procs, pc'[q] \in {"idle"}
    PROVE  CommandOK(q)'
BY DEF CommandOK, LoadedOK, PlannedOK, CheckedOK, TargetedOK

\* A command that has just loaded holds a loadable set with its target in it.
LEMMA JustLoadedOK ==
    ASSUME TypeOK, NEW p \in Procs, NEW op \in {"start", "restart"}, NEW t \in Targets,
           Load(p, op, t), pc'[p] = "plan"
    PROVE  CommandOK(p)'
<1>1. loaded'[p] = [global |-> global, inst |-> inst] /\ job'[p] = [op |-> op, target |-> t]
  BY LoadType
<1>2. loaded'[p].global \in Globals /\ Loadable(loaded'[p].inst)
  BY <1>1 DEF Load, TypeOK
<1>3. job'[p].target # All => loaded'[p].inst[job'[p].target] # None
  BY <1>1 DEF Load
<1> QED BY <1>2, <1>3
      DEF CommandOK, LoadedOK, PlannedOK, CheckedOK, TargetedOK, Loadable, RefsResolve,
          PortsDistinct

\* Every step keeps what each command knows about its own load, plan and check.
THEOREM CommandStep == SafeInv /\ [Next]_vars => \A q \in Procs : CommandOK(q)'
<1> SUFFICES ASSUME SafeInv, [Next]_vars, NEW q \in Procs PROVE CommandOK(q)'
  OBVIOUS
<1>0. CommandOK(q) /\ TypeOK
  BY DEF SafeInv, CommandOK
<1>1. ASSUME pc'[q] = pc[q], job'[q] = job[q], loaded'[q] = loaded[q], plan'[q] = plan[q]
      PROVE CommandOK(q)'
  BY <1>0, <1>1, CommandFrame DEF CommandOK
<1>2. CASE UNCHANGED vars
  BY <1>1, <1>2 DEF vars
<1>3. CASE EditGlobal \/ WriteInstance \/ StopService \/ Respawn
  BY <1>1, <1>3 DEF EditGlobal, WriteInstance, StopService, Respawn
<1>4. ASSUME NEW p \in Procs, Command(p), p # q PROVE CommandOK(q)'
  <2>1. /\ pc' = [pc EXCEPT ![p] = pc'[p]] /\ job' = [job EXCEPT ![p] = job'[p]]
        /\ loaded' = [loaded EXCEPT ![p] = loaded'[p]] /\ plan' = [plan EXCEPT ![p] = plan'[p]]
    BY <1>0, <1>4
       DEF Command, Lifecycle, BuildPlan, CheckPlan, ApplyChange, WriteManifest, RunService,
           Finish, Abort, EditInstance, RestartEdited, RemoveInstance, PurgeGenerated, Load,
           Forget, TypeOK
  <2> QED BY <1>0, <1>1, <1>4, <2>1 DEF TypeOK
<1>5. ASSUME Command(q) PROVE CommandOK(q)'
  <2>1. CASE Lifecycle(q)
    BY <1>0, <2>1, JustLoadedOK, RuntimeAssumption DEF Lifecycle, TypeOK
  <2>2. CASE BuildPlan(q)
    BY <1>0, <2>2
       DEF BuildPlan, TypeOK, CommandOK, LoadedOK, PlannedOK, CheckedOK, TargetedOK, DesiredFiles
  <2>3. CASE CheckPlan(q)
    <3>1. CASE \A i \in Wanted(q) : Accepts(plan[q].desired[i])
      BY <1>0, <2>3, <3>1
         DEF CheckPlan, TypeOK, CommandOK, LoadedOK, PlannedOK, CheckedOK, TargetedOK,
             DesiredFiles, Wanted
    <3>2. CASE ~\A i \in Wanted(q) : Accepts(plan[q].desired[i])
      BY <1>0, <2>3, <3>2, IdleOK DEF CheckPlan, TypeOK
    <3> QED BY <3>1, <3>2
  <2>4. CASE ApplyChange(q)
    BY <1>1, <2>4 DEF ApplyChange
  <2>5. CASE WriteManifest(q)
    BY <1>0, <2>5
       DEF WriteManifest, TypeOK, CommandOK, LoadedOK, PlannedOK, CheckedOK, TargetedOK,
           DesiredFiles
  <2>6. CASE RunService(q)
    BY <1>1, <2>6 DEF RunService
  <2>7. CASE Finish(q)
    BY <1>0, <2>7
       DEF Finish, TypeOK, CommandOK, LoadedOK, PlannedOK, CheckedOK, TargetedOK, DesiredFiles
  <2>8. CASE Abort(q) \/ PurgeGenerated(q)
    BY <1>0, <2>8, IdleOK DEF Abort, PurgeGenerated, TypeOK
  <2>9. CASE EditInstance(q)
    BY <1>0, <2>9
       DEF EditInstance, Forget, Present, TypeOK, CommandOK, LoadedOK, PlannedOK, CheckedOK,
           TargetedOK
  <2>10. CASE RestartEdited(q)
    <3>1. CASE Load(q, "restart", job[q].target) /\ pc' = [pc EXCEPT ![q] = "plan"]
      BY <1>0, <3>1, JustLoadedOK DEF TypeOK, Jobs
    <3>2. CASE pc' = [pc EXCEPT ![q] = "idle"]
      BY <1>0, <3>2, IdleOK DEF TypeOK
    <3> QED BY <2>10, <3>1, <3>2 DEF RestartEdited
  <2>11. CASE RemoveInstance(q)
    <3>1. PICK i \in Present(inst) :
             \/ Forget(q, [op |-> "remove", target |-> i]) /\ pc' = [pc EXCEPT ![q] = "purge"]
             \/ pc' = [pc EXCEPT ![q] = "idle"]
      BY <2>11 DEF RemoveInstance
    <3> QED BY <1>0, <3>1, IdleOK
          DEF Forget, Present, TypeOK, CommandOK, LoadedOK, PlannedOK, CheckedOK, TargetedOK
  <2> QED BY <1>5, <2>1, <2>2, <2>3, <2>4, <2>5, <2>6, <2>7, <2>8, <2>9, <2>10, <2>11
        DEF Command
<1> QED BY <1>2, <1>3, <1>4, <1>5 DEF Next

\* Every step keeps unaccepted contents out of the files and the services:
\* writes come after CheckPlan, and a service starts from a file.
THEOREM CheckedStep == SafeInv /\ [Next]_vars => OnlyChecked'
<1> SUFFICES ASSUME SafeInv, [Next]_vars PROVE OnlyChecked'
  OBVIOUS
<1>0. TypeOK /\ OnlyChecked /\ \A p \in Procs : CheckedOK(p)
  BY DEF SafeInv
<1>1. ASSUME UNCHANGED <<disk, running>> PROVE OnlyChecked'
  BY <1>0, <1>1 DEF OnlyChecked
<1>2. ASSUME NEW i \in Instances, running' = [running EXCEPT ![i] = Started(i)],
             UNCHANGED disk
      PROVE OnlyChecked'
  BY <1>0, <1>2 DEF OnlyChecked, Started, TypeOK
<1>3. ASSUME NEW i \in Instances, running' = [running EXCEPT ![i] = Stopped], UNCHANGED disk
      PROVE OnlyChecked'
  BY <1>0, <1>3 DEF OnlyChecked, TypeOK
<1>4. ASSUME NEW p \in Procs, ApplyChange(p) PROVE OnlyChecked'
  <2>1. PICK i \in First(todo[p]) : disk' = [disk EXCEPT ![i] = plan[p].desired[i]]
    BY <1>4 DEF ApplyChange
  <2>2. i \in Instances /\ (plan[p].desired[i] # None => Accepts(plan[p].desired[i]))
    BY <1>0, <1>4, <2>1 DEF ApplyChange, CheckedOK, First, TypeOK
  <2> QED BY <1>0, <1>4, <2>1, <2>2 DEF ApplyChange, OnlyChecked, TypeOK
<1>5. ASSUME NEW p \in Procs, RunService(p) PROVE OnlyChecked'
  <2>1. PICK i \in First(todo[p]) :
           running' = [running EXCEPT ![i] =
                 IF Systemd /\ job[p].op = "start" /\ @ # Stopped THEN @ ELSE Started(i)]
    BY <1>5 DEF RunService
  <2>2. i \in Instances /\ UNCHANGED disk
    BY <1>0, <1>5, <2>1 DEF RunService, First, TypeOK, runtime
  <2>3. CASE Systemd /\ job[p].op = "start" /\ running[i] # Stopped
    BY <1>0, <2>1, <2>2, <2>3 DEF OnlyChecked, TypeOK
  <2>4. CASE ~(Systemd /\ job[p].op = "start" /\ running[i] # Stopped)
    BY <1>2, <2>1, <2>2, <2>4
  <2> QED BY <2>3, <2>4
<1>6. ASSUME NEW p \in Procs, PurgeGenerated(p) PROVE OnlyChecked'
  BY <1>0, <1>6 DEF PurgeGenerated, OnlyChecked, TypeOK
<1>7. CASE StopService
  BY <1>3, <1>7 DEF StopService, Present, runtime
<1>8. CASE Respawn
  BY <1>2, <1>3, <1>8 DEF Respawn, runtime
<1>9. ASSUME NEW p \in Procs, Command(p), ~ApplyChange(p), ~RunService(p), ~PurgeGenerated(p)
      PROVE OnlyChecked'
  BY <1>1, <1>9
     DEF Command, Lifecycle, BuildPlan, CheckPlan, WriteManifest, Finish, Abort, EditInstance,
         RestartEdited, RemoveInstance, runtime
<1>10. CASE UNCHANGED vars \/ EditGlobal \/ WriteInstance
  BY <1>1, <1>10 DEF vars, EditGlobal, WriteInstance, runtime
<1> QED BY <1>4, <1>5, <1>6, <1>7, <1>8, <1>9, <1>10 DEF Next

\* What a command loaded, planned and had accepted stays true of it, and nothing
\* unaccepted is installed, in every reachable state.
THEOREM SafeInduction == Spec => []SafeInv
<1>1. Init => SafeInv
  BY InitSafe
<1>2. SafeInv /\ [Next]_vars => SafeInv'
  BY TypeStep, CommandStep, CheckedStep DEF SafeInv, CommandOK
<1> QED BY <1>1, <1>2, PTL DEF Spec

\* Every reachable state is well typed.
THEOREM TypeCorrect == Spec => []TypeOK
<1>1. SafeInv => TypeOK
  BY DEF SafeInv
<1> QED BY <1>1, SafeInduction, PTL

\* For any number of overlapping commands and crashes, what sing-box did not
\* accept is never installed and never run.
THEOREM OnlyCheckedAlways == Spec => []OnlyChecked
<1>1. SafeInv => OnlyChecked
  BY DEF SafeInv
<1> QED BY <1>1, SafeInduction, PTL

-----------------------------------------------------------------------------
(* A run nobody disturbed converges *)

\* The file and the manifest entry of an instance are as command p wants them.
FileSettled(p, i) ==
    /\ disk[i] = plan[p].desired[i]
    /\ manifest.files[i] = [source |-> loaded[p].inst[i], content |-> plan[p].desired[i]]
    /\ manifest.config = loaded[p].global

Retired(p, i) ==
    /\ manifest.files[i] = None
    /\ plan[p].existing.files[i] # None => disk[i] = None

ServiceSettled(p, i) ==
    /\ running[i] # Stopped
    /\ job[p].op = "restart" \/ ~Systemd => running[i] = plan[p].desired[i]

\* What the actions of a plan mean in the state it was built in: a wanted file
\* that is not written is already settled, and an unwanted recorded file of
\* the scope is deleted.
PlanSound(p) ==
    \A i \in Instances :
        LET action == plan[p].action[i] IN
        /\ plan[p].desired[i] # None =>
              action \in {"create", "update"} \/ (action = "no-change" /\ FileSettled(p, i))
        /\ plan[p].desired[i] = None =>
              action = IF plan[p].existing.files[i] # None /\ InScope(job[p].target, i)
                       THEN "delete" ELSE "none"

\* While the changes are applied, those done have their content, and the
\* files that needed no change are still settled.
ApplySound(p) ==
    \A i \in Instances :
        LET action == plan[p].action[i] IN
        /\ plan[p].desired[i] # None =>
              /\ action \in {"create", "update", "no-change"}
              /\ action = "no-change" => FileSettled(p, i)
        /\ plan[p].desired[i] = None =>
              action = IF plan[p].existing.files[i] # None /\ InScope(job[p].target, i)
                       THEN "delete" ELSE "none"
        /\ i \in Changed(p) \ todo[p] => disk[i] = plan[p].desired[i]

ServicesSound(p) ==
    /\ \A i \in Wanted(p) : FileSettled(p, i)
    /\ \A i \in Wanted(p) \ todo[p] : ServiceSettled(p, i)
    /\ job[p].target = All => \A i \in Instances \ Wanted(p) : Retired(p, i)

Current(p) == loaded[p].global = global /\ loaded[p].inst = inst

QuietOK(p) ==
    ~disturbed[p] =>
        /\ pc[p] \in {"plan", "check", "apply", "services", "done"} =>
              Current(p) /\ job[p].op \in {"start", "restart"}
        /\ pc[p] \in {"check", "apply"} => plan[p].existing = manifest
        /\ pc[p] = "check" => PlanSound(p)
        /\ pc[p] = "apply" => ApplySound(p)
        /\ pc[p] \in {"services", "done"} => ServicesSound(p)
        /\ pc[p] = "done" => todo[p] = {}

QuietInv == \A p \in Procs : QuietOK(p)

\* A step that leaves a command and all it depends on alone keeps the facts of
\* its run.
LEMMA QuietFrame ==
    ASSUME NEW q \in Procs, QuietOK(q),
           pc'[q] = pc[q], job'[q] = job[q], loaded'[q] = loaded[q], plan'[q] = plan[q],
           todo'[q] = todo[q], disturbed'[q] = disturbed[q],
           UNCHANGED <<config, runtime, running>>
    PROVE  QuietOK(q)'
BY DEF QuietOK, Current, PlanSound, ApplySound, ServicesSound, FileSettled, Retired,
       ServiceSettled, Changed, Wanted, InScope, config, runtime

\* The plan built from the current manifest and files is sound.
LEMMA BuildPlanSound ==
    ASSUME SafeInv, NEW q \in Procs, BuildPlan(q), Current(q)
    PROVE  PlanSound(q)'
<1> DEFINE d == DesiredFiles(loaded[q], job[q].target)
           a == BuildChanges(loaded[q], job[q].target, d, manifest)
<1>1. plan'[q] = [desired |-> d, action |-> a, existing |-> manifest]
  BY DEF BuildPlan, SafeInv, TypeOK
<1>2. UNCHANGED <<disk, manifest, job, loaded>>
  BY DEF BuildPlan, runtime
<1> SUFFICES ASSUME NEW i \in Instances
             PROVE /\ d[i] # None =>
                        a[i] \in {"create", "update"} \/ (a[i] = "no-change" /\ FileSettled(q, i)')
                   /\ d[i] = None =>
                        a[i] = IF manifest.files[i] # None /\ InScope(job[q].target, i)
                               THEN "delete" ELSE "none"
  BY <1>1, <1>2 DEF PlanSound, InScope
<1> HIDE DEF d
<1>3. CASE d[i] = None
  BY <1>3 DEF BuildChanges
<1>4. CASE d[i] # None
  <2>1. a[i] = DesiredAction(loaded[q], d[i], manifest, i)
    BY <1>4 DEF BuildChanges
  <2>2. ASSUME a[i] = "no-change" PROVE FileSettled(q, i)'
    <3>1. /\ manifest.files[i] # None /\ disk[i] = d[i]
          /\ manifest.files[i].content = d[i]
          /\ manifest.files[i].source = loaded[q].inst[i]
          /\ manifest.config = loaded[q].global
      BY <2>1, <2>2 DEF DesiredAction
    <3>2. manifest.files[i] \in ManifestFile
      BY <3>1 DEF SafeInv, TypeOK, Manifests
    <3>3. manifest.files[i] = [source |-> loaded[q].inst[i], content |-> d[i]]
      BY <3>1, <3>2 DEF ManifestFile
    <3> QED BY <1>1, <1>2, <3>1, <3>3 DEF FileSettled
  <2> QED BY <1>4, <2>1, <2>2 DEF DesiredAction
<1> QED BY <1>3, <1>4

\* Once every change is applied, the new manifest says what the disk holds.
LEMMA WriteManifestSound ==
    ASSUME SafeInv, NEW q \in Procs, WriteManifest(q), ApplySound(q), plan[q].existing = manifest
    PROVE  ServicesSound(q)'
<1>1. UNCHANGED <<disk, plan, job, loaded>> /\ manifest' = AppliedManifest(q) /\ todo[q] = {}
  BY DEF WriteManifest
<1>2. todo'[q] = Wanted(q) /\ Wanted(q)' = Wanted(q)
  BY <1>1 DEF WriteManifest, SafeInv, TypeOK, Wanted
<1>3. ASSUME NEW i \in Wanted(q) PROVE FileSettled(q, i)'
  <2>1. i \in Instances /\ plan[q].desired[i] # None
    BY <1>3 DEF Wanted
  <2>2. disk[i] = plan[q].desired[i]
    BY <1>1, <2>1 DEF ApplySound, Changed, Writes, FileSettled
  <2> QED BY <1>1, <2>1, <2>2 DEF FileSettled, AppliedManifest
<1>4. ASSUME job[q].target = All, NEW i \in Instances \ Wanted(q) PROVE Retired(q, i)'
  <2>1. plan[q].desired[i] = None
    BY <1>4 DEF Wanted
  <2>2. plan[q].existing.files[i] # None => disk[i] = None
    BY <1>1, <1>4, <2>1 DEF ApplySound, Changed, Writes, InScope
  <2>3. manifest'.files[i] = None
    BY <1>1, <1>4, <2>1 DEF AppliedManifest, InScope
  <2> QED BY <1>1, <2>2, <2>3 DEF Retired
<1> QED BY <1>1, <1>2, <1>3, <1>4 DEF ServicesSound

\* A plan without changes: everything is settled already.
LEMMA NoChangeSound ==
    ASSUME SafeInv, NEW q \in Procs, CheckPlan(q), PlanSound(q), Changed(q) = {},
           plan[q].existing = manifest, pc'[q] = "services"
    PROVE  ServicesSound(q)'
<1>1. UNCHANGED <<disk, manifest, plan, job, loaded>> /\ todo'[q] = Wanted(q)
  BY IdleOK DEF CheckPlan, SafeInv, TypeOK, runtime
<1>2. Wanted(q)' = Wanted(q)
  BY <1>1 DEF Wanted
<1>3. ASSUME NEW i \in Wanted(q) PROVE FileSettled(q, i)'
  BY <1>1, <1>3 DEF Wanted, PlanSound, Changed, Writes, FileSettled
<1>4. ASSUME job[q].target = All, NEW i \in Instances \ Wanted(q) PROVE Retired(q, i)'
  BY <1>1, <1>4 DEF Wanted, PlanSound, Changed, Writes, Retired, InScope
<1> QED BY <1>1, <1>2, <1>3, <1>4 DEF ServicesSound

\* Calling a service of a settled instance settles the service.
LEMMA RunServiceSound ==
    ASSUME SafeInv, NEW q \in Procs, RunService(q), ServicesSound(q)
    PROVE  ServicesSound(q)'
<1>1. UNCHANGED <<disk, manifest, plan, job, loaded>> /\ Wanted(q)' = Wanted(q)
  BY DEF RunService, runtime, Wanted
<1>2. PICK i \in First(todo[q]) :
         /\ running' = [running EXCEPT ![i] =
               IF Systemd /\ job[q].op = "start" /\ @ # Stopped THEN @ ELSE Started(i)]
         /\ todo'[q] = todo[q] \ {i}
  BY DEF RunService, SafeInv, TypeOK
<1>3. i \in Instances
  BY <1>2 DEF First, SafeInv, TypeOK
<1>4. ASSUME NEW j \in Wanted(q) \ todo'[q] PROVE ServiceSettled(q, j)'
  <2>1. CASE j # i
    BY <1>1, <1>2, <1>4, <2>1 DEF ServicesSound, ServiceSettled, SafeInv, TypeOK, Wanted
  <2>2. CASE j = i
    <3>1. disk[i] = plan[q].desired[i] /\ disk[i] # None
      BY <1>4, <2>2 DEF ServicesSound, FileSettled, Wanted
    <3>2. Started(i) = plan[q].desired[i] /\ Started(i) # Stopped
      BY <1>3, <3>1, RuntimeAssumption DEF Started, SafeInv, TypeOK
    <3>3. running'[i] = IF Systemd /\ job[q].op = "start" /\ running[i] # Stopped
                        THEN running[i] ELSE Started(i)
      BY <1>2, <1>3 DEF SafeInv, TypeOK
    <3> QED BY <1>1, <2>2, <3>2, <3>3 DEF ServiceSettled
  <2> QED BY <2>1, <2>2
<1> QED BY <1>1, <1>4 DEF ServicesSound, FileSettled, Retired

\* Every step keeps the facts of every undisturbed run.
THEOREM QuietStep == SafeInv /\ QuietInv /\ [Next]_vars => QuietInv'
<1> SUFFICES ASSUME SafeInv, QuietInv, [Next]_vars, NEW q \in Procs PROVE QuietOK(q)'
  BY DEF QuietInv
<1>0. QuietOK(q) /\ TypeOK /\ CommandOK(q)
  BY DEF QuietInv, SafeInv, CommandOK
<1>1. CASE UNCHANGED vars
  BY <1>0, <1>1, QuietFrame DEF vars, config, runtime
<1>2. ASSUME disturbed'[q] PROVE QuietOK(q)'
  BY <1>2 DEF QuietOK
<1>3. CASE EditGlobal \/ WriteInstance \/ StopService \/ Respawn
  BY <1>2, <1>3 DEF EditGlobal, WriteInstance, StopService, Respawn, EveryoneDisturbed
<1>4. ASSUME NEW p \in Procs, Command(p), p # q PROVE QuietOK(q)'
  <2>1. /\ pc'[q] = pc[q] /\ job'[q] = job[q] /\ loaded'[q] = loaded[q]
        /\ plan'[q] = plan[q] /\ todo'[q] = todo[q]
    BY <1>0, <1>4
       DEF Command, Lifecycle, BuildPlan, CheckPlan, ApplyChange, WriteManifest, RunService,
           Finish, Abort, EditInstance, RestartEdited, RemoveInstance, PurgeGenerated, Load,
           Forget, TypeOK
  <2>2. disturbed'[q] \/ (disturbed'[q] = disturbed[q] /\ UNCHANGED <<config, runtime, running>>)
    BY <1>0, <1>4
       DEF Command, Lifecycle, BuildPlan, CheckPlan, ApplyChange, WriteManifest, RunService,
           Finish, Abort, EditInstance, RestartEdited, RemoveInstance, PurgeGenerated, Load,
           DisturbedBy, TypeOK
  <2> QED BY <1>0, <1>2, <2>1, <2>2, QuietFrame
<1>5. ASSUME Command(q), ~disturbed'[q] PROVE QuietOK(q)'
  <2>0. ASSUME pc'[q] \in {"idle", "edited", "purge"} PROVE QuietOK(q)'
    BY <2>0 DEF QuietOK
  <2>1. ASSUME NEW op \in {"start", "restart"}, NEW t \in Targets, Load(q, op, t),
               pc'[q] = "plan", UNCHANGED <<config, runtime, running>>
        PROVE QuietOK(q)'
    <3>1. loaded'[q] = [global |-> global, inst |-> inst] /\ job'[q] = [op |-> op, target |-> t]
      BY <1>0, <2>1, LoadType
    <3> QED BY <2>1, <3>1 DEF QuietOK, Current, config
  <2>2. CASE Lifecycle(q)
    BY <1>0, <2>1, <2>2, RuntimeAssumption DEF Lifecycle, TypeOK
  <2>3. CASE BuildPlan(q)
    <3>1. ~disturbed[q] /\ pc[q] = "plan" /\ pc'[q] = "check"
      BY <1>0, <1>5, <2>3 DEF BuildPlan, TypeOK
    <3>2. Current(q) /\ job[q].op \in {"start", "restart"}
      BY <1>0, <3>1 DEF QuietOK
    <3>3. PlanSound(q)'
      BY <2>3, <3>2, BuildPlanSound
    <3>4. plan'[q].existing = manifest'
      BY <1>0, <2>3 DEF BuildPlan, TypeOK, runtime
    <3> QED BY <2>3, <3>1, <3>2, <3>3, <3>4 DEF QuietOK, BuildPlan, Current, config
  <2>4. CASE CheckPlan(q)
    <3>1. ~disturbed[q] /\ pc[q] = "check"
      BY <1>5, <2>4 DEF CheckPlan
    <3>2. /\ Current(q) /\ job[q].op \in {"start", "restart"}
          /\ plan[q].existing = manifest /\ PlanSound(q)
      BY <1>0, <3>1 DEF QuietOK
    <3>3. CASE pc'[q] = "services"
      <4>1. Changed(q) = {} /\ UNCHANGED <<config, job, loaded>>
        BY <1>0, <2>4, <3>3 DEF CheckPlan, TypeOK
      <4>2. ServicesSound(q)'
        BY <2>4, <3>2, <3>3, <4>1, NoChangeSound
      <4> QED BY <3>2, <3>3, <4>1, <4>2 DEF QuietOK, Current, config
    <3>4. CASE pc'[q] = "apply"
      <4>1. /\ todo'[q] = Changed(q)
            /\ UNCHANGED <<config, runtime, job, loaded, plan>>
        BY <1>0, <2>4, <3>4 DEF CheckPlan, TypeOK
      <4>2. ApplySound(q)'
        BY <3>2, <4>1
           DEF PlanSound, ApplySound, FileSettled, Changed, InScope, runtime
      <4> QED BY <3>2, <3>4, <4>1, <4>2 DEF QuietOK, Current, config, runtime
    <3> QED BY <1>0, <2>0, <2>4, <3>3, <3>4 DEF CheckPlan, TypeOK
  <2>5. CASE ApplyChange(q)
    <3>1. ~disturbed[q] /\ pc[q] = "apply" /\ pc'[q] = "apply"
      BY <1>0, <1>5, <2>5 DEF ApplyChange, DisturbedBy, TypeOK
    <3>2. /\ Current(q) /\ job[q].op \in {"start", "restart"}
          /\ plan[q].existing = manifest /\ ApplySound(q)
      BY <1>0, <3>1 DEF QuietOK
    <3>3. PICK i \in First(todo[q]) :
             disk' = [disk EXCEPT ![i] = plan[q].desired[i]] /\ todo'[q] = todo[q] \ {i}
      BY <1>0, <2>5 DEF ApplyChange, TypeOK
    <3>4. UNCHANGED <<config, manifest, plan, job, loaded>>
      BY <2>5 DEF ApplyChange
    <3>5. ApplySound(q)'
      BY <1>0, <3>2, <3>3, <3>4
         DEF ApplySound, FileSettled, Changed, InScope, TypeOK
    <3> QED BY <3>1, <3>2, <3>4, <3>5 DEF QuietOK, Current, config
  <2>6. CASE WriteManifest(q)
    <3>1. ~disturbed[q] /\ pc[q] = "apply" /\ pc'[q] = "services"
      BY <1>0, <1>5, <2>6 DEF WriteManifest, DisturbedBy, TypeOK
    <3>2. /\ Current(q) /\ job[q].op \in {"start", "restart"}
          /\ plan[q].existing = manifest /\ ApplySound(q)
      BY <1>0, <3>1 DEF QuietOK
    <3>3. ServicesSound(q)'
      BY <2>6, <3>2, WriteManifestSound
    <3> QED BY <2>6, <3>1, <3>2, <3>3 DEF QuietOK, WriteManifest, Current, config
  <2>7. CASE RunService(q)
    <3>1. ~disturbed[q] /\ pc[q] = "services" /\ pc'[q] = "services"
      BY <1>0, <1>5, <2>7 DEF RunService, DisturbedBy, TypeOK
    <3>2. Current(q) /\ job[q].op \in {"start", "restart"} /\ ServicesSound(q)
      BY <1>0, <3>1 DEF QuietOK
    <3>3. ServicesSound(q)'
      BY <2>7, <3>2, RunServiceSound
    <3> QED BY <2>7, <3>1, <3>2, <3>3 DEF QuietOK, RunService, Current, config
  <2>8. CASE Finish(q)
    <3>1. ~disturbed[q] /\ pc[q] = "services" /\ pc'[q] = "done" /\ todo[q] = {}
      BY <1>0, <1>5, <2>8 DEF Finish, TypeOK
    <3>2. Current(q) /\ job[q].op \in {"start", "restart"} /\ ServicesSound(q)
      BY <1>0, <3>1 DEF QuietOK
    <3>3. UNCHANGED <<config, runtime, running, job, loaded, plan, todo>>
      BY <2>8 DEF Finish
    <3> QED BY <3>1, <3>2, <3>3
          DEF QuietOK, Current, ServicesSound, FileSettled, Retired, ServiceSettled, Wanted,
              config, runtime
  <2>9. CASE Abort(q) \/ EditInstance(q) \/ RemoveInstance(q) \/ PurgeGenerated(q)
    BY <1>0, <2>0, <2>9 DEF Abort, EditInstance, RemoveInstance, PurgeGenerated, TypeOK
  <2>10. CASE RestartEdited(q)
    <3>1. UNCHANGED <<config, runtime, running>>
      BY <2>10 DEF RestartEdited
    <3>2. job[q].target \in Targets
      BY <1>0 DEF TypeOK, Jobs
    <3> QED BY <1>0, <2>0, <2>1, <2>10, <3>1, <3>2 DEF RestartEdited, TypeOK
  <2> QED BY <1>5, <2>2, <2>3, <2>4, <2>5, <2>6, <2>7, <2>8, <2>9, <2>10 DEF Command
<1> QED BY <1>1, <1>2, <1>3, <1>4, <1>5 DEF Next

\* An undisturbed run is, at each of its steps, as far as its position says.
THEOREM QuietInduction == Spec => []QuietInv
<1>1. Init => QuietInv
  BY DEF Init, QuietInv, QuietOK
<1>2. SafeInv /\ QuietInv /\ [Next]_vars => QuietInv'
  BY QuietStep
<1> QED BY <1>1, <1>2, SafeInduction, PTL DEF Spec

\* What those facts say of a run that is over.
LEMMA QuietFacts ==
    ASSUME SafeInv, QuietInv, NEW p \in Procs, Quiet(p)
    PROVE  /\ loaded[p] = [global |-> global, inst |-> inst]
           /\ job[p].target \in Targets
           /\ Loadable(inst) /\ (job[p].target # All => inst[job[p].target] # None)
           /\ plan[p].desired = DesiredFiles([global |-> global, inst |-> inst], job[p].target)
           /\ Wanted(p) = Selected(inst, job[p].target)
           /\ ServicesSound(p) /\ todo[p] = {}
<1>1. Current(p) /\ ServicesSound(p) /\ todo[p] = {} /\ LoadedOK(p) /\ PlannedOK(p)
  BY DEF Quiet, QuietInv, QuietOK, SafeInv
<1>2. loaded[p] \in Loads /\ job[p].target \in Targets
  BY DEF SafeInv, TypeOK, Jobs
<1>3. loaded[p] = [global |-> global, inst |-> inst]
  BY <1>1, <1>2 DEF Current, Loads
<1>4. /\ global \in Globals /\ Loadable(inst)
      /\ job[p].target # All => inst[job[p].target] # None
      /\ plan[p].desired = DesiredFiles(loaded[p], job[p].target)
  BY <1>1, <1>3 DEF LoadedOK, PlannedOK, Quiet
<1>5. \A i \in Instances : plan[p].desired[i] # None <=> i \in Selected(inst, job[p].target)
  BY <1>2, <1>3, <1>4, DesiredType
<1>6. Selected(inst, job[p].target) \subseteq Instances
  BY <1>2, <1>4 DEF Selected, Enabled, Present, Targets
<1> QED BY <1>1, <1>2, <1>3, <1>4, <1>5, <1>6 DEF Wanted

\* A start or restart during which nothing else writes repairs whatever was
\* left behind: its files, entries and services are those of the configuration.
THEOREM QuietRunsConverge == Spec => []QuietRunConverges
<1>1. SafeInv /\ QuietInv => QuietRunConverges
  <2> SUFFICES ASSUME SafeInv, QuietInv, NEW p \in Procs, Quiet(p)
               PROVE LET target == job[p].target
                         want == DesiredFiles([global |-> global, inst |-> inst], target)
                         selected == Selected(inst, target)
                     IN  /\ \A i \in selected :
                               /\ disk[i] = want[i]
                               /\ manifest.files[i] = [source |-> inst[i], content |-> want[i]]
                               /\ running[i] # Stopped
                               /\ job[p].op = "restart" \/ ~Systemd => running[i] = want[i]
                         /\ target = All => \A i \in Instances \ selected :
                               /\ manifest.files[i] = None
                               /\ plan[p].existing.files[i] # None => disk[i] = None
    BY DEF QuietRunConverges
  <2> QED BY QuietFacts DEF ServicesSound, FileSettled, ServiceSettled, Retired
<1> QED BY <1>1, SafeInduction, QuietInduction, PTL

\* And the next plan for what it covered changes nothing.
THEOREM QuietRunsAreIdempotent == Spec => []QuietRunIsIdempotent
<1>1. SafeInv /\ QuietInv => QuietRunIsIdempotent
  <2> SUFFICES ASSUME SafeInv, QuietInv, NEW p \in Procs, Quiet(p),
                      NEW t \in {job[p].target} \cup Selected(inst, job[p].target),
                      NEW i \in Instances
               PROVE LET cfg == [global |-> global, inst |-> inst]
                     IN  BuildChanges(cfg, t, DesiredFiles(cfg, t), manifest)[i] \notin Writes
    BY DEF QuietRunIsIdempotent
  <2> DEFINE cfg == [global |-> global, inst |-> inst]
             d == DesiredFiles(cfg, t)
  <2> SUFFICES BuildChanges(cfg, t, d, manifest)[i] \notin Writes
    OBVIOUS
  <2>1. /\ Wanted(p) = Selected(inst, job[p].target) /\ ServicesSound(p)
        /\ loaded[p] = cfg /\ plan[p].desired = DesiredFiles(cfg, job[p].target)
        /\ Loadable(inst) /\ job[p].target \in Targets
        /\ job[p].target # All => inst[job[p].target] # None
    BY QuietFacts
  <2>2. cfg \in Loads /\ global \in Globals
    BY DEF SafeInv, TypeOK, Loads
  <2>3. t \in Targets /\ (t # All => inst[t] # None)
    BY <2>1, RuntimeAssumption DEF Selected, Enabled, Present, Targets
  <2>4. CASE i \in Selected(inst, t)
    <3>1. i \in Selected(inst, job[p].target)
      BY <2>1, <2>4, RuntimeAssumption DEF Selected, Enabled, Present, Targets
    <3>2. d[i] = plan[p].desired[i] /\ d[i] # None
      BY <2>1, <2>2, <2>3, <2>4, <3>1, DesiredType
    <3>3. FileSettled(p, i)
      BY <2>1, <3>1 DEF ServicesSound
    <3>4. /\ disk[i] = d[i] /\ manifest.config = global
          /\ manifest.files[i] = [source |-> inst[i], content |-> d[i]]
      BY <2>1, <3>2, <3>3 DEF FileSettled
    <3>5. manifest.files[i] # None
      <4>1. inst[i] \in Entry /\ d[i] \in Contents
        BY <2>2, <2>3, <2>1, <3>2, DesiredType
      <4> HIDE DEF d
      <4> QED BY <3>4, <4>1, RuntimeAssumption
    <3>6. DesiredAction(cfg, d[i], manifest, i) = "no-change"
      BY <3>2, <3>4, <3>5 DEF DesiredAction
    <3> HIDE DEF d
    <3> QED BY <3>2, <3>6 DEF BuildChanges, Writes
  <2>5. CASE i \notin Selected(inst, t)
    <3>1. d[i] = None
      BY <2>5 DEF DesiredFiles
    <3>2. t = All => manifest.files[i] = None
      BY <2>1, <2>5, RuntimeAssumption
         DEF ServicesSound, Retired, Selected, Enabled, Present, Targets
    <3>3. t # All => ~InScope(t, i)
      BY <2>5 DEF Selected, InScope
    <3> HIDE DEF d
    <3> QED BY <3>1, <3>2, <3>3 DEF BuildChanges, Writes
  <2> QED BY <2>4, <2>5
<1> QED BY <1>1, SafeInduction, QuietInduction, PTL

-----------------------------------------------------------------------------
(* Commands that do not overlap: the manifest read when a plan is built is *)
(* still the manifest when it is applied.                                  *)

OneCommand == \A p, q \in Procs : p = q

\* While a plan is checked and applied, it says of each unwanted file whether
\* it is deleted, and a file whose deletion is behind is gone.
SerialOK(p) ==
    pc[p] \in {"check", "apply"} =>
        /\ plan[p].existing = manifest
        /\ \A i \in Instances : plan[p].desired[i] = None =>
              plan[p].action[i] = IF manifest.files[i] # None /\ InScope(job[p].target, i)
                                  THEN "delete" ELSE "none"
        /\ pc[p] = "apply" => \A i \in Instances :
              plan[p].desired[i] = None /\ plan[p].action[i] = "delete" /\ i \notin todo[p]
                  => disk[i] = None

\* A file the manifest does not know of is one that an apply under way wants.
Accounted ==
    faults = 0 => \A i \in Instances : disk[i] # None =>
        \/ manifest.files[i] # None
        \/ \E p \in Procs : pc[p] = "apply" /\ plan[p].desired[i] # None

SerialInv == (\A p \in Procs : SerialOK(p)) /\ Accounted

\* A step that leaves a command, its plan and the runtime directory alone.
LEMMA SerialFrame ==
    ASSUME NEW q \in Procs, SerialOK(q), UNCHANGED runtime,
           pc'[q] = pc[q], job'[q] = job[q], plan'[q] = plan[q], todo'[q] = todo[q]
    PROVE  SerialOK(q)'
BY DEF SerialOK, InScope, runtime

\* Every step of the only command, and every step of the world, keeps it.
LEMMA SerialCommandStep ==
    ASSUME OneCommand, SafeInv, SerialInv, [Next]_vars, NEW q \in Procs
    PROVE  SerialOK(q)'
<1>1. SerialOK(q) /\ TypeOK
  BY DEF SerialInv, SafeInv
<1>2. CASE UNCHANGED vars \/ EditGlobal \/ WriteInstance \/ StopService \/ Respawn
  BY <1>1, <1>2, SerialFrame
     DEF vars, EditGlobal, WriteInstance, StopService, Respawn, runtime
<1>3. CASE Command(q)
  <2>1. ASSUME pc'[q] \notin {"check", "apply"} PROVE SerialOK(q)'
    BY <2>1 DEF SerialOK
  <2>2. CASE BuildPlan(q)
    <3>. DEFINE d == DesiredFiles(loaded[q], job[q].target)
    <3>1. /\ pc'[q] = "check" /\ UNCHANGED <<manifest, job>>
          /\ plan'[q] = [desired |-> d, existing |-> manifest,
                         action |-> BuildChanges(loaded[q], job[q].target, d, manifest)]
      BY <1>1, <2>2 DEF BuildPlan, runtime, TypeOK
    <3>. HIDE DEF d
    <3>. QED  BY <3>1 DEF SerialOK, BuildChanges, InScope
  <2>3. CASE CheckPlan(q)
    <3>1. CASE pc'[q] = "apply"
      <4>1. /\ pc[q] = "check" /\ todo'[q] = Changed(q)
            /\ UNCHANGED <<manifest, disk, job, plan>>
        BY <1>1, <2>3, <3>1 DEF CheckPlan, runtime, TypeOK
      <4>. QED  BY <1>1, <4>1 DEF SerialOK, Changed, Writes, InScope
    <3>. QED  BY <1>1, <2>1, <2>3, <3>1 DEF CheckPlan, TypeOK
  <2>4. CASE ApplyChange(q)
    <3>1. PICK i \in First(todo[q]) :
             disk' = [disk EXCEPT ![i] = plan[q].desired[i]] /\ todo'[q] = todo[q] \ {i}
      BY <1>1, <2>4 DEF ApplyChange, TypeOK
    <3>2. pc[q] = "apply" /\ UNCHANGED <<pc, manifest, job, plan>>
      BY <2>4 DEF ApplyChange
    <3>3. ASSUME NEW j \in Instances, plan[q].desired[j] = None,
                 plan[q].action[j] = "delete", j \notin todo'[q]
          PROVE  disk'[j] = None
      BY <1>1, <3>1, <3>2, <3>3 DEF SerialOK, TypeOK
    <3>. QED  BY <1>1, <3>2, <3>3 DEF SerialOK, InScope
  <2>5. CASE RunService(q) \/ WriteManifest(q) \/ Finish(q) \/ Lifecycle(q) \/ Abort(q)
             \/ EditInstance(q) \/ RestartEdited(q) \/ RemoveInstance(q) \/ PurgeGenerated(q)
    BY <1>1, <2>1, <2>5
       DEF RunService, WriteManifest, Finish, Lifecycle, Abort, EditInstance, RestartEdited,
           RemoveInstance, PurgeGenerated, TypeOK
  <2>. QED  BY <1>3, <2>2, <2>3, <2>4, <2>5 DEF Command
<1>. QED  BY <1>2, <1>3 DEF Next, OneCommand

\* What a plan wants is recorded as an entry of the manifest, not as none.
LEMMA AppliedEntry ==
    ASSUME SafeInv, NEW p \in Procs, pc[p] \in {"check", "apply"},
           NEW i \in Instances, plan[p].desired[i] # None
    PROVE  [source |-> loaded[p].inst[i], content |-> plan[p].desired[i]] # None
<1>1. /\ loaded[p] \in Loads /\ job[p].target \in Targets
      /\ loaded[p].global \in Globals /\ Loadable(loaded[p].inst)
      /\ job[p].target # All => loaded[p].inst[job[p].target] # None
      /\ plan[p].desired = DesiredFiles(loaded[p], job[p].target)
  BY DEF SafeInv, LoadedOK, PlannedOK, TypeOK, Jobs
<1>2. plan[p].desired[i] \in Contents /\ loaded[p].inst[i] \in Entry
  BY <1>1, DesiredType
<1>. QED  BY <1>2, RuntimeAssumption

\* No step leaves a file behind that nobody knows of, as long as no command is
\* cut short: what an apply wanted is in the manifest it writes.
LEMMA AccountedStep ==
    ASSUME OneCommand, SafeInv, SerialInv, [Next]_vars
    PROVE  Accounted'
<1>1. TypeOK /\ Accounted
  BY DEF SerialInv, SafeInv
<1>2. ASSUME UNCHANGED <<disk, manifest, plan, pc>>, faults' = 0 => faults = 0
      PROVE  Accounted'
  BY <1>1, <1>2 DEF Accounted
<1>3. CASE UNCHANGED vars \/ EditGlobal \/ WriteInstance \/ StopService \/ Respawn
  BY <1>1, <1>2, <1>3
     DEF vars, EditGlobal, WriteInstance, StopService, Respawn, runtime, TypeOK
<1>4. ASSUME NEW p \in Procs, Command(p) PROVE Accounted'
  <2>. SUFFICES ASSUME faults' = 0, NEW i \in Instances, disk'[i] # None
                PROVE  \/ manifest'.files[i] # None
                       \/ \E q \in Procs : pc'[q] = "apply" /\ plan'[q].desired[i] # None
    BY DEF Accounted
  <2>1. SerialOK(p) /\ faults = 0
    BY <1>1, <1>4
       DEF SerialInv, Command, Lifecycle, BuildPlan, CheckPlan, ApplyChange, WriteManifest,
           RunService, Finish, Abort, EditInstance, RestartEdited, RemoveInstance,
           PurgeGenerated, TypeOK
  <2>2. disk[i] # None =>
           manifest.files[i] # None \/ (pc[p] = "apply" /\ plan[p].desired[i] # None)
    BY <1>1, <2>1 DEF Accounted, OneCommand
  <2>3. CASE ApplyChange(p)
    <3>1. PICK j \in First(todo[p]) : disk' = [disk EXCEPT ![j] = plan[p].desired[j]]
      BY <2>3 DEF ApplyChange
    <3>2. pc'[p] = "apply" /\ UNCHANGED <<manifest, plan>>
      BY <2>3 DEF ApplyChange
    <3>. QED  BY <1>1, <2>2, <3>1, <3>2 DEF TypeOK
  <2>4. CASE WriteManifest(p)
    <3>1. manifest' = AppliedManifest(p) /\ UNCHANGED disk /\ pc[p] = "apply" /\ todo[p] = {}
      BY <2>4 DEF WriteManifest
    <3>2. CASE plan[p].desired[i] # None
      <4>1. [source |-> loaded[p].inst[i], content |-> plan[p].desired[i]] # None
        BY <3>1, <3>2, AppliedEntry
      <4>. QED  BY <3>1, <3>2, <4>1 DEF AppliedManifest
    <3>3. CASE plan[p].desired[i] = None
      <4>1. manifest.files[i] # None /\ plan[p].existing = manifest
        BY <2>1, <2>2, <3>1, <3>3 DEF SerialOK
      <4>2. ~InScope(job[p].target, i)
        BY <2>1, <3>1, <3>3, <4>1 DEF SerialOK
      <4>. QED  BY <3>1, <3>3, <4>1, <4>2 DEF AppliedManifest
    <3>. QED  BY <3>2, <3>3
  <2>5. CASE PurgeGenerated(p)
    BY <1>1, <2>2, <2>5 DEF PurgeGenerated, TypeOK
  <2>6. CASE RunService(p) \/ Finish(p) \/ BuildPlan(p) \/ Lifecycle(p) \/ RestartEdited(p)
             \/ EditInstance(p) \/ RemoveInstance(p)
    <3>1. UNCHANGED <<disk, manifest>> /\ pc[p] # "apply"
      BY <2>6 DEF RunService, Finish, BuildPlan, Lifecycle, RestartEdited, EditInstance,
                  RemoveInstance, runtime
    <3>. QED  BY <2>2, <3>1
  <2>7. CASE CheckPlan(p) \/ Abort(p)
    BY <1>1, <2>1, <2>2, <2>7 DEF CheckPlan, Abort, runtime, TypeOK
  <2>. QED  BY <1>4, <2>3, <2>4, <2>5, <2>6, <2>7 DEF Command
<1>. QED  BY <1>3, <1>4 DEF Next

\* What a command plans and applies fits the manifest that stands, when commands
\* do not overlap.
THEOREM SerialInduction == ASSUME OneCommand PROVE Spec => []SerialInv
<1>1. Init => SerialInv
  BY DEF Init, SerialInv, SerialOK, Accounted
<1>2. SafeInv /\ SerialInv /\ [Next]_vars => SerialInv'
  BY SerialCommandStep, AccountedStep DEF SerialInv
<1>. QED  BY <1>1, <1>2, SafeInduction, PTL DEF Spec

\* As long as no command was cut short, whatever the operator edits, adds,
\* removes and purges between and during commands, every generated file is
\* known to the manifest, so that a later full run can delete it.
THEOREM NothingIsOrphaned == ASSUME OneCommand PROVE Spec => []NoOrphans
<1>1. SerialInv => NoOrphans
  BY DEF SerialInv, Accounted, NoOrphans
<1>. QED  BY <1>1, SerialInduction, PTL

\* A command for one target changes no other entry of the manifest: nothing
\* outside its scope is wanted, and what it carries over is what stands.
THEOREM CommandsStayInScope == ASSUME OneCommand PROVE Spec => TargetScope
<1>. DEFINE Stays == \A p \in Procs : WriteManifest(p) /\ job[p].target # All =>
          \A i \in Instances \ {job[p].target} : manifest'.files[i] = manifest.files[i]
<1>1. SafeInv /\ SerialInv => Stays
  <2>. SUFFICES ASSUME SafeInv, SerialInv, NEW p \in Procs, WriteManifest(p),
                       job[p].target # All, NEW i \in Instances \ {job[p].target}
                PROVE  manifest'.files[i] = manifest.files[i]
    OBVIOUS
  <2>1. pc[p] = "apply" /\ manifest' = AppliedManifest(p)
    BY DEF WriteManifest
  <2>2. plan[p].existing = manifest
    BY <2>1 DEF SerialInv, SerialOK
  <2>3. plan[p].desired = DesiredFiles(loaded[p], job[p].target)
    BY <2>1 DEF SafeInv, PlannedOK
  <2>4. plan[p].desired[i] = None /\ ~InScope(job[p].target, i)
    BY <2>3 DEF DesiredFiles, Selected, InScope
  <2>. QED  BY <2>1, <2>2, <2>4 DEF AppliedManifest
<1>2. SafeInv /\ SerialInv /\ [Next]_vars => [Stays]_vars
  BY <1>1
<1>. QED  BY <1>2, SafeInduction, SerialInduction, PTL DEF Spec, TargetScope

-----------------------------------------------------------------------------
(* The manifest implements the abstract deployment *)

\* A step that leaves the manifest alone leaves the catalogue alone.
LEMMA CatalogueFrame == UNCHANGED manifest => UNCHANGED Catalogue
BY DEF Catalogue

\* The abstract deployment speaks of the same configurations.
LEMMA PublishedTerms ==
    /\ Published!NoLoad = NoLoad
    /\ \A s : Published!Present(s) = Present(s) /\ Published!Enabled(s) = Enabled(s)
    /\ \A g, s, i : Published!Generated(g, s, i) = Generated(g, s, i)
    /\ Published!Entry = Entry /\ Published!ConfigSets = ConfigSets
    /\ \A s : Published!Loadable(s) <=> Loadable(s)
BY DEF Published!NoLoad, NoLoad, Published!Present, Present, Published!Enabled, Enabled,
       Published!Generated, Generated, Published!Entry, Entry, Published!ConfigSets, ConfigSets,
       Published!Loadable, Loadable,
       Published!RefsResolve, RefsResolve, Published!PortsDistinct, PortsDistinct

\* Writing the manifest deploys what the command loaded, all of it or the
\* instance it was called for.
LEMMA WriteDeploys ==
    ASSUME SafeInv, SerialInv, NEW p \in Procs, WriteManifest(p)
    PROVE  Published!DeployAll(p) \/ \E i \in Instances : Published!DeployOne(p, i)
<1>. DEFINE c == loaded[p]
            t == job[p].target
            d == plan[p].desired
<1>1. /\ pc[p] = "apply" /\ manifest' = AppliedManifest(p) /\ UNCHANGED <<global, inst, loaded>>
      /\ plan[p].existing = manifest
  BY DEF WriteManifest, config, SerialInv, SerialOK
<1>2. /\ c \in Loads /\ t \in Targets /\ c.global \in Globals /\ Loadable(c.inst)
      /\ t # All => c.inst[t] # None
      /\ d = DesiredFiles(c, t)
  BY <1>1 DEF SafeInv, LoadedOK, PlannedOK, TypeOK, Jobs
<1>3. c # Published!NoLoad
  BY <1>2, ConfigAssumption DEF Published!NoLoad
<1>4. \A i \in Instances :
         /\ i \in Selected(c.inst, t) => d[i] = Generated(c.global, c.inst, i)
         /\ d[i] # None <=> i \in Selected(c.inst, t)
         /\ d[i] # None => c.inst[i] \in Entry /\ d[i] \in Contents
  BY <1>2, DesiredType
<1>5. Selected(c.inst, t) \subseteq Present(c.inst) /\ Present(c.inst) \subseteq Instances
  BY <1>2, SelectedPresent DEF Loads, Present
<1>6. \A i \in Selected(c.inst, t) : Published!Deployable(p, i)
  BY <1>1, <1>4, <1>5, PublishedTerms DEF SafeInv, CheckedOK, Published!Deployable
<1>7. \A i \in Instances :
         Catalogue'[i] = IF i \in Selected(c.inst, t) THEN Generated(c.global, c.inst, i)
                         ELSE IF InScope(t, i) THEN None ELSE Catalogue[i]
  <2>. SUFFICES ASSUME NEW i \in Instances
                PROVE  Catalogue'[i] = IF i \in Selected(c.inst, t)
                                       THEN Generated(c.global, c.inst, i)
                                       ELSE IF InScope(t, i) THEN None ELSE Catalogue[i]
    OBVIOUS
  <2>. HIDE DEF c, t, d
  <2>1. AppliedManifest(p).files[i] = IF d[i] # None THEN [source |-> c.inst[i], content |-> d[i]]
                                      ELSE IF ~InScope(t, i) THEN manifest.files[i] ELSE None
    BY <1>1 DEF AppliedManifest, c, t, d
  <2>2. CASE i \in Selected(c.inst, t)
    <3>1. [source |-> c.inst[i], content |-> d[i]] # None
      BY <1>4, <2>2, RuntimeAssumption
    <3>. QED  BY <1>1, <1>4, <2>1, <2>2, <3>1 DEF Catalogue
  <2>3. CASE i \notin Selected(c.inst, t)
    BY <1>1, <1>4, <2>1, <2>3 DEF Catalogue
  <2>. QED  BY <2>2, <2>3
<1>8. CASE t = All
  <2>1. Selected(c.inst, t) = Enabled(c.inst)
    BY <1>8 DEF Selected
  <2>2. Catalogue' = [i \in Instances |-> IF i \in Enabled(c.inst)
                                          THEN Generated(c.global, c.inst, i) ELSE None]
    BY <1>7, <1>8, <2>1 DEF InScope, Catalogue
  <2>. QED  BY <1>1, <1>3, <1>6, <2>1, <2>2, PublishedTerms DEF Published!DeployAll
<1>9. CASE t # All
  <2>1. Selected(c.inst, t) = {t} /\ t \in Instances
    BY <1>2, <1>9 DEF Selected, Targets
  <2>2. Catalogue' = [Catalogue EXCEPT ![t] = Generated(c.global, c.inst, t)]
    BY <1>7, <1>9, <2>1 DEF InScope, Catalogue
  <2>. QED  BY <1>1, <1>3, <1>5, <1>6, <2>1, <2>2, PublishedTerms DEF Published!DeployOne
<1>. QED  BY <1>8, <1>9

\* The other steps of a command take the configuration, drop it, change it, or
\* are none of the catalogue's business.
LEMMA CommandMaps ==
    ASSUME SafeInv, SerialInv, NEW p \in Procs, Command(p)
    PROVE  Published!Next \/ UNCHANGED <<global, inst, loaded, Catalogue>>
<1>2. CASE WriteManifest(p)
  BY <1>2, WriteDeploys DEF Published!Next
<1>3. CASE BuildPlan(p) \/ ApplyChange(p) \/ RunService(p) \/ Finish(p)
  BY <1>3, CatalogueFrame DEF BuildPlan, ApplyChange, RunService, Finish, config, runtime
<1>4. ASSUME UNCHANGED <<global, inst, manifest>>, loaded' = [loaded EXCEPT ![p] = NoLoad]
      PROVE  Published!Next
  BY <1>4, CatalogueFrame, PublishedTerms DEF Published!Next, Published!Drop
<1>5. CASE CheckPlan(p)
  BY <1>4, <1>5, CatalogueFrame DEF CheckPlan, Forget, config, runtime
<1>6. CASE Abort(p) \/ PurgeGenerated(p)
  BY <1>4, <1>6 DEF Abort, PurgeGenerated, Forget, config, runtime
<1>7. ASSUME NEW op, NEW t, Load(p, op, t), UNCHANGED <<config, manifest>> PROVE Published!Next
  BY <1>7, CatalogueFrame, PublishedTerms DEF Load, Published!Next, Published!Take, config
<1>8. CASE Lifecycle(p)
  BY <1>7, <1>8 DEF Lifecycle, runtime
<1>9. CASE RestartEdited(p)
  BY <1>4, <1>7, <1>9 DEF RestartEdited, Forget, config, runtime
<1>10. ASSUME NEW i \in Instances, NEW e \in Entry \cup {None}, inst' = [inst EXCEPT ![i] = e],
              UNCHANGED <<global, manifest>>, loaded' = [loaded EXCEPT ![p] = NoLoad]
       PROVE  Published!Next
  BY <1>10, CatalogueFrame, PublishedTerms DEF Published!Next, Published!Reconfigure
<1>11. CASE EditInstance(p)
  BY <1>10, <1>11 DEF EditInstance, Forget, Present, runtime
<1>12. CASE RemoveInstance(p)
  BY <1>10, <1>12 DEF RemoveInstance, Forget, Present, runtime
<1>. QED
  BY <1>2, <1>3, <1>5, <1>6, <1>8, <1>9, <1>11, <1>12 DEF Command

\* So do the changes nobody's command makes.
LEMMA WorldMaps ==
    ASSUME SafeInv, EditGlobal \/ WriteInstance \/ StopService \/ Respawn
    PROVE  Published!Next \/ UNCHANGED <<global, inst, loaded, Catalogue>>
<1>1. CASE EditGlobal
  BY <1>1, CatalogueFrame DEF EditGlobal, runtime, Published!Next, Published!Reconfigure
<1>2. CASE WriteInstance
  BY <1>2, CatalogueFrame, PublishedTerms
     DEF WriteInstance, runtime, Published!Next, Published!Reconfigure
<1>3. CASE StopService \/ Respawn
  BY <1>3, CatalogueFrame DEF StopService, Respawn, runtime, config
<1>. QED  BY <1>1, <1>2, <1>3

\* As long as commands do not overlap, the manifest moves from one complete,
\* accepted deployment of a configuration that was loaded to the next, however
\* many commands fail or are killed half way and whatever is edited meanwhile.
THEOREM RuntimeImplementsDeployment == ASSUME OneCommand PROVE Spec => ImplementsDeployment
<1>1. Init => Published!Init
  BY PublishedTerms DEF Init, Published!Init, Catalogue, NoManifest
<1>2. SafeInv /\ SerialInv /\ [Next]_vars => [Published!Next]_<<global, inst, loaded, Catalogue>>
  <2>. SUFFICES ASSUME SafeInv, SerialInv, [Next]_vars
                PROVE  Published!Next \/ UNCHANGED <<global, inst, loaded, Catalogue>>
    OBVIOUS
  <2>1. CASE UNCHANGED vars
    BY <2>1, CatalogueFrame DEF vars
  <2>. QED  BY <2>1, CommandMaps, WorldMaps DEF Next
<1>3. Published!vars = <<global, inst, loaded, Catalogue>>
  BY DEF Published!vars
<1>. QED  BY <1>1, <1>2, <1>3, SafeInduction, SerialInduction, PTL
          DEF Spec, ImplementsDeployment, Published!Spec, Published!vars
=============================================================================
