------------------------------- MODULE Services -------------------------------
(***************************************************************************)
(* Service files, traffic timers and the purge: sboxctl setup, service     *)
(* install and uninstall, traffic install and uninstall, and uninstall     *)
(* --purge.  Under systemd all instances share one template unit, which an *)
(* older version wrote once per instance; launchd has a plist for each.    *)
(*                                                                         *)
(* A command is the calls it will make, worked out from the configuration  *)
(* it loaded: one loop after the other over instances or periods.  Each    *)
(* call looks at the files when its turn comes.  The first that fails ends *)
(* the command, and it can be killed between any two.                      *)
(***************************************************************************)
EXTENDS Naturals

CONSTANTS
    NumInstances,   \* instances are numbered in the order of their names
    NumPeriods,     \* traffic periods: hourly, daily, monthly
    Kinds,          \* the service managers offered, of "systemd" and "launchd"
    Commands,       \* the commands offered
    All,            \* no TARGET given
    MaxCommands,    \* bound on the commands
    MaxEdits,       \* bound on the instances added, removed, enabled and disabled
    MaxFaults       \* bound on failing calls and killed commands

Instances == 1..NumInstances
Periods == 1..NumPeriods
Template == 0

ASSUME ServicesAssumption ==
    /\ NumInstances \in Nat /\ NumPeriods \in Nat
    /\ Kinds \subseteq {"systemd", "launchd"} /\ All \notin Instances
    /\ Commands \subseteq {"setup", "install", "uninstall", "purge", "uninstall-resource",
                          "traffic-install", "traffic-uninstall", "traffic-enable",
                          "traffic-disable", "start", "stop"}
    /\ MaxCommands \in Nat /\ MaxEdits \in Nat /\ MaxFaults \in Nat

VARIABLES
    kind,       \* the service manager of this machine
    base,       \* there is a config.yaml in the base-dir
    set,        \* the instance files in it: "none", "enabled", "disabled"
    resources,  \* bin, rules, downloads and runtime
    units,      \* unit files, or plists, by instance; Template under systemd
    loaded,     \* the unit files systemd read at its last daemon-reload
    running,    \* the instances whose service runs
    timers,     \* traffic files: <<period, "service">> and <<period, "timer">>
    on,         \* the timers that are enabled
    job,        \* the command, the instances it works on, and those that had a file
    plan,       \* the calls it has still to make, a set
    removed,    \* UninstallInstances, UninstallTrafficTimers: a file was deleted
    result,     \* how the last command ended
    commands, edits, faults

config == <<kind, base, set>>
files == <<units, timers>>
manager == <<loaded, running, on>>
command == <<job, plan, removed, result>>
bounds == <<commands, edits, faults>>
vars == <<config, resources, files, manager, command, bounds>>

-----------------------------------------------------------------------------
Configured == {i \in Instances : set[i] # "none"}
Enabled == {i \in Instances : set[i] = "enabled"}

\* SelectInstances: without a target the enabled ones.
Select(target) == IF target = All THEN Enabled ELSE {target}

\* instanceServiceFilePaths
FilesOf(i) == IF kind = "systemd" THEN {Template, i} ELSE {i}
HasFile(i) == FilesOf(i) \cap units # {}

\* What the service manager knows of: systemd what it loaded, launchd the plist it is given.
Known == IF kind = "systemd" THEN loaded ELSE units

TimerFiles(p) == IF kind = "systemd" THEN {<<p, "service">>, <<p, "timer">>} ELSE {<<p, "timer">>}

-----------------------------------------------------------------------------
(* The calls of each command.  Loop n goes over the members of S in their  *)
(* order and makes these calls for each.                                   *)

Loop(n, S, calls) ==
    {[loop |-> n, arg |-> x, step |-> k, does |-> calls[k]] : x \in S, k \in DOMAIN calls}
Once(n, does) == Loop(n, {0}, <<does>>)

Before(c, d) ==
    \/ c.loop < d.loop
    \/ c.loop = d.loop /\ c.arg < d.arg
    \/ c.loop = d.loop /\ c.arg = d.arg /\ c.step < d.step

\* Mutant: the old unit of an instance is left beside the template.
InstallTemplateOnly(targets) ==
    IF kind = "systemd" THEN Loop(1, {Template}, <<"write-unit">>) \cup Once(3, "reload")
    ELSE Loop(1, targets, <<"write-unit">>)

\* Manager.Install: the template and away with the old units, or a plist each.
InstallUnits(targets) ==
    IF kind = "systemd"
    THEN Loop(1, {Template}, <<"write-unit">>) \cup Loop(2, targets, <<"drop-unit">>) \cup Once(3, "reload")
    ELSE Loop(1, targets, <<"write-unit">>)

\* InstallTrafficTimers, then RunTrafficTimers "enable".
InstallTimers ==
    Loop(4, Periods, IF kind = "systemd" THEN <<"write-service", "write-timer">> ELSE <<"write-timer">>)
    \cup Once(5, "reload") \cup Loop(6, Periods, <<"enable">>)

\* UninstallInstances
UninstallUnits(targets) ==
    Loop(5, targets, IF kind = "systemd" THEN <<"drop-template", "drop-unit">> ELSE <<"drop-unit">>)
    \cup Once(6, "unload")

\* Mutant: the files go before the timer is disabled.
DropTimersFirst ==
    Loop(3, Periods, <<"drop-service", "drop-timer", "off">>) \cup Once(4, "unload")

\* UninstallTrafficTimers
UninstallTimers ==
    Loop(3, Periods, <<"off", "drop-service", "drop-timer">>) \cup Once(4, "unload")

\* Mutant: the base-dir goes before the timers.
PurgeBaseFirst(instances) ==
    Loop(1, instances, <<"stop">>) \cup Loop(2, {0}, <<"resources", "base">>)
    \cup UninstallTimers \cup UninstallUnits(instances)

\* Mutant: the services are stopped when their files are gone.
PurgeStopsLast(instances) ==
    Once(2, "resources") \cup UninstallTimers \cup UninstallUnits(instances)
    \cup Loop(7, instances, <<"stop">>) \cup Once(8, "base")

\* uninstall all --purge: the base-dir last.
Purge(instances) ==
    Loop(1, instances, <<"stop">>) \cup Once(2, "resources")
    \cup UninstallTimers \cup UninstallUnits(instances) \cup Once(8, "base")

Calls(name, targets) ==
    CASE name \in {"setup", "install"} -> InstallUnits(targets) \cup InstallTimers
      [] name = "uninstall" -> UninstallUnits(targets)
      [] name = "purge" -> Purge(targets)
      [] name = "uninstall-resource" -> Once(2, "resources") \cup UninstallUnits(targets)
      [] name = "traffic-install" -> InstallTimers
      [] name = "traffic-uninstall" -> UninstallTimers
      [] name = "traffic-enable" -> Loop(1, Periods, <<"enable">>)
      [] name = "traffic-disable" -> Loop(1, Periods, <<"disable">>)
      [] name = "start" -> Loop(1, targets, <<"start">>)
      [] name = "stop" -> Loop(1, targets, <<"service-stop">>)

-----------------------------------------------------------------------------
NoJob == [name |-> "none", targets |-> {}, managed |-> {}]

Init ==
    /\ kind \in Kinds
    /\ base = FALSE /\ set = [i \in Instances |-> "none"]
    /\ resources = FALSE
    /\ units \in SUBSET (IF kind = "systemd" THEN Instances ELSE {}) /\ loaded = units
    /\ running = {}
    /\ timers = {} /\ on = {}
    /\ job = NoJob /\ plan = {} /\ removed = FALSE /\ result = "none"
    /\ commands = 0 /\ edits = 0 /\ faults = 0

Idle == result # "running"

Start(name, targets) ==
    /\ Idle /\ commands < MaxCommands
    /\ commands' = commands + 1
    /\ job' = [name |-> name, targets |-> targets, managed |-> {i \in targets : HasFile(i)}]
    /\ plan' = Calls(name, targets)
    /\ removed' = FALSE
    /\ result' = "running"
    /\ UNCHANGED <<kind, resources, files, manager, edits, faults>>

\* Every command loads the configuration and refuses a target that is not in it.
Begin(name, target) ==
    /\ base
    /\ target \in Configured \cup {All}
    /\ Start(name, Select(target))
    /\ UNCHANGED <<base, set>>

\* setup local: instance.Init writes a config.yaml where there is none and leaves the instance
\* files alone, so that those a purge cut short left behind are loaded with it.
Setup ==
    /\ "setup" \in Commands
    /\ base' = TRUE
    /\ Start("setup", Enabled)
    /\ UNCHANGED set

\* Without a config.yaml the purge goes on with the default, empty configuration.
BeginPurge ==
    /\ "purge" \in Commands
    /\ Start("purge", IF base THEN Configured ELSE {})
    /\ UNCHANGED <<base, set>>

\* add, remove and config change the instances.
EditSet ==
    /\ Idle /\ base /\ edits < MaxEdits /\ edits' = edits + 1
    /\ \E i \in Instances : \E s \in {"none", "enabled", "disabled"} \ {set[i]} :
          set' = [set EXCEPT ![i] = s]
    /\ result' = "none"
    /\ UNCHANGED <<kind, base, resources, files, manager, job, plan, removed, commands, faults>>

\* setup binary, which does without a config.yaml.
SetupBinary ==
    /\ Idle
    /\ resources' = TRUE
    /\ result' = "none"
    /\ UNCHANGED <<config, files, manager, job, plan, removed, bounds>>

-----------------------------------------------------------------------------
(* The calls *)

(* c is the call whose turn it is. *)
Due(c) == result = "running" /\ \A d \in plan : ~Before(d, c)

Returns(c) ==
    /\ plan' = plan \ {c}
    /\ UNCHANGED <<kind, job, result, bounds>>

End(how) ==
    /\ result' = how /\ plan' = {}
    /\ UNCHANGED <<job, removed>>

WriteUnit(c) ==
    /\ c.does = "write-unit" /\ Returns(c)
    /\ units' = units \cup {c.arg}
    /\ UNCHANGED <<base, set, resources, timers, manager, removed>>

\* removeFileIfExists; Install forgets whether it removed anything.
DropUnit(c) ==
    LET unit == IF c.does = "drop-template" THEN Template ELSE c.arg
    IN /\ c.does \in {"drop-template", "drop-unit"} /\ Returns(c)
       /\ units' = units \ {unit}
       /\ removed' = (removed \/ unit \in units)
       /\ UNCHANGED <<base, set, resources, timers, manager>>

Reloaded == IF kind = "systemd" THEN units ELSE loaded

Reload(c) ==
    /\ c.does = "reload" /\ Returns(c)
    /\ loaded' = Reloaded
    /\ UNCHANGED <<base, set, resources, files, running, on, removed>>

\* The removal reloads only when it removed something itself.
Unload(c) ==
    /\ c.does = "unload" /\ Returns(c)
    /\ loaded' = IF removed THEN Reloaded ELSE loaded
    /\ removed' = FALSE
    /\ UNCHANGED <<base, set, resources, files, running, on>>

WriteTimer(c) ==
    /\ \/ c.does = "write-service" /\ timers' = timers \cup {<<c.arg, "service">>}
       \/ c.does = "write-timer" /\ timers' = timers \cup {<<c.arg, "timer">>}
    /\ Returns(c)
    /\ UNCHANGED <<base, set, resources, units, manager, removed>>

\* systemctl enable --now, launchctl bootstrap: there must be a file to enable.
EnableTimer(c) ==
    /\ c.does = "enable" /\ TimerFiles(c.arg) \subseteq timers
    /\ on' = on \cup {c.arg}
    /\ Returns(c)
    /\ UNCHANGED <<base, set, resources, files, loaded, running, removed>>

DisableTimer(c) ==
    /\ c.does = "disable" /\ <<c.arg, "timer">> \in timers
    /\ on' = on \ {c.arg}
    /\ Returns(c)
    /\ UNCHANGED <<base, set, resources, files, loaded, running, removed>>

\* UninstallTrafficTimers asks for the timer file first.
TimerOff(c) ==
    /\ c.does = "off"
    /\ on' = IF <<c.arg, "timer">> \in timers THEN on \ {c.arg} ELSE on
    /\ Returns(c)
    /\ UNCHANGED <<base, set, resources, files, loaded, running, removed>>

DropTimer(c) ==
    /\ \E part \in {"service", "timer"} :
          /\ c.does = (IF part = "service" THEN "drop-service" ELSE "drop-timer")
          /\ timers' = timers \ {<<c.arg, part>>}
          /\ removed' = (removed \/ <<c.arg, part>> \in timers)
    /\ Returns(c)
    /\ UNCHANGED <<base, set, resources, units, manager>>

\* StopInstancesForUninstall passes over an instance without a service file.
StopForUninstall(c) ==
    /\ c.does = "stop"
    /\ running' = IF HasFile(c.arg) THEN running \ {c.arg} ELSE running
    /\ Returns(c)
    /\ UNCHANGED <<base, set, resources, files, loaded, on, removed>>

StartService(c) ==
    /\ c.does = "start" /\ FilesOf(c.arg) \cap Known # {}
    /\ running' = running \cup {c.arg}
    /\ Returns(c)
    /\ UNCHANGED <<base, set, resources, files, loaded, on, removed>>

StopService(c) ==
    /\ c.does = "service-stop"
    /\ running' = running \ {c.arg}
    /\ Returns(c)
    /\ UNCHANGED <<base, set, resources, files, loaded, on, removed>>

\* The resource installer, as module Installer has it, with the purge of its directories.
RemoveResources(c) ==
    /\ c.does = "resources"
    /\ resources' = FALSE
    /\ Returns(c)
    /\ UNCHANGED <<base, set, files, manager, removed>>

\* os.RemoveAll of the base-dir, file by file.
RemoveBaseEntry(c) ==
    /\ c.does = "base"
    /\ \/ base /\ base' = FALSE /\ UNCHANGED set
       \/ \E i \in Configured : set' = [set EXCEPT ![i] = "none"] /\ UNCHANGED base
    /\ UNCHANGED <<kind, resources, files, manager, command, bounds>>

RemoveBase(c) ==
    /\ c.does = "base" /\ ~base /\ Configured = {}
    /\ Returns(c)
    /\ UNCHANGED <<base, set, resources, files, manager, removed>>

Finish ==
    /\ result = "running" /\ plan = {}
    /\ End("ok")
    /\ UNCHANGED <<config, resources, files, manager, bounds>>

\* A call that cannot succeed ends the command; any call can fail, and the process be killed.
Refused(c) ==
    \/ c.does = "enable" /\ ~(TimerFiles(c.arg) \subseteq timers)
    \/ c.does = "disable" /\ <<c.arg, "timer">> \notin timers
    \/ c.does = "start" /\ FilesOf(c.arg) \cap Known = {}

\* systemd enables a timer that has lost its service, and then refuses to start it.
EnabledAnyway(c) == {p \in Periods : c.does = "enable" /\ c.arg = p /\ <<p, "timer">> \in timers}

Fails(c) ==
    /\ Refused(c)
    /\ on' = on \cup EnabledAnyway(c)
    /\ End("error")
    /\ UNCHANGED <<config, resources, files, loaded, running, bounds>>

DisabledAnyway(c) == {p \in Periods : c.does \in {"disable", "off"} /\ c.arg = p}

\* launchd switches a timer with two calls, systemd with one that does two things: cut
\* short, it may have done the first.
CutShort(c) == {on, on \cup EnabledAnyway(c), on \ DisabledAnyway(c)}

Fault ==
    /\ result = "running" /\ faults < MaxFaults
    /\ faults' = faults + 1
    /\ \E how \in {"error", "killed"} : End(how)
    /\ \/ UNCHANGED on
       \/ \E c \in plan : Due(c) /\ on' \in CutShort(c)
    /\ UNCHANGED <<config, resources, files, loaded, running, commands, edits>>

Manager(c) ==
    \/ WriteUnit(c) \/ DropUnit(c) \/ Reload(c) \/ Unload(c)
    \/ WriteTimer(c) \/ EnableTimer(c) \/ DisableTimer(c) \/ TimerOff(c) \/ DropTimer(c)
    \/ StopForUninstall(c) \/ StartService(c) \/ StopService(c)
    \/ RemoveResources(c) \/ RemoveBaseEntry(c) \/ RemoveBase(c)
    \/ Fails(c)

Next ==
    \/ \E name \in Commands \ {"setup", "purge"}, target \in Instances \cup {All} :
          Begin(name, target)
    \/ Setup \/ BeginPurge \/ EditSet \/ SetupBinary
    \/ \E c \in plan : Due(c) /\ Manager(c)
    \/ Finish \/ Fault

Spec == Init /\ [][Next]_vars

-----------------------------------------------------------------------------
(* Properties *)

(* An uninstall can find every timer it has to disable: wherever         *)
(* installing, uninstalling or purging fails or is killed, and whatever is *)
(* run after it, no timer stays enabled whose file is gone.                *)
(* UninstallTrafficTimers asks only for the file.                          *)
TimersHaveFiles == \A p \in on : <<p, "timer">> \in timers

(* The base-dir outlives what needs it: once config.yaml is gone no timer *)
(* is enabled and no service file of a configured instance is left, at     *)
(* every step of the purge, so that a purge cut short can be run again     *)
(* with the configuration it needs to find the rest.                       *)
BaseOutlivesServices ==
    ~base => on = {} /\ timers = {} /\ \A i \in Configured : ~HasFile(i)

(* A purge that succeeds has stopped every configured instance that still  *)
(* had a service file when it began, and removed all it manages            *)
(* (docs/cli-spec.md, "uninstall all --purge").                            *)
PurgeRemoves ==
    result = "ok" /\ job.name = "purge" =>
        /\ job.managed \cap running = {}
        /\ ~base /\ ~resources /\ Configured = {} /\ timers = {} /\ on = {}
        /\ \A i \in job.targets : ~HasFile(i)

(* After an install or setup that succeeds, also one that follows a failed *)
(* or killed uninstall, every timer is on and every instance it was for    *)
(* can be started from the new file alone: systemd has loaded the template *)
(* and no old unit of that instance hides it.                              *)
InstallReady ==
    result = "ok" /\ job.name \in {"setup", "install"} =>
        /\ on = Periods
        /\ \A i \in job.targets :
              Known \cap FilesOf(i) = {IF kind = "systemd" THEN Template ELSE i}

(* "uninstall all --purge stops the instance services first, then deletes *)
(* the instance services, the traffic timers and the whole base-dir"       *)
(* (docs/cli-spec.md): when it has succeeded no instance runs.             *)
PurgeStopsServices == result = "ok" /\ job.name = "purge" => running = {}
=============================================================================
