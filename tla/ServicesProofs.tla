---------------------------- MODULE ServicesProofs ----------------------------
(***************************************************************************)
(* Proofs about Services, for any number of instances, periods, commands   *)
(* and faults: no timer outlives its file, the base-dir goes last, a purge *)
(* that succeeds has removed everything, an install that succeeds leaves   *)
(* every instance with the new file alone.                                 *)
(*                                                                         *)
(* Each invariant says of what a command still has to remove or to write   *)
(* that the call for it is still in the plan; the order of the loops says  *)
(* what is no longer in the plan when a call's turn comes.                 *)
(***************************************************************************)
EXTENDS Services, TLAPS

-----------------------------------------------------------------------------
(* The invariants *)

Left(does, x) == \E c \in plan : c.does = does /\ c.arg = x
Some(does) == \E c \in plan : c.does = does
Files == {"service", "timer"}
Drop(part) == IF part = "service" THEN "drop-service" ELSE "drop-timer"
Begun == result \in {"running", "ok"}

Typed ==
    /\ kind \in {"systemd", "launchd"}
    /\ base \in BOOLEAN /\ resources \in BOOLEAN
    /\ set \in [Instances -> {"none", "enabled", "disabled"}]
    /\ timers \subseteq Periods \X Files /\ on \subseteq Periods
    /\ job.targets \subseteq Instances /\ job.managed \subseteq job.targets

\* What is left is part of the command; nothing is left of one that has ended.
Planned ==
    /\ result = "running" => plan \subseteq Calls(job.name, job.targets) /\ job.name \in Commands
    /\ result # "running" => plan = {}

TimersSafe ==
    /\ TimersHaveFiles
    /\ \A p \in on : Left("drop-timer", p) => Left("off", p)

BaseSafe ==
    /\ BaseOutlivesServices
    /\ ~base /\ result = "running" => job.name = "purge"

\* A purge: whatever there is to remove is left to remove.
Purging ==
    Begun /\ job.name = "purge" =>
        /\ \A p \in Periods, part \in Files : <<p, part>> \in timers => Left(Drop(part), p)
        /\ \A i \in job.targets :
              /\ i \in units => Left("drop-unit", i)
              /\ kind = "systemd" /\ Template \in units => Left("drop-template", i)
        /\ resources => Some("resources")
        /\ base \/ Configured # {} => Some("base")
        /\ \A i \in Configured : i \in job.targets \/ ~HasFile(i)
        /\ Some("stop") => \A i \in job.managed : HasFile(i)
        /\ \A i \in job.managed \cap running : Left("stop", i)

\* An install or setup: whatever there is to write, and the old units to remove.
Installing ==
    Begun /\ job.name \in {"setup", "install"} =>
        /\ \A p \in Periods : p \in on \/ Left("enable", p)
        /\ kind = "systemd" =>
              /\ Template \in units \/ Left("write-unit", Template)
              /\ \A i \in job.targets : i \notin units \/ Left("drop-unit", i)
              /\ Some("reload") \/ (Template \in loaded /\ job.targets \cap loaded = {})
        /\ kind = "launchd" => \A i \in job.targets : i \in units \/ Left("write-unit", i)

ServicesInv == Typed /\ Planned /\ TimersSafe /\ BaseSafe /\ Purging /\ Installing

-----------------------------------------------------------------------------
(* The calls of the commands *)

\* c is a call of loop n over S, at this place of its body.
Is(c, n, S, step, does) == c.loop = n /\ c.arg \in S /\ c.step = step /\ c.does = does

\* The calls of a loop, by the length of its body.
LEMMA LoopCalls ==
    ASSUME NEW n, NEW S, NEW c
    PROVE  /\ \A x : c \in Loop(n, S, <<x>>) => Is(c, n, S, 1, x)
           /\ \A x, y : c \in Loop(n, S, <<x, y>>) => Is(c, n, S, 1, x) \/ Is(c, n, S, 2, y)
           /\ \A x, y, z : c \in Loop(n, S, <<x, y, z>>) =>
                  Is(c, n, S, 1, x) \/ Is(c, n, S, 2, y) \/ Is(c, n, S, 3, z)
<1>1. \A x : DOMAIN <<x>> = {1} /\ <<x>>[1] = x
  OBVIOUS
<1>2. \A x, y : DOMAIN <<x, y>> = {1, 2} /\ <<x, y>>[1] = x /\ <<x, y>>[2] = y
  OBVIOUS
<1>3. \A x, y, z : DOMAIN <<x, y, z>> = {1, 2, 3} /\ <<x, y, z>>[1] = x /\ <<x, y, z>>[2] = y
                   /\ <<x, y, z>>[3] = z
  OBVIOUS
<1>4. \A x : c \in Loop(n, S, <<x>>) => Is(c, n, S, 1, x)
  BY <1>1 DEF Loop, Is
<1>5. \A x, y : c \in Loop(n, S, <<x, y>>) => Is(c, n, S, 1, x) \/ Is(c, n, S, 2, y)
  BY <1>2 DEF Loop, Is
<1>6. \A x, y, z : c \in Loop(n, S, <<x, y, z>>) =>
          Is(c, n, S, 1, x) \/ Is(c, n, S, 2, y) \/ Is(c, n, S, 3, z)
  BY <1>3 DEF Loop, Is
<1> QED BY <1>4, <1>5, <1>6

\* Every call of the body is made for every member.
LEMMA LoopMakes ==
    ASSUME NEW n, NEW S, NEW a \in S
    PROVE  /\ \A x : \E c \in Loop(n, S, <<x>>) : c.does = x /\ c.arg = a
           /\ \A x, y : /\ \E c \in Loop(n, S, <<x, y>>) : c.does = x /\ c.arg = a
                        /\ \E c \in Loop(n, S, <<x, y>>) : c.does = y /\ c.arg = a
           /\ \A x, y, z : /\ \E c \in Loop(n, S, <<x, y, z>>) : c.does = x /\ c.arg = a
                           /\ \E c \in Loop(n, S, <<x, y, z>>) : c.does = y /\ c.arg = a
                           /\ \E c \in Loop(n, S, <<x, y, z>>) : c.does = z /\ c.arg = a
<1> DEFINE Call(calls, k) == [loop |-> n, arg |-> a, step |-> k, does |-> calls[k]]
<1>1. \A calls : \A k \in DOMAIN calls :
          Call(calls, k) \in Loop(n, S, calls) /\ Call(calls, k).does = calls[k] /\ Call(calls, k).arg = a
  BY DEF Loop
<1> HIDE DEF Call
<1>2. ASSUME NEW x PROVE \E c \in Loop(n, S, <<x>>) : c.does = x /\ c.arg = a
  <2>1. 1 \in DOMAIN <<x>> /\ <<x>>[1] = x
    OBVIOUS
  <2> QED BY <1>1, <2>1
<1>3. ASSUME NEW x, NEW y
      PROVE  /\ \E c \in Loop(n, S, <<x, y>>) : c.does = x /\ c.arg = a
             /\ \E c \in Loop(n, S, <<x, y>>) : c.does = y /\ c.arg = a
  <2>1. {1, 2} \subseteq DOMAIN <<x, y>> /\ <<x, y>>[1] = x /\ <<x, y>>[2] = y
    OBVIOUS
  <2> QED BY <1>1, <2>1
<1>4. ASSUME NEW x, NEW y, NEW z
      PROVE  /\ \E c \in Loop(n, S, <<x, y, z>>) : c.does = x /\ c.arg = a
             /\ \E c \in Loop(n, S, <<x, y, z>>) : c.does = y /\ c.arg = a
             /\ \E c \in Loop(n, S, <<x, y, z>>) : c.does = z /\ c.arg = a
  <2>1. /\ {1, 2, 3} \subseteq DOMAIN <<x, y, z>>
        /\ <<x, y, z>>[1] = x /\ <<x, y, z>>[2] = y /\ <<x, y, z>>[3] = z
    OBVIOUS
  <2> QED BY <1>1, <2>1
<1> QED BY <1>2, <1>3, <1>4

\* The calls of a purge and their places: only removals, the base-dir after all others.
LEMMA PurgeCalls ==
    ASSUME NEW targets, NEW c \in Calls("purge", targets)
    PROVE  \/ Is(c, 1, targets, 1, "stop") \/ Is(c, 2, {0}, 1, "resources")
           \/ Is(c, 3, Periods, 1, "off") \/ Is(c, 3, Periods, 2, "drop-service")
           \/ Is(c, 3, Periods, 3, "drop-timer") \/ Is(c, 4, {0}, 1, "unload")
           \/ c.loop = 5 /\ c.arg \in targets /\ c.does \in {"drop-template", "drop-unit"}
           \/ Is(c, 6, {0}, 1, "unload") \/ Is(c, 8, {0}, 1, "base")
<1>1. \/ c \in Loop(1, targets, <<"stop">>) \/ c \in Loop(2, {0}, <<"resources">>)
      \/ c \in Loop(3, Periods, <<"off", "drop-service", "drop-timer">>) \/ c \in Loop(4, {0}, <<"unload">>)
      \/ c \in Loop(5, targets, <<"drop-template", "drop-unit">>) \/ c \in Loop(5, targets, <<"drop-unit">>)
      \/ c \in Loop(6, {0}, <<"unload">>) \/ c \in Loop(8, {0}, <<"base">>)
  BY DEF Calls, Purge, UninstallTimers, UninstallUnits, Once
<1> QED BY <1>1, LoopCalls DEF Is

\* The calls of an install: the files, then a reload, and the timers after their files.
LEMMA InstallCalls ==
    ASSUME NEW name \in {"setup", "install"}, NEW targets, NEW c \in Calls(name, targets)
    PROVE  \/ Is(c, 1, IF kind = "systemd" THEN {Template} ELSE targets, 1, "write-unit")
           \/ kind = "systemd" /\ Is(c, 2, targets, 1, "drop-unit")
           \/ kind = "systemd" /\ Is(c, 3, {0}, 1, "reload")
           \/ Is(c, 5, {0}, 1, "reload")
           \/ c.loop = 4 /\ c.arg \in Periods /\ c.does \in {"write-service", "write-timer"}
           \/ Is(c, 6, Periods, 1, "enable")
<1>1. \/ kind = "systemd" /\ c \in Loop(1, {Template}, <<"write-unit">>)
      \/ kind # "systemd" /\ c \in Loop(1, targets, <<"write-unit">>)
      \/ kind = "systemd" /\ c \in Loop(2, targets, <<"drop-unit">>)
      \/ kind = "systemd" /\ c \in Loop(3, {0}, <<"reload">>)
      \/ c \in Loop(4, Periods, <<"write-service", "write-timer">>)
      \/ c \in Loop(4, Periods, <<"write-timer">>)
      \/ c \in Loop(5, {0}, <<"reload">>) \/ c \in Loop(6, Periods, <<"enable">>)
  BY DEF Calls, InstallUnits, InstallTimers, Once
<1> QED BY <1>1, LoopCalls DEF Is

\* The calls of the other commands.
LEMMA OtherCalls ==
    ASSUME NEW name \in Commands \ {"setup", "install", "purge"}, NEW targets, NEW c \in Calls(name, targets)
    PROVE  \/ c.does \in {"drop-template", "drop-unit", "unload", "resources", "reload", "start",
                          "service-stop"}
           \/ /\ name # "traffic-uninstall"
              /\ c.arg \in Periods /\ c.does \in {"write-service", "write-timer", "enable", "disable"}
           \/ /\ name = "traffic-uninstall"
              /\ \/ Is(c, 3, Periods, 1, "off") \/ Is(c, 3, Periods, 2, "drop-service")
                 \/ Is(c, 3, Periods, 3, "drop-timer")
<1>1. name \in {"uninstall", "uninstall-resource", "traffic-install", "traffic-uninstall",
                "traffic-enable", "traffic-disable", "start", "stop"}
  BY ServicesAssumption
<1>2. CASE name \in {"uninstall", "uninstall-resource"}
  <2>1. \/ c \in Loop(2, {0}, <<"resources">>)
        \/ c \in Loop(5, targets, <<"drop-template", "drop-unit">>)
        \/ c \in Loop(5, targets, <<"drop-unit">>) \/ c \in Loop(6, {0}, <<"unload">>)
    BY <1>2 DEF Calls, UninstallUnits, Once
  <2> QED BY <2>1, LoopCalls DEF Is
<1>3. CASE name = "traffic-install"
  <2>1. \/ c \in Loop(4, Periods, <<"write-service", "write-timer">>)
        \/ c \in Loop(4, Periods, <<"write-timer">>)
        \/ c \in Loop(5, {0}, <<"reload">>) \/ c \in Loop(6, Periods, <<"enable">>)
    BY <1>3 DEF Calls, InstallTimers, Once
  <2> QED BY <1>3, <2>1, LoopCalls DEF Is
<1>4. CASE name = "traffic-uninstall"
  <2>1. \/ c \in Loop(3, Periods, <<"off", "drop-service", "drop-timer">>)
        \/ c \in Loop(4, {0}, <<"unload">>)
    BY <1>4 DEF Calls, UninstallTimers, Once
  <2> QED BY <1>4, <2>1, LoopCalls DEF Is
<1>5. CASE name \in {"traffic-enable", "traffic-disable", "start", "stop"}
  <2>1. \/ c \in Loop(1, Periods, <<"enable">>) \/ c \in Loop(1, Periods, <<"disable">>)
        \/ c \in Loop(1, targets, <<"start">>) \/ c \in Loop(1, targets, <<"service-stop">>)
    BY <1>5 DEF Calls
  <2> QED BY <1>5, <2>1, LoopCalls DEF Is
<1> QED BY <1>1, <1>2, <1>3, <1>4, <1>5

\* What a purge begins with.
LEMMA PurgePlan ==
    ASSUME NEW targets
    PROVE  LET In(does, x) == \E c \in Calls("purge", targets) : c.does = does /\ c.arg = x
           IN /\ \A p \in Periods : In("off", p) /\ In("drop-service", p) /\ In("drop-timer", p)
              /\ \A i \in targets : /\ In("stop", i) /\ In("drop-unit", i)
                                    /\ kind = "systemd" => In("drop-template", i)
              /\ In("resources", 0) /\ In("base", 0)
<1> DEFINE calls == Calls("purge", targets)
<1>1. /\ Loop(1, targets, <<"stop">>) \subseteq calls /\ Loop(2, {0}, <<"resources">>) \subseteq calls
      /\ Loop(3, Periods, <<"off", "drop-service", "drop-timer">>) \subseteq calls
      /\ kind = "systemd" => Loop(5, targets, <<"drop-template", "drop-unit">>) \subseteq calls
      /\ kind # "systemd" => Loop(5, targets, <<"drop-unit">>) \subseteq calls
      /\ Loop(8, {0}, <<"base">>) \subseteq calls
  BY DEF Calls, Purge, UninstallTimers, UninstallUnits, Once
<1> HIDE DEF calls
<1>2. \A p \in Periods : /\ \E c \in calls : c.does = "off" /\ c.arg = p
                         /\ \E c \in calls : c.does = "drop-service" /\ c.arg = p
                         /\ \E c \in calls : c.does = "drop-timer" /\ c.arg = p
  BY <1>1, LoopMakes
<1>3. \A i \in targets : \E c \in calls : c.does = "stop" /\ c.arg = i
  BY <1>1, LoopMakes
<1>4. \A i \in targets : /\ \E c \in calls : c.does = "drop-unit" /\ c.arg = i
                         /\ kind = "systemd" => \E c \in calls : c.does = "drop-template" /\ c.arg = i
  BY <1>1, LoopMakes
<1>5. (\E c \in calls : c.does = "resources" /\ c.arg = 0) /\ (\E c \in calls : c.does = "base" /\ c.arg = 0)
  <2>1. 0 \in {0}
    OBVIOUS
  <2> QED BY <1>1, <2>1, LoopMakes
<1> QED BY <1>2, <1>3, <1>4, <1>5 DEF calls

\* What an install begins with.
LEMMA InstallPlan ==
    ASSUME NEW name \in {"setup", "install"}, NEW targets
    PROVE  LET In(does, x) == \E c \in Calls(name, targets) : c.does = does /\ c.arg = x
           IN /\ \A p \in Periods : In("enable", p)
              /\ In("reload", 0)
              /\ kind = "systemd" => In("write-unit", Template) /\ \A i \in targets : In("drop-unit", i)
              /\ kind # "systemd" => \A i \in targets : In("write-unit", i)
<1> DEFINE calls == Calls(name, targets)
<1>1. /\ Loop(6, Periods, <<"enable">>) \subseteq calls /\ Loop(5, {0}, <<"reload">>) \subseteq calls
      /\ kind = "systemd" => /\ Loop(1, {Template}, <<"write-unit">>) \subseteq calls
                             /\ Loop(2, targets, <<"drop-unit">>) \subseteq calls
      /\ kind # "systemd" => Loop(1, targets, <<"write-unit">>) \subseteq calls
  BY DEF Calls, InstallUnits, InstallTimers, Once
<1> HIDE DEF calls
<1>2. \A p \in Periods : \E c \in calls : c.does = "enable" /\ c.arg = p
  BY <1>1, LoopMakes
<1>3. 0 \in {0} /\ Template \in {Template}
  OBVIOUS
<1>4. \E c \in calls : c.does = "reload" /\ c.arg = 0
  BY <1>1, <1>3, LoopMakes
<1>5. kind = "systemd" => /\ \E c \in calls : c.does = "write-unit" /\ c.arg = Template
                          /\ \A i \in targets : \E c \in calls : c.does = "drop-unit" /\ c.arg = i
  BY <1>1, <1>3, LoopMakes
<1>6. kind # "systemd" => \A i \in targets : \E c \in calls : c.does = "write-unit" /\ c.arg = i
  BY <1>1, LoopMakes
<1> QED BY <1>2, <1>4, <1>5, <1>6 DEF calls
\* A removal of the timers disables each before its file goes.
LEMMA OffPlan ==
    ASSUME NEW p \in Periods, NEW targets
    PROVE  \E c \in Calls("traffic-uninstall", targets) : c.does = "off" /\ c.arg = p
<1>1. Loop(3, Periods, <<"off", "drop-service", "drop-timer">>) \subseteq Calls("traffic-uninstall", targets)
  BY DEF Calls, UninstallTimers
<1>2. \E c \in Loop(3, Periods, <<"off", "drop-service", "drop-timer">>) : c.does = "off" /\ c.arg = p
  BY LoopMakes
<1> QED BY <1>1, <1>2

\* Where the calls stand that switch timers on and off or remove their files.
LEMMA TimerCalls ==
    ASSUME NEW name \in Commands, NEW targets, NEW c \in Calls(name, targets)
    PROVE  /\ c.does = "off" => c.loop = 3 /\ c.step = 1
           /\ c.does = "drop-timer" => /\ name \in {"purge", "traffic-uninstall"}
                                       /\ c.loop = 3 /\ c.step = 3 /\ c.arg \in Periods
           /\ c.does = "enable" => c.arg \in Periods /\ name \notin {"purge", "traffic-uninstall"}
           /\ c.does \in {"write-service", "write-timer"} => c.arg \in Periods
<1>1. CASE name = "purge"
  BY <1>1, PurgeCalls DEF Is
<1>2. CASE name \in {"setup", "install"}
  BY <1>2, InstallCalls DEF Is
<1>3. CASE name \notin {"setup", "install", "purge"}
  BY <1>3, OtherCalls DEF Is
<1> QED BY <1>1, <1>2, <1>3

\* The same calls as long as the machine and the command are the same.
LEMMA SameCalls ==
    ASSUME kind' = kind, NEW name, NEW targets
    PROVE  Calls(name, targets)' = Calls(name, targets)
BY DEF Calls, InstallUnits, InstallTimers, UninstallUnits, UninstallTimers, Purge, Loop, Once

\* What is left stays left when another call is made.
LEMMA LeftStays ==
    ASSUME NEW c, NEW does, NEW x, plan' = plan \ {c}, Left(does, x), c.does # does \/ c.arg # x
    PROVE  Left(does, x)'
BY DEF Left

LEMMA SomeStays ==
    ASSUME NEW c, NEW does, plan' = plan \ {c}, Some(does), c.does # does
    PROVE  Some(does)'
BY DEF Some

\* Nothing that comes before the call whose turn it is is left.
LEMMA NoneBefore ==
    ASSUME NEW c \in plan, Due(c), NEW d \in plan
    PROVE  /\ ~(d.loop < c.loop)
           /\ ~(d.loop = c.loop /\ d.arg = c.arg /\ d.step < c.step)
BY DEF Due, Before

-----------------------------------------------------------------------------
(* The steps *)

\* What every call does to the command.
LEMMA CallOrEnd ==
    ASSUME NEW c \in plan, Due(c), Manager(c)
    PROVE  /\ kind' = kind /\ job' = job /\ bounds' = bounds /\ result = "running"
           /\ \/ plan' = plan \ {c} /\ result' = "running"
              \/ RemoveBaseEntry(c) /\ plan' = plan /\ result' = "running"
              \/ Fails(c) /\ plan' = {} /\ result' = "error"
BY DEF Due, Manager, Returns, End, command, config, WriteUnit, DropUnit, Reload, Unload, WriteTimer, EnableTimer,
       DisableTimer, TimerOff, DropTimer, StopForUninstall, StartService, StopService, RemoveResources,
       RemoveBaseEntry, RemoveBase, Fails

LEMMA PlannedStep ==
    ASSUME ServicesInv, [Next]_vars
    PROVE  Planned'
<1> USE DEF ServicesInv, Planned
<1>1. ASSUME NEW name \in Commands, NEW targets, Start(name, targets)
      PROVE  Planned'
  <2>1. kind' = kind /\ job'.name = name /\ job'.targets = targets /\ plan' = Calls(name, targets)
        /\ result' = "running"
    BY <1>1 DEF Start
  <2>2. Calls(name, targets)' = Calls(name, targets)
    BY <2>1, SameCalls
  <2>3. (Calls(job.name, job.targets))' = Calls(name, targets)
    BY <2>1, <2>2
  <2> QED BY <2>1, <2>3
<1>2. ASSUME NEW c \in plan, Due(c), Manager(c)
      PROVE  Planned'
  <2>1. kind' = kind /\ job' = job /\ result = "running" /\ plan' \subseteq plan
        /\ (result' = "running" \/ plan' = {})
    BY <1>2, CallOrEnd
  <2>2. Calls(job.name, job.targets)' = Calls(job.name, job.targets)
    BY <2>1, SameCalls
  <2> QED BY <2>1, <2>2
<1>3. ASSUME EditSet \/ SetupBinary PROVE Planned'
  BY <1>3 DEF EditSet, SetupBinary, Idle
<1>4. ASSUME Finish \/ Fault PROVE Planned'
  BY <1>4 DEF Finish, Fault, End
<1>5. ASSUME UNCHANGED vars PROVE Planned'
  <2>1. kind' = kind /\ job' = job /\ plan' = plan /\ result' = result
    BY <1>5 DEF vars, config, command
  <2>2. Calls(job.name, job.targets)' = Calls(job.name, job.targets)
    BY <2>1, SameCalls
  <2> QED BY <2>1, <2>2
<1> QED BY <1>1, <1>2, <1>3, <1>4, <1>5 DEF Next, Begin, Setup, BeginPurge
LEMMA TypedStep ==
    ASSUME ServicesInv, [Next]_vars
    PROVE  Typed'
<1> USE DEF ServicesInv, Typed
<1>1. ASSUME NEW name, NEW targets \in SUBSET Instances, Start(name, targets),
             base' \in BOOLEAN, set' \in [Instances -> {"none", "enabled", "disabled"}]
      PROVE  Typed'
  BY <1>1 DEF Start, files, manager
<1>2. ASSUME NEW name, NEW target, Begin(name, target)
      PROVE  Typed'
  <2>1. Select(target) \subseteq Instances
    BY <1>2 DEF Begin, Select, Configured, Enabled
  <2> QED BY <1>1, <1>2, <2>1 DEF Begin
<1>3. ASSUME Setup PROVE Typed'
  <2>1. Enabled \subseteq Instances
    BY DEF Enabled
  <2> QED BY <1>1, <1>3, <2>1 DEF Setup
<1>4. ASSUME BeginPurge PROVE Typed'
  <2>1. (IF base THEN Configured ELSE {}) \subseteq Instances
    BY DEF Configured
  <2> QED BY <1>1, <1>4, <2>1 DEF BeginPurge
<1>5. ASSUME EditSet \/ SetupBinary PROVE Typed'
  BY <1>5 DEF EditSet, SetupBinary, config, files, manager
<1>6. ASSUME NEW c \in plan, Due(c), Manager(c)
      PROVE  Typed'
  <2>1. kind' = kind /\ job' = job /\ c \in Calls(job.name, job.targets) /\ job.name \in Commands
    BY <1>6, CallOrEnd DEF Planned
  <2>2. timers' \subseteq Periods \X Files
    <3>1. CASE WriteTimer(c)
      BY <3>1, <2>1, TimerCalls DEF WriteTimer, Files
    <3>2. CASE DropTimer(c)
      BY <3>2 DEF DropTimer
    <3>3. CASE UNCHANGED timers
      BY <3>3
    <3> QED BY <1>6, <3>1, <3>2, <3>3
        DEF Manager, WriteUnit, DropUnit, Reload, Unload, EnableTimer, DisableTimer, TimerOff, StopForUninstall,
            StartService, StopService, RemoveResources, RemoveBaseEntry, RemoveBase, Fails, files
  <2>3. on' \subseteq Periods
    <3>1. CASE EnableTimer(c)
      BY <3>1, <2>1, TimerCalls DEF EnableTimer
    <3>2. CASE Fails(c)
      BY <3>2 DEF Fails, EnabledAnyway
    <3>3. CASE on' \subseteq on
      BY <3>3
    <3> QED BY <1>6, <3>1, <3>2, <3>3
        DEF Manager, WriteUnit, DropUnit, Reload, Unload, WriteTimer, DropTimer, DisableTimer, TimerOff,
            StopForUninstall, StartService, StopService, RemoveResources, RemoveBaseEntry, RemoveBase, manager
  <2>4. base' \in BOOLEAN /\ resources' \in BOOLEAN
    BY <1>6 DEF Manager, WriteUnit, DropUnit, Reload, Unload, WriteTimer, DropTimer, EnableTimer, DisableTimer,
                TimerOff, StopForUninstall, StartService, StopService, RemoveResources, RemoveBaseEntry,
                RemoveBase, Fails, config
  <2>5. set' \in [Instances -> {"none", "enabled", "disabled"}]
    <3>1. CASE RemoveBaseEntry(c)
      BY <3>1 DEF RemoveBaseEntry
    <3>2. CASE UNCHANGED set
      BY <3>2
    <3> QED BY <1>6, <3>1, <3>2
        DEF Manager, WriteUnit, DropUnit, Reload, Unload, WriteTimer, DropTimer, EnableTimer, DisableTimer,
            TimerOff, StopForUninstall, StartService, StopService, RemoveResources, RemoveBase, Fails, config
  <2> QED BY <2>1, <2>2, <2>3, <2>4, <2>5
<1>7. ASSUME Finish \/ Fault PROVE Typed'
  <2>1. UNCHANGED <<kind, base, set, resources, timers, job>>
    BY <1>7 DEF Finish, Fault, End, config, files
  <2>2. on' \subseteq Periods
    BY <1>7 DEF Finish, Fault, CutShort, EnabledAnyway, manager
  <2> QED BY <2>1, <2>2
<1>8. ASSUME UNCHANGED vars PROVE Typed'
  BY <1>8 DEF vars, config, files, manager, command
<1> QED BY <1>2, <1>3, <1>4, <1>5, <1>6, <1>7, <1>8 DEF Next

LEMMA TimersStep ==
    ASSUME ServicesInv, [Next]_vars
    PROVE  TimersSafe'
<1> USE DEF ServicesInv, TimersSafe, TimersHaveFiles
<1>1. ASSUME NEW name \in Commands, NEW targets, Start(name, targets)
      PROVE  TimersSafe'
  <2>1. on' = on /\ timers' = timers /\ plan' = Calls(name, targets)
    BY <1>1 DEF Start, files, manager
  <2>2. ASSUME NEW p \in on, NEW d \in Calls(name, targets), d.does = "drop-timer"
        PROVE  \E e \in Calls(name, targets) : e.does = "off" /\ e.arg = p
    <3>1. p \in Periods /\ name \in {"purge", "traffic-uninstall"}
      BY <2>2, TimerCalls DEF Typed
    <3> QED BY <3>1, PurgePlan, OffPlan
  <2> QED BY <2>1, <2>2 DEF Left
<1>2. ASSUME NEW c \in plan, Due(c), Manager(c)
      PROVE  TimersSafe'
  <2>1. job.name \in Commands /\ \A d \in plan : d \in Calls(job.name, job.targets)
    BY <1>2, CallOrEnd DEF Planned
  <2>2. plan' \subseteq plan
    BY <1>2, CallOrEnd
  <2>3. CASE TimerOff(c)
    <3>1. c.does = "off" /\ on' = on \ {c.arg} /\ timers' = timers /\ plan' = plan \ {c}
      BY <2>3 DEF TimerOff, Returns, files
    <3>2. ASSUME NEW p \in on', Left("drop-timer", p)' PROVE Left("off", p)'
      BY <2>2, <3>1, <3>2, LeftStays DEF Left
    <3> QED BY <3>1, <3>2
  <2>4. CASE DropTimer(c)
    <3>1. /\ on' = on /\ plan' = plan \ {c} /\ c.does # "off"
          /\ \/ c.does = "drop-service" /\ timers' = timers \ {<<c.arg, "service">>}
             \/ c.does = "drop-timer" /\ timers' = timers \ {<<c.arg, "timer">>}
      BY <2>4 DEF DropTimer, Returns, manager
    <3>2. ASSUME c.does = "drop-timer" PROVE c.arg \notin on
      <4>1. SUFFICES ASSUME c.arg \in on PROVE FALSE
        OBVIOUS
      <4>2. PICK d \in plan : d.does = "off" /\ d.arg = c.arg
        BY <3>2, <4>1 DEF Left
      <4>3. d.loop = c.loop /\ d.step = 1 /\ c.step = 3
        BY <2>1, <3>2, <4>2, TimerCalls
      <4> QED BY <1>2, <4>2, <4>3, NoneBefore
    <3>3. ASSUME NEW p \in on PROVE <<p, "timer">> \in timers'
      BY <3>1, <3>2
    <3>4. ASSUME NEW p \in on', Left("drop-timer", p)' PROVE Left("off", p)'
      BY <2>2, <3>1, <3>4, LeftStays DEF Left
    <3> QED BY <3>1, <3>3, <3>4
  <2>5. CASE EnableTimer(c)
    <3>1. on' = on \cup {c.arg} /\ timers' = timers /\ <<c.arg, "timer">> \in timers
      BY <2>5 DEF EnableTimer, TimerFiles, files
    <3>2. c.does = "enable"
      BY <2>5 DEF EnableTimer
    <3>3. job.name \notin {"purge", "traffic-uninstall"}
      BY <2>1, <3>2, TimerCalls
    <3>4. \A d \in plan' : d.does # "drop-timer"
      BY <2>1, <2>2, <3>3, TimerCalls
    <3> QED BY <3>1, <3>4 DEF Left
  <2>6. CASE Fails(c)
    <3>1. timers' = timers /\ plan' = {} /\ \A p \in on' : p \in on \/ <<p, "timer">> \in timers
      BY <2>6 DEF Fails, End, EnabledAnyway, files
    <3> QED BY <3>1 DEF Left
  <2>7. CASE \/ WriteUnit(c) \/ DropUnit(c) \/ Reload(c) \/ Unload(c) \/ WriteTimer(c) \/ DisableTimer(c)
             \/ StopForUninstall(c) \/ StartService(c) \/ StopService(c) \/ RemoveResources(c)
             \/ RemoveBaseEntry(c) \/ RemoveBase(c)
    <3>1. on' \subseteq on /\ timers \subseteq timers'
      BY <2>7 DEF WriteUnit, DropUnit, Reload, Unload, WriteTimer, DisableTimer, StopForUninstall, StartService,
                  StopService, RemoveResources, RemoveBaseEntry, RemoveBase, files, manager
    <3>2. (plan' = plan \ {c} /\ c.does # "off") \/ plan' = plan
      BY <2>7 DEF WriteUnit, DropUnit, Reload, Unload, WriteTimer, DisableTimer, StopForUninstall, StartService,
                  StopService, RemoveResources, RemoveBaseEntry, RemoveBase, Returns, command
    <3>3. ASSUME NEW p \in on', Left("drop-timer", p)' PROVE Left("off", p)'
      <4>1. Left("drop-timer", p) /\ p \in on
        BY <2>2, <3>1, <3>3 DEF Left
      <4> QED BY <3>2, <4>1, LeftStays DEF Left
    <3> QED BY <3>1, <3>3
  <2> QED BY <1>2, <2>3, <2>4, <2>5, <2>6, <2>7 DEF Manager
<1>3. ASSUME EditSet \/ SetupBinary \/ UNCHANGED vars PROVE TimersSafe'
  BY <1>3 DEF EditSet, SetupBinary, files, manager, vars, command, Left
<1>4. ASSUME Finish \/ Fault PROVE TimersSafe'
  <2>1. plan' = {} /\ timers' = timers
    BY <1>4 DEF Finish, Fault, End, files
  <2>2. \A p \in on' : p \in on \/ <<p, "timer">> \in timers
    BY <1>4 DEF Finish, Fault, CutShort, EnabledAnyway, manager
  <2> QED BY <2>1, <2>2 DEF TimersSafe, TimersHaveFiles, Left
<1> QED BY <1>1, <1>2, <1>3, <1>4 DEF Next, Begin, Setup, BeginPurge
\* Only a purge removes the base-dir.
LEMMA OnlyPurge ==
    ASSUME NEW name \in Commands, NEW targets, NEW c \in Calls(name, targets), c.does = "base"
    PROVE  name = "purge"
<1>1. CASE name \in {"setup", "install"}
  BY <1>1, InstallCalls DEF Is
<1>2. CASE name \notin {"setup", "install", "purge"}
  BY <1>2, OtherCalls DEF Is
<1> QED BY <1>1, <1>2

\* When the base-dir's turn comes, everything else of the purge is done.
LEMMA BaseLast ==
    ASSUME ServicesInv, NEW c \in plan, Due(c), c.does = "base"
    PROVE  on = {} /\ timers = {} /\ \A i \in Configured : ~HasFile(i)
<1> USE DEF ServicesInv
<1>1. /\ result = "running" /\ job.name = "purge"
      /\ \A d \in plan : d \in Calls("purge", job.targets)
  BY OnlyPurge DEF Planned, Due
<1>2. c.loop = 8
  BY <1>1, PurgeCalls DEF Is
<1>3. \A d \in plan : d.does \notin {"drop-service", "drop-timer", "drop-template", "drop-unit"}
  <2>1. ASSUME NEW d \in plan, d.does \in {"drop-service", "drop-timer", "drop-template", "drop-unit"}
        PROVE  d.loop \in {3, 5}
    BY <1>1, <2>1, PurgeCalls DEF Is
  <2>2. ASSUME NEW d \in plan, d.loop \in {3, 5} PROVE FALSE
    <3>1. d.loop < c.loop
      BY <1>2, <2>2
    <3> QED BY <3>1, NoneBefore
  <2> QED BY <2>1, <2>2
<1>4. \A x : ~Left("drop-service", x) /\ ~Left("drop-timer", x)
            /\ ~Left("drop-template", x) /\ ~Left("drop-unit", x)
  BY <1>3 DEF Left
<1>5. /\ \A p \in Periods, part \in Files : <<p, part>> \in timers => Left(Drop(part), p)
      /\ \A i \in job.targets : /\ i \in units => Left("drop-unit", i)
                                /\ kind = "systemd" /\ Template \in units => Left("drop-template", i)
      /\ \A i \in Configured : i \in job.targets \/ ~HasFile(i)
  BY <1>1 DEF Purging, Begun
<1>6. timers = {}
  BY <1>4, <1>5 DEF Typed, Drop
<1>7. on = {}
  BY <1>6 DEF TimersSafe, TimersHaveFiles
<1>8. \A i \in Configured : ~HasFile(i)
  BY <1>4, <1>5 DEF HasFile, FilesOf
<1> QED BY <1>6, <1>7, <1>8

LEMMA BaseStep ==
    ASSUME ServicesInv, [Next]_vars
    PROVE  BaseSafe'
<1> USE DEF ServicesInv, BaseSafe, BaseOutlivesServices
<1>1. ASSUME NEW name \in Commands, NEW target, Begin(name, target)
      PROVE  BaseSafe'
  BY <1>1 DEF Begin
<1>2. ASSUME Setup \/ EditSet PROVE BaseSafe'
  BY <1>2 DEF Setup, EditSet
<1>7. ASSUME SetupBinary PROVE BaseSafe'
  BY <1>7 DEF SetupBinary, config, files, manager, Configured, HasFile, FilesOf
<1>3. ASSUME BeginPurge PROVE BaseSafe'
  <2>1. UNCHANGED <<kind, base, set, units, timers, on>> /\ job'.name = "purge"
    BY <1>3 DEF BeginPurge, Start, files, manager
  <2> QED BY <2>1 DEF Configured, HasFile, FilesOf
<1>4. ASSUME NEW c \in plan, Due(c), Manager(c)
      PROVE  BaseSafe'
  <2>1. kind' = kind /\ job' = job /\ result = "running" /\ c \in Calls(job.name, job.targets)
    BY <1>4, CallOrEnd DEF Planned
  <2>2. CASE c.does = "base"
    <3>1. on = {} /\ timers = {} /\ (\A i \in Configured : ~HasFile(i)) /\ job.name = "purge"
      BY <1>4, <2>1, <2>2, BaseLast, OnlyPurge DEF Planned
    <3>2. RemoveBaseEntry(c) \/ RemoveBase(c)
      BY <1>4, <2>2 DEF Manager, WriteUnit, DropUnit, Reload, Unload, WriteTimer, DropTimer, EnableTimer,
                        DisableTimer, TimerOff, StopForUninstall, StartService, StopService, RemoveResources,
                        Fails, Refused
    <3>3. units' = units /\ timers' = timers /\ on' = on
      BY <3>2 DEF RemoveBaseEntry, RemoveBase, files, manager
    <3>4. Configured' \subseteq Configured
      BY <3>2 DEF RemoveBaseEntry, RemoveBase, Configured, Typed
    <3> QED BY <2>1, <3>1, <3>3, <3>4 DEF HasFile, FilesOf
  <2>3. CASE c.does # "base"
    <3>1. base' = base /\ set' = set
      BY <1>4, <2>3 DEF Manager, WriteUnit, DropUnit, Reload, Unload, WriteTimer, DropTimer, EnableTimer,
                        DisableTimer, TimerOff, StopForUninstall, StartService, StopService, RemoveResources,
                        RemoveBaseEntry, RemoveBase, Fails, config
    <3>2. SUFFICES ASSUME ~base PROVE BaseSafe'
      BY <3>1
    <3>3. job.name = "purge"
      BY <2>1, <3>2
    <3>4. c.does \in {"stop", "resources", "off", "drop-service", "drop-timer", "drop-template", "drop-unit", "unload"}
      BY <2>1, <2>3, <3>3, PurgeCalls DEF Is
    <3>5. units' \subseteq units /\ timers' \subseteq timers /\ on' \subseteq on
      BY <1>4, <3>4 DEF Manager, WriteUnit, DropUnit, Reload, Unload, WriteTimer, DropTimer, EnableTimer,
                        DisableTimer, TimerOff, StopForUninstall, StartService, StopService, RemoveResources,
                        RemoveBaseEntry, RemoveBase, Fails, Refused, files, manager
    <3> QED BY <2>1, <3>1, <3>2, <3>3, <3>5 DEF Configured, HasFile, FilesOf
  <2> QED BY <2>2, <2>3
<1>5. ASSUME Finish \/ Fault PROVE BaseSafe'
  <2>1. UNCHANGED <<kind, base, set, units, timers>> /\ result' # "running"
    BY <1>5 DEF Finish, Fault, End, config, files
  <2>2. \A p \in on' : p \in on \/ <<p, "timer">> \in timers
    BY <1>5 DEF Finish, Fault, CutShort, EnabledAnyway, manager
  <2> QED BY <2>1, <2>2 DEF Configured, HasFile, FilesOf
<1>6. ASSUME UNCHANGED vars PROVE BaseSafe'
  <2>1. UNCHANGED <<kind, base, set, units, timers, on, job, result>>
    BY <1>6 DEF vars, config, files, manager, command
  <2> QED BY <2>1 DEF Configured, HasFile, FilesOf
<1> QED BY <1>1, <1>2, <1>3, <1>4, <1>5, <1>6, <1>7 DEF Next
\* What the calls of a purge do: each removes what it is for, and nothing comes back.
LEMMA PurgeEffects ==
    ASSUME NEW c, Manager(c), ~Fails(c),
           c.does \in {"stop", "resources", "off", "drop-service", "drop-timer", "unload", "drop-template",
                      "drop-unit", "base"}
    PROVE  /\ timers' = CASE c.does = "drop-service" -> timers \ {<<c.arg, "service">>}
                          [] c.does = "drop-timer" -> timers \ {<<c.arg, "timer">>}
                          [] OTHER -> timers
           /\ units' = CASE c.does = "drop-unit" -> units \ {c.arg}
                         [] c.does = "drop-template" -> units \ {Template}
                         [] OTHER -> units
           /\ resources' = IF c.does = "resources" THEN FALSE ELSE resources
           /\ running' = IF c.does = "stop" /\ HasFile(c.arg) THEN running \ {c.arg} ELSE running
           /\ c.does # "base" => UNCHANGED <<base, set>> /\ plan' = plan \ {c}
           /\ c.does = "base" => RemoveBaseEntry(c) \/ RemoveBase(c)
<1> USE DEF Manager, WriteUnit, DropUnit, Reload, Unload, WriteTimer, DropTimer, EnableTimer, DisableTimer, TimerOff,
            StopForUninstall, StartService, StopService, RemoveResources, files, manager
<1>1. c.does = "base" => RemoveBaseEntry(c) \/ RemoveBase(c)
  OBVIOUS
<1>2. c.does # "base" => UNCHANGED <<base, set>> /\ plan' = plan \ {c}
  BY DEF RemoveBaseEntry, RemoveBase, Returns
<1>3. timers' = CASE c.does = "drop-service" -> timers \ {<<c.arg, "service">>}
                  [] c.does = "drop-timer" -> timers \ {<<c.arg, "timer">>}
                  [] OTHER -> timers
  BY DEF RemoveBaseEntry, RemoveBase
<1>4. units' = CASE c.does = "drop-unit" -> units \ {c.arg}
                 [] c.does = "drop-template" -> units \ {Template}
                 [] OTHER -> units
  BY DEF RemoveBaseEntry, RemoveBase
<1>5. running' = IF c.does = "stop" /\ HasFile(c.arg) THEN running \ {c.arg} ELSE running
  BY DEF RemoveBaseEntry, RemoveBase
<1>6. resources' = IF c.does = "resources" THEN FALSE ELSE resources
  BY DEF RemoveBaseEntry, RemoveBase
<1> QED BY <1>1, <1>2, <1>3, <1>4, <1>5, <1>6

LEMMA PurgeStep ==
    ASSUME ServicesInv, [Next]_vars
    PROVE  Purging'
<1> USE DEF ServicesInv
<1>1. ASSUME NEW name \in Commands, NEW targets, Start(name, targets), name # "purge"
      PROVE  Purging'
  BY <1>1 DEF Start, Purging
<1>2. ASSUME BeginPurge PROVE Purging'
  <2> DEFINE targets == IF base THEN Configured ELSE {}
  <2>1. /\ job' = [name |-> "purge", targets |-> targets, managed |-> {i \in targets : HasFile(i)}]
        /\ plan' = Calls("purge", targets)
        /\ UNCHANGED <<kind, base, set, resources, units, timers, running>>
    BY <1>2 DEF BeginPurge, Start, files, manager
  <2> HIDE DEF targets
  <2>2. /\ \A p \in Periods : Left("drop-service", p)' /\ Left("drop-timer", p)'
        /\ \A i \in targets : /\ Left("stop", i)' /\ Left("drop-unit", i)'
                              /\ kind = "systemd" => Left("drop-template", i)'
        /\ Some("resources")' /\ Some("base")'
    <3>1. PICK calls : calls = Calls("purge", targets)
      OBVIOUS
    <3>2. /\ \A p \in Periods : /\ \E c \in calls : c.does = "drop-service" /\ c.arg = p
                               /\ \E c \in calls : c.does = "drop-timer" /\ c.arg = p
          /\ \A i \in targets : /\ \E c \in calls : c.does = "stop" /\ c.arg = i
                                /\ \E c \in calls : c.does = "drop-unit" /\ c.arg = i
                                /\ kind = "systemd" => \E c \in calls : c.does = "drop-template" /\ c.arg = i
          /\ \E c \in calls : c.does = "resources"
          /\ \E c \in calls : c.does = "base"
      BY <3>1, PurgePlan
    <3> QED BY <2>1, <3>1, <3>2 DEF Left, Some
  <2>3. \A i \in Configured : i \in targets \/ ~HasFile(i)
    BY DEF BaseSafe, BaseOutlivesServices, targets
  <2>4. Configured' = Configured /\ \A i : HasFile(i)' = HasFile(i)
    BY <2>1 DEF Configured, HasFile, FilesOf
  <2> QED BY <2>1, <2>2, <2>3, <2>4 DEF Purging, Drop, Files
<1>3. ASSUME NEW c \in plan, Due(c), Manager(c)
      PROVE  Purging'
  <2>1. kind' = kind /\ job' = job /\ result = "running" /\ c \in Calls(job.name, job.targets)
    BY <1>3, CallOrEnd DEF Planned
  <2>2. CASE Fails(c)
    BY <2>2 DEF Fails, End, Purging, Begun
  <2>3. CASE job.name # "purge"
    BY <2>1, <2>3 DEF Purging
  <2>4. CASE ~Fails(c) /\ job.name = "purge"
    <3>1. c.does \in {"stop", "resources", "off", "drop-service", "drop-timer", "unload", "drop-template",
                     "drop-unit", "base"}
      BY <2>1, <2>4, PurgeCalls DEF Is
    <3>2. c.does = "base" => (RemoveBaseEntry(c) /\ plan' = plan) \/ (RemoveBase(c) /\ plan' = plan \ {c})
      BY <1>3, <2>4, <3>1, PurgeEffects DEF RemoveBaseEntry, RemoveBase, Returns, command
    <3>3. c.does # "base" => UNCHANGED <<base, set>> /\ plan' = plan \ {c}
      BY <1>3, <2>4, <3>1, PurgeEffects
    <3>4. ASSUME NEW does, NEW x, Left(does, x), does # "base", c.does # does \/ c.arg # x
          PROVE  Left(does, x)'
      BY <3>2, <3>3, <3>4, LeftStays DEF Left
    <3>5. \A p \in Periods, part \in Files : <<p, part>> \in timers' => Left(Drop(part), p)'
      <4>1. SUFFICES ASSUME NEW p \in Periods, NEW part \in Files, <<p, part>> \in timers'
                     PROVE  Left(Drop(part), p)'
        OBVIOUS
      <4>2. <<p, part>> \in timers /\ (c.does # Drop(part) \/ c.arg # p)
        BY <1>3, <2>4, <3>1, <4>1, PurgeEffects DEF Drop, Files
      <4>3. Left(Drop(part), p) /\ Drop(part) # "base"
        BY <2>1, <2>4, <4>2 DEF Purging, Begun, Drop
      <4> HIDE DEF Drop
      <4>4. (Left(Drop(part), p))'
        BY <3>4, <4>2, <4>3
      <4> QED BY <4>4
    <3>6. \A i \in job.targets : /\ i \in units' => Left("drop-unit", i)'
                                 /\ kind = "systemd" /\ Template \in units' => Left("drop-template", i)'
      <4>1. units' = CASE c.does = "drop-unit" -> units \ {c.arg}
                       [] c.does = "drop-template" -> units \ {Template}
                       [] OTHER -> units
        BY <1>3, <2>4, <3>1, PurgeEffects
      <4>2. \A i \in job.targets : /\ i \in units => Left("drop-unit", i)
                                   /\ kind = "systemd" /\ Template \in units => Left("drop-template", i)
        BY <2>1, <2>4 DEF Purging, Begun
      <4> QED BY <3>4, <4>1, <4>2
    <3>7. resources' => Some("resources")'
      <4>1. resources' => resources /\ c.does # "resources"
        BY <1>3, <2>4, <3>1, PurgeEffects
      <4> QED BY <2>1, <2>4, <3>2, <3>3, <4>1, SomeStays DEF Purging, Begun, Some
    <3>8. base' \/ Configured' # {} => Some("base")'
      <4>1. CASE c.does = "base"
        BY <2>1, <2>4, <3>2, <4>1 DEF RemoveBaseEntry, RemoveBase, Configured, Some
      <4>2. CASE c.does # "base"
        BY <2>1, <2>4, <3>3, <4>2, SomeStays DEF Purging, Begun, Configured
      <4> QED BY <4>1, <4>2
    <3>9. Configured' \subseteq Configured /\ \A i : HasFile(i)' => HasFile(i)
      <4>1. units' \subseteq units
        BY <1>3, <2>4, <3>1, PurgeEffects
      <4>2. Configured' \subseteq Configured
        BY <3>2, <3>3 DEF RemoveBaseEntry, RemoveBase, Configured, Typed
      <4> QED BY <2>1, <4>1, <4>2 DEF HasFile, FilesOf
    <3>10. Some("stop")' => \A i \in job.managed : HasFile(i)'
      <4>1. SUFFICES ASSUME NEW d \in plan, d.does = "stop" PROVE \A i \in job.managed : HasFile(i)'
        BY <3>2, <3>3 DEF Some
      <4>2. d.loop = 1
        BY <2>1, <2>4, <4>1, PurgeCalls DEF Is, Planned
      <4>3. c.does \notin {"drop-unit", "drop-template"}
        <5>1. SUFFICES ASSUME c.does \in {"drop-unit", "drop-template"} PROVE FALSE
          OBVIOUS
        <5>2. c.loop = 5
          BY <2>1, <2>4, <5>1, PurgeCalls DEF Is
        <5>3. d.loop < c.loop
          BY <4>2, <5>2
        <5> QED BY <1>3, <5>3, NoneBefore
      <4>4. units' = units
        BY <1>3, <2>4, <3>1, <4>3, PurgeEffects
      <4>5. \A i \in job.managed : HasFile(i)
        BY <2>1, <2>4, <4>1 DEF Purging, Begun, Some
      <4> QED BY <2>1, <4>4, <4>5 DEF HasFile, FilesOf
    <3>11. \A i \in job.managed \cap running' : Left("stop", i)'
      <4>1. SUFFICES ASSUME NEW i \in job.managed, i \in running' PROVE Left("stop", i)'
        OBVIOUS
      <4>2. running' = IF c.does = "stop" /\ HasFile(c.arg) THEN running \ {c.arg} ELSE running
        BY <1>3, <2>4, <3>1, PurgeEffects
      <4>3. Left("stop", i) /\ (Some("stop") => HasFile(i))
        BY <2>1, <2>4, <4>1, <4>2 DEF Purging, Begun
      <4>4. HasFile(i)
        BY <4>3 DEF Left, Some
      <4> QED BY <3>4, <4>1, <4>2, <4>3, <4>4
    <3> QED BY <2>1, <2>4, <3>5, <3>6, <3>7, <3>8, <3>9, <3>10, <3>11 DEF Purging, Begun
  <2> QED BY <2>2, <2>3, <2>4
<1>4. ASSUME EditSet \/ SetupBinary PROVE Purging'
  BY <1>4 DEF EditSet, SetupBinary, Purging, Begun
<1>5. ASSUME Fault PROVE Purging'
  BY <1>5 DEF Fault, End, Purging, Begun
<1>6. ASSUME Finish \/ UNCHANGED vars PROVE Purging'
  <2>1. UNCHANGED <<kind, base, set, resources, units, timers, running, job, plan>> /\ (Begun' => Begun)
    BY <1>6 DEF Finish, End, config, files, manager, command, vars, Begun
  <2>2. Configured' = Configured /\ \A i : HasFile(i)' = HasFile(i)
    BY <2>1 DEF Configured, HasFile, FilesOf
  <2> QED BY <2>1, <2>2 DEF Purging, Left, Some
<1> QED BY <1>1, <1>2, <1>3, <1>4, <1>5, <1>6 DEF Next, Begin, Setup
\* What the calls of an install do.
LEMMA InstallEffects ==
    ASSUME NEW c, Manager(c), ~Fails(c),
           c.does \in {"write-unit", "drop-unit", "reload", "write-service", "write-timer", "enable"}
    PROVE  /\ plan' = plan \ {c}
           /\ units' = CASE c.does = "write-unit" -> units \cup {c.arg}
                         [] c.does = "drop-unit" -> units \ {c.arg}
                         [] OTHER -> units
           /\ loaded' = IF c.does = "reload" THEN Reloaded ELSE loaded
           /\ on' = IF c.does = "enable" THEN on \cup {c.arg} ELSE on
<1> USE DEF Manager, WriteUnit, DropUnit, Reload, Unload, WriteTimer, DropTimer, EnableTimer, DisableTimer, TimerOff,
            StopForUninstall, StartService, StopService, RemoveResources, RemoveBaseEntry, RemoveBase, files, manager
<1>1. plan' = plan \ {c}
  BY DEF Returns
<1>2. units' = CASE c.does = "write-unit" -> units \cup {c.arg}
                 [] c.does = "drop-unit" -> units \ {c.arg}
                 [] OTHER -> units
  OBVIOUS
<1>3. loaded' = IF c.does = "reload" THEN Reloaded ELSE loaded
  OBVIOUS
<1>4. on' = IF c.does = "enable" THEN on \cup {c.arg} ELSE on
  OBVIOUS
<1> QED BY <1>1, <1>2, <1>3, <1>4

\* When a reload's turn comes the unit files are as the install wants them.
LEMMA ReloadLast ==
    ASSUME ServicesInv, NEW c \in plan, Due(c), c.does = "reload", job.name \in {"setup", "install"},
           kind = "systemd"
    PROVE  Template \in units /\ job.targets \cap units = {}
<1> USE DEF ServicesInv
<1>1. result = "running" /\ \A d \in plan : d \in Calls(job.name, job.targets)
  BY DEF Planned, Due
<1>2. c.loop \in {3, 5}
  BY <1>1, InstallCalls DEF Is
<1>3. ASSUME NEW d \in plan, d.does \in {"write-unit", "drop-unit"} PROVE FALSE
  <2>1. d.loop \in {1, 2}
    BY <1>1, <1>3, InstallCalls DEF Is
  <2>2. d.loop < c.loop
    BY <1>2, <2>1
  <2> QED BY <2>2, NoneBefore
<1>4. \A x : ~Left("write-unit", x) /\ ~Left("drop-unit", x)
  BY <1>3 DEF Left
<1> QED BY <1>1, <1>4 DEF Installing, Begun

LEMMA InstallStep ==
    ASSUME ServicesInv, [Next]_vars
    PROVE  Installing'
<1> USE DEF ServicesInv
<1>1. ASSUME NEW name \in Commands, NEW targets, Start(name, targets)
      PROVE  Installing'
  <2>1. UNCHANGED <<kind, units, loaded, on>> /\ job'.name = name /\ job'.targets = targets
        /\ plan' = Calls(name, targets)
    BY <1>1 DEF Start, files, manager
  <2>2. SUFFICES ASSUME name \in {"setup", "install"} PROVE Installing'
    BY <2>1 DEF Installing
  <2>3. PICK calls : calls = Calls(name, targets)
    OBVIOUS
  <2>4. /\ \A p \in Periods : \E c \in calls : c.does = "enable" /\ c.arg = p
        /\ \E c \in calls : c.does = "reload"
        /\ kind = "systemd" => /\ \E c \in calls : c.does = "write-unit" /\ c.arg = Template
                               /\ \A i \in targets : \E c \in calls : c.does = "drop-unit" /\ c.arg = i
        /\ kind # "systemd" => \A i \in targets : \E c \in calls : c.does = "write-unit" /\ c.arg = i
    BY <2>2, <2>3, InstallPlan
  <2> QED BY <2>1, <2>3, <2>4 DEF Installing, Left, Some
<1>2. ASSUME NEW c \in plan, Due(c), Manager(c)
      PROVE  Installing'
  <2>1. kind' = kind /\ job' = job /\ result = "running" /\ c \in Calls(job.name, job.targets)
    BY <1>2, CallOrEnd DEF Planned
  <2>2. CASE Fails(c)
    BY <2>2 DEF Fails, End, Installing, Begun
  <2>3. CASE job.name \notin {"setup", "install"}
    BY <2>1, <2>3 DEF Installing
  <2>4. CASE ~Fails(c) /\ job.name \in {"setup", "install"}
    <3>1. c.does \in {"write-unit", "drop-unit", "reload", "write-service", "write-timer", "enable"}
      BY <2>1, <2>4, InstallCalls DEF Is
    <3>2. plan' = plan \ {c}
      BY <1>2, <2>4, <3>1, InstallEffects
    <3>3. units' = CASE c.does = "write-unit" -> units \cup {c.arg}
                     [] c.does = "drop-unit" -> units \ {c.arg}
                     [] OTHER -> units
      BY <1>2, <2>4, <3>1, InstallEffects
    <3>4. ASSUME NEW does, NEW x, Left(does, x), c.does # does \/ c.arg # x
          PROVE  Left(does, x)'
      BY <3>2, <3>4, LeftStays
    <3>5. \A p \in Periods : p \in on' \/ Left("enable", p)'
      <4>1. on' = IF c.does = "enable" THEN on \cup {c.arg} ELSE on
        BY <1>2, <2>4, <3>1, InstallEffects
      <4> QED BY <2>1, <2>4, <3>4, <4>1 DEF Installing, Begun
    <3>6. ASSUME kind = "systemd"
          PROVE  /\ Template \in units' \/ Left("write-unit", Template)'
                 /\ \A i \in job.targets : i \notin units' \/ Left("drop-unit", i)'
                 /\ Some("reload")' \/ (Template \in loaded' /\ job.targets \cap loaded' = {})
      <4>1. /\ Template \in units \/ Left("write-unit", Template)
            /\ \A i \in job.targets : i \notin units \/ Left("drop-unit", i)
            /\ Some("reload") \/ (Template \in loaded /\ job.targets \cap loaded = {})
        BY <2>1, <2>4, <3>6 DEF Installing, Begun
      <4>2. /\ c.does = "write-unit" => c.arg = Template
            /\ c.does = "drop-unit" => c.arg \in job.targets
            /\ Template \notin job.targets
        <5>1. Template \notin job.targets
          BY DEF Typed, Instances, Template
        <5> QED BY <2>1, <2>4, <3>6, <5>1, InstallCalls DEF Is
      <4>3. Template \in units' \/ Left("write-unit", Template)'
        BY <3>3, <3>4, <4>1, <4>2
      <4>4. \A i \in job.targets : i \notin units' \/ Left("drop-unit", i)'
        BY <3>3, <3>4, <4>1, <4>2
      <4>5. CASE c.does = "reload"
        <5>1. loaded' = units
          BY <1>2, <2>4, <3>1, <3>6, <4>5, InstallEffects DEF Reloaded
        <5> QED BY <1>2, <2>4, <3>6, <4>3, <4>4, <4>5, <5>1, ReloadLast
      <4>6. CASE c.does # "reload"
        <5>1. loaded' = loaded
          BY <1>2, <2>4, <3>1, <4>6, InstallEffects
        <5> QED BY <3>2, <4>1, <4>3, <4>4, <4>6, <5>1, SomeStays
      <4> QED BY <4>5, <4>6
    <3>7. ASSUME kind = "launchd"
          PROVE  \A i \in job.targets : i \in units' \/ Left("write-unit", i)'
      <4>1. \A i \in job.targets : i \in units \/ Left("write-unit", i)
        BY <2>1, <2>4, <3>7 DEF Installing, Begun
      <4>2. c.does # "drop-unit"
        BY <2>1, <2>4, <3>7, InstallCalls DEF Is
      <4> QED BY <3>3, <3>4, <4>1, <4>2
    <3> QED BY <2>1, <3>5, <3>6, <3>7 DEF Installing
  <2> QED BY <2>2, <2>3, <2>4
<1>3. ASSUME EditSet \/ SetupBinary PROVE Installing'
  BY <1>3 DEF EditSet, SetupBinary, Installing, Begun
<1>4. ASSUME Fault PROVE Installing'
  BY <1>4 DEF Fault, End, Installing, Begun
<1>5. ASSUME Finish \/ UNCHANGED vars PROVE Installing'
  <2>1. UNCHANGED <<kind, units, loaded, on, job, plan>> /\ (Begun' => Begun)
    BY <1>5 DEF Finish, End, config, files, manager, command, vars, Begun
  <2> QED BY <2>1 DEF Installing, Left, Some
<1> QED BY <1>1, <1>2, <1>3, <1>4, <1>5 DEF Next, Begin, Setup, BeginPurge

-----------------------------------------------------------------------------
(* The theorems *)

\* The invariants hold of every run of the commands, whatever fails or is killed.
THEOREM ServicesInduction == Spec => []ServicesInv
<1>1. Init => ServicesInv
  <2>1. SUFFICES ASSUME Init PROVE ServicesInv
    OBVIOUS
  <2>2. Typed
    <3>1. kind \in {"systemd", "launchd"} /\ set \in [Instances -> {"none", "enabled", "disabled"}]
      BY <2>1, ServicesAssumption DEF Init
    <3>2. job.targets = {} /\ job.managed = {}
      BY <2>1 DEF Init, NoJob
    <3> QED BY <2>1, <3>1, <3>2 DEF Init, Typed
  <2>3. Configured = {}
    BY <2>1 DEF Init, Configured
  <2> QED BY <2>1, <2>2, <2>3
      DEF Init, ServicesInv, Planned, TimersSafe, TimersHaveFiles, BaseSafe, BaseOutlivesServices, Purging,
          Installing, Begun
<1>2. ServicesInv /\ [Next]_vars => ServicesInv'
  BY TypedStep, PlannedStep, TimersStep, BaseStep, PurgeStep, InstallStep DEF ServicesInv
<1> QED BY <1>1, <1>2, PTL DEF Spec

\* No timer stays enabled whose file is gone, so that UninstallTrafficTimers finds every one it has to disable.
THEOREM TimersKeepFiles == Spec => []TimersHaveFiles
<1>1. ServicesInv => TimersHaveFiles
  BY DEF ServicesInv, TimersSafe
<1> QED BY <1>1, ServicesInduction, PTL

\* uninstall --purge takes the base-dir away last: a purge cut short finds the rest when it runs again.
THEOREM BaseGoesLast == Spec => []BaseOutlivesServices
<1>1. ServicesInv => BaseOutlivesServices
  BY DEF ServicesInv, BaseSafe
<1> QED BY <1>1, ServicesInduction, PTL

\* A purge that succeeds leaves no file, no timer, no resource and no base-dir, and has stopped what had a file.
THEOREM PurgeIsComplete == Spec => []PurgeRemoves
<1>1. ServicesInv => PurgeRemoves
  <2>1. SUFFICES ASSUME ServicesInv, result = "ok", job.name = "purge" PROVE PurgeRemoves
    BY DEF PurgeRemoves
  <2>2. \A does, x : ~Left(does, x) /\ ~Some(does)
    BY <2>1 DEF ServicesInv, Planned, Left, Some
  <2>3. timers = {} /\ ~base /\ ~resources /\ Configured = {}
    BY <2>1, <2>2 DEF ServicesInv, Purging, Begun, Typed, Drop
  <2>4. on = {}
    BY <2>1, <2>3 DEF ServicesInv, TimersSafe, TimersHaveFiles
  <2>5. job.managed \cap running = {}
    BY <2>1, <2>2 DEF ServicesInv, Purging, Begun
  <2>6. \A i \in job.targets : ~HasFile(i)
    BY <2>1, <2>2 DEF ServicesInv, Purging, Begun, HasFile, FilesOf
  <2> QED BY <2>3, <2>4, <2>5, <2>6 DEF PurgeRemoves
<1> QED BY <1>1, ServicesInduction, PTL

\* After an install or setup that succeeds the new file alone is loaded for every instance, and every timer is on.
THEOREM InstallIsReady == Spec => []InstallReady
<1>1. ServicesInv => InstallReady
  <2>1. SUFFICES ASSUME ServicesInv, result = "ok", job.name \in {"setup", "install"} PROVE InstallReady
    BY DEF InstallReady
  <2>2. \A does, x : ~Left(does, x) /\ ~Some(does)
    BY <2>1 DEF ServicesInv, Planned, Left, Some
  <2>3. on = Periods
    BY <2>1, <2>2 DEF ServicesInv, Installing, Begun, Typed
  <2>4. CASE kind = "systemd"
    <3>1. Template \in loaded /\ job.targets \cap loaded = {}
      BY <2>1, <2>2, <2>4 DEF ServicesInv, Installing, Begun
    <3> QED BY <2>3, <2>4, <3>1 DEF InstallReady, Known, FilesOf
  <2>5. CASE kind = "launchd"
    <3>1. \A i \in job.targets : i \in units
      BY <2>1, <2>2, <2>5 DEF ServicesInv, Installing, Begun
    <3> QED BY <2>3, <2>5, <3>1 DEF InstallReady, Known, FilesOf
  <2> QED BY <2>1, <2>4, <2>5 DEF ServicesInv, Typed
<1> QED BY <1>1, ServicesInduction, PTL
=============================================================================
