-------------------------------- MODULE Store --------------------------------
(***************************************************************************)
(* The files an operator configures an agent with, config.yaml and the     *)
(* instance files, and the commands of sboxctl that write them: config     *)
(* init, add, clone, member add and remove, remove, config (the editor),   *)
(* and, from Backup, export and import.  Every command but the editor      *)
(* loads the set, decides on what it loaded, and writes one file; several  *)
(* processes do so at once, without a lock.                                *)
(*                                                                         *)
(* A text is what a file says, as far as the other files and the rules of  *)
(* the set can tell: its name, whether it is enabled, its ports, whether   *)
(* it has a socks5 or http inbound, the instances a group of it refers to, *)
(* and whether an inbound is open to everybody without a password.         *)
(***************************************************************************)
EXTENDS Backup, Sequences, FiniteSets

CONSTANTS
    Ports,
    Broken,        \* a text that does not parse, or is refused whatever the global config
    DefaultGlobal, \* what init writes
    Yaml,          \* [Instances -> 1..Last-1]: NAME.yaml; other files of NAME are NAME.yml
    Templates,     \* what add starts from, a set of instance texts
    Typed,         \* what can be typed in an editor
    Archives,      \* archives from elsewhere
    Starts,        \* the files to start from
    Procs,         \* processes of sboxctl
    MaxCommands,   \* bound on the commands
    MaxHand,       \* bound on files written, and services started, without sboxctl
    MaxExports     \* bound on the archives exported

InstanceFiles == 1..Last-1
PortLists == {<<p>> : p \in Ports} \cup {<<p, q>> : p, q \in Ports}
InstanceText == [name : Instances, enabled : BOOLEAN, ports : PortLists, socks : BOOLEAN,
                 refs : SUBSET Instances, open : BOOLEAN]
GlobalText == [range : SUBSET Ports, strict : BOOLEAN]

ASSUME StoreAssumption ==
    /\ Ports \subseteq Nat /\ IsFiniteSet(Ports) /\ Instances # {}
    /\ DefaultGlobal \in GlobalText
    /\ Contents = InstanceText \cup GlobalText \cup {Broken}
    /\ Yaml \in [Instances -> InstanceFiles]
    /\ \A n \in Instances : InstanceOf[Yaml[n]] = n
    /\ Templates \subseteq InstanceText
    /\ Typed \subseteq Contents /\ Archives \subseteq Snapshots /\ Starts \subseteq Snapshots
    /\ {MaxCommands, MaxHand, MaxExports} \subseteq Nat

VARIABLES
    drafts,     \* FILE.draft, the editor's copy of each file
    proc,       \* what each process is doing
    commands, hand

storeVars == <<drafts, proc, commands, hand>>
vars == <<backupVars, storeVars>>

-----------------------------------------------------------------------------
(* The rules of the set *)

Elements(ports) == {ports[k] : k \in DOMAIN ports}

\* ValidateInstance: with strict security no inbound is open.
ValidAlone(global, text) == text \in InstanceText /\ ~(global.strict /\ text.open)

Present(snapshot) == {f \in InstanceFiles : snapshot[f] # None}
FileNames(snapshot) == {snapshot[f].name : f \in Present(snapshot)}

\* FindInstance takes the first file of a name, byName of validateOutboundRefs the last.
First(snapshot, name) ==
    CHOOSE f \in Present(snapshot) : /\ snapshot[f].name = name
                                     /\ \A g \in Present(snapshot) : snapshot[g].name = name => f <= g
LastOf(snapshot, name) ==
    CHOOSE f \in Present(snapshot) : /\ snapshot[f].name = name
                                     /\ \A g \in Present(snapshot) : snapshot[g].name = name => g <= f

\* validateOutboundRefs
RefsResolve(snapshot) ==
    \A f \in Present(snapshot) : \A r \in snapshot[f].refs :
        /\ r # snapshot[f].name
        /\ r \in FileNames(snapshot)
        /\ snapshot[LastOf(snapshot, r)].socks

\* validatePortConflicts: among the enabled ones, within a file and between two.
Enabled(snapshot) == {f \in Present(snapshot) : snapshot[f].enabled}
PortsDistinct(snapshot) ==
    /\ \A f \in Enabled(snapshot) :
          Cardinality(Elements(snapshot[f].ports)) = Len(snapshot[f].ports)
    /\ \A f, g \in Enabled(snapshot) :
          f # g => Elements(snapshot[f].ports) \cap Elements(snapshot[g].ports) = {}

\* ValidateConfigSet
ValidSet(snapshot) == RefsResolve(snapshot) /\ PortsDistinct(snapshot)

\* LoadInstances: every file is valid alone, and named for its instance.
EachValid(snapshot) ==
    \A f \in Present(snapshot) :
        ValidAlone(snapshot[Last], snapshot[f]) /\ snapshot[f].name = InstanceOf[f]

\* LoadAgentConfigSet
Loadable(snapshot) ==
    snapshot[Last] \in GlobalText /\ EachValid(snapshot) /\ ValidSet(snapshot)

-----------------------------------------------------------------------------
(* Candidates *)

\* Mutant: the ports of a disabled instance are taken to be free.
UsedByEnabled(snapshot) == UNION {Elements(snapshot[f].ports) : f \in Enabled(snapshot)}

\* usedPorts, of the disabled instances too.
UsedPorts(snapshot) == UNION {Elements(snapshot[f].ports) : f \in Present(snapshot)}

Smallest(set) == CHOOSE p \in set : \A q \in set : p <= q

\* allocatePorts: FirstAvailablePort for each; an exhausted range refuses the command.
Allocated(snapshot, text) ==
    LET free == snapshot[Last].range \ UsedPorts(snapshot)
        first == Smallest(free)
    IN [text EXCEPT !.ports = IF Len(text.ports) = 1 THEN <<first>>
                                                     ELSE <<first, Smallest(free \ {first})>>]
CanAllocate(snapshot, text) ==
    Cardinality(snapshot[Last].range \ UsedPorts(snapshot)) >= Len(text.ports)

\* The set writeInstanceData validates: the candidate instead of all of its name.
Candidate(snapshot, text) ==
    [f \in Files |-> IF f = Yaml[text.name] THEN text
                     ELSE IF f \in Present(snapshot) /\ snapshot[f].name = text.name THEN None
                     ELSE snapshot[f]]

\* Mutant: the candidate is validated without the others.
AcceptableAlone(snapshot, text) == ValidAlone(snapshot[Last], text)

Acceptable(snapshot, text) ==
    ValidAlone(snapshot[Last], text) /\ ValidSet(Candidate(snapshot, text))

-----------------------------------------------------------------------------
Idle == [step |-> "idle", file |-> Last, text |-> Broken, seen |-> Absent, kept |-> FALSE,
         compare |-> FALSE]

StoreInit ==
    /\ files \in Starts
    /\ exported = {} /\ running = {}
    /\ kept = Absent /\ pc = "idle" /\ archive = Absent /\ force = FALSE /\ at = 1
    /\ claimed = {} /\ placed = {} /\ errs = FALSE
    /\ result = "none" /\ before = Absent /\ touched = {} /\ started = {} /\ faults = 0
    /\ drafts = Absent
    /\ proc = [p \in Procs |-> Idle]
    /\ commands = 0 /\ hand = 0

\* A command starts, beside an import or not: no lock excludes it.
Starting(p) ==
    /\ proc[p].step = "idle" /\ commands < MaxCommands
    /\ commands' = commands + 1
    /\ UNCHANGED <<hand, files, exported, running, importVars, faults, drafts>>

\* It has decided what to write where, after what it has seen (Absent: it did not look).
ToWrite(p, file, text, seen) ==
    proc' = [proc EXCEPT ![p] = [Idle EXCEPT !.step = "write", !.file = file, !.text = text,
                                             !.seen = seen]]

\* Init: config.yaml is not overwritten without --force; the instances are not looked at.
InitConfig(p, overwrite) ==
    /\ Starting(p)
    /\ files[Last] # None => overwrite
    /\ ToWrite(p, Last, DefaultGlobal, Absent)

\* The command validates its candidate and goes on to write NAME.yaml.
Decide(p, text) ==
    /\ Acceptable(files, text)
    /\ ToWrite(p, Yaml[text.name], text, files)

(* Add: a built-in template, urltest with members, or a file; its name is  *)
(* the new one and its ports are allocated unless they are to be kept.     *)
Named(template, name) == [template EXCEPT !.name = name]
Drafted(template, name, allocate) ==
    IF allocate THEN Allocated(files, Named(template, name)) ELSE Named(template, name)

Add(p, template, name, allocate) ==
    /\ Starting(p)
    /\ Loadable(files) /\ name \notin FileNames(files)
    /\ allocate => CanAllocate(files, template)
    /\ Decide(p, Drafted(template, name, allocate))

Clone(p, source, name, allocate) ==
    /\ Starting(p)
    /\ Loadable(files) /\ source \in FileNames(files) /\ name \notin FileNames(files)
    /\ allocate => CanAllocate(files, files[First(files, source)])
    /\ Decide(p, Drafted(files[First(files, source)], name, allocate))

\* addRefMemberToInstance, to an existing group.
MemberAdd(p, name, member) ==
    /\ Starting(p)
    /\ Loadable(files) /\ {name, member} \subseteq FileNames(files) /\ member # name
    /\ files[First(files, member)].socks
    /\ LET text == files[First(files, name)]
       IN text.refs # {} /\ Decide(p, [text EXCEPT !.refs = @ \cup {member}])

\* removeRefMemberFromInstance; a group left without outbounds is not valid.
MemberRemove(p, name, member) ==
    /\ Starting(p)
    /\ Loadable(files) /\ name \in FileNames(files)
    /\ LET text == files[First(files, name)]
       IN text.refs \ {member} # {} /\ Decide(p, [text EXCEPT !.refs = @ \ {member}])

\* Remove: the file is found by its name, in the order yaml, yml; no rule is checked.
Remove(p, name) ==
    /\ Starting(p)
    /\ Loadable(files) /\ name \in FileNames(files)
    /\ proc' = [proc EXCEPT ![p] = [Idle EXCEPT !.step = "delete",
                                                !.file = First(files, name)]]

Finish(p) == proc' = [proc EXCEPT ![p] = Idle]

\* writeFileAtomic; add and clone with --edit go on to the editor.
Write(p) ==
    /\ proc[p].step = "write"
    /\ files' = [files EXCEPT ![proc[p].file] = proc[p].text]
    /\ \/ Finish(p)
       \/ proc[p].file # Last /\ proc' = [proc EXCEPT ![p] = [Idle EXCEPT !.step = "added",
                                                                         !.file = proc[p].file]]
    /\ UNCHANGED <<exported, running, faults, drafts, commands, hand>>
    /\ Beside

\* os.Remove; a file that has gone already is an error.
Delete(p) ==
    /\ proc[p].step = "delete"
    /\ files' = [files EXCEPT ![proc[p].file] = None]
    /\ Finish(p)
    /\ UNCHANGED <<exported, running, faults, drafts, commands, hand>>
    /\ Beside

-----------------------------------------------------------------------------
(* The editor: editConfigCommand, and editInstanceByName after add and     *)
(* clone.  A file is edited by one process at a time.                      *)

Unedited(f) == \A p \in Procs : proc[p].step \in {"edit", "check", "rename"} => proc[p].file # f

Editing(p, f, compare, global) ==
    proc' = [proc EXCEPT ![p] = [Idle EXCEPT !.step = "edit", !.file = f, !.compare = compare,
                                             !.kept = (drafts[f] # None), !.text = files[f],
                                             !.seen = [Absent EXCEPT ![Last] = global]]]

\* Mutant: a draft that is there is overwritten.
CopyToDraft(f) == drafts' = [drafts EXCEPT ![f] = files[f]]

\* prepareEditableDraft: a draft that is there is used again.
PrepareDraft(f) == drafts' = IF drafts[f] = None THEN [drafts EXCEPT ![f] = files[f]] ELSE drafts

OpenFile(p, f, compare) ==
    /\ Loadable(files) /\ files[f] # None /\ Unedited(f)
    /\ PrepareDraft(f)
    /\ Editing(p, f, compare, files[Last])

Open(p, f) ==
    /\ proc[p].step = "idle" /\ commands < MaxCommands
    /\ OpenFile(p, f, TRUE)
    /\ f # Last => f = First(files, InstanceOf[f])
    /\ commands' = commands + 1
    /\ UNCHANGED <<hand, files, exported, running, importVars, faults>>

OpenAdded(p) ==
    /\ proc[p].step = "added"
    /\ OpenFile(p, proc[p].file, FALSE)
    /\ UNCHANGED <<commands, hand, files, exported, running, importVars, faults>>

\* A set that does not load, or a file that has gone: the command ends.
OpenAddedFails(p) ==
    /\ proc[p].step = "added"
    /\ ~Loadable(files) \/ files[proc[p].file] = None
    /\ Finish(p)
    /\ UNCHANGED <<drafts, commands, hand, files, exported, running, importVars, faults>>

StoreOnly == UNCHANGED <<commands, hand, files, exported, running, importVars, faults>>

\* The operator saves something, or nothing, and leaves.
EditorEnds(p, text) ==
    /\ proc[p].step = "edit"
    /\ drafts' = [drafts EXCEPT ![proc[p].file] = text]
    /\ proc' = [proc EXCEPT ![p].step = "check"]
    /\ StoreOnly

\* The editor fails: a draft the command made goes, one it found stays.
EditorFails(p) ==
    /\ proc[p].step = "edit"
    /\ drafts' = IF proc[p].kept THEN drafts ELSE [drafts EXCEPT ![proc[p].file] = None]
    /\ Finish(p)
    /\ StoreOnly

(* What the draft has to pass: a global one with the instances as they are *)
(* now, an instance's alone, under the global config loaded before the     *)
(* editor, and whatever it names itself.                                   *)
DraftValid(p) ==
    LET f == proc[p].file
    IN IF f = Last THEN Loadable([files EXCEPT ![Last] = drafts[Last]])
                   ELSE ValidAlone(proc[p].seen[Last], drafts[f])

Unchanged(p) == proc[p].compare /\ drafts[proc[p].file] = proc[p].text

CheckDraft(p) ==
    LET f == proc[p].file
    IN /\ proc[p].step = "check"
       /\ IF ~DraftValid(p) THEN Finish(p) /\ UNCHANGED drafts
          ELSE IF Unchanged(p) THEN Finish(p) /\ drafts' = [drafts EXCEPT ![f] = None]
          ELSE /\ proc' = [proc EXCEPT ![p].step = "rename",
                                       ![p].seen = IF f = Last THEN files ELSE Absent]
               /\ UNCHANGED drafts
       /\ StoreOnly

RenameDraft(p) ==
    LET f == proc[p].file
    IN /\ proc[p].step = "rename"
       /\ files' = [files EXCEPT ![f] = drafts[f]]
       /\ drafts' = [drafts EXCEPT ![f] = None]
       /\ Finish(p)
       /\ UNCHANGED <<exported, running, faults, commands, hand>>
       /\ Beside

-----------------------------------------------------------------------------
(* The rest of the world *)

\* A process is killed: what it has not written is gone, a draft stays.
KillProc(p) ==
    /\ proc[p].step # "idle" /\ faults < MaxFaults /\ faults' = faults + 1
    /\ Finish(p)
    /\ UNCHANGED <<drafts, commands, hand, files, exported, running, importVars>>

\* A file is written or removed by hand, or a service started.
ByHand(f, text) ==
    /\ hand < MaxHand /\ hand' = hand + 1
    /\ files' = [files EXCEPT ![f] = text]
    /\ UNCHANGED <<exported, running, faults, drafts, proc, commands>>
    /\ Beside

StartService(n) ==
    /\ hand < MaxHand /\ hand' = hand + 1
    /\ n \notin running /\ running' = running \cup {n}
    /\ UNCHANGED <<files, exported, faults, drafts, proc, commands>>
    /\ Beside

ExportNow == Export /\ Cardinality(exported) < MaxExports /\ UNCHANGED storeVars
ImportNow(a, f) ==
    /\ commands < MaxCommands /\ commands' = commands + 1
    /\ Import(a, f)
    /\ UNCHANGED <<drafts, proc, hand>>
ImportGoesOn == ImportStep /\ UNCHANGED storeVars

Command(p) ==
    \/ \E overwrite \in BOOLEAN : InitConfig(p, overwrite)
    \/ \E t \in Templates, n \in Instances, a \in BOOLEAN : Add(p, t, n, a)
    \/ \E s, n \in Instances, a \in BOOLEAN : Clone(p, s, n, a)
    \/ \E n, m \in Instances : MemberAdd(p, n, m) \/ MemberRemove(p, n, m)
    \/ \E n \in Instances : Remove(p, n)
    \/ Write(p) \/ Delete(p)

Editor(p) ==
    \/ \E f \in Files : Open(p, f)
    \/ OpenAdded(p) \/ OpenAddedFails(p)
    \/ \E text \in Typed \cup {drafts[proc[p].file]} : EditorEnds(p, text)
    \/ EditorFails(p) \/ CheckDraft(p) \/ RenameDraft(p)

Next ==
    \/ \E p \in Procs : Command(p) \/ Editor(p) \/ KillProc(p)
    \/ \E f \in Files, text \in Typed \cup {None} : ByHand(f, text)
    \/ \E n \in Instances : StartService(n)
    \/ ExportNow
    \/ \E a \in exported \cup Archives, f \in BOOLEAN : ImportNow(a, f)
    \/ ImportGoesOn

Spec == StoreInit /\ [][Next]_vars

-----------------------------------------------------------------------------
(* Properties *)

Steps == {"idle", "write", "delete", "added", "edit", "check", "rename"}

(* Types of the state. *)
TypeOK ==
    /\ BackupTypeOK
    /\ drafts \in Snapshots
    /\ \A p \in Procs :
          /\ proc[p].step \in Steps /\ proc[p].file \in Files
          /\ proc[p].text \in Contents \cup {None} /\ proc[p].seen \in Snapshots
          /\ proc[p].step \in {"edit", "check", "rename"} => drafts[proc[p].file] # None
    /\ commands \in 0..MaxCommands /\ hand \in 0..MaxHand

\* The files whose instance has another file (NAME.yml, written by hand) beside NAME.yaml.
Doubled(f) == f # Last /\ \E g \in Present(files) : g # f /\ InstanceOf[g] = InstanceOf[f]

\* Validated against another set, or none (init), or with the .yml left out; alone (the
\* editor, an instance); not at all (remove).
Unchecked(p) ==
    LET f == proc[p].file
    IN \/ proc[p].step \in {"write", "rename"} /\ proc[p].seen # files
       \/ proc[p].step = "write" /\ Doubled(f)
       \/ proc[p].step = "rename" /\ f # Last
       \/ proc[p].step = "delete" /\ \E g \in Present(files) : InstanceOf[f] \in files[g].refs

(* A set that loads stops loading, and so locks the operator out of every  *)
(* command but init and import, for few reasons only: a change by hand; an *)
(* import told to overwrite, or beside which others wrote; a remove of an  *)
(* instance others refer to; a write over a set that is not the one its    *)
(* command looked at (init --force looks at none), or beside a NAME.yml;   *)
(* an instance's draft, checked alone.  No other step of add, clone,       *)
(* member add and remove, the editor or import does it, in any interleaving*)
(* (writeInstanceData, editConfigCommand, replaceImportFiles).             *)
LockOutsHaveCauses ==
    [][Loadable(files) /\ ~Loadable(files') =>
          \/ hand' # hand
          \/ proc' = proc /\ (force \/ touched # {})
          \/ \E p \in Procs : proc'[p] # proc[p] /\ Unchecked(p)]_vars

(* Ports allocated to a new instance are nobody else's, a disabled         *)
(* instance's neither: whatever is enabled later, they do not collide.     *)
AllocatedIsFree ==
    [][\A p \in Procs :
          /\ proc[p].step = "idle" /\ proc'[p].step = "write"
          /\ \E n \in Instances : \/ \E t \in Templates : Add(p, t, n, TRUE)
                                  \/ \E s \in Instances : Clone(p, s, n, TRUE)
          => \A f \in Present(files) :
                Elements(proc'[p].text.ports) \cap Elements(files[f].ports) = {}]_vars

(* A draft that outlived its command, because it was refused or the        *)
(* command killed, is only ever changed by the operator's own saving, and  *)
(* only goes when it becomes the file or is the file: no later command,    *)
(* no failing editor throws away what was typed (prepareEditableDraft).    *)
OutlivedItsCommand(f) ==
    /\ drafts[f] # None
    /\ \A p \in Procs : proc[p].step \in {"edit", "check", "rename"} /\ proc[p].file = f
                            => proc[p].kept

DraftsKept ==
    [][\A f \in Files : OutlivedItsCommand(f) /\ drafts'[f] # drafts[f] =>
          \/ files'[f] = drafts[f]
          \/ \E p \in Procs : Unchanged(p) /\ proc[p].file = f /\ proc[p].step = "check"
          \/ drafts'[f] # None /\ \E p \in Procs : proc[p].step = "edit" /\ proc[p].file = f]_vars
=============================================================================
