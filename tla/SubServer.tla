------------------------------ MODULE SubServer ------------------------------
(***************************************************************************)
(* The subscription server and its inputs.  "sboxsub serve" loads the      *)
(* files under inputs/ into an index and polls them: when a snapshot of    *)
(* the hashes differs from the one of the last reload it waits a moment    *)
(* and loads again, and a load that fails leaves the old index in service  *)
(* and marks the server degraded.  The commands that change the inputs run *)
(* beside it, and no two of them exclude each other: a directory is read   *)
(* name by name after it was listed, and an import swaps it as a whole.    *)
(***************************************************************************)
EXTENDS Naturals

CONSTANTS
    Files,          \* input file names, numbered in name order
    Versions,       \* the contents of an input file
    None,           \* no such file
    Missing,        \* no inputs directory
    NoSnapshot,     \* the watcher's nil map
    Compatible(_),  \* ValidateSubscriptionInputs: the set of files can be merged
    Editors,        \* concurrent sboxsub commands
    Server,         \* the reader of the directory that serves it
    Operations,     \* the commands offered, of "import", "edit", "set-host", "remove", "clear"
    MaxWrites,      \* bound on the commands
    MaxTouches,     \* bound on the changes made by hand
    MaxFaults       \* bound on commands and servers killed

Directories == [Files -> Versions \cup {None}]
Empty == [f \in Files |-> None]

ASSUME SubServerAssumption ==
    /\ Files \subseteq Nat
    /\ None \notin Versions
    /\ Missing \notin Directories /\ NoSnapshot \notin Directories
    /\ Server \notin Editors
    /\ Operations \subseteq {"import", "edit", "set-host", "remove", "clear"}
    /\ MaxWrites \in Nat /\ MaxTouches \in Nat /\ MaxFaults \in Nat
    /\ \A d \in Directories : Compatible(d) \in BOOLEAN

VARIABLES
    dir,        \* the inputs directory, or Missing
    reading,    \* what each reader has yet to read of a listing, and what it read
    server,     \* where the server is: booting, polling, reloading
    served,     \* the files behind State.index
    lastError,  \* State.lastError is set
    previous,   \* the snapshot the watcher compares with
    current,    \* the snapshot of this poll
    editor,     \* where each command is
    job,        \* what it is going to write
    backup,     \* the inputs an import renamed away, until it ends
    writes, touches, faults

state == <<served, lastError>>
watcher == <<server, previous, current, state>>
commands == <<editor, job, backup>>
bounds == <<writes, touches, faults>>
vars == <<dir, reading, watcher, commands, bounds>>

Readers == Editors \cup {Server}
NotReading == [left |-> {}, seen |-> Empty]

TypeOK ==
    /\ dir \in Directories \cup {Missing}
    /\ reading \in [Readers -> [left : SUBSET Files, seen : Directories]]
    /\ server \in {"off", "boot", "watch", "first", "wait", "poll", "debounce", "reload"}
    /\ served \in Directories
    /\ lastError \in BOOLEAN
    /\ previous \in Directories \cup {NoSnapshot}
    /\ current \in Directories
    /\ editor \in [Editors -> {"idle", "merge", "swap", "install", "check", "write",
                               "load", "host", "clear", "mkdir"}]
    /\ job \in [Editors -> Directories]
    /\ backup \in [Editors -> Directories \cup {Missing}]
    /\ writes \in 0..MaxWrites /\ touches \in 0..MaxTouches /\ faults \in 0..MaxFaults

Init ==
    /\ dir \in {d \in Directories : Compatible(d)}
    /\ reading = [x \in Readers |-> NotReading]
    /\ server = "off"
    /\ served = Empty /\ lastError = FALSE
    /\ previous = NoSnapshot /\ current = Empty
    /\ editor = [e \in Editors |-> "idle"]
    /\ job = [e \in Editors |-> Empty]
    /\ backup = [e \in Editors |-> Missing]
    /\ writes = 0 /\ touches = 0 /\ faults = 0

-----------------------------------------------------------------------------
(* Reading the directory: LoadInputsFromDir and snapshotInputDir *)

Names(d) == {f \in Files : d[f] # None}
Loadable == dir # Missing /\ Compatible(dir)

\* The union of two sets of files, the second one winning.
Merged(d, new) == [f \in Files |-> IF new[f] # None THEN new[f] ELSE d[f]]

\* os.ReadDir lists the names, which fails without the directory.
List(x) ==
    /\ dir # Missing
    /\ reading' = [reading EXCEPT ![x] = [left |-> Names(dir), seen |-> Empty]]

First(S) == {f \in S : \A g \in S : f <= g}

\* Then every file is opened by its path, in whatever directory is there by now.
Gone(f) == IF dir = Missing THEN TRUE ELSE dir[f] = None

ReadFile(x) ==
    /\ \E f \in First(reading[x].left) :
          /\ ~Gone(f)
          /\ reading' = [reading EXCEPT ![x] = [left |-> @.left \ {f},
                                                seen |-> [@.seen EXCEPT ![f] = dir[f]]]]
    /\ UNCHANGED <<dir, watcher, commands, bounds>>

ReadFails(x) == \E f \in First(reading[x].left) : Gone(f)

Reading == server \in {"boot", "first", "poll", "reload"}
Read(x) == reading[x].left = {}
Done(x) == reading' = [reading EXCEPT ![x] = NotReading]

-----------------------------------------------------------------------------
(* sboxsub serve *)

\* New: the first load.  Without it there is no server.
Serve ==
    /\ server = "off"
    /\ List(Server)
    /\ server' = "boot"
    /\ UNCHANGED <<dir, state, previous, current, commands, bounds>>

Boot ==
    /\ server = "boot" /\ Read(Server)
    /\ IF Compatible(reading[Server].seen)
       THEN served' = reading[Server].seen /\ server' = "watch"
       ELSE server' = "off" /\ UNCHANGED served
    /\ Done(Server)
    /\ UNCHANGED <<dir, lastError, previous, current, commands, bounds>>

\* watchInputs takes its first snapshot after the index was loaded.
FirstSnapshot ==
    /\ server = "watch"
    /\ List(Server)
    /\ server' = "first"
    /\ UNCHANGED <<dir, state, previous, current, commands, bounds>>

Watching ==
    /\ server = "first" /\ Read(Server)
    /\ previous' = reading[Server].seen
    /\ server' = "wait"
    /\ Done(Server)
    /\ UNCHANGED <<dir, state, current, commands, bounds>>

\* The ticker fires.
Poll ==
    /\ server = "wait"
    /\ List(Server)
    /\ server' = "poll"
    /\ UNCHANGED <<dir, state, previous, current, commands, bounds>>

\* Mutant: the two snapshots are taken for each other.
Compare_Swapped ==
    /\ server = "poll" /\ Read(Server)
    /\ IF reading[Server].seen = previous /\ ~lastError
       THEN server' = "wait" /\ UNCHANGED <<previous, current>>
       ELSE server' = "debounce" /\ current' = previous /\ previous' = reading[Server].seen
    /\ Done(Server)
    /\ UNCHANGED <<dir, state, commands, bounds>>

\* Mutant: a failed reload is not tried again before the files change.
Compare_NoRetry ==
    /\ server = "poll" /\ Read(Server)
    /\ IF reading[Server].seen = previous
       THEN server' = "wait" /\ UNCHANGED current
       ELSE server' = "debounce" /\ current' = reading[Server].seen
    /\ Done(Server)
    /\ UNCHANGED <<dir, state, previous, commands, bounds>>

\* Nothing to do for an unchanged snapshot, unless the last reload failed.
Compare ==
    /\ server = "poll" /\ Read(Server)
    /\ IF reading[Server].seen = previous /\ ~lastError
       THEN server' = "wait" /\ UNCHANGED current
       ELSE server' = "debounce" /\ current' = reading[Server].seen
    /\ Done(Server)
    /\ UNCHANGED <<dir, state, previous, commands, bounds>>

\* After the debounce the files are read again.
Debounced ==
    /\ server = "debounce"
    /\ List(Server)
    /\ server' = "reload"
    /\ UNCHANGED <<dir, state, previous, current, commands, bounds>>

\* Mutant: the index is replaced whether or not it could be built.
Reload_Unchecked ==
    /\ server = "reload" /\ Read(Server)
    /\ served' = reading[Server].seen
    /\ lastError' = ~Compatible(reading[Server].seen)
    /\ previous' = current
    /\ server' = "wait"
    /\ Done(Server)
    /\ UNCHANGED <<dir, current, commands, bounds>>

\* Mutant: a reload that fails is not reported.
Reload_Silent ==
    /\ server = "reload" /\ Read(Server)
    /\ IF Compatible(reading[Server].seen)
       THEN /\ served' = reading[Server].seen
            /\ lastError' = FALSE
            /\ previous' = current
       ELSE UNCHANGED <<served, lastError, previous>>
    /\ server' = "wait"
    /\ Done(Server)
    /\ UNCHANGED <<dir, current, commands, bounds>>

\* The index is replaced when it was built; the snapshot of the poll is then
\* the one to compare with.
Reload ==
    /\ server = "reload" /\ Read(Server)
    /\ IF Compatible(reading[Server].seen)
       THEN /\ served' = reading[Server].seen
            /\ lastError' = FALSE
            /\ previous' = current
       ELSE lastError' = TRUE /\ UNCHANGED <<served, previous>>
    /\ server' = "wait"
    /\ Done(Server)
    /\ UNCHANGED <<dir, current, commands, bounds>>

\* A directory or a listed file that is gone: New fails, the watcher marks the
\* error and waits for the next tick.
ServerReadFails ==
    /\ \/ server \in {"watch", "wait", "debounce"} /\ dir = Missing
       \/ Reading /\ ReadFails(Server)
    /\ IF server = "boot" THEN server' = "off" /\ UNCHANGED lastError
       ELSE server' = "wait" /\ lastError' = TRUE
    /\ Done(Server)
    /\ UNCHANGED <<dir, served, previous, current, commands, bounds>>

\* The server stops or is killed; its state was only in memory.
Kill ==
    /\ server # "off"
    /\ faults < MaxFaults /\ faults' = faults + 1
    /\ server' = "off" /\ served' = Empty /\ lastError' = FALSE
    /\ previous' = NoSnapshot /\ current' = Empty
    /\ Done(Server)
    /\ UNCHANGED <<dir, commands, writes, touches>>

ServerStep == \/ Boot \/ FirstSnapshot \/ Watching \/ Poll \/ Compare \/ Debounced \/ Reload
              \/ ServerReadFails \/ (Reading /\ ReadFile(Server))

-----------------------------------------------------------------------------
(* sboxsub import *)

Begin(e, op) ==
    /\ editor[e] = "idle"
    /\ op \in Operations
    /\ writes < MaxWrites /\ writes' = writes + 1
    /\ UNCHANGED <<watcher, backup, touches, faults>>

Goto(e, pc) == editor' = [editor EXCEPT ![e] = pc]
Write(e, files) == job' = [job EXCEPT ![e] = files]

\* readBundle validated the bundle.  Without --replace-all the existing files
\* are merged in; they must be readable, and a missing directory is an error.
Import(e) ==
    /\ Begin(e, "import")
    /\ \E bundle \in {d \in Directories : d # Empty /\ Compatible(d)} :
          /\ Write(e, bundle)
          /\ \/ Goto(e, "swap") /\ UNCHANGED reading
             \/ Goto(e, "merge") /\ List(e)
    /\ UNCHANGED dir

Merge(e) ==
    /\ editor[e] = "merge" /\ Read(e)
    /\ LET files == Merged(reading[e].seen, job[e])
       IN  IF Compatible(files) THEN Write(e, files) /\ Goto(e, "swap")
           ELSE Write(e, Empty) /\ Goto(e, "idle")
    /\ Done(e)
    /\ UNCHANGED <<dir, watcher, backup, bounds>>

\* replaceInputDir: the files are ready in a temporary directory beside
\* inputs/, which is renamed away when it exists.
SwapOut(e) ==
    /\ editor[e] = "swap"
    /\ backup' = [backup EXCEPT ![e] = dir]
    /\ dir' = Missing
    /\ Goto(e, "install")
    /\ UNCHANGED <<reading, watcher, job, bounds>>

\* os.Rename to the name inputs/ fails on a directory that another command made
\* meanwhile, also on an empty one.
Free == dir = Missing

\* Then the temporary directory takes its name.  When that fails, the backup
\* is renamed back, which fails on the same obstacle.
SwapIn(e) ==
    /\ editor[e] = "install"
    /\ \/ /\ dir' = IF Free THEN job[e] ELSE dir
          /\ UNCHANGED faults
       \/ /\ faults < MaxFaults /\ faults' = faults + 1
          /\ dir' = IF Free /\ backup[e] # Missing THEN backup[e] ELSE dir
    /\ backup' = [backup EXCEPT ![e] = Missing]
    /\ Goto(e, "idle") /\ Write(e, Empty)
    /\ UNCHANGED <<reading, watcher, writes, touches>>

-----------------------------------------------------------------------------
(* sboxsub input edit, clone, set-host, remove; sboxsub clear *)

\* The draft of one file; it is checked together with the other files.
Edit(e) ==
    /\ Begin(e, "edit")
    /\ \E f \in Files, v \in Versions : Write(e, [Empty EXCEPT ![f] = v])
    /\ List(e) /\ Goto(e, "check")
    /\ UNCHANGED dir

\* Mutant: the draft is checked alone.
Check_Alone(e) ==
    /\ editor[e] = "check" /\ Read(e)
    /\ IF Compatible(job[e]) THEN Goto(e, "write") /\ UNCHANGED job
       ELSE Goto(e, "idle") /\ Write(e, Empty)
    /\ Done(e)
    /\ UNCHANGED <<dir, watcher, backup, bounds>>

Check(e) ==
    /\ editor[e] = "check" /\ Read(e)
    /\ IF Compatible(Merged(reading[e].seen, job[e])) THEN Goto(e, "write") /\ UNCHANGED job
       ELSE Goto(e, "idle") /\ Write(e, Empty)
    /\ Done(e)
    /\ UNCHANGED <<dir, watcher, backup, bounds>>

\* WriteFileAtomic, which makes the directory when it is missing.  Its temporary
\* file is in that directory: a swap under it is one of the ways to abort.
WriteInput(e) ==
    /\ editor[e] = "write"
    /\ dir' = Merged(IF dir = Missing THEN Empty ELSE dir, job[e])
    /\ Goto(e, "idle") /\ Write(e, Empty)
    /\ UNCHANGED <<reading, watcher, backup, bounds>>

\* set-host HOST SOURCE, or --all the sources of a listing: each is read and
\* written back with the new host, which no version or check depends on.
SetHost(e) ==
    /\ Begin(e, "set-host")
    /\ \/ List(e)
       \/ \E f \in Files : reading' = [reading EXCEPT ![e] = [left |-> {f}, seen |-> Empty]]
    /\ Goto(e, "load")
    /\ UNCHANGED <<dir, job>>

LoadInput(e) ==
    /\ editor[e] = "load"
    /\ \E f \in First(reading[e].left) :
          /\ ~Gone(f)
          /\ Write(e, [Empty EXCEPT ![f] = dir[f]])
          /\ reading' = [reading EXCEPT ![e].left = @ \ {f}]
    /\ Goto(e, "host")
    /\ UNCHANGED <<dir, watcher, backup, bounds>>

UpdateInputHost(e) ==
    /\ editor[e] = "host"
    /\ dir' = Merged(IF dir = Missing THEN Empty ELSE dir, job[e])
    /\ Goto(e, IF Read(e) THEN "idle" ELSE "load") /\ Write(e, Empty)
    /\ UNCHANGED <<reading, watcher, backup, bounds>>

RemoveInput(e) ==
    /\ Begin(e, "remove")
    /\ dir # Missing
    /\ \E f \in Names(dir) : dir' = [dir EXCEPT ![f] = None]
    /\ UNCHANGED <<reading, editor, job>>

Clear(e) ==
    /\ Begin(e, "clear")
    /\ Goto(e, "clear")
    /\ UNCHANGED <<dir, reading, job>>

\* os.RemoveAll: the files one by one, in any order, then the directory.
RemoveAll(e) ==
    /\ editor[e] = "clear"
    /\ IF dir \in {Missing, Empty} THEN dir' = Missing /\ Goto(e, "mkdir")
       ELSE /\ \E f \in Names(dir) : dir' = [dir EXCEPT ![f] = None]
            /\ UNCHANGED editor
    /\ UNCHANGED <<reading, watcher, job, backup, bounds>>

Mkdir(e) ==
    /\ editor[e] = "mkdir"
    /\ dir' = IF dir = Missing THEN Empty ELSE dir
    /\ Goto(e, "idle")
    /\ UNCHANGED <<reading, watcher, job, backup, bounds>>

\* A command that cannot read a file ends with an error, and set-host --all of
\* no file at once.
EditorReadFails(e) ==
    /\ \/ editor[e] \in {"merge", "check", "load"} /\ ReadFails(e)
       \/ editor[e] = "load" /\ Read(e)
    /\ Goto(e, "idle") /\ Write(e, Empty) /\ Done(e)
    /\ UNCHANGED <<dir, watcher, backup, bounds>>

\* A command is killed or fails anywhere else.
Abort(e) ==
    /\ editor[e] # "idle"
    /\ faults < MaxFaults /\ faults' = faults + 1
    /\ Goto(e, "idle") /\ Write(e, Empty) /\ Done(e)
    /\ backup' = [backup EXCEPT ![e] = Missing]
    /\ UNCHANGED <<dir, watcher, writes, touches>>

\* The operator writes or deletes a file of inputs/ without a command.
Touch ==
    /\ touches < MaxTouches /\ touches' = touches + 1
    /\ dir # Missing
    /\ \E f \in Files, v \in Versions \cup {None} :
          dir' = [dir EXCEPT ![f] = v] /\ dir' # dir
    /\ UNCHANGED <<reading, watcher, commands, writes, faults>>

EditorStep(e) ==
    \/ Import(e) \/ Merge(e) \/ SwapOut(e) \/ SwapIn(e)
    \/ Edit(e) \/ Check(e) \/ WriteInput(e) \/ RemoveInput(e)
    \/ SetHost(e) \/ LoadInput(e) \/ UpdateInputHost(e)
    \/ Clear(e) \/ RemoveAll(e) \/ Mkdir(e)
    \/ EditorReadFails(e) \/ Abort(e)
    \/ (editor[e] \in {"merge", "check"} /\ ReadFile(e))

Next ==
    \/ Serve \/ ServerStep \/ Kill \/ Touch
    \/ \E e \in Editors : EditorStep(e)

Spec == Init /\ [][Next]_vars

\* The watcher's goroutine keeps running and its ticker keeps firing; nobody
\* promises that commands finish or that the server is started.
FairSpec == Spec /\ WF_vars(ServerStep)

-----------------------------------------------------------------------------
(* Properties *)

Up == server \notin {"off", "boot"}

\* The index in service always passed the checks, also when the files behind
\* it were swapped while they were read.
ServedIsChecked == Up => Compatible(served)

\* The commands alone, one at a time and none cut short, leave inputs that a
\* server can start from.  It takes commands that do not overlap: each checks
\* its files with what it read, not with what is there when it writes.
CommandsKeepLoadable ==
    touches = 0 /\ faults = 0 /\ (\A e \in Editors : editor[e] = "idle") => Loadable

\* When the inputs come to rest in a loadable state, no error stays: a server
\* that stays up serves them, unless the watcher took its snapshot of them
\* for the one it had loaded.
Heals ==
    <>[](Up /\ Loadable) => <>[](Up /\ Loadable =>
        ~lastError /\ (served = dir \/ previous = dir))

\* When they come to rest in a state that cannot be loaded, the error is
\* reported and stays, with the same reservation.
Reports ==
    <>[](Up /\ ~Loadable) => <>[](Up /\ ~Loadable => lastError \/ previous = dir)

\* What the watcher is for: the inputs at rest are served.  It is not so: they
\* can change between the load and the snapshot it is taken for.
Serves == <>[](Up /\ Loadable) => <>[](Up /\ Loadable => served = dir)
=============================================================================
