------------------------------- MODULE Backup -------------------------------
(***************************************************************************)
(* sboxctl export and import: an archive of config.yaml and the instance   *)
(* files, checked as a whole, then put in place file by file.  Each old    *)
(* file is renamed to a backup next to it, the new one renamed in, and     *)
(* config.yaml comes last; an error undoes the files in reverse, success   *)
(* removes the backups.  No command looks for the backups a killed import  *)
(* left.                                                                   *)
(*                                                                         *)
(* A content is what a file holds, and its sha256.  Nothing locks the      *)
(* files: between two imports and between any two steps of one they change *)
(* in any way ("Others"), and a history variable remembers which changed   *)
(* during an import.                                                       *)
(***************************************************************************)
EXTENDS Naturals

CONSTANTS
    Last,         \* the files are 1..Last, in the order of import; the last is config.yaml
    Contents,     \* what a file can hold
    None,         \* no file
    Loads(_),     \* whether a set of files loads: LoadAgentConfigSet, validateConfigFiles
    Instances,
    InstanceOf,   \* [1..Last-1 -> Instances]: whose file it is
    MaxFaults     \* bound on failing system calls and killed imports

ASSUME BackupAssumption ==
    /\ Last \in Nat \ {0}
    /\ None \notin Contents
    /\ InstanceOf \in [1..Last-1 -> Instances]
    /\ MaxFaults \in Nat

Files == 1..Last
Config == Last
Snapshots == [Files -> Contents \cup {None}]
Absent == [f \in Files |-> None]

VARIABLES
    files,        \* the configuration files
    exported,     \* the archives written so far
    running,      \* the instances whose service runs
    kept,         \* the backups (.bak-*) of the current or latest import
    pc,           \* where the import is
    archive,      \* what it imports, validated
    force,        \* its --force
    at,           \* the file it has reached, or the one it undoes
    claimed,      \* importFile.backup is set: where the old file was to go
    placed,       \* importFile.installed
    errs,         \* whether undoing met an error
    result,       \* how the latest import ended
    before,       \* history: the files when it began to replace them
    touched,      \* history: the files others changed while it ran
    started,      \* history: the instances others started while it ran
    faults

history == <<before, touched, started>>
importVars == <<kept, pc, archive, force, at, claimed, placed, errs, result, history>>
backupVars == <<files, exported, running, importVars, faults>>

BackupInit ==
    /\ files = Absent /\ exported = {} /\ running = {}
    /\ kept = Absent /\ pc = "idle" /\ archive = Absent /\ force = FALSE /\ at = 1
    /\ claimed = {} /\ placed = {} /\ errs = FALSE
    /\ result = "none" /\ before = Absent /\ touched = {} /\ started = {} /\ faults = 0

Members == {f \in Files : archive[f] # None}

-----------------------------------------------------------------------------
(* Build: a set that loads, its files read one after the other into the    *)
(* zip with their hashes, in one step.                                     *)
Export ==
    /\ Loads(files)
    /\ exported' = exported \cup {files}
    /\ UNCHANGED <<files, running, importVars, faults>>

\* ensureNoExistingConfig
NothingThere == files = Absent

(* ImportWithOptions up to the first change: an archive whose hashes match *)
(* its manifest (any other is refused, and changes nothing) and which      *)
(* loads on its own; without --force, no configuration file in the way.    *)
Import(a, f) ==
    /\ pc = "idle"
    /\ a[Config] # None /\ Loads(a)
    /\ f \/ NothingThere
    /\ archive' = a /\ force' = f
    /\ kept' = Absent /\ claimed' = {} /\ placed' = {} /\ errs' = FALSE
    /\ at' = 1 /\ result' = "running"
    /\ before' = files /\ touched' = {} /\ started' = {}
    /\ pc' = IF f THEN "stop" ELSE "prepare"
    /\ UNCHANGED <<files, exported, running, faults>>

Advance(to) == pc' = to /\ UNCHANGED <<archive, force, errs, result, history>>
End(how) ==
    /\ pc' = "idle" /\ result' = how
    /\ UNCHANGED <<kept, archive, force, at, claimed, placed, history, errs>>

\* Mutant: the last instance of the archive is left out.
StopAllButLast ==
    /\ pc = "stop"
    /\ IF at + 1 >= Config THEN Advance("prepare") /\ at' = 1 /\ UNCHANGED running
       ELSE /\ Advance("stop") /\ at' = at + 1
            /\ running' = IF at \in Members THEN running \ {InstanceOf[at]} ELSE running
    /\ UNCHANGED <<files, exported, kept, claimed, placed, faults>>

\* stopRunningImportInstances, in the order of the archive; a service that runs is stopped.
StopInstance ==
    /\ pc = "stop"
    /\ IF at = Config THEN Advance("prepare") /\ at' = 1 /\ UNCHANGED running
       ELSE /\ Advance("stop") /\ at' = at + 1
            /\ running' = IF at \in Members THEN running \ {InstanceOf[at]} ELSE running
    /\ UNCHANGED <<files, exported, kept, claimed, placed, faults>>

\* prepareImportTemp for every member: the temporary files are written and closed.
Prepare ==
    /\ pc = "prepare"
    /\ Advance("backup")
    /\ UNCHANGED <<files, exported, running, kept, at, claimed, placed, faults>>

\* replaceOneImportFile, first half: the old file is renamed to its backup.
BackupTarget ==
    /\ pc = "backup"
    /\ at \in Members
    /\ IF files[at] = None THEN UNCHANGED <<files, kept, claimed>>
       ELSE /\ kept' = [kept EXCEPT ![at] = files[at]]
            /\ files' = [files EXCEPT ![at] = None]
            /\ claimed' = claimed \cup {at}
    /\ Advance("install")
    /\ UNCHANGED <<exported, running, at, placed, faults>>

\* The members of the archive only.
SkipFile ==
    /\ pc = "backup"
    /\ at \notin Members
    /\ Advance("backup") /\ at' = at + 1
    /\ UNCHANGED <<files, exported, running, kept, claimed, placed, faults>>

\* Mutant: the backup goes as soon as its file is replaced.
PlaceAndForget ==
    /\ pc = "install"
    /\ files' = [files EXCEPT ![at] = archive[at]]
    /\ kept' = [kept EXCEPT ![at] = None]
    /\ placed' = placed \cup {at}
    /\ IF at = Config THEN Advance("clean") /\ UNCHANGED at
                      ELSE Advance("backup") /\ at' = at + 1
    /\ UNCHANGED <<exported, running, claimed, faults>>

\* Second half: the temporary file is renamed in.
PlaceTarget ==
    /\ pc = "install"
    /\ files' = [files EXCEPT ![at] = archive[at]]
    /\ placed' = placed \cup {at}
    /\ IF at = Config THEN Advance("clean") /\ UNCHANGED at
                      ELSE Advance("backup") /\ at' = at + 1
    /\ UNCHANGED <<exported, running, kept, claimed, faults>>

\* cleanupImportBackups: an error of os.Remove is ignored, the backup stays.
CleanBackups ==
    /\ pc = "clean"
    /\ kept' \in {[f \in Files |-> IF f \in left THEN kept[f] ELSE None] : left \in SUBSET claimed}
    /\ pc' = "idle" /\ result' = "ok"
    /\ UNCHANGED <<files, exported, running, archive, force, at, claimed, placed, errs, history,
                   faults>>

-----------------------------------------------------------------------------
(* rollbackImportFiles, from the last file back: a file that was installed *)
(* is removed, then its backup renamed back; errors are collected.         *)

\* Mutant: a file that had no predecessor stays.
UndoRemoveReplaced ==
    /\ pc = "undoRemove"
    /\ files' = IF at \in placed \cap claimed THEN [files EXCEPT ![at] = None] ELSE files
    /\ Advance("undoRename")
    /\ UNCHANGED <<exported, running, kept, at, claimed, placed, faults>>

UndoRemove ==
    /\ pc = "undoRemove"
    /\ files' = IF at \in placed THEN [files EXCEPT ![at] = None] ELSE files
    /\ Advance("undoRename")
    /\ UNCHANGED <<exported, running, kept, at, claimed, placed, faults>>

\* Mutant: the loop goes one file too far.
UndoneTooFar(failed) ==
    IF at = 0 THEN pc' = "idle" /\ result' = (IF failed THEN "unrestored" ELSE "failed")
                   /\ UNCHANGED at
              ELSE pc' = "undoRemove" /\ at' = at - 1 /\ UNCHANGED result

Undone(failed) ==
    IF at = 1 THEN pc' = "idle" /\ result' = (IF failed THEN "unrestored" ELSE "failed")
                   /\ UNCHANGED at
              ELSE pc' = "undoRemove" /\ at' = at - 1 /\ UNCHANGED result

\* A backup that was claimed and never made is an error of the rename too.
UndoRename ==
    /\ pc = "undoRename"
    /\ IF at \in claimed /\ kept[at] # None
       THEN /\ files' = [files EXCEPT ![at] = kept[at]]
            /\ kept' = [kept EXCEPT ![at] = None]
       ELSE UNCHANGED <<files, kept>>
    /\ errs' = (errs \/ (at \in claimed /\ kept[at] = None))
    /\ Undone(errs')
    /\ UNCHANGED <<exported, running, archive, force, claimed, placed, history, faults>>

-----------------------------------------------------------------------------
(* Faults *)

Fault == faults < MaxFaults /\ faults' = faults + 1 /\ UNCHANGED <<exported, running>>

\* Nothing has been replaced: a stop or a temporary file fails, the import ends.
PrepareFails ==
    /\ Fault /\ pc \in {"stop", "prepare"}
    /\ End("failed")
    /\ UNCHANGED files

\* The backup's name cannot be reserved (no claim), or the rename to it fails (claimed,
\* nothing there); or the rename of the new file fails.
ReplaceFails ==
    /\ Fault /\ pc \in {"backup", "install"} /\ at \in Members
    /\ \/ UNCHANGED claimed
       \/ pc = "backup" /\ files[at] # None /\ claimed' = claimed \cup {at}
    /\ Advance("undoRemove")
    /\ UNCHANGED <<files, kept, at, placed>>

\* A call of the undoing fails (removing the installed file, or the temporary file of one
\* that is not, or renaming the backup); the undoing goes on.
UndoFails ==
    /\ Fault
    /\ errs' = TRUE
    /\ \/ /\ pc = "undoRemove" /\ at \in Members
          /\ pc' = "undoRename" /\ UNCHANGED <<at, result>>
       \/ /\ pc = "undoRename" /\ at \in claimed
          /\ Undone(TRUE)
    /\ UNCHANGED <<files, kept, archive, force, claimed, placed, history>>

Kill ==
    /\ Fault /\ pc # "idle"
    /\ End("killed")
    /\ UNCHANGED files

(* What everything else does, between two imports or beside one.           *)
Beside ==
    /\ result' = IF pc = "idle" THEN "none" ELSE result
    /\ touched' = IF pc = "idle" THEN {} ELSE touched \cup {f \in Files : files'[f] # files[f]}
    /\ started' = IF pc = "idle" THEN {} ELSE started \cup (running' \ running)
    /\ UNCHANGED <<kept, pc, archive, force, at, claimed, placed, errs, before>>

Others ==
    /\ files' \in Snapshots /\ running' \in SUBSET Instances
    /\ Beside
    /\ UNCHANGED <<exported, faults>>

ImportStep ==
    \/ StopInstance \/ Prepare \/ BackupTarget \/ SkipFile \/ PlaceTarget \/ CleanBackups
    \/ UndoRemove \/ UndoRename
    \/ PrepareFails \/ ReplaceFails \/ UndoFails \/ Kill

BackupNext ==
    \/ Export
    \/ \E a \in Snapshots, f \in BOOLEAN : Import(a, f)
    \/ ImportStep
    \/ Others

BackupSpec == BackupInit /\ [][BackupNext]_backupVars

-----------------------------------------------------------------------------
(* Properties *)

(* Types of the state. *)
BackupTypeOK ==
    /\ files \in Snapshots /\ kept \in Snapshots /\ archive \in Snapshots /\ before \in Snapshots
    /\ exported \subseteq Snapshots
    /\ running \subseteq Instances
    /\ pc \in {"idle", "stop", "prepare", "backup", "install", "clean", "undoRemove", "undoRename"}
    /\ force \in BOOLEAN /\ errs \in BOOLEAN
    /\ at \in Files
    /\ claimed \subseteq Files /\ placed \subseteq Files
    /\ result \in {"none", "running", "ok", "failed", "unrestored", "killed"}
    /\ touched \subseteq Files /\ started \subseteq Instances
    /\ faults \in 0..MaxFaults

(* Whatever an import meets, killed or failing while it undoes another     *)
(* failure, the old content of every file is still there, in place or as   *)
(* its backup, until the whole archive is in place.  This and the next are *)
(* about each file nobody else changed during the import, whatever happens *)
(* to the others.                                                          *)
NothingLost ==
    result # "none" =>
        \/ \A f \in Members \ touched : files[f] = archive[f]
        \/ \A f \in Files \ touched : before[f] # None => before[f] \in {files[f], kept[f]}

(* An import is all or nothing.  One that reports success has installed    *)
(* the archive over what was there, and without --force and without others *)
(* has left exactly the archive, which loads.  One that reports an error,  *)
(* and no failed rollback, has left every file as it was, whichever call   *)
(* failed and however many files had been replaced (replaceImportFiles,    *)
(* rollbackImportFiles).                                                   *)
ImportIsAllOrNothing ==
    /\ result = "ok" =>
          /\ \A f \in Files \ touched : files[f] = IF f \in Members THEN archive[f] ELSE before[f]
          /\ ~force /\ touched = {} => Loads(files)
    /\ result = "failed" => \A f \in Files \ touched : files[f] = before[f]

(* While a forced import replaces files, no instance of the archive runs   *)
(* on the configuration being replaced, unless it was started meanwhile.   *)
StoppedFirst ==
    force /\ pc \in {"prepare", "backup", "install", "clean", "undoRemove", "undoRename"} =>
        \A f \in Members \ {Config} : InstanceOf[f] \notin running \ started
=============================================================================
