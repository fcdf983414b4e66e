----------------------------- MODULE BackupProofs -----------------------------
(***************************************************************************)
(* Proofs about Backup: an import is all or nothing, loses nothing and     *)
(* replaces nothing under a running instance, for every number of files,   *)
(* every content, every meaning of Loads and any number of faults.         *)
(*                                                                         *)
(* The inductive invariant says what each file looks like by where the     *)
(* import is: the files behind it are done, those ahead of it as they      *)
(* were, and the undoing turns the first kind back into the second.  All   *)
(* of it is about the files nobody else changes during the import; what    *)
(* others do, at any point of it, only makes them fewer.                   *)
(***************************************************************************)
EXTENDS Backup, TLAPS

-----------------------------------------------------------------------------
(* What a file can look like during an import *)

\* A file others changed during the import can look like anything.
Alone(f) == f \notin touched

USE DEF history, Alone

\* Not reached yet, or not in the archive.
Old(f) ==
    Alone(f) => files[f] = before[f] /\ kept[f] = None /\ f \notin claimed /\ f \notin placed

\* The old file, if there was one, is its backup.
Saved(f) ==
    IF before[f] = None THEN f \notin claimed /\ kept[f] = None
                        ELSE f \in claimed /\ kept[f] = before[f]

Moved(f) == Alone(f) => files[f] = None /\ f \notin placed /\ Saved(f)
Done(f) ==
    IF f \in Members THEN Alone(f) => files[f] = archive[f] /\ f \in placed /\ Saved(f) ELSE Old(f)

\* Claimed, but the rename to the backup failed.
OnlyClaimed(f) ==
    Alone(f) => files[f] = before[f] /\ kept[f] = None /\ f \in claimed /\ f \notin placed

Undoable(f) == Done(f) \/ Moved(f) \/ Old(f) \/ OnlyClaimed(f)

\* The new file is out of the way.
Cleared(f) ==
    Alone(f) => \/ files[f] = None /\ f \in claimed /\ kept[f] = before[f]
                \/ files[f] = before[f] /\ kept[f] = None

Safe(f) ==
    Alone(f) => /\ kept[f] \in {None, before[f]}
                /\ before[f] # None => before[f] \in {files[f], kept[f]}

Restored(f) == Safe(f) /\ (~errs /\ Alone(f) => files[f] = before[f])

Shape ==
    /\ pc = "stop" => \A f \in Files : Old(f)
    /\ pc = "prepare" => at = 1 /\ \A f \in Files : Old(f)
    /\ pc = "backup" => \A f \in Files : IF f < at THEN Done(f) ELSE Old(f)
    /\ pc = "install" =>
          /\ at \in Members /\ Moved(at)
          /\ \A f \in Files \ {at} : IF f < at THEN Done(f) ELSE Old(f)
    /\ pc = "clean" => \A f \in Files : Done(f)
    /\ pc = "undoRemove" =>
          /\ Undoable(at)
          /\ \A f \in Files \ {at} : IF f < at THEN Done(f) ELSE Restored(f)
    /\ pc = "undoRename" =>
          /\ Safe(at) /\ (~errs => Cleared(at))
          /\ \A f \in Files \ {at} : IF f < at THEN Done(f) ELSE Restored(f)

\* An archive has a config.yaml: the import ends with a file it replaces.
HasConfig == pc # "idle" => archive[Config] # None

\* It loads, and without --force nothing was there.
Checked ==
    pc # "idle" =>
        /\ result = "running"
        /\ Loads(archive)
        /\ ~force => before = Absent

Stopped ==
    /\ pc = "stop" =>
          \A f \in Members \ {Config} : f < at => InstanceOf[f] \notin running \ started
    /\ StoppedFirst

ImportInv == BackupTypeOK /\ HasConfig /\ Checked /\ Shape /\ NothingLost /\ ImportIsAllOrNothing

-----------------------------------------------------------------------------
(* Types *)

\* The files are numbered from 1; one step forward or back stays among them.
LEMMA Numbers ==
    /\ Config \in Files
    /\ 1 \in Files
    /\ \A f \in Files : f \in Nat /\ 1 <= f /\ f <= Config
    /\ \A f \in Files : f # Config => f + 1 \in Files
    /\ \A f \in Files : f # 1 => f - 1 \in Files
    /\ \A n \in 0..MaxFaults : n < MaxFaults => n + 1 \in 0..MaxFaults
BY BackupAssumption DEF Files, Config

\* Snapshots are functions on the files, closed under changing one of them.
LEMMA SnapshotFacts ==
    /\ Absent \in Snapshots
    /\ \A s \in Snapshots : DOMAIN s = Files
    /\ \A s \in Snapshots, f \in Files, c \in Contents \cup {None} :
          /\ [s EXCEPT ![f] = c] \in Snapshots
          /\ [s EXCEPT ![f] = c][f] = c
          /\ \A g \in Files \ {f} : [s EXCEPT ![f] = c][g] = s[g]
    /\ \A s \in Snapshots, f \in Files : s[f] \in Contents \cup {None}
BY DEF Snapshots, Absent

\* A fault counts and leaves archives and services alone.
LEMMA FaultType ==
    ASSUME BackupTypeOK, Fault
    PROVE  faults' \in 0..MaxFaults /\ UNCHANGED <<exported, running>>
BY Numbers DEF BackupTypeOK, Fault

\* The end of one file's undoing.
LEMMA UndoneType ==
    ASSUME BackupTypeOK, NEW failed \in BOOLEAN, Undone(failed)
    PROVE  /\ at' \in Files
           /\ pc' \in {"idle", "undoRemove"}
           /\ result' \in {"failed", "unrestored", result}
BY Numbers DEF BackupTypeOK, Undone

\* Every step keeps the types; the archive's config.yaml stops the counting.
LEMMA TypeStep == BackupTypeOK /\ HasConfig /\ [BackupNext]_backupVars => BackupTypeOK'
<1> SUFFICES ASSUME BackupTypeOK, HasConfig, [BackupNext]_backupVars PROVE BackupTypeOK'
  OBVIOUS
<1> USE Numbers, SnapshotFacts
<1>0. CASE UNCHANGED backupVars
  BY <1>0 DEF backupVars, importVars, BackupTypeOK
<1>1. CASE Export
  BY <1>1 DEF Export, BackupTypeOK, importVars
<1>2. ASSUME NEW a \in Snapshots, NEW f \in BOOLEAN, Import(a, f) PROVE BackupTypeOK'
  BY <1>2 DEF Import, BackupTypeOK
<1>3. CASE Others
  <2>1. touched' \subseteq Files /\ started' \subseteq Instances /\ result' \in {"none", result}
    BY <1>3 DEF Others, Beside, BackupTypeOK
  <2>2. UNCHANGED <<kept, pc, archive, force, at, claimed, placed, errs, before, exported, faults>>
    BY <1>3 DEF Others, Beside
  <2> QED BY <1>3, <2>1, <2>2 DEF Others, BackupTypeOK
<1>4. CASE StopInstance
  <2>1. running' \subseteq Instances
    BY <1>4 DEF StopInstance, BackupTypeOK
  <2>2. at' \in Files
    BY <1>4 DEF StopInstance, BackupTypeOK
  <2> QED BY <1>4, <2>1, <2>2 DEF StopInstance, Advance, BackupTypeOK
<1>5. CASE Prepare
  BY <1>5 DEF Prepare, Advance, BackupTypeOK
<1>6. CASE BackupTarget
  <2>1. at \in Files /\ files \in Snapshots /\ kept \in Snapshots /\ claimed \subseteq Files
    BY DEF BackupTypeOK
  <2>2. files[at] \in Contents \cup {None}
    BY <2>1
  <2>3. files' \in Snapshots /\ kept' \in Snapshots /\ claimed' \subseteq Files
    BY <1>6, <2>1, <2>2 DEF BackupTarget
  <2> QED BY <1>6, <2>3 DEF BackupTarget, Advance, BackupTypeOK
<1>7. CASE SkipFile
  <2>1. at # Config
    BY <1>7 DEF SkipFile, HasConfig, Members
  <2> QED BY <1>7, <2>1 DEF SkipFile, Advance, BackupTypeOK
<1>8. CASE PlaceTarget
  <2>1. files' \in Snapshots
    BY <1>8 DEF PlaceTarget, BackupTypeOK
  <2>2. at' \in Files
    BY <1>8 DEF PlaceTarget, BackupTypeOK
  <2> QED BY <1>8, <2>1, <2>2 DEF PlaceTarget, Advance, BackupTypeOK
<1>9. CASE CleanBackups
  <2>1. kept' \in Snapshots
    BY <1>9 DEF CleanBackups, BackupTypeOK, Snapshots
  <2> QED BY <1>9, <2>1 DEF CleanBackups, BackupTypeOK
<1>10. CASE UndoRemove
  BY <1>10 DEF UndoRemove, Advance, BackupTypeOK
<1>11. CASE UndoRename
  <2>1. errs' \in BOOLEAN /\ Undone(errs')
    BY <1>11 DEF UndoRename, BackupTypeOK
  <2>2. at' \in Files /\ pc' \in {"idle", "undoRemove"} /\ result' \in {"failed", "unrestored", result}
    BY <2>1, UndoneType
  <2>3. kept[at] \in Contents \cup {None}
    BY <1>11 DEF BackupTypeOK
  <2>4. files' \in Snapshots /\ kept' \in Snapshots
    <3>1. at \in Files /\ files \in Snapshots /\ kept \in Snapshots
      BY <1>11 DEF BackupTypeOK
    <3>2. CASE at \in claimed /\ kept[at] # None
      <4>1. files' = [files EXCEPT ![at] = kept[at]] /\ kept' = [kept EXCEPT ![at] = None]
        BY <1>11, <3>2 DEF UndoRename
      <4> QED BY <2>3, <3>1, <4>1
    <3>3. CASE ~(at \in claimed /\ kept[at] # None)
      BY <1>11, <3>1, <3>3 DEF UndoRename
    <3> QED BY <3>2, <3>3
  <2> QED BY <1>11, <2>1, <2>2, <2>4 DEF UndoRename, BackupTypeOK
<1>12. CASE PrepareFails
  BY <1>12, FaultType DEF PrepareFails, End, BackupTypeOK
<1>13. CASE ReplaceFails
  BY <1>13, FaultType DEF ReplaceFails, Advance, BackupTypeOK
<1>14. CASE UndoFails
  <2>1. at' \in Files /\ pc' \in {"idle", "undoRemove", "undoRename"}
        /\ result' \in {"failed", "unrestored", result}
    BY <1>14, UndoneType DEF UndoFails, BackupTypeOK
  <2> QED BY <1>14, <2>1, FaultType DEF UndoFails, BackupTypeOK
<1>15. CASE Kill
  BY <1>15, FaultType DEF Kill, End, BackupTypeOK
<1> QED
  BY <1>0, <1>1, <1>2, <1>3, <1>4, <1>5, <1>6, <1>7, <1>8, <1>9, <1>10, <1>11, <1>12, <1>13, <1>14,
     <1>15 DEF BackupNext, ImportStep

\* Only Import brings another archive.
LEMMA ConfigStep == HasConfig /\ [BackupNext]_backupVars => HasConfig'
<1>1. \/ UNCHANGED backupVars \/ Export \/ Others \/ ImportStep
      => archive' = archive /\ (pc' # "idle" => pc # "idle")
  BY DEF ImportStep, Export, Others, Beside, StopInstance, Prepare, BackupTarget,
         SkipFile, PlaceTarget, CleanBackups, UndoRemove, UndoRename, PrepareFails, ReplaceFails,
         UndoFails, Kill, Advance, End, backupVars, importVars
<1>2. \A a \in Snapshots, f \in BOOLEAN : Import(a, f) => archive'[Config] # None
  BY DEF Import
<1> QED BY <1>1, <1>2 DEF HasConfig, BackupNext

\* The initial state.
LEMMA TypeInit == BackupInit => BackupTypeOK
<1>1. 0 \in 0..MaxFaults
  BY BackupAssumption
<1>2. Absent \in Snapshots /\ 1 \in Files
  BY Numbers, SnapshotFacts
<1> QED BY <1>1, <1>2 DEF BackupInit, BackupTypeOK

(***************************************************************************)
(* Every variable of an import keeps its type, whatever fails and whenever *)
(* it is killed: the count of the files never leaves them.                 *)
(***************************************************************************)
THEOREM TypeCorrect == BackupSpec => []BackupTypeOK
<1>1. BackupInit => BackupTypeOK /\ HasConfig
  BY TypeInit DEF BackupInit, HasConfig
<1>2. BackupTypeOK /\ HasConfig /\ [BackupNext]_backupVars => (BackupTypeOK /\ HasConfig)'
  BY TypeStep, ConfigStep
<1> QED BY <1>1, <1>2, PTL DEF BackupSpec

-----------------------------------------------------------------------------
(* All or nothing *)

\* Whatever a file looks like, its old content is somewhere.
LEMMA ShapesAreSafe ==
    ASSUME BackupTypeOK, Shape, pc # "idle"
    PROVE  \A f \in Files : Safe(f)
<1>1. \A f \in Files : Old(f) \/ Moved(f) \/ Done(f) \/ OnlyClaimed(f) => Safe(f)
  BY DEF Old, Moved, Done, OnlyClaimed, Saved, Safe
<1>2. \A f \in Files : Restored(f) => Safe(f)
  BY DEF Restored
<1>3. at \in Files
  BY DEF BackupTypeOK
<1> QED BY <1>1, <1>2, <1>3 DEF Shape, BackupTypeOK, Undoable

\* The same of the next state.
LEMMA NextShapesAreSafe ==
    ASSUME BackupTypeOK', Shape', pc' # "idle"
    PROVE  \A f \in Files : Safe(f)'
<1>1. \A f \in Files : (Old(f) \/ Moved(f) \/ Done(f) \/ OnlyClaimed(f) => Safe(f))'
  BY DEF Old, Moved, Done, OnlyClaimed, Saved, Safe
<1>2. \A f \in Files : (Restored(f) => Safe(f))'
  BY DEF Restored
<1>3. at' \in Files
  BY DEF BackupTypeOK
<1> QED BY <1>1, <1>2, <1>3 DEF Shape, BackupTypeOK, Undoable

\* The result stands as long as the import runs, and the archive with it.
LEMMA CheckedStep == BackupTypeOK /\ Checked /\ [BackupNext]_backupVars => Checked'
<1> SUFFICES ASSUME BackupTypeOK, Checked, [BackupNext]_backupVars PROVE Checked'
  OBVIOUS
<1>1. CASE UNCHANGED backupVars \/ Export
  BY <1>1 DEF backupVars, importVars, Export, Checked
<1>2. ASSUME NEW a \in Snapshots, NEW f \in BOOLEAN, Import(a, f) PROVE Checked'
  BY <1>2 DEF Import, Checked, NothingThere
<1>3. CASE Others
  BY <1>3 DEF Others, Beside, Checked
<1>4. CASE StopInstance \/ Prepare \/ BackupTarget \/ SkipFile \/ PlaceTarget \/ UndoRemove
           \/ ReplaceFails
  BY <1>4 DEF StopInstance, Prepare, BackupTarget, SkipFile, PlaceTarget, UndoRemove, ReplaceFails,
              Advance, Checked
<1>5. CASE CleanBackups \/ PrepareFails \/ Kill
  BY <1>5 DEF CleanBackups, PrepareFails, Kill, End, Checked
<1>6. CASE UndoRename \/ UndoFails
  BY <1>6 DEF UndoRename, UndoFails, Undone, Checked
<1> QED BY <1>1, <1>2, <1>3, <1>4, <1>5, <1>6 DEF BackupNext, ImportStep

\* What others do, at any point of an import, leaves the files that count as they are.
LEMMA ShapeBeside ==
    ASSUME BackupTypeOK, Shape, Others
    PROVE  Shape'
<1>1. UNCHANGED <<kept, pc, archive, at, claimed, placed, errs, before>>
  BY DEF Others, Beside
<1>2. CASE pc = "idle"
  BY <1>1, <1>2 DEF Shape
<1>3. CASE pc # "idle"
  <2>1. touched' = touched \cup {f \in Files : files'[f] # files[f]}
    BY <1>3 DEF Others, Beside
  <2>2. \A f \in Files : Alone(f)' => Alone(f) /\ files'[f] = files[f]
    BY <2>1 DEF Alone
  <2>3. \A f \in Files : /\ Old(f) => Old(f)'
                         /\ Moved(f) => Moved(f)'
                         /\ Done(f) => Done(f)'
                         /\ OnlyClaimed(f) => OnlyClaimed(f)'
                         /\ Cleared(f) => Cleared(f)'
                         /\ Safe(f) => Safe(f)'
                         /\ Restored(f) => Restored(f)'
    BY <1>1, <2>2 DEF Old, Saved, Moved, Done, OnlyClaimed, Cleared, Safe, Restored, Members
  <2>4. \A f \in Files : Undoable(f) => Undoable(f)'
    BY <2>3 DEF Undoable
  <2>5. Members' = Members /\ at \in Files
    BY <1>1 DEF Members, BackupTypeOK
  <2> QED BY <1>1, <2>3, <2>4, <2>5 DEF Shape
<1> QED BY <1>2, <1>3

\* The beginning of an import, up to the first file.
LEMMA ShapeBegin ==
    ASSUME BackupTypeOK, Shape,
           \/ UNCHANGED backupVars \/ Export \/ Others \/ StopInstance \/ Prepare
           \/ \E a \in Snapshots, f \in BOOLEAN : Import(a, f)
    PROVE  Shape'
<1>1. CASE UNCHANGED backupVars
  BY <1>1 DEF backupVars, importVars, Shape, Old, Saved, Moved, Done, OnlyClaimed, Undoable, Cleared,
              Safe, Restored, Members
<1>2. CASE Export
  BY <1>2 DEF Export, importVars, Shape, Alone, Old, Saved, Moved, Done, OnlyClaimed, Undoable,
              Cleared, Safe, Restored, Members
<1>6. CASE Others
  BY <1>6, ShapeBeside
<1>3. ASSUME NEW a \in Snapshots, NEW f \in BOOLEAN, Import(a, f) PROVE Shape'
  BY <1>3 DEF Import, Shape, Old, Absent
<1>4. CASE StopInstance
  BY <1>4 DEF StopInstance, Advance, Shape, Old
<1>5. CASE Prepare
  <2>1. \A g \in Files : Old(g)'
    BY <1>5 DEF Prepare, Advance, Shape, Old
  <2>2. pc' = "backup" /\ at' = 1
    BY <1>5 DEF Prepare, Advance, Shape
  <2>3. \A g \in Files : ~(g < 1)
    BY Numbers
  <2> QED BY <2>1, <2>2, <2>3 DEF Shape
<1> QED BY <1>1, <1>2, <1>3, <1>4, <1>5, <1>6

\* The files one after the other.
LEMMA ShapeForward ==
    ASSUME BackupTypeOK, HasConfig, Shape, BackupTarget \/ SkipFile \/ PlaceTarget
    PROVE  Shape'
<1>0. at \in Files /\ files \in Snapshots /\ kept \in Snapshots
  BY DEF BackupTypeOK
<1> USE SnapshotFacts, Numbers
<1>1. CASE BackupTarget
  <2>1. \A f \in Files \ {at} : /\ files'[f] = files[f] /\ kept'[f] = kept[f]
                                /\ f \in claimed' <=> f \in claimed
    BY <1>0, <1>1 DEF BackupTarget
  <2>2. /\ pc = "backup" /\ pc' = "install" /\ at' = at /\ at \in Members /\ placed' = placed
        /\ UNCHANGED <<archive, before, touched>>
    BY <1>1 DEF BackupTarget, Advance
  <2>3. Old(at)
    BY <1>0, <2>2 DEF Shape
  <2>4. Moved(at)'
    BY <1>0, <1>1, <2>2, <2>3 DEF BackupTarget, Old, Moved, Saved
  <2>5. \A f \in Files \ {at} : IF f < at THEN Done(f)' ELSE Old(f)'
    BY <2>1, <2>2 DEF Shape, Done, Old, Saved, Members
  <2> QED BY <2>2, <2>4, <2>5 DEF Shape, Members
<1>2. CASE SkipFile
  <2>1. /\ pc = "backup" /\ pc' = "backup" /\ at' = at + 1 /\ at \notin Members
        /\ UNCHANGED <<files, kept, claimed, placed, archive, before, touched>>
    BY <1>2 DEF SkipFile, Advance
  <2>2. \A f \in Files : IF f < at + 1 THEN Done(f) ELSE Old(f)
    <3>1. \A f \in Files : f < at + 1 <=> f < at \/ f = at
      BY <1>0
    <3> QED BY <1>0, <2>1, <3>1 DEF Shape, Done
  <2> QED BY <2>1, <2>2 DEF Shape, Done, Old, Saved, Members
<1>3. CASE PlaceTarget
  <2>1. /\ pc = "install" /\ files' = [files EXCEPT ![at] = archive[at]]
        /\ placed' = placed \cup {at}
        /\ UNCHANGED <<kept, claimed, archive, before, touched>>
    BY <1>3 DEF PlaceTarget, Advance
  <2>2. archive[at] \in Contents \cup {None}
    BY <1>0 DEF BackupTypeOK
  <2>3. \A f \in Files : f = at => Done(f)'
    <3>1. at \in Members /\ Moved(at) /\ files'[at] = archive[at] /\ at \in placed'
      BY <1>0, <2>1, <2>2 DEF Shape
    <3> QED BY <2>1, <3>1 DEF Done, Moved, Saved, Members
  <2>4. \A f \in Files \ {at} : /\ f < at => Done(f)'
                                /\ ~(f < at) => Old(f)'
    <3>1. \A f \in Files \ {at} : files'[f] = files[f] /\ (f \in placed' <=> f \in placed)
      BY <1>0, <2>1, <2>2
    <3> QED BY <2>1, <3>1 DEF Shape, Done, Old, Saved, Members
  <2>5. CASE at = Config
    <3>1. \A f \in Files \ {at} : f < at
      BY <2>5
    <3> QED BY <1>3, <2>3, <2>4, <2>5, <3>1 DEF PlaceTarget, Advance, Shape
  <2>6. CASE at # Config
    <3>1. \A f \in Files : f < at + 1 <=> f < at \/ f = at
      BY <1>0
    <3>2. pc' = "backup" /\ at' = at + 1
      BY <1>3, <2>6 DEF PlaceTarget, Advance
    <3>3. \A f \in Files : IF f < at + 1 THEN Done(f)' ELSE Old(f)'
      BY <2>3, <2>4, <3>1
    <3> QED BY <3>2, <3>3 DEF Shape
  <2> QED BY <2>5, <2>6
<1> QED BY <1>1, <1>2, <1>3

\* An error turns back at the file that was reached.
LEMMA ShapeTurns ==
    ASSUME BackupTypeOK, Shape, ReplaceFails
    PROVE  Shape'
<1>0. at \in Files
  BY DEF BackupTypeOK
<1>1. /\ pc \in {"backup", "install"} /\ pc' = "undoRemove"
      /\ UNCHANGED <<files, kept, at, placed, archive, before, errs, touched>>
      /\ \A f \in Files \ {at} : f \in claimed' <=> f \in claimed
  BY DEF ReplaceFails, Advance
<1>2. \A f \in Files \ {at} : IF f < at THEN Done(f)' ELSE Restored(f)'
  <2>1. \A f \in Files \ {at} : IF f < at THEN Done(f) ELSE Old(f)
    BY <1>1 DEF Shape
  <2> QED BY <1>1, <2>1 DEF Done, Old, Restored, Safe, Saved, Members
<1>3. Undoable(at)'
  <2>1. CASE pc = "backup"
    <3>1. Old(at)
      BY <1>0, <2>1, Numbers DEF Shape
    <3> QED BY <1>1, <3>1 DEF Old, OnlyClaimed, Undoable
  <2>2. CASE pc = "install"
    <3>1. Moved(at) /\ claimed' = claimed
      BY <2>2 DEF Shape, ReplaceFails
    <3> QED BY <1>1, <3>1 DEF Moved, Saved, Undoable
  <2> QED BY <1>1, <2>1, <2>2
<1> QED BY <1>1, <1>2, <1>3 DEF Shape

\* Undoing: the new file goes ...
LEMMA ShapeRemoves ==
    ASSUME BackupTypeOK, Shape, UndoRemove
    PROVE  Shape'
<1>0. at \in Files /\ files \in Snapshots
  BY DEF BackupTypeOK
<1>1. /\ pc = "undoRemove" /\ pc' = "undoRename"
      /\ UNCHANGED <<kept, at, claimed, placed, archive, before, errs, touched>>
      /\ files' = IF at \in placed THEN [files EXCEPT ![at] = None] ELSE files
  BY DEF UndoRemove, Advance
<1>2. \A f \in Files \ {at} : files'[f] = files[f]
  BY <1>0, <1>1, SnapshotFacts
<1>3. files'[at] = IF at \in placed THEN None ELSE files[at]
  BY <1>0, <1>1, SnapshotFacts
<1>4. Undoable(at)
  BY <1>1 DEF Shape
<1>5. Safe(at)' /\ Cleared(at)'
  BY <1>1, <1>3, <1>4 DEF Undoable, Done, Moved, Old, OnlyClaimed, Saved, Safe, Cleared
<1>6. \A f \in Files \ {at} : IF f < at THEN Done(f)' ELSE Restored(f)'
  BY <1>1, <1>2 DEF Shape, Done, Old, Saved, Restored, Safe, Members
<1> QED BY <1>1, <1>5, <1>6 DEF Shape

\* ... and the backup comes back, unless there is none or an earlier call has failed.
LEMMA FileRestored ==
    ASSUME BackupTypeOK, Shape, UndoRename
    PROVE  /\ pc = "undoRename"
           /\ UNCHANGED <<claimed, placed, archive, before, touched>>
           /\ \A f \in Files \ {at} : files'[f] = files[f] /\ kept'[f] = kept[f]
           /\ \A f \in Files : Safe(f)'
           /\ errs => errs'
           /\ ~errs' /\ Alone(at) => files'[at] = before[at]
<1>0. at \in Files /\ files \in Snapshots /\ kept \in Snapshots /\ errs \in BOOLEAN
  BY DEF BackupTypeOK
<1>1. pc = "undoRename" /\ UNCHANGED <<claimed, placed, archive, before, touched>>
  BY DEF UndoRename
<1>2. \A f \in Files : Safe(f)
  BY <1>1, ShapesAreSafe
<1>3. (errs => errs') /\ (~errs' => ~errs /\ ~(at \in claimed /\ kept[at] = None))
  BY DEF UndoRename
<1>4. CASE at \in claimed /\ kept[at] # None
  <2>1. files' = [files EXCEPT ![at] = kept[at]] /\ kept' = [kept EXCEPT ![at] = None]
    BY <1>4 DEF UndoRename
  <2>2. (Alone(at) => kept[at] = before[at]) /\ kept[at] \in Contents \cup {None}
    BY <1>0, <1>2, <1>4, SnapshotFacts DEF Safe
  <2>3. /\ Alone(at) => files'[at] = before[at] /\ kept'[at] = None
        /\ \A f \in Files \ {at} : files'[f] = files[f] /\ kept'[f] = kept[f]
    BY <1>0, <2>1, <2>2, SnapshotFacts
  <2>4. \A f \in Files : Safe(f)'
    BY <1>1, <1>2, <2>3 DEF Safe
  <2> QED BY <1>1, <1>3, <2>3, <2>4
<1>5. CASE ~(at \in claimed /\ kept[at] # None)
  <2>1. UNCHANGED <<files, kept>>
    BY <1>5 DEF UndoRename
  <2>2. \A f \in Files : Safe(f)'
    BY <1>1, <1>2, <2>1 DEF Safe
  <2>3. ~errs' /\ Alone(at) => files[at] = before[at]
    BY <1>1, <1>3, <1>5 DEF Shape, Cleared
  <2> QED BY <1>1, <1>3, <2>1, <2>2, <2>3
<1> QED BY <1>4, <1>5

LEMMA ShapeRenames ==
    ASSUME BackupTypeOK, Shape, UndoRename
    PROVE  /\ Shape'
           /\ pc' = "idle" => result' = (IF errs' THEN "unrestored" ELSE "failed")
           /\ pc' = "idle" /\ ~errs' => \A f \in Files : Alone(f)' => files'[f] = before'[f]
<1>0. at \in Files
  BY DEF BackupTypeOK
<1>1. Undone(errs')
  BY DEF UndoRename
<1>2. \A f \in Files \ {at} : f < at => Done(f)'
  BY FileRestored DEF Shape, Done, Old, Saved, Members
<1>3. \A f \in Files : ~(f < at) => Restored(f)'
  <2>1. \A f \in Files \ {at} : ~(f < at) => Restored(f)
    BY FileRestored DEF Shape
  <2> QED BY <2>1, FileRestored DEF Restored
<1>4. CASE at = 1
  <2>1. pc' = "idle" /\ result' = (IF errs' THEN "unrestored" ELSE "failed")
    BY <1>1, <1>4 DEF Undone
  <2>2. \A f \in Files : ~(f < at)
    BY <1>4, Numbers
  <2> QED BY <1>3, <2>1, <2>2 DEF Shape, Restored
<1>5. CASE at # 1
  <2>1. pc' = "undoRemove" /\ at' = at - 1
    BY <1>1, <1>5 DEF Undone
  <2>2. at - 1 \in Files /\ at - 1 < at /\ at - 1 # at
    BY <1>0, <1>5, Numbers
  <2>3. \A f \in Files \ {at - 1} : (f < at - 1 <=> f < at) /\ (f < at => f # at)
    BY <1>0, Numbers
  <2>4. Undoable(at)'
    BY <1>2, <2>1, <2>2 DEF Undoable
  <2>5. \A f \in Files \ {at'} : IF f < at' THEN Done(f)' ELSE Restored(f)'
    BY <1>2, <1>3, <2>1, <2>2, <2>3
  <2> QED BY <2>1, <2>4, <2>5 DEF Shape
<1> QED BY <1>4, <1>5

\* A call of the undoing fails: the file stays as it is, which is safe.
LEMMA ShapeFails ==
    ASSUME BackupTypeOK, Shape, UndoFails
    PROVE  /\ Shape'
           /\ pc' = "idle" => result' = "unrestored"
           /\ \A f \in Files : Safe(f)'
<1>0. at \in Files
  BY DEF BackupTypeOK
<1>1. pc # "idle" /\ UNCHANGED <<files, kept, claimed, placed, archive, before, touched>> /\ errs'
  BY DEF UndoFails
<1>2. \A f \in Files : Safe(f)'
  BY <1>1, ShapesAreSafe DEF Safe
<1>3. \A f \in Files \ {at} : f < at => Done(f)'
  BY <1>1 DEF UndoFails, Shape, Done, Old, Saved, Members
<1>4. \A f \in Files : Restored(f)'
  BY <1>1, <1>2 DEF Restored
<1>5. CASE pc = "undoRemove"
  <2>1. pc' = "undoRename" /\ at' = at
    BY <1>5 DEF UndoFails
  <2> QED BY <1>0, <1>1, <1>2, <1>3, <1>4, <2>1 DEF Shape
<1>6. CASE pc = "undoRename" /\ at = 1
  <2>1. pc' = "idle" /\ result' = "unrestored"
    BY <1>6 DEF UndoFails, Undone
  <2> QED BY <1>2, <2>1 DEF Shape
<1>7. CASE pc = "undoRename" /\ at # 1
  <2>1. pc' = "undoRemove" /\ at' = at - 1
    BY <1>7 DEF UndoFails, Undone
  <2>2. at - 1 \in Files /\ at - 1 < at /\ at - 1 # at
    BY <1>0, <1>7, Numbers
  <2>3. \A f \in Files \ {at - 1} : (f < at - 1 <=> f < at) /\ (f < at => f # at)
    BY <1>0, Numbers
  <2>4. Undoable(at)'
    BY <1>3, <2>1, <2>2 DEF Undoable
  <2>5. \A f \in Files \ {at'} : IF f < at' THEN Done(f)' ELSE Restored(f)'
    BY <1>3, <1>4, <2>1, <2>2, <2>3
  <2> QED BY <1>2, <2>1, <2>4, <2>5 DEF Shape
<1> QED BY <1>5, <1>6, <1>7 DEF UndoFails

\* Two snapshots that agree on every file are one.
LEMMA SameFiles ==
    \A s, t \in Snapshots : (\A f \in Files : s[f] = t[f]) => s = t
BY DEF Snapshots

\* Success: every file is in place, whether or not its backup could be removed.
LEMMA SuccessInstalls ==
    ASSUME BackupTypeOK, Checked, Shape, CleanBackups
    PROVE  NothingLost' /\ ImportIsAllOrNothing'
<1>1. /\ pc = "clean" /\ result' = "ok"
      /\ UNCHANGED <<files, archive, force, before, touched>>
  BY DEF CleanBackups
<1>2. \A f \in Files \ touched : files[f] = (IF f \in Members THEN archive[f] ELSE before[f])
  BY <1>1 DEF Shape, Alone, Done, Old
<1>3. ASSUME ~force, touched = {} PROVE Loads(files)
  <2>1. before = Absent /\ Loads(archive)
    BY <1>1, <1>3 DEF Checked
  <2>2. \A f \in Files : files[f] = archive[f]
    BY <1>2, <1>3, <2>1 DEF Members, Absent
  <2>3. files = archive
    BY <2>2, SameFiles DEF BackupTypeOK
  <2> QED BY <2>1, <2>3
<1>4. \A f \in Members \ touched : files[f] = archive[f]
  BY <1>2 DEF Members
<1> QED BY <1>1, <1>2, <1>3, <1>4 DEF NothingLost, ImportIsAllOrNothing, Members

\* While the import runs its files are safe; so they are when it ends.
LEMMA SafeIsNotLost ==
    ASSUME \A f \in Files : Safe(f) PROVE NothingLost
BY DEF NothingLost, Safe, Alone

\* One step of anything, for the shape of the files and the two promises.
LEMMA ImportStepKeeps ==
    ASSUME ImportInv, [BackupNext]_backupVars, BackupTypeOK'
    PROVE  Shape' /\ NothingLost' /\ ImportIsAllOrNothing'
<1> USE DEF ImportInv
<1>1. CASE UNCHANGED backupVars \/ Export
  <2>1. UNCHANGED <<files, kept, archive, force, before, result, touched>>
    BY <1>1 DEF backupVars, importVars, Export
  <2>2. Shape'
    BY <1>1, ShapeBegin
  <2> QED BY <2>1, <2>2 DEF NothingLost, ImportIsAllOrNothing, Members
<1>2. CASE Others
  <2>1. Shape' /\ pc' = pc
    BY <1>2, ShapeBegin DEF Others, Beside
  <2>2. CASE pc = "idle"
    <3>1. result' = "none"
      BY <1>2, <2>2 DEF Others, Beside
    <3> QED BY <2>1, <3>1 DEF NothingLost, ImportIsAllOrNothing
  <2>3. CASE pc # "idle"
    <3>1. result' = "running"
      BY <1>2, <2>3 DEF Others, Beside, Checked
    <3>2. \A f \in Files : Safe(f)'
      BY <2>1, <2>3, NextShapesAreSafe
    <3> QED BY <2>1, <3>1, <3>2 DEF NothingLost, Safe, ImportIsAllOrNothing
  <2> QED BY <2>2, <2>3
<1>3. ASSUME NEW a \in Snapshots, NEW f \in BOOLEAN, Import(a, f)
      PROVE  Shape' /\ NothingLost' /\ ImportIsAllOrNothing'
  <2>1. Shape' /\ pc' # "idle" /\ result' = "running"
    BY <1>3, ShapeBegin DEF Import
  <2>2. \A g \in Files : Safe(g)'
    BY <2>1, NextShapesAreSafe
  <2> QED BY <2>1, <2>2 DEF NothingLost, Safe, ImportIsAllOrNothing
<1>4. CASE StopInstance \/ Prepare \/ BackupTarget \/ SkipFile \/ PlaceTarget \/ UndoRemove
           \/ ReplaceFails
  <2>1. Shape'
    BY <1>4, ShapeBegin, ShapeForward, ShapeTurns, ShapeRemoves
  <2>2. pc' # "idle" /\ result' = "running"
    BY <1>4 DEF StopInstance, Prepare, BackupTarget, SkipFile, PlaceTarget, UndoRemove,
                ReplaceFails, Advance, Checked
  <2>3. \A g \in Files : Safe(g)'
    BY <2>1, <2>2, NextShapesAreSafe
  <2> QED BY <2>1, <2>2, <2>3 DEF NothingLost, Safe, ImportIsAllOrNothing
<1>5. CASE CleanBackups
  <2>1. Shape'
    BY <1>5 DEF CleanBackups, Shape
  <2> QED BY <1>5, <2>1, SuccessInstalls
<1>6. CASE UndoRename
  <2>1. Shape' /\ \A f \in Files : Safe(f)'
    BY <1>6, ShapeRenames, FileRestored
  <2>2. result' # "ok" /\ (result' = "failed" => \A f \in Files : Alone(f)' => files'[f] = before'[f])
    <3>1. CASE pc' = "idle"
      BY <1>6, <3>1, ShapeRenames
    <3>2. CASE pc' # "idle"
      BY <1>6, <3>2 DEF UndoRename, Undone, Checked
    <3> QED BY <3>1, <3>2
  <2> QED BY <2>1, <2>2 DEF NothingLost, Safe, ImportIsAllOrNothing
<1>7. CASE UndoFails
  <2>1. Shape' /\ \A f \in Files : Safe(f)'
    BY <1>7, ShapeFails
  <2>2. result' \notin {"ok", "failed"}
    BY <1>7, ShapeFails DEF UndoFails, Undone, Checked
  <2> QED BY <2>1, <2>2 DEF NothingLost, Safe, ImportIsAllOrNothing
<1>8. CASE PrepareFails \/ Kill
  <2>1. /\ pc # "idle" /\ pc' = "idle" /\ UNCHANGED <<files, kept, archive, before, touched>>
        /\ result' = "killed" \/ (result' = "failed" /\ pc \in {"stop", "prepare"})
    BY <1>8 DEF PrepareFails, Kill, End
  <2>2. \A f \in Files : Safe(f)'
    BY <2>1, ShapesAreSafe DEF Safe
  <2>3. result' = "failed" => \A f \in Files : Alone(f)' => files'[f] = before'[f]
    BY <2>1 DEF Shape, Old
  <2> QED BY <2>1, <2>2, <2>3 DEF Shape, NothingLost, Safe, ImportIsAllOrNothing
<1> QED BY <1>1, <1>2, <1>3, <1>4, <1>5, <1>6, <1>7, <1>8 DEF BackupNext, ImportStep

(***************************************************************************)
(* The inductive invariant: the shape of every file at every point of an   *)
(* import, with what its results promise.                                  *)
(***************************************************************************)
THEOREM ImportInduction == BackupSpec => []ImportInv
<1>1. BackupInit => ImportInv
  BY TypeInit DEF BackupInit, ImportInv, HasConfig, Checked, Shape, NothingLost,
                  ImportIsAllOrNothing
<1>2. ImportInv /\ [BackupNext]_backupVars => ImportInv'
  <2> SUFFICES ASSUME ImportInv, [BackupNext]_backupVars PROVE ImportInv'
    OBVIOUS
  <2>1. BackupTypeOK' /\ HasConfig' /\ Checked'
    BY TypeStep, ConfigStep, CheckedStep DEF ImportInv
  <2>2. Shape' /\ NothingLost' /\ ImportIsAllOrNothing'
    BY <2>1, ImportStepKeeps
  <2> QED BY <2>1, <2>2 DEF ImportInv
<1> QED BY <1>1, <1>2, PTL DEF BackupSpec

-----------------------------------------------------------------------------
(* Without --force *)

\* Where nothing was and nobody else wrote, there is no config.yaml until it is placed, last.
ConfigComesLast ==
    pc \notin {"idle", "clean"} /\ ~force /\ touched = {} =>
        files[Config] = None /\ kept[Config] = None /\ Config \notin placed

LEMMA ConfigLastStep ==
    BackupTypeOK /\ ConfigComesLast /\ [BackupNext]_backupVars => ConfigComesLast'
<1> SUFFICES ASSUME BackupTypeOK, ConfigComesLast, [BackupNext]_backupVars PROVE ConfigComesLast'
  OBVIOUS
<1> USE DEF ConfigComesLast
<1>0. /\ at \in Files /\ Config \in Files
      /\ files \in Snapshots /\ kept \in Snapshots /\ archive \in Snapshots
      /\ DOMAIN files = Files /\ DOMAIN kept = Files
  BY Numbers, SnapshotFacts DEF BackupTypeOK
<1>1. CASE UNCHANGED backupVars \/ Export
  BY <1>1 DEF backupVars, importVars, Export
<1>2. ASSUME NEW a \in Snapshots, NEW f \in BOOLEAN, Import(a, f) PROVE ConfigComesLast'
  BY <1>0, <1>2 DEF Import, NothingThere, Absent
<1>3. CASE Others
  <2>1. UNCHANGED <<kept, pc, force, placed>>
    BY <1>3 DEF Others, Beside
  <2>2. pc # "idle" /\ touched' = {} => touched = {} /\ files'[Config] = files[Config]
    BY <1>0, <1>3 DEF Others, Beside
  <2> QED BY <2>1, <2>2
<1>4. CASE StopInstance \/ Prepare \/ SkipFile \/ CleanBackups \/ PrepareFails \/ ReplaceFails \/ Kill
  BY <1>4 DEF StopInstance, Prepare, SkipFile, CleanBackups, PrepareFails, ReplaceFails, Kill,
              Advance, End
<1>5. CASE BackupTarget
  BY <1>0, <1>5 DEF BackupTarget, Advance
<1>6. CASE PlaceTarget
  <2>1. at # Config => files'[Config] = files[Config]
    BY <1>0, <1>6 DEF PlaceTarget
  <2>2. UNCHANGED <<kept, force, touched>> /\ placed' = placed \cup {at} /\ pc = "install"
    BY <1>6 DEF PlaceTarget, Advance
  <2>3. at = Config => pc' = "clean"
    BY <1>6 DEF PlaceTarget, Advance
  <2> QED BY <2>1, <2>2, <2>3
<1>7. CASE UndoRemove
  BY <1>0, <1>7 DEF UndoRemove, Advance
<1>8. CASE UndoRename
  <2>1. UNCHANGED <<force, touched, placed>> /\ pc = "undoRename"
    BY <1>8 DEF UndoRename
  <2>2. kept[Config] = None => files'[Config] = files[Config] /\ kept'[Config] = kept[Config]
    BY <1>0, <1>8 DEF UndoRename
  <2> QED BY <2>1, <2>2
<1>9. CASE UndoFails
  BY <1>9 DEF UndoFails
<1> QED
  BY <1>1, <1>2, <1>3, <1>4, <1>5, <1>6, <1>7, <1>8, <1>9 DEF BackupNext, ImportStep

\* So a step of such an import never finds a set that it could break.
LEMMA NothingToBreak ==
    ASSUME BackupTypeOK, ConfigComesLast, ImportStep, ~force, touched = {}, files[Config] # None
    PROVE  files' = files
<1>1. pc \in {"idle", "clean"}
  BY DEF ConfigComesLast
<1> QED BY <1>1 DEF ImportStep, StopInstance, Prepare, BackupTarget, SkipFile, PlaceTarget,
                    CleanBackups, UndoRemove, UndoRename, PrepareFails, ReplaceFails, UndoFails, Kill

-----------------------------------------------------------------------------
(* What an import promises *)

(***************************************************************************)
(* An import that reports success has installed the whole archive; one     *)
(* that reports an error and no failed rollback has changed no file: of    *)
(* the files nobody else changed while it ran.                             *)
(***************************************************************************)
THEOREM AllOrNothing == BackupSpec => []ImportIsAllOrNothing
<1>1. ImportInv => ImportIsAllOrNothing
  BY DEF ImportInv
<1> QED BY <1>1, ImportInduction, PTL

(***************************************************************************)
(* However an import ends, killed or failing in its own rollback, the old  *)
(* content of every file nobody else changed is in place or beside it.     *)
(***************************************************************************)
THEOREM NothingIsLost == BackupSpec => []NothingLost
<1>1. ImportInv => NothingLost
  BY DEF ImportInv
<1> QED BY <1>1, ImportInduction, PTL

-----------------------------------------------------------------------------
(* Stopped first *)

StopInv == BackupTypeOK /\ HasConfig /\ Stopped

\* Only the loop over the archive's instances stops services, and it reaches each of them.
LEMMA StoppedStep == StopInv /\ [BackupNext]_backupVars => Stopped'
<1> SUFFICES ASSUME StopInv, [BackupNext]_backupVars PROVE Stopped'
  OBVIOUS
<1> USE DEF Stopped, StoppedFirst
<1>0. at \in Files /\ Members \subseteq Files
  BY DEF StopInv, BackupTypeOK, Members
<1>1. CASE UNCHANGED backupVars
  BY <1>1 DEF backupVars, importVars, StopInv, Members
<1>2. CASE Export \/ CleanBackups \/ PrepareFails \/ Kill
  BY <1>2 DEF Export, CleanBackups, PrepareFails, Kill, Fault, End, importVars, StopInv, Members
<1>7. CASE Others
  <2>1. UNCHANGED <<pc, archive, force, at>> /\ Members' = Members
    BY <1>7 DEF Others, Beside, Members
  <2>2. pc # "idle" => running' \ started' \subseteq running \ started
    BY <1>7 DEF Others, Beside
  <2> QED BY <2>1, <2>2 DEF StopInv
<1>3. ASSUME NEW a \in Snapshots, NEW f \in BOOLEAN, Import(a, f) PROVE Stopped'
  <2>1. \A g \in Files : ~(g < 1)
    BY Numbers
  <2>2. at' = 1 /\ force' = f /\ pc' = IF f THEN "stop" ELSE "prepare"
    BY <1>3 DEF Import
  <2>3. Members' \subseteq Files
    BY DEF Members
  <2> QED BY <2>1, <2>2, <2>3
<1>4. CASE StopInstance
  <2>1. Members' = Members /\ pc = "stop"
    BY <1>4 DEF StopInstance, Advance, Members
  <2>2. \A f \in Members \ {Config} : f < at => InstanceOf[f] \notin running \ started
    BY <2>1 DEF StopInv
  <2>3. CASE at = Config
    <3>1. \A f \in Files \ {Config} : f < Config
      BY Numbers
    <3> QED BY <1>0, <1>4, <2>1, <2>2, <2>3, <3>1 DEF StopInstance, Advance
  <2>4. CASE at # Config
    <3>1. pc' = "stop" /\ at' = at + 1
          /\ running' = IF at \in Members THEN running \ {InstanceOf[at]} ELSE running
      BY <1>4, <2>4 DEF StopInstance, Advance
    <3>2. \A f \in Files : f < at + 1 => f < at \/ f = at
      BY <1>0, Numbers
    <3>3. at \in Members => InstanceOf[at] \notin running'
      BY <3>1
    <3>4. running' \subseteq running /\ started' = started
      BY <1>4, <3>1 DEF StopInstance, Advance
    <3>5. \A f \in Members \ {Config} : f < at + 1 => InstanceOf[f] \notin running' \ started'
      BY <1>0, <2>2, <3>2, <3>3, <3>4
    <3> QED BY <2>1, <3>1, <3>5
  <2> QED BY <2>3, <2>4
<1>5. CASE Prepare \/ BackupTarget \/ SkipFile \/ PlaceTarget \/ UndoRemove \/ ReplaceFails
  BY <1>5 DEF Prepare, BackupTarget, SkipFile, PlaceTarget, UndoRemove, ReplaceFails, Fault,
              Advance, StopInv, Members
<1>6. CASE UndoRename \/ UndoFails
  BY <1>6 DEF UndoRename, UndoFails, Undone, Fault, StopInv, Members
<1> QED BY <1>1, <1>2, <1>3, <1>4, <1>5, <1>6, <1>7 DEF BackupNext, ImportStep

(***************************************************************************)
(* A forced import replaces no file before every instance of its archive   *)
(* that ran has been stopped, and none runs until it ends that nobody      *)
(* started meanwhile.                                                      *)
(***************************************************************************)
THEOREM StopsFirst == BackupSpec => []StoppedFirst
<1>1. BackupInit => StopInv
  BY TypeInit DEF BackupInit, StopInv, HasConfig, Stopped, StoppedFirst
<1>2. StopInv /\ [BackupNext]_backupVars => StopInv'
  BY TypeStep, ConfigStep, StoppedStep DEF StopInv
<1>3. StopInv => StoppedFirst
  BY DEF StopInv, Stopped
<1> QED BY <1>1, <1>2, <1>3, PTL DEF BackupSpec
=============================================================================
