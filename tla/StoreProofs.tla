----------------------------- MODULE StoreProofs -----------------------------
(***************************************************************************)
(* Proofs about Store, for any files, texts, ports and number of           *)
(* processes: nobody edits a draft another process edits, a set that loads *)
(* stops loading for the listed reasons only, allocated ports are free,    *)
(* drafts are kept, and what BackupProofs shows of an import beside any    *)
(* change holds beside all the other commands.                             *)
(***************************************************************************)
EXTENDS Store, BackupProofs, FiniteSetTheorems, WellFoundedInduction

-----------------------------------------------------------------------------
(* The invariant *)

ProcStates == [step : Steps, file : Files, text : Contents \cup {None}, seen : Snapshots,
               kept : BOOLEAN, compare : BOOLEAN]
Edits(s) == s.step \in {"edit", "check", "rename"}

\* What a process goes to write: a candidate the set it has seen accepts, or config.yaml; what
\* it goes to delete: an instance.
Decided(s) ==
    /\ s.step = "write" =>
          \/ s.seen = Absent
          \/ Loadable(s.seen) /\ Acceptable(s.seen, s.text) /\ s.file = Yaml[s.text.name]
    /\ s.step = "delete" => s.file # Last

\* What it goes to rename: a config.yaml with which the set it has seen loads, or an instance.
Checks(s, d) ==
    s.step = "rename" =>
        \/ s.seen = Absent
        \/ s.file = Last /\ Loadable([s.seen EXCEPT ![Last] = d[Last]])

\* Every process has a draft of its own as long as it edits.
ProcsOK ==
    /\ drafts \in Snapshots
    /\ proc \in [Procs -> ProcStates]
    /\ \A p \in Procs : Edits(proc[p]) => drafts[proc[p].file] # None
    /\ \A p, q \in Procs : p # q /\ Edits(proc[p]) /\ Edits(proc[q]) => proc[p].file # proc[q].file
    /\ \A p \in Procs : Decided(proc[p]) /\ Checks(proc[p], drafts)

Bounded == commands \in 0..MaxCommands /\ hand \in 0..MaxHand
StoreInv == ImportInv /\ ConfigComesLast /\ Stopped /\ ProcsOK /\ Bounded

-----------------------------------------------------------------------------
(* Numbers and files *)

Below == {p \in Nat \X Nat : p[1] < p[2]}

\* Among natural numbers there is a least one.
LEMMA LeastNumber == \A S \in SUBSET Nat : S # {} => \E k \in S : \A l \in S : k <= l
<1> SUFFICES ASSUME NEW S \in SUBSET Nat, S # {} PROVE \E k \in S : \A l \in S : k <= l
  OBVIOUS
<1>1. IsWellFoundedOn(Below, Nat)
  BY NatLessThanWellFounded DEF OpToRel, Below
<1>2. PICK k \in S : \A l \in S : ~(<<l, k>> \in Below)
  BY <1>1, WFMin
<1>3. \A l \in S : ~(l < k)
  BY <1>2 DEF Below
<1> QED BY <1>3

\* FirstAvailablePort finds one where there is one.
LEMMA SmallestFound == \A S \in SUBSET Nat : S # {} => Smallest(S) \in S
BY LeastNumber DEF Smallest

\* config.yaml is none of the instance files.
LEMMA FileFacts ==
    /\ Last \in Files /\ InstanceFiles \subseteq Files /\ Last \notin InstanceFiles
    /\ InstanceFiles \subseteq Nat
    /\ \A f \in Files : f # Last => f \in InstanceFiles
BY BackupAssumption DEF Files, InstanceFiles

\* FindInstance finds a file of the name.
LEMMA FirstFound ==
    ASSUME NEW snapshot, NEW name \in FileNames(snapshot)
    PROVE  First(snapshot, name) \in Present(snapshot) /\ snapshot[First(snapshot, name)].name = name
<1> DEFINE found == {f \in Present(snapshot) : snapshot[f].name = name}
<1>1. found \in SUBSET Nat /\ found # {}
  BY FileFacts DEF FileNames, Present
<1>2. \E f \in found : \A g \in found : f <= g
  BY <1>1, LeastNumber
<1> QED BY <1>2 DEF First

-----------------------------------------------------------------------------
(* One process takes a step *)

\* Idle is the state of a process, and so is one made from it.
LEMMA IdleState ==
    /\ Idle \in ProcStates
    /\ \A step \in Steps, f \in Files, text \in Contents \cup {None}, seen \in Snapshots :
          [Idle EXCEPT !.step = step, !.file = f, !.text = text, !.seen = seen] \in ProcStates
    /\ \A step \in Steps, f \in Files : [Idle EXCEPT !.step = step, !.file = f] \in ProcStates
<1> USE DEF Idle, ProcStates, Steps
<1>1. Idle \in ProcStates
  BY FileFacts, SnapshotFacts, StoreAssumption
<1>2. \A step \in Steps, f \in Files, text \in Contents \cup {None}, seen \in Snapshots :
          [Idle EXCEPT !.step = step, !.file = f, !.text = text, !.seen = seen] \in ProcStates
  OBVIOUS
<1>3. \A step \in Steps, f \in Files : [Idle EXCEPT !.step = step, !.file = f] \in ProcStates
  BY SnapshotFacts, StoreAssumption
<1> QED BY <1>1, <1>2, <1>3

\* A process that changes only the draft it edits, and edits none that another edits.
LEMMA ProcStep ==
    ASSUME ProcsOK, NEW p \in Procs, NEW s \in ProcStates,
           proc' = [proc EXCEPT ![p] = s],
           drafts' \in Snapshots,
           Edits(s) => /\ drafts'[s.file] # None
                       /\ \A q \in Procs \ {p} : Edits(proc[q]) => proc[q].file # s.file,
           \A q \in Procs \ {p} : Edits(proc[q]) => drafts'[proc[q].file] = drafts[proc[q].file],
           Decided(s), Checks(s, drafts')
    PROVE  ProcsOK'
<1>1. proc' \in [Procs -> ProcStates] /\ proc'[p] = s /\ \A q \in Procs \ {p} : proc'[q] = proc[q]
  BY DEF ProcsOK
<1>2. \A q \in Procs : Edits(proc'[q]) => drafts'[proc'[q].file] # None
  BY <1>1 DEF ProcsOK
<1>3. \A q, r \in Procs : q # r /\ Edits(proc'[q]) /\ Edits(proc'[r]) => proc'[q].file # proc'[r].file
  BY <1>1 DEF ProcsOK
<1>4. \A q \in Procs \ {p} : Decided(proc[q]) /\ Checks(proc[q], drafts')
  <2> TAKE q \in Procs \ {p}
  <2>1. Decided(proc[q]) /\ Checks(proc[q], drafts)
    BY DEF ProcsOK
  <2>2. CASE proc[q].step = "rename" /\ proc[q].file = Last
    <3>1. drafts'[Last] = drafts[Last]
      BY <2>2 DEF Edits
    <3> QED BY <2>1, <3>1 DEF Checks
  <2>3. CASE ~(proc[q].step = "rename" /\ proc[q].file = Last)
    BY <2>1, <2>3 DEF Checks
  <2> QED BY <2>2, <2>3
<1>5. \A q \in Procs : Decided(proc'[q]) /\ Checks(proc'[q], drafts')
  BY <1>1, <1>4
<1> QED BY <1>1, <1>2, <1>3, <1>5 DEF ProcsOK, Decided, Checks, Edits

\* A process that edits nothing any more, or decides to write something.
LEMMA ProcLeaves ==
    ASSUME ProcsOK, NEW p \in Procs, NEW s \in ProcStates,
           proc' = [proc EXCEPT ![p] = s], drafts' = drafts, ~Edits(s), Decided(s)
    PROVE  ProcsOK'
<1>1. drafts' \in Snapshots
  BY DEF ProcsOK
<1>2. Checks(s, drafts')
  BY DEF Checks, Edits
<1> QED BY <1>1, <1>2, ProcStep

\* Nothing of the processes changes.
LEMMA ProcFrame == ASSUME ProcsOK, UNCHANGED <<drafts, proc>> PROVE ProcsOK'
BY DEF ProcsOK, Decided, Checks, Edits

-----------------------------------------------------------------------------
(* The commands *)

\* Every command but init has seen the files and its candidate is acceptable.
LEMMA Decides ==
    ASSUME StoreInv, NEW p \in Procs, NEW text, Loadable(files), Decide(p, text), UNCHANGED drafts
    PROVE  /\ ProcsOK'
           /\ text \in InstanceText /\ proc'[p].text = text
<1>1. text \in InstanceText /\ Acceptable(files, text)
  BY DEF Decide, Acceptable, ValidAlone
<1>2. text \in Contents
  BY <1>1, StoreAssumption
<1>3. Yaml[text.name] \in Files
  <2>1. text.name \in Instances
    BY <1>1 DEF InstanceText
  <2>2. Yaml[text.name] \in InstanceFiles
    BY <2>1, StoreAssumption
  <2> QED BY <2>2, FileFacts
<1> DEFINE s == [Idle EXCEPT !.step = "write", !.file = Yaml[text.name], !.text = text, !.seen = files]
<1>4. proc' = [proc EXCEPT ![p] = s]
  BY DEF Decide, ToWrite
<1>5. files \in Snapshots
  BY DEF StoreInv, ImportInv, BackupTypeOK
<1>6. s \in ProcStates
  BY <1>2, <1>3, <1>5, IdleState DEF Steps
<1>7. s.step = "write" /\ s.file = Yaml[text.name] /\ s.text = text /\ s.seen = files
  BY DEF Idle
<1> HIDE DEF s
<1>8. ~Edits(s) /\ Decided(s)
  BY <1>1, <1>7 DEF Edits, Decided
<1>9. ProcsOK'
  BY <1>4, <1>6, <1>8, ProcLeaves DEF StoreInv
<1> QED BY <1>1, <1>4, <1>7, <1>9 DEF StoreInv, ProcsOK

\* A process ends its command.
LEMMA Finishes ==
    ASSUME ProcsOK, NEW p \in Procs, Finish(p), UNCHANGED drafts
    PROVE  ProcsOK'
<1>1. ~Edits(Idle) /\ Decided(Idle)
  BY DEF Edits, Decided, Idle
<1> QED BY <1>1, IdleState, ProcLeaves DEF Finish

LEMMA CommandStep ==
    ASSUME StoreInv, NEW p \in Procs, Command(p)
    PROVE  ProcsOK'
<1> USE DEF StoreInv
<1>1. ASSUME NEW overwrite \in BOOLEAN, InitConfig(p, overwrite) PROVE ProcsOK'
  <2> DEFINE s == [Idle EXCEPT !.step = "write", !.file = Last, !.text = DefaultGlobal, !.seen = Absent]
  <2>1. proc' = [proc EXCEPT ![p] = s] /\ drafts' = drafts
    BY <1>1 DEF InitConfig, Starting, ToWrite
  <2>2. s \in ProcStates
    BY IdleState, FileFacts, SnapshotFacts, StoreAssumption DEF Steps
  <2>3. s.step = "write" /\ s.seen = Absent
    BY DEF Idle
  <2> HIDE DEF s
  <2>4. ~Edits(s) /\ Decided(s)
    BY <2>3 DEF Edits, Decided
  <2> QED BY <2>1, <2>2, <2>4, ProcLeaves
<1>2. ASSUME NEW t \in Templates, NEW n \in Instances, NEW a \in BOOLEAN, Add(p, t, n, a) PROVE ProcsOK'
  BY <1>2, Decides DEF Add, Starting
<1>3. ASSUME NEW m \in Instances, NEW n \in Instances, NEW a \in BOOLEAN, Clone(p, m, n, a) PROVE ProcsOK'
  BY <1>3, Decides DEF Clone, Starting
<1>4. ASSUME NEW n \in Instances, NEW m \in Instances, MemberAdd(p, n, m) \/ MemberRemove(p, n, m)
      PROVE  ProcsOK'
  <2>1. UNCHANGED drafts /\ Loadable(files)
    BY <1>4 DEF MemberAdd, MemberRemove, Starting
  <2>2. \E text : Decide(p, text)
    BY <1>4 DEF MemberAdd, MemberRemove
  <2> QED BY <2>1, <2>2, Decides
<1>5. ASSUME NEW n \in Instances, Remove(p, n) PROVE ProcsOK'
  <2> DEFINE f == First(files, n)
             s == [Idle EXCEPT !.step = "delete", !.file = f]
  <2>1. proc' = [proc EXCEPT ![p] = s] /\ drafts' = drafts /\ n \in FileNames(files)
    BY <1>5 DEF Remove, Starting
  <2>2. f \in Files /\ f # Last
    BY <2>1, FirstFound, FileFacts DEF Present
  <2> HIDE DEF f
  <2>3. s \in ProcStates
    BY <2>2, IdleState DEF Steps
  <2>4. s.step = "delete" /\ s.file = f
    BY DEF Idle
  <2> HIDE DEF s
  <2>5. ~Edits(s) /\ Decided(s)
    BY <2>2, <2>4 DEF Edits, Decided
  <2> QED BY <2>1, <2>3, <2>5, ProcLeaves
<1>6. CASE Write(p)
  <2>1. CASE Finish(p)
    BY <1>6, <2>1, Finishes DEF Write
  <2>2. CASE ~Finish(p)
    <3> DEFINE s == [Idle EXCEPT !.step = "added", !.file = proc[p].file]
    <3>1. proc' = [proc EXCEPT ![p] = s] /\ drafts' = drafts
      BY <1>6, <2>2 DEF Write
    <3>2. s \in ProcStates
      <4>1. proc[p].file \in Files
        BY DEF ProcsOK, ProcStates
      <4> QED BY <4>1, IdleState DEF Steps
    <3>3. s.step = "added"
      BY DEF Idle
    <3> HIDE DEF s
    <3>4. ~Edits(s) /\ Decided(s)
      BY <3>3 DEF Edits, Decided
    <3> QED BY <3>1, <3>2, <3>4, ProcLeaves
  <2> QED BY <2>1, <2>2
<1>7. CASE Delete(p)
  BY <1>7, Finishes DEF Delete
<1> QED BY <1>1, <1>2, <1>3, <1>4, <1>5, <1>6, <1>7 DEF Command

-----------------------------------------------------------------------------
(* The editor *)

\* A draft is prepared where nobody edits; one that is there is used again.
LEMMA Opens ==
    ASSUME StoreInv, NEW p \in Procs, NEW f \in Files, NEW compare \in BOOLEAN,
           OpenFile(p, f, compare)
    PROVE  /\ ProcsOK'
           /\ \A g \in Files : drafts[g] # None => drafts'[g] = drafts[g]
<1> USE DEF StoreInv
<1> DEFINE Edit(found, text, seen) ==
               [Idle EXCEPT !.step = "edit", !.file = f, !.compare = compare, !.kept = found,
                            !.text = text, !.seen = seen]
           s == Edit(drafts[f] # None, files[f], [Absent EXCEPT ![Last] = files[Last]])
<1>1. /\ files[f] # None /\ Unedited(f)
      /\ drafts' = IF drafts[f] = None THEN [drafts EXCEPT ![f] = files[f]] ELSE drafts
      /\ proc' = [proc EXCEPT ![p] = s]
  BY DEF OpenFile, PrepareDraft, Editing
<1>2. files \in Snapshots /\ drafts \in Snapshots
  BY DEF ImportInv, BackupTypeOK, ProcsOK
<1>3. files[f] \in Contents \cup {None} /\ files[Last] \in Contents \cup {None}
  BY <1>2, SnapshotFacts, FileFacts
<1>4. [Absent EXCEPT ![Last] = files[Last]] \in Snapshots
  BY <1>3, SnapshotFacts, FileFacts
<1>5. \A found \in BOOLEAN, text \in Contents \cup {None}, seen \in Snapshots :
          LET edit == Edit(found, text, seen)
          IN edit \in ProcStates /\ edit.step = "edit" /\ edit.file = f
  BY DEF Idle, ProcStates, Steps
<1>6. (drafts[f] # None) \in BOOLEAN
  OBVIOUS
<1> HIDE DEF Edit
<1>7. s \in ProcStates /\ s.step = "edit" /\ s.file = f
  BY <1>3, <1>4, <1>5, <1>6, Zenon
<1> HIDE DEF s
<1>8. /\ drafts' \in Snapshots /\ drafts'[f] # None
      /\ \A g \in Files \ {f} : drafts'[g] = drafts[g]
      /\ \A g \in Files : drafts[g] # None => drafts'[g] = drafts[g]
  BY <1>1, <1>2, <1>3, SnapshotFacts
<1>9. \A q \in Procs : Edits(proc[q]) => proc[q].file # f /\ proc[q].file \in Files
  BY <1>1 DEF Unedited, Edits, ProcsOK, ProcStates
<1>10. \A q \in Procs \ {p} : Edits(proc[q]) => drafts'[proc[q].file] = drafts[proc[q].file]
  BY <1>8, <1>9
<1>11. Decided(s) /\ Checks(s, drafts')
  BY <1>7 DEF Decided, Checks
<1> QED BY <1>1, <1>7, <1>8, <1>9, <1>10, <1>11, ProcStep

LEMMA EditorStep ==
    ASSUME StoreInv, NEW p \in Procs, Editor(p)
    PROVE  ProcsOK'
<1> USE DEF StoreInv
<1> DEFINE f == proc[p].file
<1>0. /\ files \in Snapshots /\ drafts \in Snapshots
      /\ proc \in [Procs -> ProcStates] /\ proc[p] \in ProcStates /\ f \in Files
  BY DEF ImportInv, BackupTypeOK, ProcsOK, ProcStates
<1>00. \A q \in Procs \ {p} : Edits(proc[p]) /\ Edits(proc[q]) => proc[q].file # f
  BY DEF ProcsOK
<1>000. ASSUME NEW content \in Contents \cup {None}, drafts' = [drafts EXCEPT ![f] = content]
        PROVE  /\ drafts' \in Snapshots /\ drafts'[f] = content
               /\ \A g \in Files \ {f} : drafts'[g] = drafts[g]
  <2> HIDE DEF f
  <2>1. [drafts EXCEPT ![f] = content] \in Snapshots
        /\ [drafts EXCEPT ![f] = content][f] = content
        /\ \A g \in Files \ {f} : [drafts EXCEPT ![f] = content][g] = drafts[g]
    BY <1>0, SnapshotFacts
  <2> QED BY <1>000, <2>1
\* The draft of p changes, and the process leaves the editor.
<1>1. ASSUME Edits(proc[p]), Finish(p), drafts' = [drafts EXCEPT ![f] = None] PROVE ProcsOK'
  <2>1. drafts' \in Snapshots /\ \A g \in Files \ {f} : drafts'[g] = drafts[g]
    BY <1>1, <1>000
  <2>2. \A q \in Procs \ {p} : Edits(proc[q]) => drafts'[proc[q].file] = drafts[proc[q].file]
    BY <1>1, <1>00, <2>1 DEF ProcsOK, ProcStates
  <2>3. ~Edits(Idle) /\ Decided(Idle) /\ Checks(Idle, drafts')
    BY DEF Edits, Decided, Checks, Idle
  <2> QED BY <1>1, <2>1, <2>2, <2>3, IdleState, ProcStep DEF Finish
<1>2. ASSUME NEW g \in Files, Open(p, g) PROVE ProcsOK'
  BY <1>2, Opens DEF Open
<1>3. CASE OpenAdded(p)
  BY <1>0, <1>3, Opens DEF OpenAdded
<1>4. CASE OpenAddedFails(p)
  BY <1>4, Finishes DEF OpenAddedFails
<1>5. ASSUME NEW text \in Typed \cup {drafts[f]}, EditorEnds(p, text) PROVE ProcsOK'
  <2> DEFINE s == [proc[p] EXCEPT !.step = "check"]
  <2>1. proc[p].step = "edit" /\ drafts' = [drafts EXCEPT ![f] = text] /\ proc' = [proc EXCEPT ![p] = s]
    BY <1>5 DEF EditorEnds
  <2>2. text \in Contents /\ text # None
    <3>1. drafts[f] # None /\ drafts[f] \in Contents \cup {None}
      BY <1>0, <2>1, SnapshotFacts DEF ProcsOK, Edits
    <3> QED BY <3>1, StoreAssumption, BackupAssumption
  <2>3. drafts' \in Snapshots /\ drafts'[f] = text /\ \A g \in Files \ {f} : drafts'[g] = drafts[g]
    BY <1>000, <2>1, <2>2
  <2>4. s \in ProcStates /\ s.step = "check" /\ s.file = f
    BY <1>0 DEF ProcStates, Steps
  <2> HIDE DEF s
  <2>5. \A q \in Procs \ {p} : Edits(proc[q]) => drafts'[proc[q].file] = drafts[proc[q].file]
                                                 /\ proc[q].file # s.file
    BY <1>00, <2>1, <2>3, <2>4 DEF ProcsOK, ProcStates, Edits
  <2>6. Decided(s) /\ Checks(s, drafts')
    BY <2>4 DEF Decided, Checks
  <2> QED BY <2>1, <2>2, <2>3, <2>4, <2>5, <2>6, ProcStep
<1>6. CASE EditorFails(p)
  <2>1. Edits(proc[p]) /\ Finish(p)
    BY <1>6 DEF EditorFails, Edits
  <2> QED BY <1>1, <1>6, <2>1, Finishes DEF EditorFails
<1>7. CASE CheckDraft(p)
  <2>1. proc[p].step = "check" /\ Edits(proc[p])
    BY <1>7 DEF CheckDraft, Edits
  <2>2. CASE ~DraftValid(p)
    BY <1>7, <2>2, Finishes DEF CheckDraft
  <2>3. CASE DraftValid(p) /\ Unchanged(p)
    BY <1>1, <1>7, <2>1, <2>3 DEF CheckDraft
  <2>4. CASE DraftValid(p) /\ ~Unchanged(p)
    <3> DEFINE seen == IF f = Last THEN files ELSE Absent
               s == [proc[p] EXCEPT !.step = "rename", !.seen = seen]
    <3>1. proc' = [proc EXCEPT ![p] = s] /\ drafts' = drafts
      BY <1>0, <1>7, <2>4 DEF CheckDraft
    <3>2. s \in ProcStates /\ s.step = "rename" /\ s.file = f /\ s.seen = seen
      BY <1>0, SnapshotFacts DEF ProcStates, Steps
    <3> HIDE DEF s
    <3>3. Checks(s, drafts')
      <4>1. f = Last => Loadable([files EXCEPT ![Last] = drafts[Last]])
        BY <2>4 DEF DraftValid
      <4> QED BY <3>1, <3>2, <4>1 DEF Checks
    <3>4. Decided(s)
      BY <3>2 DEF Decided
    <3>5. drafts' \in Snapshots /\ drafts'[s.file] # None
      BY <1>0, <2>1, <3>1, <3>2 DEF ProcsOK
    <3>6. \A q \in Procs \ {p} : Edits(proc[q]) => proc[q].file # s.file
      BY <1>00, <2>1, <3>2
    <3> QED BY <3>1, <3>2, <3>3, <3>4, <3>5, <3>6, ProcStep
  <2> QED BY <2>2, <2>3, <2>4
<1>8. CASE RenameDraft(p)
  <2>1. Edits(proc[p]) /\ Finish(p) /\ drafts' = [drafts EXCEPT ![f] = None]
    BY <1>8 DEF RenameDraft, Edits
  <2> QED BY <1>1, <2>1
<1> QED BY <1>2, <1>3, <1>4, <1>5, <1>6, <1>7, <1>8 DEF Editor

-----------------------------------------------------------------------------
(* Imports beside the other commands *)

\* What an import sees of the others: a change of files or of services, or nothing but a killed
\* process.
ProcessDies ==
    /\ faults' \in 0..MaxFaults
    /\ UNCHANGED <<files, exported, running, importVars>>

\* Changing one file is one of the changes Backup allows for.
LEMMA FileChanges ==
    ASSUME StoreInv, NEW f \in Files, NEW content \in Contents \cup {None},
           files' = [files EXCEPT ![f] = content], Beside,
           UNCHANGED <<exported, running, faults>>
    PROVE  Others
<1>1. files \in Snapshots /\ running \subseteq Instances
  BY DEF StoreInv, ImportInv, BackupTypeOK
<1> QED BY <1>1, SnapshotFacts DEF Others

\* Every step is a step of Backup, or kills a process.
LEMMA StepsOfBackup ==
    ASSUME StoreInv, [Next]_vars
    PROVE  [BackupNext]_backupVars \/ ProcessDies
<1> USE DEF StoreInv
<1>0. proc \in [Procs -> ProcStates] /\ drafts \in Snapshots
  BY DEF ProcsOK
<1>1. ASSUME NEW p \in Procs, Command(p) PROVE UNCHANGED backupVars \/ Others
  <2>1. CASE Write(p)
    <3>1. proc[p].file \in Files /\ proc[p].text \in Contents \cup {None}
      BY <1>0 DEF ProcStates
    <3>2. /\ files' = [files EXCEPT ![proc[p].file] = proc[p].text]
          /\ UNCHANGED <<exported, running, faults>> /\ Beside
      BY <2>1 DEF Write
    <3> QED BY <3>1, <3>2, FileChanges
  <2>2. CASE Delete(p)
    <3>1. proc[p].file \in Files
      BY <1>0 DEF ProcStates
    <3>2. /\ files' = [files EXCEPT ![proc[p].file] = None]
          /\ UNCHANGED <<exported, running, faults>> /\ Beside
      BY <2>2 DEF Delete
    <3> QED BY <3>1, <3>2, FileChanges
  <2>3. CASE Starting(p)
    BY <2>3 DEF Starting, backupVars
  <2> QED BY <1>1, <2>1, <2>2, <2>3 DEF Command, InitConfig, Add, Clone, MemberAdd, MemberRemove, Remove
<1>2. ASSUME NEW p \in Procs, Editor(p) PROVE UNCHANGED backupVars \/ Others
  <2>1. CASE RenameDraft(p)
    <3>1. proc[p].file \in Files /\ drafts[proc[p].file] \in Contents \cup {None}
      BY <1>0, SnapshotFacts DEF ProcStates
    <3>2. /\ files' = [files EXCEPT ![proc[p].file] = drafts[proc[p].file]]
          /\ UNCHANGED <<exported, running, faults>> /\ Beside
      BY <2>1 DEF RenameDraft
    <3> QED BY <3>1, <3>2, FileChanges
  <2>2. CASE ~RenameDraft(p)
    BY <1>2, <2>2 DEF Editor, Open, OpenAdded, OpenAddedFails, EditorEnds, EditorFails, CheckDraft,
                      StoreOnly, backupVars
  <2> QED BY <2>1, <2>2
<1>3. ASSUME NEW p \in Procs, KillProc(p) PROVE ProcessDies
  <2>1. faults' \in 0..MaxFaults
    BY <1>3, Numbers DEF KillProc, ImportInv, BackupTypeOK
  <2> QED BY <1>3, <2>1 DEF KillProc, ProcessDies
<1>4. ASSUME NEW f \in Files, NEW text \in Typed \cup {None}, ByHand(f, text) PROVE Others
  <2>1. text \in Contents \cup {None}
    BY StoreAssumption
  <2>2. /\ files' = [files EXCEPT ![f] = text]
        /\ UNCHANGED <<exported, running, faults>> /\ Beside
    BY <1>4 DEF ByHand
  <2> QED BY <2>1, <2>2, FileChanges
<1>5. ASSUME NEW n \in Instances, StartService(n) PROVE Others
  <2>1. files \in Snapshots /\ running' \in SUBSET Instances
    BY <1>5 DEF StartService, ImportInv, BackupTypeOK
  <2> QED BY <1>5, <2>1 DEF StartService, Others
<1>6. CASE ExportNow
  BY <1>6 DEF ExportNow, BackupNext
<1>7. ASSUME NEW a \in exported \cup Archives, NEW f \in BOOLEAN, ImportNow(a, f) PROVE BackupNext
  <2>1. a \in Snapshots
    BY StoreAssumption DEF ImportInv, BackupTypeOK
  <2> QED BY <1>7, <2>1 DEF ImportNow, BackupNext
<1>8. CASE ImportGoesOn
  BY <1>8 DEF ImportGoesOn, BackupNext
<1>9. CASE UNCHANGED vars
  BY <1>9 DEF vars
<1> QED BY <1>1, <1>2, <1>3, <1>4, <1>5, <1>6, <1>7, <1>8, <1>9 DEF Next, BackupNext

\* A process that is killed changes nothing an import promises.
LEMMA DeathKeeps ==
    ASSUME ImportInv, ConfigComesLast, Stopped, ProcessDies
    PROVE  ImportInv' /\ ConfigComesLast' /\ Stopped'
<1>1. UNCHANGED <<files, exported, running, kept, pc, archive, force, at, claimed, placed, errs, result,
                  before, touched, started>>
  BY DEF ProcessDies, importVars, history
<1>2. BackupTypeOK'
  BY <1>1 DEF ImportInv, BackupTypeOK, ProcessDies
<1>3. HasConfig' /\ Checked' /\ NothingLost' /\ ImportIsAllOrNothing' /\ ConfigComesLast'
  BY <1>1 DEF ImportInv, HasConfig, Checked, NothingLost, ImportIsAllOrNothing, Members,
              ConfigComesLast
<1>4. Shape'
  BY <1>1 DEF ImportInv, Shape, Alone, Old, Saved, Moved, Done, OnlyClaimed, Undoable, Cleared, Safe,
              Restored, Members
<1>5. Stopped'
  BY <1>1 DEF Stopped, StoppedFirst, Members
<1> QED BY <1>2, <1>3, <1>4, <1>5 DEF ImportInv

\* A step of Backup keeps what Backup's own behaviours keep.
LEMMA BackupKeeps ==
    ASSUME ImportInv, ConfigComesLast, Stopped, [BackupNext]_backupVars
    PROVE  ImportInv' /\ ConfigComesLast' /\ Stopped'
<1>1. BackupTypeOK' /\ HasConfig' /\ Checked'
  BY TypeStep, ConfigStep, CheckedStep DEF ImportInv
<1>2. Shape' /\ NothingLost' /\ ImportIsAllOrNothing'
  BY <1>1, ImportStepKeeps
<1>3. ConfigComesLast' /\ Stopped'
  BY ConfigLastStep, StoppedStep DEF StopInv, ImportInv
<1> QED BY <1>1, <1>2, <1>3 DEF ImportInv

\* The counts stay within their bounds.
LEMMA BoundedStep == StoreInv /\ [Next]_vars => Bounded'
<1> SUFFICES ASSUME StoreInv, [Next]_vars PROVE Bounded'
  OBVIOUS
<1>1. commands \in 0..MaxCommands /\ hand \in 0..MaxHand
  BY DEF StoreInv, Bounded
<1>2. \A n \in 0..MaxCommands : n < MaxCommands => n + 1 \in 0..MaxCommands
  BY StoreAssumption
<1>3. \A n \in 0..MaxHand : n < MaxHand => n + 1 \in 0..MaxHand
  BY StoreAssumption
<1>4. ASSUME \/ UNCHANGED <<commands, hand>>
             \/ commands < MaxCommands /\ commands' = commands + 1 /\ hand' = hand
             \/ hand < MaxHand /\ hand' = hand + 1 /\ commands' = commands
      PROVE  Bounded'
  BY <1>1, <1>2, <1>3, <1>4 DEF Bounded
<1>5. ASSUME NEW p \in Procs, Command(p) PROVE Bounded'
  <2>1. CASE Write(p) \/ Delete(p)
    BY <1>4, <2>1 DEF Write, Delete
  <2>2. CASE Starting(p)
    BY <1>4, <2>2 DEF Starting
  <2> QED BY <1>5, <2>1, <2>2 DEF Command, InitConfig, Add, Clone, MemberAdd, MemberRemove, Remove
<1>6. ASSUME NEW p \in Procs, Editor(p) PROVE Bounded'
  <2>1. ASSUME NEW f \in Files, Open(p, f) PROVE Bounded'
    BY <1>4, <2>1 DEF Open
  <2>2. CASE UNCHANGED <<commands, hand>>
    BY <1>4, <2>2
  <2> QED BY <1>6, <2>1, <2>2 DEF Editor, OpenAdded, OpenAddedFails, EditorEnds, EditorFails,
                                  CheckDraft, RenameDraft, StoreOnly
<1>7. ASSUME NEW p \in Procs, KillProc(p) PROVE Bounded'
  BY <1>4, <1>7 DEF KillProc
<1>8. ASSUME NEW f \in Files, NEW text \in Typed \cup {None}, ByHand(f, text) PROVE Bounded'
  BY <1>4, <1>8 DEF ByHand
<1>9. ASSUME NEW n \in Instances, StartService(n) PROVE Bounded'
  BY <1>4, <1>9 DEF StartService
<1>10. ASSUME NEW a \in exported \cup Archives, NEW f \in BOOLEAN, ImportNow(a, f) PROVE Bounded'
  BY <1>4, <1>10 DEF ImportNow
<1>11. CASE ExportNow \/ ImportGoesOn \/ UNCHANGED vars
  BY <1>4, <1>11 DEF ExportNow, ImportGoesOn, storeVars, vars
<1> QED BY <1>5, <1>6, <1>7, <1>8, <1>9, <1>10, <1>11 DEF Next

LEMMA StoreStep == StoreInv /\ [Next]_vars => StoreInv'
<1> SUFFICES ASSUME StoreInv, [Next]_vars PROVE StoreInv'
  OBVIOUS
<1>1. ImportInv' /\ ConfigComesLast' /\ Stopped'
  BY StepsOfBackup, DeathKeeps, BackupKeeps DEF StoreInv
<1>2. ProcsOK'
  <2>1. ASSUME NEW p \in Procs, Command(p) \/ Editor(p) \/ KillProc(p) PROVE ProcsOK'
    BY <2>1, CommandStep, EditorStep, Finishes DEF KillProc, StoreInv
  <2>2. CASE UNCHANGED <<drafts, proc>>
    BY <2>2, ProcFrame DEF StoreInv
  <2> QED BY <2>1, <2>2 DEF Next, ByHand, StartService, ExportNow, ImportNow, ImportGoesOn,
                            vars, storeVars
<1> QED BY <1>1, <1>2, BoundedStep DEF StoreInv

(***************************************************************************)
(* The inductive invariant: what an import keeps of the files the other    *)
(* commands do not change while it runs; and of every process, the types   *)
(* of its state, the draft it alone edits, and that what it goes to write  *)
(* was accepted with the files it had seen.  Any step of a command, an     *)
(* editor or a hand may fall between any two steps of the import.          *)
(***************************************************************************)
THEOREM StoreInduction == Spec => []StoreInv
<1>1. StoreInit => StoreInv
  <2> SUFFICES ASSUME StoreInit PROVE StoreInv
    OBVIOUS
  <2>1. files \in Snapshots /\ Absent \in Snapshots
    BY SnapshotFacts, StoreAssumption DEF StoreInit
  <2>2. 0 \in 0..MaxFaults /\ 0 \in 0..MaxCommands /\ 0 \in 0..MaxHand /\ 1 \in Files
    BY BackupAssumption, StoreAssumption, Numbers
  <2>3. BackupTypeOK
    BY <2>1, <2>2 DEF StoreInit, BackupTypeOK
  <2>4. /\ HasConfig /\ Checked /\ Shape /\ NothingLost /\ ImportIsAllOrNothing /\ Stopped
        /\ ConfigComesLast
    BY DEF StoreInit, ConfigComesLast, HasConfig, Checked, Shape, NothingLost, ImportIsAllOrNothing, Stopped, StoppedFirst
  <2>5. ProcsOK
    <3>1. ~Edits(Idle) /\ Decided(Idle) /\ Checks(Idle, drafts)
      BY DEF Edits, Decided, Checks, Idle
    <3>2. proc \in [Procs -> ProcStates] /\ \A p \in Procs : proc[p] = Idle
      BY IdleState DEF StoreInit
    <3>3. drafts \in Snapshots
      BY <2>1 DEF StoreInit
    <3> HIDE DEF Idle
    <3> QED BY <3>1, <3>2, <3>3 DEF ProcsOK
  <2> QED BY <2>2, <2>3, <2>4, <2>5 DEF StoreInv, ImportInv, StoreInit, Bounded
<1> QED BY <1>1, StoreStep, PTL DEF Spec

(***************************************************************************)
(* The state keeps its types; in particular a process that edits has a     *)
(* draft.                                                                  *)
(***************************************************************************)
THEOREM StoreTypes == Spec => []TypeOK
<1>1. StoreInv => TypeOK
  BY DEF StoreInv, ImportInv, ProcsOK, ProcStates, Bounded, Edits, TypeOK
<1> QED BY <1>1, StoreInduction, PTL

(***************************************************************************)
(* Beside the other commands of several processes, editors and hands, an   *)
(* import is all or nothing and loses nothing, as far as each file is      *)
(* concerned that none of them changed while it ran; and it replaces none  *)
(* under an instance that was not started meanwhile.                       *)
(***************************************************************************)
THEOREM ImportsBesideCommands == Spec => [](ImportIsAllOrNothing /\ NothingLost /\ StoppedFirst)
<1>1. StoreInv => ImportIsAllOrNothing /\ NothingLost /\ StoppedFirst
  BY DEF StoreInv, ImportInv, Stopped
<1> QED BY <1>1, StoreInduction, PTL

-----------------------------------------------------------------------------
(* Sets that load *)

\* A candidate is the whole set again when its instance has no other file.
LEMMA CandidateLoads ==
    ASSUME NEW snapshot \in Snapshots, NEW text, Loadable(snapshot), Acceptable(snapshot, text),
           \A g \in Present(snapshot) : InstanceOf[g] = text.name => g = Yaml[text.name]
    PROVE  Loadable([snapshot EXCEPT ![Yaml[text.name]] = text])
<1> DEFINE f == Yaml[text.name]
           new == [snapshot EXCEPT ![f] = text]
<1>1. text \in InstanceText /\ text.name \in Instances
  BY DEF Acceptable, ValidAlone, InstanceText
<1>2. f \in InstanceFiles /\ f \in Files /\ f # Last /\ InstanceOf[f] = text.name
  BY <1>1, StoreAssumption, FileFacts
<1>3. DOMAIN snapshot = Files
  BY DEF Snapshots
<1>4. \A g \in Present(snapshot) : snapshot[g].name = InstanceOf[g]
  BY DEF Loadable, EachValid
<1>5. new = Candidate(snapshot, text)
  <2>1. \A g \in Files : new[g] = Candidate(snapshot, text)[g]
    <3> TAKE g \in Files
    <3>1. CASE g = f
      BY <1>2, <1>3, <3>1 DEF Candidate
    <3>2. CASE g # f
      <4>1. ~(g \in Present(snapshot) /\ snapshot[g].name = text.name)
        BY <1>4, <3>2
      <4> QED BY <1>3, <3>2, <4>1 DEF Candidate
    <3> QED BY <3>1, <3>2
  <2> QED BY <1>3, <2>1 DEF Candidate
<1>6. ValidSet(new)
  BY <1>5 DEF Acceptable
<1>7. new[Last] = snapshot[Last] /\ new[f] = text /\ \A g \in InstanceFiles : g # f => new[g] = snapshot[g]
  BY <1>2, <1>3, FileFacts
<1> HIDE DEF new, f
<1>8. EachValid(new)
  <2> SUFFICES ASSUME NEW g \in Present(new)
               PROVE  ValidAlone(new[Last], new[g]) /\ new[g].name = InstanceOf[g]
    BY DEF EachValid
  <2>1. CASE g = f
    BY <1>2, <1>7, <2>1 DEF Acceptable
  <2>2. CASE g # f
    <3>1. g \in Present(snapshot) /\ new[g] = snapshot[g]
      BY <1>7, <2>2 DEF Present
    <3> QED BY <1>7, <3>1 DEF Loadable, EachValid
  <2> QED BY <2>1, <2>2
<1> QED BY <1>6, <1>7, <1>8 DEF Loadable, new, f

\* byName finds the last file of a name.
LEMMA LastFound ==
    ASSUME NEW snapshot, NEW name \in FileNames(snapshot)
    PROVE  LET last == LastOf(snapshot, name)
           IN /\ last \in Present(snapshot) /\ snapshot[last].name = name
              /\ \A g \in Present(snapshot) : snapshot[g].name = name => g <= last
<1> DEFINE found == {f \in Present(snapshot) : snapshot[f].name = name}
           depths == {Last - f : f \in found}
<1>1. found \subseteq InstanceFiles /\ found # {}
  BY DEF FileNames, Present
<1>2. \A f \in InstanceFiles : f \in Nat /\ Last - f \in Nat
  BY BackupAssumption DEF InstanceFiles
<1>3. depths \in SUBSET Nat /\ depths # {}
  BY <1>1, <1>2
<1>4. PICK d \in depths : \A e \in depths : d <= e
  BY <1>3, LeastNumber
<1>5. PICK f \in found : d = Last - f
  BY <1>4
<1>6. \A g \in found : g <= f
  <2> TAKE g \in found
  <2>1. Last - f <= Last - g
    BY <1>4, <1>5
  <2> QED BY <1>1, <1>2, <2>1, BackupAssumption
<1> QED BY <1>5, <1>6 DEF LastOf

\* A set loads without an instance nothing refers to.
LEMMA RestLoads ==
    ASSUME NEW snapshot \in Snapshots, NEW f \in InstanceFiles, Loadable(snapshot),
           \A g \in Present(snapshot) : InstanceOf[f] \notin snapshot[g].refs
    PROVE  Loadable([snapshot EXCEPT ![f] = None])
<1> DEFINE rest == [snapshot EXCEPT ![f] = None]
<1>1. f \in Files /\ f # Last /\ DOMAIN snapshot = Files
  BY FileFacts DEF Snapshots
<1>2. rest[Last] = snapshot[Last] /\ rest[f] = None /\ \A g \in InstanceFiles : g # f => rest[g] = snapshot[g]
  BY <1>1, FileFacts
<1> HIDE DEF rest
<1>3. Present(rest) = Present(snapshot) \ {f} /\ \A g \in Present(rest) : rest[g] = snapshot[g]
  BY <1>2 DEF Present
<1>4. EachValid(rest)
  BY <1>2, <1>3 DEF Loadable, EachValid
<1>5. PortsDistinct(rest)
  <2>1. Enabled(rest) \subseteq Enabled(snapshot) /\ \A g \in Enabled(rest) : rest[g] = snapshot[g]
    BY <1>3 DEF Enabled
  <2>2. PortsDistinct(snapshot)
    BY DEF Loadable, ValidSet
  <2> QED BY <2>1, <2>2 DEF PortsDistinct
<1>6. RefsResolve(rest)
  <2> SUFFICES ASSUME NEW g \in Present(rest), NEW r \in rest[g].refs
               PROVE  r # rest[g].name /\ r \in FileNames(rest) /\ rest[LastOf(rest, r)].socks
    BY DEF RefsResolve
  <2>1. g \in Present(snapshot) /\ rest[g] = snapshot[g] /\ r \in snapshot[g].refs
    BY <1>3
  <2>2. r # snapshot[g].name /\ r \in FileNames(snapshot) /\ snapshot[LastOf(snapshot, r)].socks
    BY <2>1 DEF Loadable, ValidSet, RefsResolve
  <2>3. r # InstanceOf[f]
    BY <2>1
  <2>4. \A h \in Present(snapshot) : snapshot[h].name = r => h # f
    BY <2>3 DEF Loadable, EachValid
  <2>5. \A h : h \in Present(rest) /\ rest[h].name = r <=> h \in Present(snapshot) /\ snapshot[h].name = r
    BY <1>3, <2>4
  <2>6. r \in FileNames(rest)
    BY <2>2, <2>5 DEF FileNames
  <2>7. LastOf(rest, r) = LastOf(snapshot, r)
    <3> DEFINE new == LastOf(rest, r)
               old == LastOf(snapshot, r)
    <3>1. new \in Present(rest) /\ rest[new].name = r /\ \A h \in Present(rest) : rest[h].name = r => h <= new
      BY <2>6, LastFound
    <3>2. old \in Present(snapshot) /\ snapshot[old].name = r
          /\ \A h \in Present(snapshot) : snapshot[h].name = r => h <= old
      BY <2>2, LastFound
    <3> HIDE DEF new, old
    <3>3. new <= old /\ old <= new /\ new \in Nat /\ old \in Nat
      BY <2>5, <3>1, <3>2, FileFacts DEF Present
    <3>4. new = old
      BY <3>3
    <3> QED BY <3>4 DEF new, old
  <2>8. LastOf(snapshot, r) \in Present(rest)
    BY <2>6, <2>7, LastFound
  <2> QED BY <1>3, <2>1, <2>2, <2>6, <2>7, <2>8
<1>7. Loadable(rest)
  BY <1>2, <1>4, <1>5, <1>6 DEF Loadable, ValidSet
<1> QED BY <1>7 DEF rest

\* A process's own step that breaks the set is one of those nobody checked, or not this set.
LEMMA UncheckedBreaks ==
    ASSUME StoreInv, NEW p \in Procs, Command(p) \/ Editor(p), Loadable(files), ~Loadable(files')
    PROVE  proc'[p] # proc[p] /\ Unchecked(p)
<1>1. /\ files \in Snapshots /\ drafts \in Snapshots /\ proc \in [Procs -> ProcStates]
      /\ proc[p].file \in Files /\ Decided(proc[p]) /\ Checks(proc[p], drafts)
  BY DEF StoreInv, ImportInv, BackupTypeOK, ProcsOK, ProcStates
<1>2. files # Absent
  <2>1. files[Last] # None
    BY StoreAssumption, BackupAssumption DEF Loadable
  <2> QED BY <2>1, FileFacts DEF Absent
<1>3. files' # files
  OBVIOUS
<1>4. \/ Write(p) /\ proc[p].step = "write"
      \/ Delete(p) /\ proc[p].step = "delete"
      \/ RenameDraft(p) /\ proc[p].step = "rename"
  BY <1>3 DEF Command, Editor, InitConfig, Add, Clone, MemberAdd, MemberRemove, Remove,
              Starting, Delete, Write, Open, OpenAdded, OpenAddedFails, EditorEnds, EditorFails,
              CheckDraft, RenameDraft, StoreOnly
<1>5. proc'[p].step \in {"idle", "added"}
  <2>1. \/ proc' = [proc EXCEPT ![p] = Idle]
        \/ proc' = [proc EXCEPT ![p] = [Idle EXCEPT !.step = "added", !.file = proc[p].file]]
    BY <1>4 DEF Write, Delete, RenameDraft, Finish
  <2>2. Idle.step = "idle" /\ [Idle EXCEPT !.step = "added", !.file = proc[p].file].step = "added"
    BY DEF Idle
  <2> QED BY <1>1, <2>1, <2>2
<1>6. CASE Write(p) /\ proc[p].step = "write"
  <2> SUFFICES ASSUME proc[p].seen = files, ~Doubled(proc[p].file) PROVE FALSE
    BY <1>5, <1>6 DEF Unchecked
  <2> DEFINE text == proc[p].text
  <2>1. Acceptable(files, text) /\ proc[p].file = Yaml[text.name]
    BY <1>1, <1>2, <1>6 DEF Decided
  <2>2. files' = [files EXCEPT ![Yaml[text.name]] = text]
    BY <1>6, <2>1 DEF Write
  <2>3. \A g \in Present(files) : InstanceOf[g] = text.name => g = Yaml[text.name]
    <3>1. text.name \in Instances
      BY <2>1 DEF Acceptable, ValidAlone, InstanceText
    <3>2. Yaml[text.name] # Last /\ InstanceOf[Yaml[text.name]] = text.name
      BY <3>1, StoreAssumption, FileFacts
    <3> QED BY <2>1, <3>2 DEF Doubled
  <2> QED BY <1>1, <2>1, <2>2, <2>3, CandidateLoads
<1>7. CASE Delete(p) /\ proc[p].step = "delete"
  <2> SUFFICES ASSUME \A g \in Present(files) : InstanceOf[proc[p].file] \notin files[g].refs
               PROVE  FALSE
    BY <1>5, <1>7 DEF Unchecked
  <2>1. proc[p].file \in InstanceFiles
    BY <1>1, <1>7, FileFacts DEF Decided
  <2>2. files' = [files EXCEPT ![proc[p].file] = None]
    BY <1>7 DEF Delete
  <2> QED BY <1>1, <2>1, <2>2, RestLoads
<1>8. CASE RenameDraft(p) /\ proc[p].step = "rename"
  <2> SUFFICES ASSUME proc[p].seen = files PROVE Unchecked(p)
    BY <1>5, <1>8 DEF Unchecked
  <2>1. proc[p].file = Last /\ Loadable([files EXCEPT ![Last] = drafts[Last]])
    BY <1>1, <1>2, <1>8 DEF Checks
  <2>2. files' = [files EXCEPT ![Last] = drafts[Last]]
    BY <1>8, <2>1 DEF RenameDraft
  <2> QED BY <2>1, <2>2
<1> QED BY <1>4, <1>6, <1>7, <1>8

(***************************************************************************)
(* A set that loads stops loading by a change by hand, a forced or         *)
(* overlapped import, or an unchecked step of a command only: no other     *)
(* step of add, clone, member changes, remove, the editor or an import     *)
(* locks the operator out, in any interleaving.                            *)
(***************************************************************************)
THEOREM LockOutsExplained == Spec => LockOutsHaveCauses
<1> DEFINE Step ==
        Loadable(files) /\ ~Loadable(files') =>
            \/ hand' # hand
            \/ proc' = proc /\ (force \/ touched # {})
            \/ \E p \in Procs : proc'[p] # proc[p] /\ Unchecked(p)
<1>1. StoreInv /\ [Next]_vars => Step
  <2> SUFFICES ASSUME StoreInv, [Next]_vars, Loadable(files), ~Loadable(files') PROVE Step
    OBVIOUS
  <2>1. files' # files
    OBVIOUS
  <2>2. ASSUME NEW p \in Procs, Command(p) \/ Editor(p) PROVE Step
    BY <2>2, UncheckedBreaks
  <2>3. ASSUME NEW p \in Procs, KillProc(p) PROVE FALSE
    BY <2>1, <2>3 DEF KillProc
  <2>4. ASSUME NEW f \in Files, NEW text \in Typed \cup {None}, ByHand(f, text) PROVE Step
    <3>1. hand \in Nat /\ hand' = hand + 1
      BY <2>4, StoreAssumption DEF ByHand, StoreInv, Bounded
    <3>2. hand' # hand
      BY <3>1
    <3> QED BY <3>2
  <2>5. CASE ImportGoesOn
    <3>1. proc' = proc /\ ImportStep
      BY <2>5 DEF ImportGoesOn, storeVars
    <3>2. files[Config] # None
      BY StoreAssumption, BackupAssumption DEF Loadable, Config
    <3>3. force \/ touched # {}
      BY <2>1, <3>1, <3>2, NothingToBreak DEF StoreInv, ImportInv
    <3> QED BY <3>1, <3>3
  <2>6. CASE \/ \E n \in Instances : StartService(n)
             \/ ExportNow \/ \E a \in exported \cup Archives, f \in BOOLEAN : ImportNow(a, f)
             \/ UNCHANGED vars
    BY <2>1, <2>6 DEF StartService, ExportNow, Export, ImportNow, Import, vars, backupVars
  <2> QED BY <2>2, <2>3, <2>4, <2>5, <2>6 DEF Next
<1>2. Spec => [][Step]_vars
  BY <1>1, StoreInduction, PTL DEF Spec
<1> QED BY <1>2 DEF LockOutsHaveCauses

-----------------------------------------------------------------------------
(* Ports *)

\* An allocation takes ports of the range that no file has, and different ones.
LEMMA AllocationIsFree ==
    ASSUME NEW snapshot, snapshot[Last] \in GlobalText, NEW text \in InstanceText,
           CanAllocate(snapshot, text)
    PROVE  LET free == snapshot[Last].range \ UsedPorts(snapshot)
           IN Elements(Allocated(snapshot, text).ports) \subseteq free
<1> DEFINE free == snapshot[Last].range \ UsedPorts(snapshot)
           first == Smallest(free)
           second == Smallest(free \ {first})
<1>1. free \subseteq Ports /\ IsFiniteSet(free) /\ free \in SUBSET Nat
  <2>1. free \subseteq Ports
    BY DEF GlobalText
  <2> HIDE DEF free
  <2>2. Ports \subseteq Nat /\ IsFiniteSet(Ports)
    BY StoreAssumption
  <2>3. IsFiniteSet(free)
    BY <2>1, <2>2, FS_Subset
  <2> QED BY <2>1, <2>2, <2>3
<1>2. Cardinality(free) >= Len(text.ports) /\ Cardinality(free) \in Nat
  BY <1>1, FS_CardinalityType DEF CanAllocate
<1>3. Len(text.ports) \in {1, 2}
  <2>1. text.ports \in PortLists
    BY DEF InstanceText
  <2>2. \/ \E a \in Ports : text.ports = <<a>>
        \/ \E a, b \in Ports : text.ports = <<a, b>>
    BY <2>1 DEF PortLists
  <2>3. \A a, b : Len(<<a>>) = 1 /\ Len(<<a, b>>) = 2
    OBVIOUS
  <2> QED BY <2>2, <2>3
<1>4. free # {}
  <2>1. free = {} => Cardinality(free) = 0
    BY FS_EmptySet
  <2>2. \A m \in {1, 2}, n \in Nat : n >= m => n # 0
    OBVIOUS
  <2>3. Cardinality(free) # 0
    BY <1>2, <1>3, <2>2
  <2> QED BY <2>1, <2>3
<1>5. first \in free
  BY <1>1, <1>4, SmallestFound
<1>6. Len(text.ports) # 1 => second \in free
  <2> SUFFICES ASSUME Len(text.ports) # 1 PROVE second \in free
    OBVIOUS
  <2> HIDE DEF free, first
  <2>1. Cardinality(free \ {first}) = Cardinality(free) - 1
    BY <1>1, <1>5, FS_RemoveElement
  <2>2. Cardinality(free \ {first}) # 0
    BY <1>2, <1>3, <2>1
  <2>3. free \ {first} # {}
    BY <2>2, FS_EmptySet
  <2>4. free \ {first} \in SUBSET Nat
    BY <1>1
  <2> QED BY <2>3, <2>4, SmallestFound
<1>7. Allocated(snapshot, text).ports = IF Len(text.ports) = 1 THEN <<first>> ELSE <<first, second>>
  BY DEF Allocated, InstanceText
<1>8. Elements(<<first>>) = {first} /\ Elements(<<first, second>>) = {first, second}
  <2> HIDE DEF first, second
  <2> QED BY DEF Elements
<1> QED BY <1>5, <1>6, <1>7, <1>8

(***************************************************************************)
(* The ports given to a new instance belong to no other instance, a        *)
(* disabled one included.                                                  *)
(***************************************************************************)
THEOREM AllocationsAreFree == Spec => AllocatedIsFree
<1> DEFINE Step ==
        \A p \in Procs :
            /\ proc[p].step = "idle" /\ proc'[p].step = "write"
            /\ \E n \in Instances : \/ \E t \in Templates : Add(p, t, n, TRUE)
                                    \/ \E s \in Instances : Clone(p, s, n, TRUE)
            => \A f \in Present(files) :
                  Elements(proc'[p].text.ports) \cap Elements(files[f].ports) = {}
<1>1. StoreInv /\ [Next]_vars => Step
  <2> SUFFICES ASSUME StoreInv, NEW p \in Procs, NEW n \in Instances,
                      \/ \E t \in Templates : Add(p, t, n, TRUE)
                      \/ \E s \in Instances : Clone(p, s, n, TRUE),
                      NEW f \in Present(files)
               PROVE  Elements(proc'[p].text.ports) \cap Elements(files[f].ports) = {}
    OBVIOUS
  <2>1. PICK t \in InstanceText : /\ Loadable(files) /\ CanAllocate(files, t)
                                  /\ Decide(p, Drafted(t, n, TRUE)) /\ UNCHANGED drafts
    <3>1. ASSUME NEW s \in Instances, Clone(p, s, n, TRUE)
          PROVE  files[First(files, s)] \in InstanceText
      <4>1. Loadable(files) /\ s \in FileNames(files)
        BY <3>1 DEF Clone
      <4>2. First(files, s) \in Present(files)
        BY <4>1, FirstFound
      <4> QED BY <4>1, <4>2 DEF Loadable, EachValid, ValidAlone
    <3> QED BY <3>1, StoreAssumption DEF Add, Clone, Starting
  <2>2. Named(t, n) \in InstanceText /\ Named(t, n).ports = t.ports
    BY DEF Named, InstanceText
  <2>3. proc'[p].text = Allocated(files, Named(t, n))
    BY <2>1, Decides DEF Drafted
  <2>4. CanAllocate(files, Named(t, n)) /\ files[Last] \in GlobalText
    BY <2>1, <2>2 DEF CanAllocate, Loadable
  <2>5. Elements(proc'[p].text.ports) \cap UsedPorts(files) = {}
    BY <2>2, <2>3, <2>4, AllocationIsFree
  <2> QED BY <2>5 DEF UsedPorts
<1>2. Spec => [][Step]_vars
  BY <1>1, StoreInduction, PTL DEF Spec
<1> QED BY <1>2 DEF AllocatedIsFree

-----------------------------------------------------------------------------
(* Drafts *)

(***************************************************************************)
(* What was typed into a draft that outlived its command only goes when it *)
(* has become the file, or is the file, and only changes when it is edited *)
(* again.                                                                  *)
(***************************************************************************)
THEOREM DraftsAreKept == Spec => DraftsKept
<1> DEFINE Kept(f) ==
        OutlivedItsCommand(f) /\ drafts'[f] # drafts[f] =>
            \/ files'[f] = drafts[f]
            \/ \E p \in Procs : Unchanged(p) /\ proc[p].file = f /\ proc[p].step = "check"
            \/ drafts'[f] # None /\ \E p \in Procs : proc[p].step = "edit" /\ proc[p].file = f
<1>1. StoreInv /\ [Next]_vars => \A f \in Files : Kept(f)
  <2> SUFFICES ASSUME StoreInv, [Next]_vars, NEW f \in Files, OutlivedItsCommand(f), drafts'[f] # drafts[f]
               PROVE  \/ files'[f] = drafts[f]
                      \/ \E p \in Procs : Unchanged(p) /\ proc[p].file = f /\ proc[p].step = "check"
                      \/ drafts'[f] # None /\ \E p \in Procs : proc[p].step = "edit" /\ proc[p].file = f
    OBVIOUS
  <2>1. drafts[f] # None
    BY DEF OutlivedItsCommand
  <2>2. files \in Snapshots /\ drafts \in Snapshots /\ proc \in [Procs -> ProcStates]
    BY DEF StoreInv, ImportInv, BackupTypeOK, ProcsOK
  <2>3. ASSUME NEW p \in Procs, NEW g \in Files, NEW compare \in BOOLEAN, OpenFile(p, g, compare)
        PROVE  FALSE
    BY <2>1, <2>3, Opens
  <2>4. ASSUME NEW p \in Procs, NEW text \in Typed \cup {drafts[proc[p].file]}, EditorEnds(p, text)
        PROVE  drafts'[f] # None /\ proc[p].step = "edit" /\ proc[p].file = f
    <3>1. proc[p].step = "edit" /\ drafts' = [drafts EXCEPT ![proc[p].file] = text]
      BY <2>4 DEF EditorEnds
    <3>2. proc[p].file = f
      BY <2>2, <3>1, SnapshotFacts DEF Snapshots
    <3>3. drafts'[f] = text
      BY <2>2, <3>1, <3>2 DEF Snapshots
    <3> QED BY <2>1, <3>1, <3>2, <3>3, StoreAssumption, BackupAssumption
  <2>5. ASSUME NEW p \in Procs, EditorFails(p) PROVE FALSE
    <3>1. ~proc[p].kept /\ drafts' = [drafts EXCEPT ![proc[p].file] = None] /\ proc[p].step = "edit"
      BY <2>5 DEF EditorFails
    <3>2. proc[p].file = f
      BY <2>2, <3>1 DEF Snapshots
    <3> QED BY <3>1, <3>2 DEF OutlivedItsCommand
  <2>6. ASSUME NEW p \in Procs, CheckDraft(p)
        PROVE  Unchanged(p) /\ proc[p].file = f /\ proc[p].step = "check"
    <3>1. Unchanged(p) /\ proc[p].step = "check" /\ drafts' = [drafts EXCEPT ![proc[p].file] = None]
      BY <2>6 DEF CheckDraft
    <3> QED BY <2>2, <3>1 DEF Snapshots
  <2>7. ASSUME NEW p \in Procs, RenameDraft(p) PROVE files'[f] = drafts[f]
    <3>1. /\ drafts' = [drafts EXCEPT ![proc[p].file] = None]
          /\ files' = [files EXCEPT ![proc[p].file] = drafts[proc[p].file]]
      BY <2>7 DEF RenameDraft
    <3>2. proc[p].file = f
      BY <2>2, <3>1 DEF Snapshots
    <3> QED BY <2>2, <3>1, <3>2 DEF Snapshots
  <2>8. ASSUME NEW p \in Procs, Command(p) \/ KillProc(p) PROVE FALSE
    BY <2>8 DEF Command, KillProc, InitConfig, Add, Clone, MemberAdd, MemberRemove, Remove, Starting,
                Write, Delete
  <2>9. ASSUME NEW p \in Procs, (\E g \in Files : Open(p, g)) \/ OpenAdded(p) \/ OpenAddedFails(p)
        PROVE  FALSE
    BY <2>2, <2>3, <2>9 DEF Open, OpenAdded, OpenAddedFails, ProcStates
  <2> QED BY <2>4, <2>5, <2>6, <2>7, <2>8, <2>9
             DEF Next, Editor, ByHand, StartService, ExportNow, ImportNow, ImportGoesOn, storeVars, vars
<1>2. Spec => [][\A f \in Files : Kept(f)]_vars
  BY <1>1, StoreInduction, PTL DEF Spec
<1> QED BY <1>2 DEF DraftsKept
=============================================================================
