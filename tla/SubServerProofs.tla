--------------------------- MODULE SubServerProofs ---------------------------
(***************************************************************************)
(* What holds of the subscription server for any files, any commands       *)
(* beside it, in any number, and any notion of compatible inputs.          *)
(***************************************************************************)
EXTENDS SubServer, TLAPS

-----------------------------------------------------------------------------
(* Types *)

\* The operations on sets of files keep them sets of files.
LEMMA FileSets ==
    /\ Empty \in Directories
    /\ NotReading \in [left : SUBSET Files, seen : Directories]
    /\ \A d, n \in Directories : Merged(d, n) \in Directories
    /\ \A f \in Files, v \in Versions \cup {None}, d \in Directories :
          [d EXCEPT ![f] = v] \in Directories
BY DEF Directories, Empty, NotReading, Merged

\* Counting up to a bound.
LEMMA CountUp ==
    /\ \A n \in 0..MaxFaults : n < MaxFaults => n + 1 \in 0..MaxFaults
    /\ \A n \in 0..MaxTouches : n < MaxTouches => n + 1 \in 0..MaxTouches
    /\ \A n \in 0..MaxWrites : n < MaxWrites => n + 1 \in 0..MaxWrites
<1>1. MaxFaults \in Nat /\ MaxTouches \in Nat /\ MaxWrites \in Nat
  BY SubServerAssumption
<1> QED BY <1>1

\* The readers: listing, reading a file and stopping.
LEMMA ReaderType ==
    ASSUME TypeOK, NEW x \in Readers, List(x) \/ Done(x)
    PROVE  reading' \in [Readers -> [left : SUBSET Files, seen : Directories]]
BY FileSets DEF TypeOK, List, Done, Names

LEMMA ReadFileType ==
    ASSUME TypeOK, NEW x \in Readers, ReadFile(x)
    PROVE  TypeOK'
<1>1. PICK f \in First(reading[x].left) :
        /\ ~Gone(f)
        /\ reading' = [reading EXCEPT ![x] = [left |-> @.left \ {f},
                                              seen |-> [@.seen EXCEPT ![f] = dir[f]]]]
  BY DEF ReadFile
<1>2. f \in Files /\ reading[x] \in [left : SUBSET Files, seen : Directories]
  BY DEF TypeOK, First
<1>3. dir \in Directories /\ dir[f] \in Versions \cup {None}
  BY <1>1, <1>2 DEF TypeOK, Gone, Directories
<1>4. [left |-> reading[x].left \ {f}, seen |-> [reading[x].seen EXCEPT ![f] = dir[f]]]
        \in [left : SUBSET Files, seen : Directories]
  BY <1>2, <1>3, FileSets
<1>5. reading' \in [Readers -> [left : SUBSET Files, seen : Directories]]
  BY <1>1, <1>4 DEF TypeOK
<1> QED BY <1>5 DEF TypeOK, ReadFile, watcher, state, commands, bounds

\* No step of the server, of a command or by hand leaves the types.
LEMMA TypeStep == TypeOK /\ [Next]_vars => TypeOK'
<1> SUFFICES ASSUME TypeOK, [Next]_vars PROVE TypeOK'
  OBVIOUS
<1> USE DEF state, watcher, commands, bounds
<1>r. Server \in Readers /\ \A e \in Editors : e \in Readers
  BY DEF Readers
<1>1. CASE UNCHANGED vars
  BY <1>1 DEF vars, TypeOK
<1>2. CASE Serve
  BY <1>2, <1>r, ReaderType DEF Serve, TypeOK
<1>3. CASE Kill
  <2>1. faults' \in 0..MaxFaults
    BY <1>3, CountUp DEF Kill, TypeOK
  <2>2. reading' \in [Readers -> [left : SUBSET Files, seen : Directories]]
    BY <1>3, <1>r, ReaderType DEF Kill
  <2> QED BY <1>3, <2>1, <2>2, FileSets DEF Kill, TypeOK
<1>4. CASE Touch
  <2>1. touches' \in 0..MaxTouches
    BY <1>4, CountUp DEF Touch, TypeOK
  <2>2. dir' \in Directories
    <3>1. PICK f \in Files, v \in Versions \cup {None} : dir' = [dir EXCEPT ![f] = v]
      BY <1>4 DEF Touch
    <3>2. dir \in Directories
      BY <1>4 DEF Touch, TypeOK
    <3> QED BY <3>1, <3>2, FileSets
  <2> QED BY <1>4, <2>1, <2>2 DEF Touch, TypeOK
<1>5. CASE ServerStep
  <2>0. reading[Server].seen \in Directories
    BY <1>r DEF TypeOK
  <2>1. CASE Boot
    BY <2>0, <2>1, <1>r, ReaderType DEF Boot, TypeOK
  <2>2. CASE FirstSnapshot
    BY <2>2, <1>r, ReaderType DEF FirstSnapshot, TypeOK
  <2>3. CASE Watching
    BY <2>0, <2>3, <1>r, ReaderType DEF Watching, TypeOK
  <2>4. CASE Poll
    BY <2>4, <1>r, ReaderType DEF Poll, TypeOK
  <2>5. CASE Compare
    BY <2>0, <2>5, <1>r, ReaderType DEF Compare, TypeOK
  <2>6. CASE Debounced
    BY <2>6, <1>r, ReaderType DEF Debounced, TypeOK
  <2>7. CASE Reload
    BY <2>0, <2>7, <1>r, ReaderType DEF Reload, TypeOK
  <2>8. CASE ServerReadFails
    BY <2>8, <1>r, ReaderType DEF ServerReadFails, TypeOK
  <2>9. CASE ReadFile(Server)
    BY <2>9, <1>r, ReadFileType
  <2> QED BY <1>5, <2>1, <2>2, <2>3, <2>4, <2>5, <2>6, <2>7, <2>8, <2>9 DEF ServerStep
<1>6. ASSUME NEW e \in Editors, EditorStep(e) PROVE TypeOK'
  <2> USE DEF Goto, Write
  <2>0. e \in Readers /\ job[e] \in Directories /\ reading[e].seen \in Directories
    BY <1>r DEF TypeOK
  <2>1. CASE Import(e)
    BY <2>1, <2>0, ReaderType, SubServerAssumption DEF Import, Begin, TypeOK
  <2>2. CASE Merge(e)
    BY <2>2, <2>0, ReaderType, FileSets DEF Merge, TypeOK
  <2>3. CASE SwapOut(e)
    BY <2>3 DEF SwapOut, TypeOK
  <2>4. CASE SwapIn(e)
    <3>1. backup[e] # Missing => backup[e] \in Directories
      BY DEF TypeOK
    <3>2. dir' \in Directories \cup {Missing}
      BY <2>4, <2>0, <3>1 DEF SwapIn, TypeOK
    <3>3. faults' \in 0..MaxFaults
      BY <2>4, CountUp DEF SwapIn, TypeOK
    <3> QED BY <2>4, <3>2, <3>3, FileSets DEF SwapIn, TypeOK
  <2>5. CASE Edit(e)
    <3>1. job' \in [Editors -> Directories]
      <4>1. PICK f \in Files, v \in Versions : job' = [job EXCEPT ![e] = [Empty EXCEPT ![f] = v]]
        BY <2>5 DEF Edit
      <4>2. [Empty EXCEPT ![f] = v] \in Directories
        BY FileSets
      <4> QED BY <4>1, <4>2 DEF TypeOK
    <3>2. reading' \in [Readers -> [left : SUBSET Files, seen : Directories]]
      BY <2>5, <2>0, ReaderType DEF Edit
    <3> QED BY <2>5, <3>1, <3>2, SubServerAssumption DEF Edit, Begin, TypeOK
  <2>6. CASE Check(e)
    BY <2>6, <2>0, ReaderType, FileSets DEF Check, TypeOK
  <2>7. CASE WriteInput(e)
    BY <2>7, <2>0, FileSets DEF WriteInput, TypeOK
  <2>8. CASE RemoveInput(e)
    <3>1. PICK f \in Files : dir' = [dir EXCEPT ![f] = None]
      BY <2>8 DEF RemoveInput, Names
    <3>2. dir' \in Directories
      BY <2>8, <3>1, FileSets DEF RemoveInput, TypeOK
    <3> QED BY <2>8, <3>2, CountUp DEF RemoveInput, Begin, TypeOK
  <2>9. CASE SetHost(e)
    <3>1. reading' \in [Readers -> [left : SUBSET Files, seen : Directories]]
      BY <2>9, <2>0, ReaderType, FileSets DEF SetHost, TypeOK
    <3> QED BY <2>9, <3>1, SubServerAssumption DEF SetHost, Begin, TypeOK
  <2>10. CASE LoadInput(e)
    <3>1. PICK f \in First(reading[e].left) :
            /\ ~Gone(f)
            /\ job' = [job EXCEPT ![e] = [Empty EXCEPT ![f] = dir[f]]]
            /\ reading' = [reading EXCEPT ![e].left = @ \ {f}]
      BY <2>10 DEF LoadInput
    <3>2. f \in Files
      BY <2>0 DEF First, TypeOK
    <3>3. dir[f] \in Versions \cup {None}
      BY <3>1, <3>2 DEF TypeOK, Gone, Directories
    <3>4. job' \in [Editors -> Directories]
      BY <3>1, <3>2, <3>3, FileSets DEF TypeOK
    <3>5. reading' \in [Readers -> [left : SUBSET Files, seen : Directories]]
      BY <3>1 DEF TypeOK
    <3> QED BY <2>10, <3>4, <3>5 DEF LoadInput, TypeOK
  <2>11. CASE UpdateInputHost(e)
    BY <2>11, <2>0, FileSets DEF UpdateInputHost, TypeOK
  <2>12. CASE Clear(e)
    BY <2>12, SubServerAssumption DEF Clear, Begin, TypeOK
  <2>13. CASE RemoveAll(e)
    <3>1. dir' \in Directories \cup {Missing}
      <4>1. CASE dir \in {Missing, Empty}
        BY <2>13, <4>1 DEF RemoveAll
      <4>2. CASE dir \notin {Missing, Empty}
        <5>1. PICK f \in Files : dir' = [dir EXCEPT ![f] = None]
          BY <2>13, <4>2 DEF RemoveAll, Names
        <5> QED BY <4>2, <5>1, FileSets DEF TypeOK
      <4> QED BY <4>1, <4>2
    <3>2. editor' \in [Editors -> {"idle", "merge", "swap", "install", "check", "write",
                                  "load", "host", "clear", "mkdir"}]
      BY <2>13 DEF RemoveAll, TypeOK
    <3> QED BY <2>13, <3>1, <3>2 DEF RemoveAll, TypeOK
  <2>14. CASE Mkdir(e)
    BY <2>14, FileSets DEF Mkdir, TypeOK
  <2>15. CASE EditorReadFails(e)
    BY <2>15, <2>0, ReaderType, FileSets DEF EditorReadFails, TypeOK
  <2>16. CASE Abort(e)
    <3>1. faults' \in 0..MaxFaults
      BY <2>16, CountUp DEF Abort, TypeOK
    <3>2. reading' \in [Readers -> [left : SUBSET Files, seen : Directories]]
      BY <2>16, <2>0, ReaderType DEF Abort
    <3> QED BY <2>16, <3>1, <3>2, FileSets DEF Abort, TypeOK
  <2>17. CASE ReadFile(e)
    BY <2>17, <2>0, ReadFileType
  <2> QED BY <1>6, <2>1, <2>2, <2>3, <2>4, <2>5, <2>6, <2>7, <2>8, <2>9, <2>10, <2>11, <2>12,
             <2>13, <2>14, <2>15, <2>16, <2>17 DEF EditorStep
<1> QED BY <1>1, <1>2, <1>3, <1>4, <1>5, <1>6 DEF Next

\* Every variable of the server, of its readers and of the commands keeps its type.
THEOREM TypeCorrect == Spec => []TypeOK
<1>1. Init => TypeOK
  <2>1. Init => dir \in Directories /\ writes \in 0..MaxWrites /\ touches \in 0..MaxTouches
                   /\ faults \in 0..MaxFaults
    BY CountUp, SubServerAssumption DEF Init
  <2> QED BY <2>1, FileSets DEF Init, TypeOK
<1> QED BY <1>1, TypeStep, PTL DEF Spec

-----------------------------------------------------------------------------
(* What is served *)

\* Only Boot and Reload change the index in service, both after a check; every
\* other step of the server keeps the index, and no step of anyone else
\* touches it.
LEMMA ServedStep == ServedIsChecked /\ [Next]_vars => ServedIsChecked'
<1> SUFFICES ASSUME ServedIsChecked, [Next]_vars PROVE ServedIsChecked'
  OBVIOUS
<1> USE DEF ServedIsChecked, Up
<1>1. ASSUME UNCHANGED <<server, served>> PROVE ServedIsChecked'
  BY <1>1
<1>2. CASE UNCHANGED vars
  BY <1>1, <1>2 DEF vars, watcher, state
<1>3. CASE Serve
  BY <1>3 DEF Serve
<1>4. CASE Kill
  BY <1>4 DEF Kill
<1>5. CASE Touch
  BY <1>1, <1>5 DEF Touch, watcher, state
<1>6. CASE ServerStep
  <2>1. CASE Boot
    BY <2>1 DEF Boot
  <2>2. CASE Reload
    BY <2>2 DEF Reload
  <2>3. CASE FirstSnapshot \/ Watching \/ Poll \/ Compare \/ Debounced
    BY <2>3 DEF FirstSnapshot, Watching, Poll, Compare, Debounced, state
  <2>4. CASE ServerReadFails
    BY <2>4 DEF ServerReadFails, Reading
  <2>5. CASE ReadFile(Server)
    BY <1>1, <2>5 DEF ReadFile, watcher, state
  <2> QED BY <1>6, <2>1, <2>2, <2>3, <2>4, <2>5 DEF ServerStep
<1>7. ASSUME NEW e \in Editors, EditorStep(e) PROVE ServedIsChecked'
  <2>1. CASE Import(e) \/ Edit(e) \/ SetHost(e) \/ RemoveInput(e) \/ Clear(e)
    BY <1>1, <2>1 DEF Import, Edit, SetHost, RemoveInput, Clear, Begin, watcher, state
  <2>2. CASE Merge(e) \/ SwapOut(e) \/ SwapIn(e) \/ Check(e) \/ WriteInput(e)
    BY <1>1, <2>2 DEF Merge, SwapOut, SwapIn, Check, WriteInput, watcher, state
  <2>3. CASE LoadInput(e) \/ UpdateInputHost(e) \/ RemoveAll(e) \/ Mkdir(e)
    BY <1>1, <2>3 DEF LoadInput, UpdateInputHost, RemoveAll, Mkdir, watcher, state
  <2>4. CASE EditorReadFails(e) \/ Abort(e) \/ ReadFile(e)
    BY <1>1, <2>4 DEF EditorReadFails, Abort, ReadFile, watcher, state
  <2> QED BY <1>7, <2>1, <2>2, <2>3, <2>4 DEF EditorStep
<1> QED BY <1>2, <1>3, <1>4, <1>5, <1>6, <1>7 DEF Next

\* Whatever the commands do to the inputs, also while the server reads them, and
\* wherever any of them is killed, the server only serves an index of files that
\* passed the checks together.
THEOREM ServedAlwaysChecked == Spec => []ServedIsChecked
<1>1. Init => ServedIsChecked
  BY DEF Init, ServedIsChecked, Up
<1> QED BY <1>1, ServedStep, PTL DEF Spec
-----------------------------------------------------------------------------
(* What the commands leave behind *)

OneEditor == \A d, e \in Editors : d = e

\* Inputs are checked one by one and against each other in pairs, so that fewer
\* of them are never worse, and none at all are fine.
Hereditary ==
    /\ Compatible(Empty)
    /\ \A d \in Directories, f \in Files : Compatible(d) => Compatible([d EXCEPT ![f] = None])

\* The directory did not change since a command listed it: what it read is there.
ReadSoFar(e) ==
    /\ reading[e].left \subseteq Names(dir)
    /\ \A f \in Files : reading[e].seen[f] = IF f \in reading[e].left THEN None ELSE dir[f]

\* Where a command is tells what the directory is, and what it is about to be.
KeepOK(e) ==
    /\ editor[e] \in {"idle", "merge", "check", "swap", "load", "host", "clear"} => Loadable
    /\ editor[e] \in {"merge", "check"} => ReadSoFar(e)
    /\ editor[e] \in {"swap", "install"} => Compatible(job[e])
    /\ editor[e] \in {"install", "mkdir"} => dir = Missing
    /\ editor[e] = "write" => dir # Missing /\ Compatible(Merged(dir, job[e]))
    /\ editor[e] = "host" => Merged(dir, job[e]) = dir

KeepInv == touches = 0 /\ faults = 0 => \A e \in Editors : KeepOK(e)

\* Writing what is there changes nothing.
LEMMA MergeSame ==
    ASSUME NEW d \in Directories, NEW f \in Names(d)
    PROVE  Merged(d, [Empty EXCEPT ![f] = d[f]]) = d
BY DEF Merged, Directories, Empty, Names

\* A reading that is over saw the directory.
LEMMA ReadAll ==
    ASSUME TypeOK, NEW e \in Editors, dir # Missing, ReadSoFar(e), Read(e)
    PROVE  reading[e].seen = dir
<1>1. reading[e].seen \in Directories /\ dir \in Directories
  BY DEF TypeOK, Readers
<1> QED BY <1>1 DEF ReadSoFar, Read, Directories

\* It does not fail, since nobody takes a file away meanwhile.
LEMMA ReadSucceeds ==
    ASSUME NEW e \in Editors, dir # Missing, reading[e].left \subseteq Names(dir)
    PROVE  ~ReadFails(e)
BY DEF ReadFails, Gone, Names, First

\* A command finds the directory loadable and, by its steps, leaves it so.
LEMMA EditorKeeps ==
    ASSUME TypeOK, Hereditary, NEW e \in Editors, KeepOK(e), EditorStep(e),
           touches' = 0, faults' = 0, faults = 0
    PROVE  KeepOK(e)'
<1> USE DEF Goto, Write, KeepOK, Loadable
<1>0. /\ e \in Readers /\ DOMAIN editor = Editors
      /\ DOMAIN job = Editors /\ DOMAIN reading = Readers
  BY DEF TypeOK, Readers
<1>1. CASE Import(e)
  <2>1. PICK bundle \in {d \in Directories : d # Empty /\ Compatible(d)} :
          /\ job' = [job EXCEPT ![e] = bundle]
          /\ \/ editor' = [editor EXCEPT ![e] = "swap"] /\ UNCHANGED reading
             \/ editor' = [editor EXCEPT ![e] = "merge"] /\ List(e)
    BY <1>1 DEF Import
  <2>2. dir \in Directories /\ Compatible(dir) /\ UNCHANGED dir /\ dir # Missing
    BY <1>1 DEF Import, Begin, TypeOK
  <2>3. List(e) => ReadSoFar(e)'
    BY <1>0, <2>2 DEF List, ReadSoFar, Names, Empty, Directories
  <2> QED BY <1>0, <2>1, <2>2, <2>3
<1>2. CASE Merge(e)
  <2>1. UNCHANGED dir
    BY <1>2 DEF Merge
  <2> QED BY <1>0, <1>2, <2>1 DEF Merge
<1>3. CASE SwapOut(e)
  BY <1>0, <1>3 DEF SwapOut
<1>4. CASE SwapIn(e)
  <2>1. dir' = job[e] /\ editor' = [editor EXCEPT ![e] = "idle"] /\ Compatible(job[e])
    BY <1>4 DEF SwapIn, Free
  <2>2. job[e] # Missing
    BY SubServerAssumption DEF TypeOK
  <2> QED BY <1>0, <2>1, <2>2
<1>5. CASE Edit(e)
  <2>1. dir \in Directories /\ Compatible(dir) /\ UNCHANGED dir /\ dir # Missing
    BY <1>5 DEF Edit, Begin, TypeOK
  <2>2. List(e) /\ editor' = [editor EXCEPT ![e] = "check"]
    BY <1>5 DEF Edit
  <2>3. ReadSoFar(e)'
    BY <1>0, <2>1, <2>2 DEF List, ReadSoFar, Names, Empty, Directories
  <2> QED BY <1>0, <2>1, <2>2, <2>3
<1>6. CASE Check(e)
  <2>1. UNCHANGED dir /\ dir # Missing /\ Compatible(dir) /\ reading[e].seen = dir
    BY <1>6, ReadAll DEF Check
  <2> QED BY <1>0, <1>6, <2>1 DEF Check
<1>7. CASE WriteInput(e)
  <2>1. dir' = Merged(dir, job[e]) /\ editor' = [editor EXCEPT ![e] = "idle"]
    BY <1>7 DEF WriteInput
  <2>2. dir' # Missing
    BY <1>7, <2>1, FileSets, SubServerAssumption DEF WriteInput, TypeOK
  <2> QED BY <1>0, <1>7, <2>1, <2>2 DEF WriteInput
<1>8. CASE RemoveInput(e)
  <2>1. PICK f \in Files : dir' = [dir EXCEPT ![f] = None]
    BY <1>8 DEF RemoveInput, Names
  <2>2. dir \in Directories /\ Compatible(dir) /\ UNCHANGED editor /\ editor[e] = "idle"
    BY <1>8 DEF RemoveInput, Begin, TypeOK
  <2>3. dir' \in Directories /\ Compatible(dir')
    BY <2>1, <2>2, FileSets DEF Hereditary
  <2> QED BY <2>2, <2>3, SubServerAssumption
<1>9. CASE SetHost(e)
  <2>1. UNCHANGED dir /\ dir # Missing /\ Compatible(dir)
        /\ editor' = [editor EXCEPT ![e] = "load"]
    BY <1>9 DEF SetHost, Begin
  <2> QED BY <1>0, <1>9, <2>1 DEF SetHost, List
<1>10. CASE LoadInput(e)
  <2>1. PICK f \in First(reading[e].left) :
          /\ ~Gone(f)
          /\ job' = [job EXCEPT ![e] = [Empty EXCEPT ![f] = dir[f]]]
          /\ reading' = [reading EXCEPT ![e].left = @ \ {f}]
          /\ editor' = [editor EXCEPT ![e] = "host"] /\ UNCHANGED dir
    BY <1>10 DEF LoadInput
  <2>2. dir # Missing /\ dir \in Directories /\ Compatible(dir)
    BY <1>10 DEF LoadInput, TypeOK
  <2>3. f \in Names(dir)
    BY <1>0, <2>1, <2>2 DEF Gone, Names, First, TypeOK
  <2>4. Merged(dir, job'[e]) = dir
    BY <2>1, <2>2, <2>3, MergeSame, <1>0
  <2> QED BY <1>0, <2>1, <2>2, <2>4
<1>11. CASE UpdateInputHost(e)
  <2>1. UNCHANGED <<dir, reading>> /\ dir # Missing /\ Compatible(dir)
    BY <1>11 DEF UpdateInputHost
  <2> QED BY <1>0, <1>11, <2>1 DEF UpdateInputHost
<1>12. CASE Clear(e)
  BY <1>0, <1>12 DEF Clear, Begin
<1>13. CASE RemoveAll(e)
  <2>1. CASE dir \in {Missing, Empty}
    BY <1>0, <1>13, <2>1 DEF RemoveAll
  <2>2. CASE dir \notin {Missing, Empty}
    <3>1. PICK f \in Files : dir' = [dir EXCEPT ![f] = None]
      BY <1>13, <2>2 DEF RemoveAll, Names
    <3>2. dir \in Directories /\ Compatible(dir) /\ UNCHANGED editor /\ editor[e] = "clear"
      BY <1>13, <2>2 DEF RemoveAll, TypeOK
    <3>3. dir' \in Directories /\ Compatible(dir')
      BY <3>1, <3>2, FileSets DEF Hereditary
    <3> QED BY <3>2, <3>3, SubServerAssumption
  <2> QED BY <2>1, <2>2
<1>14. CASE Mkdir(e)
  <2>1. dir' = Empty /\ editor' = [editor EXCEPT ![e] = "idle"]
    BY <1>14 DEF Mkdir
  <2>2. Empty # Missing
    BY FileSets, SubServerAssumption
  <2> QED BY <1>0, <2>1, <2>2 DEF Hereditary
<1>15. CASE EditorReadFails(e)
  <2>1. editor[e] = "load" /\ UNCHANGED dir /\ editor' = [editor EXCEPT ![e] = "idle"]
    BY <1>15, ReadSucceeds DEF EditorReadFails, ReadSoFar
  <2> QED BY <1>0, <2>1
<1>16. CASE Abort(e)
  BY <1>16 DEF Abort
<1>17. CASE editor[e] \in {"merge", "check"} /\ ReadFile(e)
  <2>1. PICK f \in First(reading[e].left) :
          reading' = [reading EXCEPT ![e] = [left |-> @.left \ {f},
                                             seen |-> [@.seen EXCEPT ![f] = dir[f]]]]
    BY <1>17 DEF ReadFile
  <2>2. UNCHANGED <<dir, editor, job>>
    BY <1>17 DEF ReadFile, commands
  <2>3. reading[e].seen \in Directories /\ reading[e].left \subseteq Files
    BY <1>0 DEF TypeOK
  <2>4. ReadSoFar(e)'
    BY <1>0, <1>17, <2>1, <2>2, <2>3 DEF ReadSoFar, First, Names, Directories
  <2> QED BY <1>17, <2>2, <2>4
<1> QED BY <1>1, <1>2, <1>3, <1>4, <1>5, <1>6, <1>7, <1>8, <1>9, <1>10, <1>11, <1>12,
           <1>13, <1>14, <1>15, <1>16, <1>17 DEF EditorStep

\* The server only reads.
LEMMA ServerKeeps ==
    ASSUME TypeOK, NEW e \in Editors, KeepOK(e), Serve \/ ServerStep
    PROVE  KeepOK(e)'
<1>1. UNCHANGED <<dir, editor, job>>
  BY DEF Serve, ServerStep, Boot, FirstSnapshot, Watching, Poll, Compare, Debounced, Reload,
         ServerReadFails, ReadFile, commands
<1>2. reading'[e] = reading[e]
  <2>1. e # Server /\ e \in Readers /\ DOMAIN reading = Readers
    BY SubServerAssumption DEF Readers, TypeOK
  <2> QED BY <2>1 DEF Serve, ServerStep, Boot, FirstSnapshot, Watching, Poll, Compare, Debounced,
                      Reload, ServerReadFails, ReadFile, List, Done
<1> QED BY <1>1, <1>2 DEF KeepOK, Loadable, ReadSoFar, Read

\* Every step keeps what the commands rely on, one command at a time.
LEMMA KeepStep ==
    ASSUME Hereditary, OneEditor
    PROVE  TypeOK /\ KeepInv /\ [Next]_vars => KeepInv'
<1> SUFFICES ASSUME TypeOK, KeepInv, [Next]_vars, touches' = 0, faults' = 0,
                    NEW e \in Editors
             PROVE  KeepOK(e)'
  BY DEF KeepInv
<1>1. CASE UNCHANGED vars
  BY <1>1 DEF vars, commands, bounds, KeepInv, KeepOK, Loadable, ReadSoFar
<1>2. CASE Serve \/ ServerStep
  <2>1. UNCHANGED <<touches, faults>>
    BY <1>2 DEF Serve, ServerStep, Boot, FirstSnapshot, Watching, Poll, Compare, Debounced,
                Reload, ServerReadFails, ReadFile, bounds
  <2> QED BY <1>2, <2>1, ServerKeeps DEF KeepInv
<1>3. CASE Kill \/ Touch
  <2>1. faults \in Nat /\ touches \in Nat
    BY DEF TypeOK
  <2> QED BY <1>3, <2>1 DEF Kill, Touch
<1>4. ASSUME NEW d \in Editors, EditorStep(d) PROVE KeepOK(e)'
  <2>1. d = e
    BY DEF OneEditor
  <2>2. faults \in Nat
    BY DEF TypeOK
  <2>3. touches = 0 /\ faults = 0
    BY <1>4, <2>2 DEF EditorStep, Import, Merge, SwapOut, SwapIn, Edit, Check, WriteInput,
           RemoveInput, SetHost, LoadInput, UpdateInputHost, Clear, RemoveAll, Mkdir,
           EditorReadFails, Abort, ReadFile, Begin, bounds
  <2> QED BY <1>4, <2>1, <2>3, EditorKeeps DEF KeepInv
<1> QED BY <1>1, <1>2, <1>3, <1>4 DEF Next

\* As long as one command runs at a time, none is cut short and nobody edits by
\* hand, the inputs can be loaded whenever no command is under way: a swap never
\* loses the directory, a check and the write it allows agree, and what a
\* set-host writes back is what is there.
THEOREM CommandsStayLoadable ==
    ASSUME Hereditary, OneEditor, Editors # {}
    PROVE  Spec => []CommandsKeepLoadable
<1>1. Init => KeepInv
  BY SubServerAssumption DEF Init, KeepInv, KeepOK, Loadable
<1>2. TypeOK /\ KeepInv /\ [Next]_vars => KeepInv'
  BY KeepStep
<1>3. KeepInv => CommandsKeepLoadable
  BY DEF KeepInv, KeepOK, CommandsKeepLoadable
<1> QED BY <1>1, <1>2, <1>3, TypeCorrect, PTL DEF Spec
=============================================================================
