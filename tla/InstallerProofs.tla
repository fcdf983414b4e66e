---------------------------- MODULE InstallerProofs ----------------------------
(***************************************************************************)
(* Proofs about Installer, for any archives and sources, any sequence of   *)
(* commands and any number of failing calls and kills: a marker never      *)
(* stands next to a binary or rules it does not describe, an install that  *)
(* fails leaves what it found, and a link made by hand stays.              *)
(***************************************************************************)
EXTENDS Installer, WellFoundedInduction, TLAPS

-----------------------------------------------------------------------------
(* Numbers, archives and sources *)

Below == {p \in Nat \X Nat : p[1] < p[2]}

\* Among natural numbers there is a least one.
LEMMA LeastExists == \A S \in SUBSET Nat : S # {} => \E k \in S : \A l \in S : k <= l
<1> SUFFICES ASSUME NEW S \in SUBSET Nat, S # {} PROVE \E k \in S : \A l \in S : k <= l
  OBVIOUS
<1>1. IsWellFoundedOn(Below, Nat)
  BY NatLessThanWellFounded DEF OpToRel, Below
<1>2. PICK k \in S : \A l \in S : ~(<<l, k>> \in Below)
  BY <1>1, WFMin
<1>3. \A l \in S : ~(l < k)
  BY <1>2 DEF Below
<1> QED BY <1>3

\* The members of an archive are named contents.
LEMMA MembersTyped ==
    ASSUME NEW content \in Contents, Archive[content] # None, NEW k \in DOMAIN Archive[content]
    PROVE  /\ DOMAIN Archive[content] \subseteq Nat
           /\ Archive[content][k][1] \in Names /\ Archive[content][k][2] \in Contents
<1>1. Archive[content] \in Seq(Names \X Contents)
  BY InstallerAssumption
<1> QED BY <1>1

\* extractSingBox gives a content or nothing.
LEMMA ExtractedTyped ==
    \A content \in Contents, member \in Names \cup {None} :
        Extracted(content, member) \in Contents \cup {None}
<1> SUFFICES ASSUME NEW content \in Contents, NEW member \in Names \cup {None},
                    Archive[content] # None, Matches(content, member) # {}
             PROVE  LET first == CHOOSE k \in Matches(content, member) :
                                    \A l \in Matches(content, member) : k <= l
                    IN Archive[content][first][2] \in Contents
  BY DEF Extracted
<1>1. Matches(content, member) \subseteq DOMAIN Archive[content]
  BY DEF Matches
<1>2. Matches(content, member) \subseteq Nat
  BY <1>1, MembersTyped
<1>3. \E k \in Matches(content, member) : \A l \in Matches(content, member) : k <= l
  BY <1>2, LeastExists
<1> QED BY <1>1, <1>3, MembersTyped

\* extractArchiveToDir gives a directory or nothing.
LEMMA UnpackedTyped ==
    \A content \in Contents : Unpacked(content) \in Files \cup {None}
<1> SUFFICES ASSUME NEW content \in Contents, Archive[content] # None
             PROVE  [n \in Names |->
                        IF \E k \in DOMAIN Archive[content] : Archive[content][k][1] = n
                        THEN LET k == CHOOSE k \in DOMAIN Archive[content] :
                                         Archive[content][k][1] = n
                             IN Archive[content][k][2]
                        ELSE None] \in Files
  BY DEF Unpacked
<1>1. \A n \in Names : (\E k \in DOMAIN Archive[content] : Archive[content][k][1] = n) =>
          Archive[content][CHOOSE k \in DOMAIN Archive[content] :
                               Archive[content][k][1] = n][2] \in Contents
  <2> SUFFICES ASSUME NEW n \in Names, \E k \in DOMAIN Archive[content] : Archive[content][k][1] = n
               PROVE  Archive[content][CHOOSE k \in DOMAIN Archive[content] :
                                           Archive[content][k][1] = n][2] \in Contents
    OBVIOUS
  <2> DEFINE c == CHOOSE k \in DOMAIN Archive[content] : Archive[content][k][1] = n
  <2>1. c \in DOMAIN Archive[content]
    OBVIOUS
  <2> HIDE DEF c
  <2>2. Archive[content][c][2] \in Contents
    BY <2>1, MembersTyped
  <2> QED BY <2>2 DEF c
<1> QED BY <1>1 DEF Files

LEMMA ExpectedTyped == \A options \in Options : Expected(options) \in Contents \cup {None}
BY InstallerAssumption DEF Expected, Options

Lists == {<<>>, <<"sing-box">>, <<"rules">>, <<"sing-box", "rules">>}

\* The resources of a command, one after the other.
LEMMA ListsTyped ==
    /\ \A options \in Options : Resources(options.resource) \in Lists
    /\ \A list \in Lists : list # <<>> => Head(list) \in {"sing-box", "rules"} /\ Tail(list) \in Lists
<1>1. \A options \in Options : Resources(options.resource) \in Lists
  BY DEF Options, Resources, Lists
<1>2. /\ Tail(<<"sing-box">>) = <<>> /\ Head(<<"sing-box">>) = "sing-box"
      /\ Tail(<<"rules">>) = <<>> /\ Head(<<"rules">>) = "rules"
      /\ Tail(<<"sing-box", "rules">>) = <<"rules">> /\ Head(<<"sing-box", "rules">>) = "sing-box"
  OBVIOUS
<1> QED BY <1>1, <1>2 DEF Lists

-----------------------------------------------------------------------------
(* Types *)

\* What the command and the disk look like, with the bounds apart.
DiskType ==
    /\ bin \in Bins /\ binPrevious \in Bins
    /\ marker \in Markers /\ markerPrevious \in Markers
    /\ rules \in Trees /\ rulesPrevious \in Trees
CommandType ==
    /\ pc \in Steps
    /\ job \in Options
    /\ todo \in Lists
    /\ new \in [bin : Contents \cup {None}, marker : Markers, rules : RulesDir \cup {None}]
    /\ had \in [bin : BOOLEAN, marker : BOOLEAN, rules : BOOLEAN]
    /\ result \in {"none", "running", "ok", "error", "killed"}
    /\ before \in [bin : Bins, marker : Markers, rules : Trees]
BoundsType == commands \in 0..MaxCommands /\ links \in 0..MaxLinks /\ faults \in 0..MaxFaults

\* A command that works on a resource has it at the head of its list.
Ready == pc \notin {"idle", "next", "purgeBin", "purgeRules"} => todo # <<>>

LEMMA TypeParts == TypeOK <=> DiskType /\ CommandType /\ BoundsType
BY DEF TypeOK, DiskType, CommandType, BoundsType, Lists

LEMMA CountUp ==
    /\ \A n \in 0..MaxCommands : n < MaxCommands => n + 1 \in 0..MaxCommands
    /\ \A n \in 0..MaxLinks : n < MaxLinks => n + 1 \in 0..MaxLinks
    /\ \A n \in 0..MaxFaults : n < MaxFaults => n + 1 \in 0..MaxFaults
<1>1. MaxCommands \in Nat /\ MaxLinks \in Nat /\ MaxFaults \in Nat
  BY InstallerAssumption
<1> QED BY <1>1

\* Nothing, a link or an empty directory are fine anywhere.
LEMMA NothingTyped ==
    /\ None \in Bins /\ Link \in Bins /\ None \in Markers /\ None \in Trees /\ Link \in Trees
    /\ \A c \in Contents : c \in Bins
    /\ \A tree \in RulesDir : tree \in Trees
BY DEF Bins, Markers, Trees

\* Every step counts within the bounds.
LEMMA BoundsStep ==
    ASSUME BoundsType, [Next]_vars
    PROVE  BoundsType'
<1> USE DEF BoundsType
<1>1. CASE UNCHANGED bounds
  BY <1>1 DEF bounds
<1>2. ASSUME NEW options \in Requests, Begin(options) PROVE BoundsType'
  BY <1>2, CountUp DEF Begin
<1>3. CASE CallFails \/ Kill
  BY <1>3, CountUp DEF CallFails, Kill, Fault
<1>4. CASE MakeLink
  BY <1>4, CountUp DEF MakeLink
<1>5. CASE Install \/ ReplacePair \/ ReplaceRules \/ Uninstall \/ UNCHANGED vars
  BY <1>1, <1>5 DEF Install, ReplacePair, ReplaceRules, Uninstall, vars, NextResource, AllDone,
     Resolve, Fetch, FetchFails, Clear, BackupBin, BackupMarker, PlaceBin, PlaceMarker, Cleanup,
     DropBin, UndoBin, UndoMarker, ClearRules, BackupRules, BackupRulesFails, PlaceRules,
     CleanupRules, UndoRules, RemoveBin, RemoveMarker, RemoveRulesEntry, RemoveRules, PurgeBinEntry,
     PurgeBin, PurgeRules, Go, Local
<1> QED BY <1>2, <1>3, <1>4, <1>5 DEF Next

\* A rules directory without one of its entries is still one.
LEMMA EntryTyped ==
    ASSUME DiskType, ~EmptyRules, TakeEntry
    PROVE  rules' \in Trees
<1>1. rules \in RulesDir
  BY DEF DiskType, Trees, EmptyRules
<1>2. \A n \in Names : [rules EXCEPT !.files[n] = None] \in RulesDir
  BY <1>1 DEF RulesDir, Files
<1>3. [rules EXCEPT !.marker = None] \in RulesDir
  BY <1>1 DEF RulesDir, RulesMarker
<1> QED BY <1>2, <1>3, NothingTyped DEF TakeEntry

\* Every step leaves on the disk what can be there.
LEMMA DiskStep ==
    ASSUME DiskType, CommandType, [Next]_vars
    PROVE  DiskType'
<1> USE NothingTyped DEF DiskType
<1>1. CASE UNCHANGED disk
  BY <1>1 DEF disk
<1>2. CASE Clear \/ BackupBin \/ BackupMarker \/ Cleanup \/ DropBin \/ UndoBin \/ UndoMarker
  BY <1>2 DEF Clear, BackupBin, BackupMarker, Cleanup, DropBin, UndoBin, UndoMarker, RestoredBin,
              RestoredMarker, rulesTree
<1>3. CASE PlaceBin \/ PlaceMarker \/ PlaceRules
  <2>1. new.bin \in Bins /\ new.marker \in Markers /\ new.rules \in Trees
    BY DEF CommandType
  <2> QED BY <1>3, <2>1 DEF PlaceBin, PlaceMarker, PlaceRules, rulesTree, singBox
<1>4. CASE ClearRules \/ BackupRules \/ CleanupRules \/ UndoRules \/ RemoveRules \/ PurgeRules
  BY <1>4 DEF ClearRules, BackupRules, CleanupRules, UndoRules, RemoveRules, PurgeRules, rulesTree,
              singBox
<1>5. CASE RemoveBin \/ RemoveMarker \/ PurgeBinEntry
  BY <1>5 DEF RemoveBin, RemoveMarker, PurgeBinEntry, rulesTree
<1>6. CASE RemoveRulesEntry
  BY <1>6, EntryTyped DEF RemoveRulesEntry, singBox
<1>7. CASE MakeLink
  BY <1>7 DEF MakeLink
<1>8. CASE (\E options \in Requests : Begin(options)) \/ NextResource \/ AllDone \/ Resolve
           \/ Fetch \/ FetchFails \/ BackupRulesFails \/ PurgeBin \/ CallFails \/ Kill
           \/ UNCHANGED vars
  BY <1>1, <1>8 DEF Begin, NextResource, AllDone, Resolve, Fetch, FetchFails, BackupRulesFails,
     PurgeBin, CallFails, Kill, Local, vars
<1> QED BY <1>2, <1>3, <1>4, <1>5, <1>6, <1>7, <1>8
        DEF Next, Install, ReplacePair, ReplaceRules, Uninstall

\* What is staged is a content with its marker, or a directory with one.
LEMMA StagedTyped ==
    ASSUME CommandType, pc = "fetch", Fetch
    PROVE  /\ new' \in [bin : Contents \cup {None}, marker : Markers, rules : RulesDir \cup {None}]
           /\ pc' \in {"clear", "clearRules"}
<1> DEFINE News == [bin : Contents \cup {None}, marker : Markers, rules : RulesDir \cup {None}]
<1>1. new \in News /\ job \in Options
  BY DEF CommandType
<1>2. /\ Expected(job) \in Contents \cup {None}
      /\ job.member \in Names \cup {None}
  BY <1>1, ExpectedTyped DEF Options
<1>3. ASSUME NEW content \in Contents, StageSingBox(content)
      PROVE  new' \in News /\ pc' = "clear"
  <2> DEFINE payload == Extracted(content, job.member)
             mark == [payload |-> payload, source |-> Expected(job), member |-> job.member]
  <2>1. payload \in Contents
    BY <1>2, <1>3, ExtractedTyped DEF StageSingBox
  <2>2. mark \in Markers
    BY <1>2, <2>1 DEF Markers, Marker
  <2>3. new' = [new EXCEPT !.bin = payload, !.marker = mark] /\ pc' = "clear"
    BY <1>3 DEF StageSingBox
  <2> QED BY <1>1, <2>1, <2>2, <2>3
<1>4. ASSUME NEW content \in Contents, StageArchive(content)
      PROVE  new' \in News /\ pc' = "clearRules"
  <2> DEFINE tree == [files |-> Unpacked(content), marker |-> Digest]
  <2>1. tree \in RulesDir
    BY <1>4, UnpackedTyped DEF StageArchive, RulesDir, RulesMarker
  <2>2. new' = [new EXCEPT !.rules = tree] /\ pc' = "clearRules"
    BY <1>4 DEF StageArchive
  <2> QED BY <1>1, <2>1, <2>2
<1>5. ASSUME NEW files \in Files, StageFiles(files)
      PROVE  new' \in News /\ pc' = "clearRules"
  <2> DEFINE tree == [files |-> files, marker |-> files]
  <2>1. tree \in RulesDir
    BY DEF RulesDir, RulesMarker
  <2>2. new' = [new EXCEPT !.rules = tree] /\ pc' = "clearRules"
    BY <1>5 DEF StageFiles
  <2> QED BY <1>1, <2>1, <2>2
<1> QED BY <1>3, <1>4, <1>5 DEF Fetch

\* Every step leaves the command where a command can be.
LEMMA CommandStep ==
    ASSUME DiskType, CommandType, Ready, [Next]_vars
    PROVE  CommandType' /\ Ready'
<1> USE DEF CommandType, Steps, Ready
<1>1. CASE UNCHANGED command
  BY <1>1 DEF command
<1>2. ASSUME NEW options \in Requests, Begin(options) PROVE CommandType' /\ Ready'
  <2>1. options \in Options
    BY InstallerAssumption
  <2> QED BY <1>2, <2>1, ListsTyped DEF Begin
<1>3. CASE NextResource
  BY <1>3 DEF NextResource, DiskType
<1>4. CASE AllDone \/ FetchFails \/ BackupRulesFails \/ PurgeRules
  BY <1>4 DEF AllDone, FetchFails, BackupRulesFails, PurgeRules, End
<1>5. CASE Resolve \/ Cleanup \/ CleanupRules \/ RemoveMarker \/ RemoveRules
  <2>1. todo # <<>>
    BY <1>5 DEF Resolve, Cleanup, CleanupRules, RemoveMarker, RemoveRules
  <2>2. Tail(todo) \in Lists
    BY <2>1, ListsTyped
  <2>3. ResourceDone => CommandType' /\ Ready'
    BY <2>2 DEF ResourceDone
  <2>4. End("error") => CommandType' /\ Ready'
    BY DEF End
  <2>5. CASE Resolve
    BY <2>1, <2>3, <2>4, <2>5 DEF Resolve
  <2> QED BY <1>5, <2>3, <2>4, <2>5 DEF Cleanup, CleanupRules, RemoveMarker, RemoveRules
<1>6. CASE Fetch
  <2>1. UNCHANGED <<job, todo, had, result, before>> /\ pc = "fetch"
    BY <1>6 DEF Fetch
  <2> QED BY <1>6, <2>1, StagedTyped
<1>7. CASE Clear \/ BackupBin \/ BackupMarker \/ PlaceBin \/ PlaceMarker \/ DropBin
  BY <1>7 DEF Clear, BackupBin, BackupMarker, PlaceBin, PlaceMarker, DropBin, Go
<1>8. CASE UndoBin \/ UndoMarker \/ UndoRules \/ RemoveBin
  BY <1>8 DEF UndoBin, UndoMarker, UndoRules, RemoveBin, End
<1>9. CASE ClearRules \/ BackupRules \/ PlaceRules \/ PurgeBin
  BY <1>9 DEF ClearRules, BackupRules, PlaceRules, PurgeBin, Go
<1>10. CASE CallFails \/ Kill
  BY <1>10 DEF CallFails, Kill, End, FailsTo
<1>11. CASE MakeLink
  BY <1>11 DEF MakeLink
<1>12. CASE RemoveRulesEntry \/ PurgeBinEntry \/ UNCHANGED vars
  BY <1>1, <1>12 DEF RemoveRulesEntry, PurgeBinEntry, vars
<1> QED BY <1>2, <1>3, <1>4, <1>5, <1>6, <1>7, <1>8, <1>9, <1>10, <1>11, <1>12
        DEF Next, Install, ReplacePair, ReplaceRules, Uninstall

LEMMA TypeInit == Init => DiskType /\ CommandType /\ Ready /\ BoundsType
<1> SUFFICES ASSUME Init PROVE DiskType /\ CommandType /\ Ready /\ BoundsType
  OBVIOUS
<1>1. DiskType
  BY NothingTyped DEF Init, DiskType
<1>2. NoJob \in Options
  BY DEF NoJob, Options
<1>3. CommandType /\ Ready
  BY <1>2, NothingTyped DEF Init, CommandType, Ready, Steps, Lists, NewNothing, HadNothing
<1>4. BoundsType
  BY InstallerAssumption DEF Init, BoundsType
<1> QED BY <1>1, <1>3, <1>4

(* The state of the installation and of the command is always of its type, *)
(* for any archives, sources, requests and bounds.                         *)
THEOREM TypeCorrect == Spec => []TypeOK
<1> DEFINE Inv == DiskType /\ CommandType /\ Ready /\ BoundsType
<1>1. Init => Inv
  BY TypeInit
<1>2. Inv /\ [Next]_vars => Inv'
  BY DiskStep, CommandStep, BoundsStep
<1>3. Inv => TypeOK
  BY TypeParts
<1> QED BY <1>1, <1>2, <1>3, PTL DEF Spec

-----------------------------------------------------------------------------
(* What the safety rests on.  The properties alone are not inductive: they *)
(* do not say that what is about to be put in place describes itself, nor  *)
(* that the backup an undoing reaches for holds what stood there before.   *)

Pair(mark, file) == mark # None /\ file \notin {None, Link} => Describes(mark, file)
Tree(tree) == tree \notin {None, Link} => TreeTruthful(tree)

\* Nothing false stands anywhere it can be put back or put in place from.
Truthful ==
    /\ Pair(marker, bin) /\ Pair(before.marker, before.bin) /\ Pair(new.marker, new.bin)
    /\ Tree(rules) /\ Tree(before.rules) /\ Tree(new.rules)

BinSaved == IF before.bin = None THEN ~had.bin ELSE had.bin /\ binPrevious = before.bin
MarkerSaved ==
    IF before.marker = None THEN ~had.marker ELSE had.marker /\ markerPrevious = before.marker
RulesSaved == IF before.rules = None THEN ~had.rules ELSE had.rules /\ rulesPrevious = before.rules

Untouched == before.bin = bin /\ before.marker = marker /\ before.rules = rules

\* What replacePair has moved so far, and where it is.
PairStages ==
    /\ pc \in {"resolve", "fetch", "clear", "backupBin"} => Untouched
    /\ pc \in {"clear", "backupBin"} => ~Unmanaged(bin, marker)
    /\ pc \in {"backupMarker", "restoreBin"} =>
           bin = None /\ before.marker = marker /\ before.rules = rules /\ BinSaved
    /\ pc \in {"placeBin", "undoBin"} =>
           bin = None /\ marker = None /\ before.rules = rules /\ BinSaved /\ MarkerSaved
    /\ pc \in {"placeMarker", "dropBin"} =>
           bin = new.bin /\ marker = None /\ before.rules = rules /\ BinSaved /\ MarkerSaved
    /\ pc = "undoMarker" =>
           before.bin = bin /\ marker = None /\ before.rules = rules /\ MarkerSaved

\* What replaceRulesDir has moved so far.
RulesStages ==
    /\ pc \in {"clearRules", "backupRules"} => Untouched /\ rules # Link
    /\ pc \in {"placeRules", "undoRules"} =>
           before.bin = bin /\ before.marker = marker /\ rules = None /\ RulesSaved

\* A command that has not ended is running, and only an uninstall removes.
Running ==
    /\ pc # "idle" => result = "running"
    /\ pc \in {"removeBin", "removeMarker", "removeRules", "purgeBin", "purgeRules"} =>
           job.operation = "uninstall"

Stages == PairStages /\ RulesStages /\ Running
TypeInv == DiskType /\ CommandType /\ Ready
Inductive == TypeInv /\ Truthful /\ Stages /\ FailureRollsBack

LEMMA NothingPairs ==
    /\ \A mark : Pair(mark, None) /\ Pair(mark, Link)
    /\ \A file : Pair(None, file)
    /\ Tree(None) /\ Tree(Link)
BY DEF Pair, Tree

\* What has been verified and extracted is described by the marker made for it.
LEMMA StagedPairs ==
    ASSUME TypeInv, Truthful, pc = "fetch", Fetch
    PROVE  Pair(new.marker, new.bin)' /\ Tree(new.rules)'
<1>1. new \in [bin : Contents \cup {None}, marker : Markers, rules : RulesDir \cup {None}]
  BY DEF TypeInv, CommandType
<1>2. ASSUME NEW content \in Contents, StageSingBox(content)
      PROVE  Pair(new.marker, new.bin)' /\ Tree(new.rules)'
  <2> DEFINE payload == Extracted(content, job.member)
             mark == [payload |-> payload, source |-> Expected(job), member |-> job.member]
  <2>1. new' = [new EXCEPT !.bin = payload, !.marker = mark]
    BY <1>2 DEF StageSingBox
  <2>2. new'.bin = payload /\ new'.marker = mark /\ new'.rules = new.rules
    BY <1>1, <2>1
  <2>3. mark.source # None => content = mark.source
    BY <1>2 DEF StageSingBox, Verified
  <2>4. Describes(mark, payload)
    BY <2>3 DEF Describes
  <2> QED BY <2>2, <2>4 DEF Truthful, Pair, Tree
<1>3. ASSUME NEW content \in Contents, StageArchive(content)
      PROVE  Pair(new.marker, new.bin)' /\ Tree(new.rules)'
  <2> DEFINE tree == [files |-> Unpacked(content), marker |-> Digest]
  <2>1. new' = [new EXCEPT !.rules = tree]
    BY <1>3 DEF StageArchive
  <2>2. new'.bin = new.bin /\ new'.marker = new.marker /\ new'.rules = tree
    BY <1>1, <2>1
  <2>3. TreeTruthful(tree)
    BY DEF TreeTruthful
  <2> QED BY <2>2, <2>3 DEF Truthful, Pair, Tree
<1>4. ASSUME NEW files \in Files, StageFiles(files)
      PROVE  Pair(new.marker, new.bin)' /\ Tree(new.rules)'
  <2> DEFINE tree == [files |-> files, marker |-> files]
  <2>1. new' = [new EXCEPT !.rules = tree]
    BY <1>4 DEF StageFiles
  <2>2. new'.bin = new.bin /\ new'.marker = new.marker /\ new'.rules = tree
    BY <1>1, <2>1
  <2>3. TreeTruthful(tree)
    BY DEF TreeTruthful
  <2> QED BY <2>2, <2>3 DEF Truthful, Pair, Tree
<1> QED BY <1>2, <1>3, <1>4 DEF Fetch

\* A rules directory that loses an entry lists nothing it does not have.
LEMMA EntryTree ==
    ASSUME DiskType, Tree(rules), ~EmptyRules, TakeEntry
    PROVE  Tree(rules)'
<1>1. rules \in RulesDir /\ TreeTruthful(rules)
  BY InstallerAssumption DEF DiskType, Trees, EmptyRules, Tree
<1>2. ASSUME NEW n \in Names, rules' = [rules EXCEPT !.files[n] = None] PROVE TreeTruthful(rules')
  BY <1>1, <1>2 DEF RulesDir, Files, TreeTruthful
<1>3. ASSUME rules' = [rules EXCEPT !.marker = None] PROVE TreeTruthful(rules')
  BY <1>1, <1>3 DEF RulesDir, TreeTruthful
<1> QED BY <1>2, <1>3 DEF TakeEntry, Tree

\* Every step keeps it so that nothing false stands anywhere.
LEMMA TruthfulStep ==
    ASSUME Inductive, [Next]_vars
    PROVE  Truthful'
<1> USE NothingPairs DEF Inductive, Truthful
<1> DEFINE SameBin == UNCHANGED <<bin, marker>>
           SameRules == UNCHANGED rules
           SameNew == UNCHANGED <<new, before>>
<1>1. SameBin /\ SameNew => Pair(marker, bin)' /\ Pair(before.marker, before.bin)'
                            /\ Pair(new.marker, new.bin)'
  BY DEF Pair, Describes
<1>2. SameRules /\ SameNew => Tree(rules)' /\ Tree(before.rules)' /\ Tree(new.rules)'
  BY DEF Tree, TreeTruthful
<1>3. CASE UNCHANGED <<disk, new, before>>
  BY <1>1, <1>2, <1>3 DEF disk
<1>4. CASE (\E options \in Requests : Begin(options)) \/ AllDone \/ Resolve \/ FetchFails
           \/ BackupRulesFails \/ PurgeBin \/ CallFails \/ Kill \/ UNCHANGED vars
  BY <1>3, <1>4 DEF Begin, AllDone, Resolve, FetchFails, BackupRulesFails, PurgeBin, CallFails,
     Kill, Local, End, ResourceDone, FailsTo, Go, vars, command
<1>5. CASE NextResource
  <2>1. before' = [bin |-> bin, marker |-> marker, rules |-> rules] /\ UNCHANGED <<disk, new>>
    BY <1>5 DEF NextResource, Local
  <2>2. before'.bin = bin /\ before'.marker = marker /\ before'.rules = rules
    BY <2>1
  <2> QED BY <2>1, <2>2 DEF disk
<1>6. CASE Fetch
  <2>1. UNCHANGED <<disk, before>> /\ pc = "fetch"
    BY <1>6 DEF Fetch, Local
  <2> QED BY <1>6, <2>1, StagedPairs DEF disk
<1>7. CASE Clear \/ ClearRules \/ Cleanup \/ CleanupRules
  BY <1>3, <1>7 DEF Clear, ClearRules, Cleanup, CleanupRules, Go, ResourceDone, rulesTree, singBox
<1>8. CASE BackupBin \/ BackupMarker \/ DropBin \/ RemoveBin \/ RemoveMarker \/ PurgeBinEntry
  <2>1. SameRules /\ SameNew
    BY <1>8 DEF BackupBin, BackupMarker, DropBin, RemoveBin, RemoveMarker, PurgeBinEntry, Go,
                ResourceDone, End, rulesTree, command
  <2>2. SameBin \/ (bin' = None) \/ (marker' = None)
    BY <1>8 DEF BackupBin, BackupMarker, DropBin, RemoveBin, RemoveMarker, PurgeBinEntry
  <2> QED BY <1>1, <1>2, <2>1, <2>2
<1>9. CASE PlaceBin \/ PlaceMarker
  <2>1. SameRules /\ SameNew
    BY <1>9 DEF PlaceBin, PlaceMarker, Go, rulesTree
  <2>2. marker' = None \/ (bin' = new.bin /\ marker' = new.marker)
    BY <1>9 DEF PlaceBin, PlaceMarker, Go, Stages, PairStages
  <2> QED BY <1>2, <2>1, <2>2
<1>10. CASE UndoBin \/ UndoMarker
  <2>1. SameRules /\ SameNew
    BY <1>10 DEF UndoBin, UndoMarker, End, rulesTree
  <2>2. marker' = None \/ (bin' = before.bin /\ marker' = before.marker)
    BY <1>10 DEF UndoBin, UndoMarker, RestoredBin, RestoredMarker, Stages, PairStages, BinSaved,
                 MarkerSaved
  <2> QED BY <1>2, <2>1, <2>2
<1>11. CASE BackupRules \/ PlaceRules \/ UndoRules \/ RemoveRules \/ PurgeRules
  <2>1. SameBin /\ SameNew
    BY <1>11 DEF BackupRules, PlaceRules, UndoRules, RemoveRules, PurgeRules, Go, End, ResourceDone,
                 singBox
  <2>2. SameRules \/ rules' = None \/ rules' = new.rules \/ rules' = before.rules
    BY <1>11 DEF BackupRules, PlaceRules, UndoRules, RemoveRules, PurgeRules, Stages, RulesStages,
                 RulesSaved, rulesTree
  <2> QED BY <1>1, <1>2, <2>1, <2>2
<1>12. CASE RemoveRulesEntry
  <2>1. SameBin /\ SameNew /\ ~EmptyRules /\ TakeEntry
    BY <1>12 DEF RemoveRulesEntry, singBox, command
  <2>2. Tree(rules)'
    BY <2>1, EntryTree DEF TypeInv
  <2> QED BY <1>1, <2>1, <2>2
<1>13. CASE MakeLink
  <2>1. SameNew /\ marker' = marker /\ (bin' = Link \/ bin' = bin) /\ (rules' = Link \/ rules' = rules)
    BY <1>13 DEF MakeLink
  <2> QED BY <1>1, <1>2, <2>1
<1> QED BY <1>4, <1>5, <1>6, <1>7, <1>8, <1>9, <1>10, <1>11, <1>12, <1>13
        DEF Next, Install, ReplacePair, ReplaceRules, Uninstall

LEMMA BeforeIsRecord ==
    ASSUME CommandType
    PROVE  before = [bin |-> bin, marker |-> marker, rules |-> rules] <=> Untouched
BY DEF CommandType, Untouched

\* Every step does with the disk what its place in the command says.
LEMMA StagesStep ==
    ASSUME Inductive, [Next]_vars
    PROVE  Stages' /\ (result' = "error" /\ job'.operation # "uninstall" => Untouched')
<1> DEFINE Rolled == result = "error" /\ job.operation # "uninstall" => Untouched
<1>0. CommandType /\ Rolled
  BY BeforeIsRecord DEF Inductive, TypeInv, FailureRollsBack
<1> USE <1>0 DEF Inductive, Stages, PairStages, RulesStages, Running
<1>1. CASE UNCHANGED <<disk, command>>
  <2>1. UNCHANGED <<bin, binPrevious, marker, markerPrevious, rules, rulesPrevious, pc, job, new, had,
                    result, before>>
    BY <1>1 DEF disk, command
  <2>2. (Untouched' <=> Untouched) /\ (Unmanaged(bin, marker)' <=> Unmanaged(bin, marker))
    BY <2>1 DEF Untouched, Unmanaged
  <2>3. (BinSaved' <=> BinSaved) /\ (MarkerSaved' <=> MarkerSaved) /\ (RulesSaved' <=> RulesSaved)
    BY <2>1 DEF BinSaved, MarkerSaved, RulesSaved
  <2> QED BY <2>1, <2>2, <2>3
<1>2. ASSUME UNCHANGED disk, End("error"), pc # "idle",
             job.operation = "uninstall" \/ Untouched
      PROVE  Stages' /\ Rolled'
  BY <1>2 DEF End, disk, Untouched
<1>3. ASSUME pc' = "next", UNCHANGED <<job, result>>, pc # "idle"
      PROVE  Stages' /\ Rolled'
  BY <1>3
<1>4. ASSUME pc' = "idle", result' # "error"
      PROVE  Stages' /\ Rolled'
  BY <1>4
<1>5. ASSUME NEW options \in Requests, Begin(options) PROVE Stages' /\ Rolled'
  BY <1>5 DEF Begin
<1>6. CASE NextResource
  <2>1. /\ before' = [bin |-> bin, marker |-> marker, rules |-> rules]
        /\ UNCHANGED <<bin, marker, rules, job, result>> /\ pc = "next"
        /\ pc' \in {"removeBin", "removeRules", "resolve"}
        /\ pc' # "resolve" => job.operation = "uninstall"
    BY <1>6 DEF NextResource, Local, disk
  <2>2. Untouched'
    BY <2>1 DEF Untouched
  <2> QED BY <2>1, <2>2
<1>7. CASE AllDone
  <2>1. CASE job.operation = "uninstall" /\ job.purge
    BY <1>7, <2>1 DEF AllDone
  <2>2. CASE ~(job.operation = "uninstall" /\ job.purge)
    BY <1>4, <1>7, <2>2 DEF AllDone, End
  <2> QED BY <2>1, <2>2
<1>8. CASE Resolve
  <2>1. UNCHANGED disk /\ pc = "resolve" /\ Untouched
    BY <1>8 DEF Resolve, Local
  <2>2. CASE End("error")
    BY <1>2, <2>1, <2>2
  <2>3. CASE ResourceDone
    BY <1>3, <2>1, <2>3 DEF ResourceDone
  <2>4. CASE pc' = "fetch" /\ UNCHANGED <<job, todo, new, had, result, before>>
    BY <2>1, <2>4 DEF Untouched, disk
  <2> QED BY <1>8, <2>2, <2>3, <2>4 DEF Resolve
<1>9. CASE Fetch
  <2>1. /\ UNCHANGED <<bin, marker, rules, job, had, result, before>>
        /\ pc = "fetch" /\ Untouched
    BY <1>9 DEF Fetch, Local, disk
  <2>2. Untouched'
    BY <2>1 DEF Untouched
  <2>3. (pc' = "clear" /\ ~Unmanaged(bin, marker)) \/ (pc' = "clearRules" /\ rules # Link)
    BY <1>9 DEF Fetch, StageSingBox, StageArchive, StageFiles
  <2> QED BY <2>1, <2>2, <2>3 DEF Unmanaged
<1>10. CASE FetchFails \/ BackupRulesFails
  BY <1>2, <1>10 DEF FetchFails, BackupRulesFails, Local
<1>11. CASE Clear
  BY <1>11 DEF Clear, Go, Untouched, Unmanaged, rulesTree
<1>12. CASE BackupBin
  BY <1>12 DEF BackupBin, Go, Untouched, BinSaved, TypeInv, CommandType, rulesTree
<1>13. CASE BackupMarker
  BY <1>13 DEF BackupMarker, Go, Untouched, BinSaved, MarkerSaved, TypeInv, CommandType, rulesTree
<1>14. CASE PlaceBin
  BY <1>14 DEF PlaceBin, Go, BinSaved, MarkerSaved, rulesTree
<1>15. CASE PlaceMarker
  BY <1>15 DEF PlaceMarker, Go
<1>16. CASE DropBin
  BY <1>16 DEF DropBin, Go, BinSaved, MarkerSaved, rulesTree
<1>17. CASE UndoBin
  <2>1. pc = "undoBin" => marker = None /\ before.rules = rules /\ BinSaved /\ MarkerSaved
    BY <1>17 DEF UndoBin
  <2>2. pc = "restoreBin" => before.marker = marker /\ before.rules = rules /\ BinSaved
    BY <1>17 DEF UndoBin
  <2>3. bin' = before.bin /\ UNCHANGED <<marker, markerPrevious, rules, before>>
    BY <1>17, <2>1, <2>2 DEF UndoBin, RestoredBin, BinSaved, rulesTree, End
  <2>4. CASE pc = "undoBin"
    BY <1>17, <2>1, <2>3, <2>4 DEF UndoBin, MarkerSaved
  <2>5. CASE pc = "restoreBin"
    BY <1>17, <2>2, <2>3, <2>5 DEF UndoBin, End, Untouched
  <2> QED BY <1>17, <2>4, <2>5 DEF UndoBin
<1>18. CASE UndoMarker
  BY <1>18 DEF UndoMarker, RestoredMarker, MarkerSaved, End, Untouched, rulesTree
<1>19. CASE ClearRules
  BY <1>19 DEF ClearRules, Go, Untouched, singBox
<1>20. CASE BackupRules
  BY <1>20 DEF BackupRules, Go, Untouched, RulesSaved, TypeInv, CommandType, rulesTree, singBox
<1>21. CASE PlaceRules
  BY <1>21 DEF PlaceRules, Go
<1>22. CASE UndoRules
  BY <1>22 DEF UndoRules, RulesSaved, End, Untouched, rulesTree, singBox
<1>23. CASE Cleanup \/ CleanupRules \/ RemoveMarker
  BY <1>3, <1>23 DEF Cleanup, CleanupRules, RemoveMarker, ResourceDone
<1>24. CASE RemoveBin
  BY <1>24 DEF RemoveBin, End
<1>25. CASE RemoveRulesEntry \/ PurgeBinEntry
  BY <1>25 DEF RemoveRulesEntry, PurgeBinEntry, command
<1>26. CASE RemoveRules
  BY <1>26 DEF RemoveRules, End, ResourceDone
<1>27. CASE PurgeBin
  BY <1>27 DEF PurgeBin, Go
<1>28. CASE PurgeRules
  BY <1>4, <1>28 DEF PurgeRules, End
<1>29. CASE CallFails
  <2>1. UNCHANGED <<bin, binPrevious, marker, markerPrevious, rules, rulesPrevious>>
    BY <1>29 DEF CallFails, disk
  <2>2. CASE End("error") /\ pc \in {"clear", "backupBin", "clearRules", "backupRules", "removeBin",
                                     "removeMarker", "removeRules", "purgeBin", "purgeRules"}
    BY <1>2, <2>1, <2>2 DEF disk
  <2>3. CASE \/ FailsTo("backupMarker", "restoreBin") \/ FailsTo("placeBin", "undoBin")
             \/ FailsTo("placeMarker", "dropBin") \/ FailsTo("placeRules", "undoRules")
    BY <2>1, <2>3 DEF FailsTo, BinSaved, MarkerSaved, RulesSaved
  <2> QED BY <1>29, <2>2, <2>3 DEF CallFails
<1>30. CASE Kill
  BY <1>4, <1>30 DEF Kill, End
<1>31. CASE MakeLink
  BY <1>31 DEF MakeLink
<1>32. CASE UNCHANGED vars
  BY <1>1, <1>32 DEF vars
<1> QED BY <1>5, <1>6, <1>7, <1>8, <1>9, <1>10, <1>11, <1>12, <1>13, <1>14, <1>15, <1>16, <1>17,
           <1>18, <1>19, <1>20, <1>21, <1>22, <1>23, <1>24, <1>25, <1>26, <1>27, <1>28, <1>29, <1>30,
           <1>31, <1>32
        DEF Next, Install, ReplacePair, ReplaceRules, Uninstall

LEMMA InductiveInit == Init => Inductive
<1> SUFFICES ASSUME Init PROVE Inductive
  OBVIOUS
<1>1. TypeInv
  BY TypeInit DEF TypeInv
<1>2. Truthful
  BY NothingPairs DEF Init, Truthful, NewNothing
<1>3. Stages /\ FailureRollsBack
  BY DEF Init, Stages, PairStages, RulesStages, Running, FailureRollsBack
<1> QED BY <1>1, <1>2, <1>3 DEF Inductive

LEMMA InductiveStep == Inductive /\ [Next]_vars => Inductive'
<1> SUFFICES ASSUME Inductive, [Next]_vars PROVE Inductive'
  OBVIOUS
<1>1. TypeInv'
  BY DiskStep, CommandStep DEF Inductive, TypeInv
<1>2. Truthful' /\ Stages'
  BY TruthfulStep, StagesStep
<1>3. FailureRollsBack'
  <2>1. result' = "error" /\ job'.operation # "uninstall" => Untouched'
    BY StagesStep
  <2>2. CommandType'
    BY <1>1 DEF TypeInv
  <2>3. Untouched' => before' = [bin |-> bin', marker |-> marker', rules |-> rules']
    BY <2>2 DEF CommandType, Untouched
  <2> QED BY <2>1, <2>3 DEF FailureRollsBack
<1> QED BY <1>1, <1>2, <1>3 DEF Inductive

LEMMA AlwaysInductive == Spec => []Inductive
BY InductiveInit, InductiveStep, PTL DEF Spec

(* Killed at any point and failing at any call, over and over, the        *)
(* installer never leaves a marker next to a binary or a rules directory   *)
(* it does not describe: what an install skips on the marker's word is     *)
(* what the marker says.                                                   *)
THEOREM MarkersAreTruthful == Spec => []MarkerTruthful
<1>1. Inductive => MarkerTruthful
  BY DEF Inductive, Truthful, MarkerTruthful, Pair, Tree
<1> QED BY <1>1, AlwaysInductive, PTL

(* An install or an update that reports an error leaves the binary, its    *)
(* marker and the rules as it found them, whatever was in a ".previous"    *)
(* before it, and wherever the error came.                                 *)
THEOREM FailuresRollBack == Spec => []FailureRollsBack
<1>1. Inductive => FailureRollsBack
  BY DEF Inductive
<1> QED BY <1>1, AlwaysInductive, PTL

\* No step but the purge's own moves a link that somebody made.
LEMMA LinkStep ==
    ASSUME Inductive, [Next]_vars
    PROVE  /\ Unmanaged(bin, marker) /\ pc # "purgeBin" => bin' = Link
           /\ rules = Link /\ pc # "purgeRules" => rules' = Link
<1> DEFINE Kept == /\ Unmanaged(bin, marker) /\ pc # "purgeBin" => bin' = Link
                   /\ rules = Link /\ pc # "purgeRules" => rules' = Link
<1> USE DEF Inductive, Stages, PairStages, RulesStages, Unmanaged
<1>0. None # Link /\ new.bin # Link
  BY InstallerAssumption DEF TypeInv, CommandType
<1>1. CASE UNCHANGED disk
  BY <1>1 DEF disk
<1>2. CASE Clear \/ BackupBin \/ BackupMarker \/ PlaceBin \/ PlaceMarker \/ Cleanup \/ DropBin
           \/ UndoBin \/ UndoMarker
  BY <1>0, <1>2 DEF Clear, BackupBin, BackupMarker, PlaceBin, PlaceMarker, Cleanup, DropBin, UndoBin,
     UndoMarker, Go, rulesTree
<1>3. CASE ClearRules \/ BackupRules \/ PlaceRules \/ CleanupRules \/ UndoRules
  BY <1>0, <1>3 DEF ClearRules, BackupRules, PlaceRules, CleanupRules, UndoRules, Go, singBox
<1>4. CASE RemoveBin \/ RemoveMarker \/ PurgeBinEntry
  BY <1>4 DEF RemoveBin, RemoveMarker, PurgeBinEntry, rulesTree
<1>5. CASE RemoveRulesEntry \/ RemoveRules \/ PurgeRules
  BY <1>5 DEF RemoveRulesEntry, RemoveRules, PurgeRules, EmptyRules, singBox
<1>6. CASE MakeLink
  BY <1>0, <1>6 DEF MakeLink
<1>7. CASE (\E options \in Requests : Begin(options)) \/ NextResource \/ AllDone \/ Resolve
           \/ Fetch \/ FetchFails \/ BackupRulesFails \/ PurgeBin \/ CallFails \/ Kill
           \/ UNCHANGED vars
  BY <1>1, <1>7 DEF Begin, NextResource, AllDone, Resolve, Fetch, FetchFails, BackupRulesFails,
     PurgeBin, CallFails, Kill, Local, vars
<1> QED BY <1>2, <1>3, <1>4, <1>5, <1>6, <1>7
        DEF Next, Install, ReplacePair, ReplaceRules, Uninstall

(* A link made where nothing was installed is never moved by a command     *)
(* that is not a purge, nor by the undoing of one that failed.             *)
THEOREM LinksStay == Spec => LinksAreKept
<1>1. Inductive /\ [Next]_vars =>
          [ /\ Unmanaged(bin, marker) /\ pc # "purgeBin" => bin' = Link
            /\ rules = Link /\ pc # "purgeRules" => rules' = Link ]_vars
  BY LinkStep
<1> QED BY <1>1, AlwaysInductive, PTL DEF Spec, LinksAreKept

-----------------------------------------------------------------------------
(* What a command has done so far of what it owes.  The resources it has   *)
(* not reached are in its list; the one it works on is the head of it.     *)

PairSteps == {"clear", "backupBin", "backupMarker", "placeBin", "placeMarker", "cleanup",
              "dropBin", "undoBin", "restoreBin", "undoMarker", "removeBin", "removeMarker"}
RulesSteps == {"clearRules", "backupRules", "placeRules", "cleanupRules", "undoRules",
               "removeRules"}

\* All but the resources in the list are as they should be.
Paid == \A r \in Listed(Resources(job.resource)) \ Listed(todo) : Owed(r)

\* What a step works on, and what it has of it.
Working ==
    /\ pc \in {"purgeBin", "purgeRules"} => todo = <<>>
    /\ pc \in PairSteps => Head(todo) = "sing-box"
    /\ pc \in RulesSteps => Head(todo) = "rules"
    /\ pc \in {"resolve", "fetch", "cleanup", "cleanupRules"} => job.operation # "uninstall"
    /\ pc \in {"clear", "backupBin", "backupMarker", "placeBin", "placeMarker"} =>
           job.operation # "uninstall" /\ SingBoxAsked(new.bin)
    /\ pc \in {"clearRules", "backupRules", "placeRules"} =>
           job.operation # "uninstall" /\ RulesAsked(new.rules)
    /\ pc = "cleanup" => SingBoxAsked(bin)
    /\ pc = "cleanupRules" => RulesAsked(rules)
    /\ pc = "removeMarker" => bin = None

\* A link has no marker: the installer did not make it.
LinksUnmarked == (bin = Link => marker = None) /\ (before.bin = Link => before.marker = None)

Progress == LinksUnmarked /\ Working /\ (pc # "idle" => Paid) /\ DoneIsDone

\* The lists of resources.
LEMMA ListedLists ==
    /\ Listed(<<>>) = {}
    /\ \A list \in Lists : Listed(list) \subseteq {"sing-box", "rules"}
    /\ \A list \in Lists : list # <<>> =>
           /\ Head(list) \in Listed(list)
           /\ Listed(list) \subseteq Listed(Tail(list)) \cup {Head(list)}
<1>1. Listed(<<>>) = {}
  BY DEF Listed
<1>2. Listed(<<"sing-box">>) = {"sing-box"} /\ Listed(<<"rules">>) = {"rules"}
  BY DEF Listed
<1>3. Listed(<<"sing-box", "rules">>) = {"sing-box", "rules"}
  BY DEF Listed
<1>4. /\ Tail(<<"sing-box">>) = <<>> /\ Head(<<"sing-box">>) = "sing-box"
      /\ Tail(<<"rules">>) = <<>> /\ Head(<<"rules">>) = "rules"
      /\ Tail(<<"sing-box", "rules">>) = <<"rules">> /\ Head(<<"sing-box", "rules">>) = "sing-box"
  OBVIOUS
<1> QED BY <1>1, <1>2, <1>3, <1>4 DEF Lists

\* What a command owes for the one resource does not depend on the other.
LEMMA OwedFrame ==
    ASSUME UNCHANGED job
    PROVE  /\ UNCHANGED <<bin, marker>> => Owed("sing-box")' = Owed("sing-box")
           /\ UNCHANGED rules => Owed("rules")' = Owed("rules")
BY DEF Owed, SingBoxAsked, RulesAsked, Expected

\* While the head is worked on, the rest stays paid for.
LEMMA PaidFrame ==
    ASSUME TypeInv, Paid, UNCHANGED <<job, todo>>,
           \/ UNCHANGED <<bin, marker, rules>>
           \/ todo # <<>> /\ Head(todo) = "sing-box" /\ UNCHANGED rules
           \/ todo # <<>> /\ Head(todo) = "rules" /\ UNCHANGED <<bin, marker>>
    PROVE  Paid'
<1>1. /\ Listed(Resources(job.resource)) \subseteq {"sing-box", "rules"}
      /\ todo # <<>> => Head(todo) \in Listed(todo)
  BY ListsTyped, ListedLists DEF TypeInv, CommandType
<1> QED BY <1>1, OwedFrame DEF Paid

\* A resource that is done is taken off the list.
LEMMA PaidDone ==
    ASSUME TypeInv, Paid, todo # <<>>, ResourceDone,
           \/ Head(todo) = "sing-box" /\ UNCHANGED rules /\ Owed("sing-box")'
           \/ Head(todo) = "rules" /\ UNCHANGED <<bin, marker>> /\ Owed("rules")'
    PROVE  Paid'
<1>1. /\ Listed(Resources(job.resource)) \subseteq {"sing-box", "rules"}
      /\ Listed(todo) \subseteq Listed(Tail(todo)) \cup {Head(todo)}
  BY ListsTyped, ListedLists DEF TypeInv, CommandType
<1>2. todo' = Tail(todo) /\ UNCHANGED job
  BY DEF ResourceDone
<1> QED BY <1>1, <1>2, OwedFrame DEF Paid

\* What "install" skips is there: the marker says it and tells the truth.
LEMMA SkippedIsThere ==
    ASSUME TypeInv, Truthful, LinksUnmarked, pc = "resolve", job.operation # "uninstall", Skips
    PROVE  Owed(Head(todo))
<1>0. job \in Options /\ Head(todo) \in {"sing-box", "rules"}
  BY ListsTyped DEF TypeInv, CommandType, Ready
<1>1. CASE Head(todo) = "sing-box"
  <2>1. /\ job.operation = "install" /\ Expected(job) # None
        /\ bin # None /\ marker # None /\ marker.source = Expected(job)
        /\ job.member # None => marker.member = job.member
    BY <1>1 DEF Skips, SingBoxInstalled
  <2>2. bin # Link /\ marker \in Marker
    BY <2>1 DEF LinksUnmarked, TypeInv, DiskType, Markers
  <2>3. bin = Extracted(marker.source, marker.member) /\ marker.member \in Names \cup {None}
    BY <2>1, <2>2 DEF Truthful, Pair, Describes, Marker
  <2>4. Expected(job) \in Contents
    BY <1>0, <2>1, ExpectedTyped
  <2>5. SingBoxAsked(bin)
    BY <2>1, <2>2, <2>3, <2>4 DEF SingBoxAsked, Verified
  <2> QED BY <1>1, <2>5 DEF Owed
<1>2. CASE Head(todo) = "rules"
  <2>1. job.source = "builtin" /\ RulesInstalled(BuiltinRules)
    BY <1>2 DEF Skips, UsesFiles
  <2>2. \A n \in Names : BuiltinRules[n] # None => rules.files[n] = BuiltinRules[n]
    BY <2>1 DEF RulesInstalled, Truthful, Tree, TreeTruthful
  <2>3. RulesAsked(rules)
    BY <2>1, <2>2 DEF RulesAsked, RulesInstalled
  <2> QED BY <1>2, <2>3 DEF Owed
<1> QED BY <1>0, <1>1, <1>2

\* A directory is there.
LEMMA StagedTree == \A tree \in RulesDir : tree \notin {None, Link}
BY InstallerAssumption DEF RulesDir, RulesMarker

\* What is staged is what was asked for.
LEMMA StagedAsked ==
    ASSUME TypeInv, pc = "fetch", Fetch
    PROVE  /\ pc' = "clear" => Head(todo) = "sing-box" /\ SingBoxAsked(new.bin)'
           /\ pc' = "clearRules" => Head(todo) = "rules" /\ RulesAsked(new.rules)'
<1>0. /\ new \in [bin : Contents \cup {None}, marker : Markers, rules : RulesDir \cup {None}]
      /\ job \in Options /\ Head(todo) \in {"sing-box", "rules"} /\ UNCHANGED job
  BY ListsTyped DEF TypeInv, CommandType, Ready, Fetch
<1>1. ASSUME NEW content \in Contents, StageSingBox(content), Head(todo) = "sing-box"
      PROVE  pc' = "clear" /\ SingBoxAsked(new.bin)'
  <2>1. /\ Verified(content, Expected(job)) /\ Extracted(content, job.member) # None
        /\ new'.bin = Extracted(content, job.member) /\ pc' = "clear"
    BY <1>0, <1>1 DEF StageSingBox
  <2>2. job.member \in Names \cup {None}
    BY <1>0 DEF Options
  <2>3. new'.bin \in Contents
    BY <2>1, <2>2, ExtractedTyped
  <2>4. new'.bin # Link
    BY <2>3, InstallerAssumption
  <2> QED BY <1>0, <2>1, <2>2, <2>4 DEF SingBoxAsked, Expected
<1>2. ASSUME NEW content \in Contents, StageArchive(content), Head(todo) = "rules", ~UsesFiles
      PROVE  pc' = "clearRules" /\ RulesAsked(new.rules)'
  <2>1. /\ Verified(content, Expected(job)) /\ job.source # "builtin"
        /\ new'.rules = [files |-> Unpacked(content), marker |-> Digest] /\ pc' = "clearRules"
    BY <1>0, <1>2 DEF StageArchive, UsesFiles
  <2>2. new'.rules \in RulesDir
    BY <1>2, <2>1, UnpackedTyped DEF StageArchive, RulesDir, RulesMarker
  <2>3. new'.rules \notin {None, Link}
    BY <2>2, StagedTree
  <2> QED BY <1>0, <2>1, <2>3 DEF RulesAsked, Expected
<1>3. ASSUME NEW files \in Files, StageFiles(files), UsesFiles
      PROVE  pc' = "clearRules" /\ RulesAsked(new.rules)'
  <2>1. /\ job.source = "builtin" /\ \A n \in Names : Verified(files[n], BuiltinRules[n])
        /\ new'.rules = [files |-> files, marker |-> files] /\ pc' = "clearRules"
    BY <1>0, <1>3 DEF StageFiles, UsesFiles
  <2>2. new'.rules \in RulesDir
    BY <2>1 DEF RulesDir, RulesMarker
  <2>3. new'.rules \notin {None, Link}
    BY <2>2, StagedTree
  <2> QED BY <1>0, <2>1, <2>3 DEF RulesAsked, Verified
<1>4. CASE Head(todo) = "sing-box"
  BY <1>1, <1>4 DEF Fetch
<1>5. CASE Head(todo) = "rules"
  BY <1>2, <1>3, <1>5 DEF Fetch, UsesFiles
<1> QED BY <1>0, <1>4, <1>5

\* The installer never puts a marker next to a link.
LEMMA LinksUnmarkedStep ==
    ASSUME Inductive, LinksUnmarked, [Next]_vars
    PROVE  LinksUnmarked'
<1> USE DEF Inductive, LinksUnmarked, Stages, PairStages
<1>0. new.bin # Link /\ None # Link
  BY InstallerAssumption DEF TypeInv, CommandType
<1>1. CASE UNCHANGED <<bin, marker, before>>
  BY <1>1
<1>2. CASE NextResource
  <2>1. before' = [bin |-> bin, marker |-> marker, rules |-> rules] /\ UNCHANGED <<bin, marker>>
    BY <1>2 DEF NextResource, Local, disk
  <2> QED BY <2>1
<1>3. CASE PlaceBin \/ PlaceMarker
  BY <1>0, <1>3 DEF PlaceBin, PlaceMarker, Go
<1>4. CASE UndoBin \/ UndoMarker
  <2>1. before' = before
    BY <1>4 DEF UndoBin, UndoMarker, End
  <2>2. marker' = None \/ (bin' = before.bin /\ marker' = before.marker)
    BY <1>4 DEF UndoBin, UndoMarker, RestoredBin, RestoredMarker, BinSaved, MarkerSaved
  <2> QED BY <2>1, <2>2
<1>5. CASE BackupBin \/ BackupMarker \/ DropBin \/ RemoveBin \/ RemoveMarker \/ PurgeBinEntry
  BY <1>0, <1>5 DEF BackupBin, BackupMarker, DropBin, RemoveBin, RemoveMarker, PurgeBinEntry, Go,
                    ResourceDone, End, command
<1>6. CASE MakeLink
  BY <1>6 DEF MakeLink
<1>7. CASE (\E options \in Requests : Begin(options)) \/ AllDone \/ Resolve \/ Fetch \/ FetchFails
           \/ Clear \/ Cleanup \/ ReplaceRules \/ RemoveRulesEntry \/ RemoveRules \/ PurgeBin
           \/ PurgeRules \/ CallFails \/ Kill \/ UNCHANGED vars
  BY <1>1, <1>7 DEF Begin, AllDone, Resolve, Fetch, FetchFails, Clear, Cleanup, ReplaceRules,
     ClearRules, BackupRules, BackupRulesFails, PlaceRules, CleanupRules, UndoRules,
     RemoveRulesEntry, RemoveRules, PurgeBin, PurgeRules, CallFails, Kill, Local, End, Go, FailsTo,
     ResourceDone, disk, singBox, command, vars
<1> QED BY <1>2, <1>3, <1>4, <1>5, <1>6, <1>7 DEF Next, Install, ReplacePair, Uninstall

\* A purge takes more away; what had to be gone stays gone.
LEMMA PaidPurge ==
    ASSUME Paid, job.operation = "uninstall", UNCHANGED <<job, todo>>,
           bin = None => bin' = None, marker = None => marker' = None, rules = None => rules' = None
    PROVE  Paid'
BY DEF Paid, Owed

\* Every step of replacePair, and of what undoes it.
LEMMA PairProgress ==
    ASSUME Inductive, Progress, ReplacePair
    PROVE  Working' /\ (pc' # "idle" => Paid')
<1> USE DEF Inductive, Progress, PairSteps, RulesSteps, Stages, PairStages, Running
<1>0. /\ pc \in PairSteps /\ pc # "idle" /\ todo # <<>> /\ Head(todo) = "sing-box" /\ Paid
      /\ UNCHANGED <<rules, job>>
  BY DEF ReplacePair, Clear, BackupBin, BackupMarker, PlaceBin, PlaceMarker, Cleanup, DropBin,
         UndoBin, UndoMarker, Go, End, ResourceDone, rulesTree, Working, TypeInv, Ready
<1>1. UNCHANGED todo => Paid'
  BY <1>0, PaidFrame
<1>2. UNCHANGED new => SingBoxAsked(new.bin)' = SingBoxAsked(new.bin)
  BY <1>0 DEF SingBoxAsked, Expected
<1>3. CASE Clear \/ BackupBin \/ BackupMarker \/ PlaceBin
  BY <1>0, <1>1, <1>2, <1>3 DEF Clear, BackupBin, BackupMarker, PlaceBin, Go, Working
<1>4. CASE PlaceMarker
  <2>1. bin' = new.bin /\ UNCHANGED <<new, todo>> /\ pc' = "cleanup" /\ job.operation # "uninstall"
    BY <1>4 DEF PlaceMarker, Go, Working
  <2>2. SingBoxAsked(bin)'
    BY <1>0, <1>4, <2>1 DEF Working, SingBoxAsked, Expected, PlaceMarker, Go
  <2> QED BY <1>0, <1>1, <2>1, <2>2 DEF Working
<1>5. CASE Cleanup
  <2>1. /\ ResourceDone /\ UNCHANGED bin /\ job.operation # "uninstall" /\ SingBoxAsked(bin)
        /\ pc' = "next"
    BY <1>5 DEF Cleanup, Working, ResourceDone
  <2>2. Owed("sing-box")'
    BY <1>0, <2>1 DEF Owed, SingBoxAsked, Expected
  <2>3. Paid'
    BY <1>0, <2>1, <2>2, PaidDone
  <2> QED BY <2>1, <2>3 DEF Working
<1>6. CASE DropBin \/ UndoBin \/ UndoMarker
  <2>1. UNCHANGED todo /\ pc' \in {"undoBin", "undoMarker", "idle"}
    BY <1>6 DEF DropBin, UndoBin, UndoMarker, Go, End
  <2> QED BY <1>0, <1>1, <2>1 DEF Working
<1> QED BY <1>3, <1>4, <1>5, <1>6 DEF ReplacePair

\* Every step of replaceRulesDir, and of what undoes it.
LEMMA RulesProgress ==
    ASSUME Inductive, Progress, ReplaceRules
    PROVE  Working' /\ (pc' # "idle" => Paid')
<1> USE DEF Inductive, Progress, PairSteps, RulesSteps, Stages, RulesStages, Running
<1>0. /\ pc \in RulesSteps /\ pc # "idle" /\ todo # <<>> /\ Head(todo) = "rules" /\ Paid
      /\ UNCHANGED <<bin, marker, job>>
  BY DEF ReplaceRules, ClearRules, BackupRules, BackupRulesFails, PlaceRules, CleanupRules,
         UndoRules, Go, End, Local, disk, ResourceDone, singBox, Working, TypeInv, Ready
<1>1. UNCHANGED todo => Paid'
  BY <1>0, PaidFrame
<1>2. UNCHANGED new => RulesAsked(new.rules)' = RulesAsked(new.rules)
  BY <1>0 DEF RulesAsked, Expected
<1>3. CASE ClearRules \/ BackupRules
  BY <1>0, <1>1, <1>2, <1>3 DEF ClearRules, BackupRules, Go, Working
<1>4. CASE PlaceRules
  <2>1. rules' = new.rules /\ UNCHANGED <<new, todo>> /\ pc' = "cleanupRules"
        /\ job.operation # "uninstall"
    BY <1>4 DEF PlaceRules, Go, Working
  <2>2. RulesAsked(rules)'
    BY <1>0, <1>4, <2>1 DEF Working, RulesAsked, Expected, PlaceRules, Go
  <2> QED BY <1>0, <1>1, <2>1, <2>2 DEF Working
<1>5. CASE CleanupRules
  <2>1. /\ ResourceDone /\ UNCHANGED rules /\ job.operation # "uninstall" /\ RulesAsked(rules)
        /\ pc' = "next"
    BY <1>5 DEF CleanupRules, Working, ResourceDone
  <2>2. Owed("rules")'
    BY <1>0, <2>1 DEF Owed, RulesAsked, Expected
  <2>3. Paid'
    BY <1>0, <2>1, <2>2, PaidDone
  <2> QED BY <2>1, <2>3 DEF Working
<1>6. CASE BackupRulesFails \/ UndoRules
  BY <1>6 DEF BackupRulesFails, UndoRules, End, Working
<1> QED BY <1>3, <1>4, <1>5, <1>6 DEF ReplaceRules

\* Every step of an uninstall.
LEMMA UninstallProgress ==
    ASSUME Inductive, Progress, Uninstall
    PROVE  Working' /\ (pc' # "idle" => Paid') /\ DoneIsDone'
<1> USE DEF Inductive, Progress, PairSteps, RulesSteps, Stages, Running
<1>0. /\ Paid /\ pc # "idle" /\ job.operation = "uninstall" /\ result = "running" /\ UNCHANGED job
      /\ pc \notin {"purgeBin", "purgeRules"} => todo # <<>>
  BY DEF Uninstall, RemoveBin, RemoveMarker, RemoveRulesEntry, RemoveRules, PurgeBinEntry,
         PurgeBin, PurgeRules, Go, End, ResourceDone, command, TypeInv, Ready
<1>1. CASE RemoveBin
  <2>1. CASE pc' = "idle"
    BY <1>1, <2>1 DEF RemoveBin, End, Working, DoneIsDone
  <2>2. CASE pc' # "idle"
    <3>1. bin' = None /\ pc' = "removeMarker" /\ UNCHANGED <<todo, result, rules>>
      BY <1>1, <2>2 DEF RemoveBin, End, rulesTree
    <3>2. Head(todo) = "sing-box"
      BY <1>1 DEF RemoveBin, Working
    <3> QED BY <1>0, <1>1, <3>1, <3>2, PaidFrame DEF RemoveBin, Working, DoneIsDone
  <2> QED BY <2>1, <2>2
<1>2. CASE RemoveMarker
  <2>1. /\ bin' = None /\ marker' = None /\ ResourceDone /\ UNCHANGED <<rules, result>>
        /\ pc' = "next" /\ Head(todo) = "sing-box" /\ pc = "removeMarker"
    BY <1>2 DEF RemoveMarker, Working, ResourceDone, rulesTree
  <2>2. Paid'
    BY <1>0, <2>1, PaidDone DEF Owed
  <2> QED BY <1>0, <2>1, <2>2 DEF Working, DoneIsDone
<1>3. CASE RemoveRulesEntry
  <2>1. UNCHANGED <<bin, marker, pc, job, todo, new, result>> /\ rules # None
        /\ pc \in {"removeRules", "purgeRules"}
    BY <1>3 DEF RemoveRulesEntry, singBox, command, EmptyRules
  <2>2. Paid'
    BY <1>0, <2>1, PaidPurge
  <2> QED BY <1>0, <2>1, <2>2 DEF Working, DoneIsDone
<1>4. CASE RemoveRules
  <2>1. CASE pc' = "idle"
    BY <1>4, <2>1 DEF RemoveRules, End, ResourceDone, Working, DoneIsDone
  <2>2. CASE pc' # "idle"
    <3>1. /\ rules' = None /\ ResourceDone /\ UNCHANGED <<bin, marker, result>> /\ pc' = "next"
          /\ Head(todo) = "rules" /\ pc = "removeRules"
      BY <1>4, <2>2 DEF RemoveRules, End, ResourceDone, singBox, Working
    <3>2. Paid'
      BY <1>0, <3>1, PaidDone DEF Owed
    <3> QED BY <1>0, <3>1, <3>2 DEF Working, DoneIsDone
  <2> QED BY <2>1, <2>2
<1>5. CASE PurgeBinEntry \/ PurgeBin
  <2>1. /\ bin = None => bin' = None
        /\ marker = None => marker' = None
        /\ UNCHANGED <<rules, todo, result>> /\ pc = "purgeBin" /\ pc' \in {"purgeBin", "purgeRules"}
    BY <1>5 DEF PurgeBinEntry, PurgeBin, Go, rulesTree, command, disk
  <2>2. Paid'
    BY <1>0, <2>1, PaidPurge
  <2> QED BY <1>0, <2>1, <2>2 DEF Working, DoneIsDone
<1>6. CASE PurgeRules
  <2>1. rules' = None /\ UNCHANGED <<bin, marker, job, todo>> /\ pc' = "idle" /\ todo = <<>>
    BY <1>6 DEF PurgeRules, End, singBox, Working
  <2>2. Paid'
    BY <1>0, <2>1, PaidPurge
  <2>3. \A r \in Listed(Resources(job'.resource)) : Owed(r)'
    BY <2>1, <2>2, ListedLists DEF Paid
  <2> QED BY <2>1, <2>3 DEF Working, DoneIsDone
<1> QED BY <1>1, <1>2, <1>3, <1>4, <1>5, <1>6 DEF Uninstall

\* Every step of installAll and installOne.
LEMMA InstallProgress ==
    ASSUME Inductive, Progress, Install
    PROVE  Working' /\ (pc' # "idle" => Paid') /\ DoneIsDone'
<1> USE DEF Inductive, Progress, PairSteps, RulesSteps, Stages, Running
<1>0. /\ Paid /\ pc # "idle" /\ result = "running" /\ UNCHANGED <<bin, marker, rules, job>>
  BY DEF Install, NextResource, AllDone, Resolve, Fetch, FetchFails, Local, End, ResourceDone, disk
<1>1. UNCHANGED todo => Paid'
  BY <1>0, PaidFrame
<1>2. CASE NextResource
  <2>1. Head(todo) \in {"sing-box", "rules"} /\ UNCHANGED <<todo, result>>
    BY <1>2, ListsTyped DEF NextResource, TypeInv, CommandType
  <2>2. \/ pc' = "removeBin" /\ Head(todo) = "sing-box"
        \/ pc' = "removeRules" /\ Head(todo) = "rules"
        \/ pc' = "resolve" /\ job.operation # "uninstall"
    BY <1>2, <2>1 DEF NextResource
  <2> QED BY <1>0, <1>1, <2>1, <2>2 DEF Working, DoneIsDone
<1>3. CASE AllDone
  <2>1. todo = <<>> /\ UNCHANGED todo
    BY <1>3 DEF AllDone, End
  <2>2. \A r \in Listed(Resources(job'.resource)) : Owed(r)'
    BY <1>1, <2>1, ListedLists DEF Paid
  <2>3. pc' \in {"purgeBin", "idle"}
    BY <1>3 DEF AllDone, End
  <2> QED BY <1>1, <2>1, <2>2, <2>3 DEF Working, DoneIsDone
<1>4. CASE Resolve
  <2>1. CASE pc' = "idle"
    BY <1>4, <2>1 DEF Resolve, End, ResourceDone, Working, DoneIsDone
  <2>2. CASE pc' = "next"
    <3>1. /\ Skips /\ ResourceDone /\ pc = "resolve" /\ job.operation # "uninstall"
          /\ todo # <<>> /\ Head(todo) \in {"sing-box", "rules"}
      BY <1>4, <2>2, ListsTyped DEF Resolve, End, Working, TypeInv, CommandType, Ready
    <3>2. \/ Head(todo) = "sing-box" /\ Owed("sing-box")'
          \/ Head(todo) = "rules" /\ Owed("rules")'
      BY <1>0, <3>1, SkippedIsThere, OwedFrame
    <3>3. Paid'
      BY <1>0, <3>1, <3>2, PaidDone
    <3> QED BY <1>0, <2>2, <3>1, <3>3 DEF Working, DoneIsDone, ResourceDone
  <2>3. CASE pc' = "fetch"
    BY <1>0, <1>1, <1>4, <2>3 DEF Resolve, End, ResourceDone, Working, DoneIsDone
  <2> QED BY <1>4, <2>1, <2>2, <2>3 DEF Resolve, End, ResourceDone
<1>5. CASE Fetch
  <2>1. UNCHANGED <<todo, result>> /\ pc = "fetch" /\ job.operation # "uninstall"
    BY <1>5 DEF Fetch, Working
  <2>2. /\ pc' \in {"clear", "clearRules"}
        /\ pc' = "clear" => Head(todo) = "sing-box" /\ SingBoxAsked(new.bin)'
        /\ pc' = "clearRules" => Head(todo) = "rules" /\ RulesAsked(new.rules)'
    BY <1>5, <2>1, StagedTyped, StagedAsked DEF TypeInv
  <2> QED BY <1>0, <1>1, <2>1, <2>2 DEF Working, DoneIsDone
<1>6. CASE FetchFails
  BY <1>6 DEF FetchFails, End, Working, DoneIsDone
<1> QED BY <1>2, <1>3, <1>4, <1>5, <1>6 DEF Install

LEMMA ProgressStep ==
    ASSUME Inductive, Progress, [Next]_vars
    PROVE  Progress'
<1> USE DEF Inductive, Progress, PairSteps, RulesSteps, Stages, Running
<1>0. LinksUnmarked'
  BY LinksUnmarkedStep
<1>1. ASSUME NEW options \in Requests, Begin(options) PROVE Progress'
  BY <1>0, <1>1 DEF Begin, Working, Paid, DoneIsDone
<1>2. CASE Install \/ Uninstall
  BY <1>0, <1>2, InstallProgress, UninstallProgress
<1>3. CASE ReplacePair \/ ReplaceRules
  <2>1. pc # "idle" /\ result' # "ok"
    BY <1>3 DEF ReplacePair, ReplaceRules, Clear, BackupBin, BackupMarker, PlaceBin, PlaceMarker,
       Cleanup, DropBin, UndoBin, UndoMarker, ClearRules, BackupRules, BackupRulesFails, PlaceRules,
       CleanupRules, UndoRules, Go, End, ResourceDone
  <2> QED BY <1>0, <1>3, <2>1, PairProgress, RulesProgress DEF DoneIsDone
<1>4. CASE CallFails
  <2>1. UNCHANGED <<bin, marker, rules, job, todo, new>>
    BY <1>4 DEF CallFails, End, FailsTo, disk
  <2>2. CASE pc' = "idle"
    BY <1>0, <1>4, <2>2 DEF CallFails, End, FailsTo, Working, DoneIsDone
  <2>3. CASE pc' # "idle"
    <3>1. \/ FailsTo("backupMarker", "restoreBin") \/ FailsTo("placeBin", "undoBin")
          \/ FailsTo("placeMarker", "dropBin") \/ FailsTo("placeRules", "undoRules")
      BY <1>4, <2>3 DEF CallFails, End
    <3>2. pc # "idle"
      BY <3>1 DEF FailsTo
    <3>3. Paid'
      BY <2>1, <3>2, PaidFrame
    <3> QED BY <1>0, <2>1, <3>1, <3>2, <3>3 DEF FailsTo, Working, DoneIsDone
  <2> QED BY <2>2, <2>3
<1>5. CASE Kill \/ MakeLink
  BY <1>0, <1>5 DEF Kill, MakeLink, End, Working, DoneIsDone
<1>6. CASE UNCHANGED vars
  <2>1. UNCHANGED <<bin, marker, rules, pc, job, todo, new, result>>
    BY <1>6 DEF vars, disk, command
  <2>2. Paid' = Paid /\ DoneIsDone' = DoneIsDone /\ Working' = Working
    BY <2>1 DEF Paid, DoneIsDone, Working, Owed, SingBoxAsked, RulesAsked, Expected
  <2> QED BY <1>0, <2>1, <2>2
<1> QED BY <1>1, <1>2, <1>3, <1>4, <1>5, <1>6 DEF Next

(* A command that reports success, having skipped what was there or not,   *)
(* leaves a binary and rules that a download of the checksum asked for     *)
(* explains, and after an uninstall nothing: whatever the earlier commands *)
(* left behind when they failed or were killed.                            *)
THEOREM SuccessIsDone == Spec => []DoneIsDone
<1>1. Init => Progress
  BY DEF Init, Progress, LinksUnmarked, Working, DoneIsDone, PairSteps, RulesSteps
<1>2. Inductive /\ Progress /\ [Next]_vars => Progress'
  BY ProgressStep
<1>3. Progress => DoneIsDone
  BY DEF Progress
<1> QED BY <1>1, <1>2, <1>3, AlwaysInductive, PTL DEF Spec
=============================================================================
