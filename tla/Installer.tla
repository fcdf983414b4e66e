------------------------------ MODULE Installer ------------------------------
(***************************************************************************)
(* sboxctl install, update and uninstall: the sing-box binary with the     *)
(* marker that says what it was made from, and the rules directory with    *)
(* its marker inside.  Nothing is written in place: the old pair, or the   *)
(* old directory, is renamed to ".previous", the new one renamed in, and   *)
(* an error renames the old one back.  No command looks for a ".previous"  *)
(* that an earlier, killed command left.                                   *)
(*                                                                         *)
(* A content is what a file holds, and stands for its sha256 as well.      *)
(* Temporary files and the download cache are left out: no later command   *)
(* reads them.                                                             *)
(***************************************************************************)
EXTENDS Naturals, Sequences

CONSTANTS
    Contents,       \* what can be downloaded, extracted and installed
    Names,          \* member names of an archive, and file names under rules/
    UnsafeNames,    \* names validateArchiveName refuses
    BinaryNames,    \* names whose last segment is "sing-box"
    Archive,        \* [Contents -> Seq(Names \X Contents) \cup {None}]: the members, in order
    BuiltinSingBox, \* the built-in sources: the sha256 of the archive,
    BuiltinRules,   \* and a sha256 for each rules file
    Requests,       \* the commands offered, a set of Options
    None,           \* no file, no directory, an option not given
    Link,           \* a symbolic link made by hand
    Digest,         \* a rules marker of an archive: one line, no file names
    MaxCommands,    \* bound on the commands
    MaxLinks,       \* bound on the links made by hand
    MaxFaults       \* bound on failing system calls and killed commands

\* The flags of a command.  Without a custom source the built-in one is used.
Options == [operation : {"install", "update", "uninstall"},
            resource : {"sing-box", "rules", "all"},
            source : {"builtin", "remote", "local"},
            sha : Contents \cup {None},
            member : Names \cup {None},
            purge : BOOLEAN]

Files == [Names -> Contents \cup {None}]
NoFiles == [n \in Names |-> None]

ASSUME InstallerAssumption ==
    /\ {None, Link, Digest} \cap (Contents \cup Names \cup Files) = {}
    /\ None # Link /\ None # Digest /\ Link # Digest
    /\ {None, Link} \cap [files : Files, marker : Files \cup {Digest, None}] = {}
    /\ UnsafeNames \subseteq Names /\ BinaryNames \subseteq Names
    /\ Archive \in [Contents -> Seq(Names \X Contents) \cup {None}]
    /\ BuiltinSingBox \in Contents
    /\ BuiltinRules \in Files
    /\ Requests \subseteq Options
    /\ MaxCommands \in Nat /\ MaxLinks \in Nat /\ MaxFaults \in Nat

VARIABLES
    bin,        \* bin/sing-box, and bin/sing-box.previous
    binPrevious,
    marker,     \* bin/.sing-box.managed, and its .previous
    markerPrevious,
    rules,      \* rules/: the files and the marker in it, and rules.previous
    rulesPrevious,
    pc,         \* where the command is
    job,        \* its options
    todo,       \* the resources it has not reached
    new,        \* what it is about to install
    had,        \* what it found in the place of it
    result,     \* how the last command ended
    before,     \* history: what was installed when it turned to this resource
    commands, links, faults

disk == <<bin, binPrevious, marker, markerPrevious, rules, rulesPrevious>>
singBox == <<bin, binPrevious, marker, markerPrevious>>
rulesTree == <<rules, rulesPrevious>>
command == <<pc, job, todo, new, had, result, before>>
bounds == <<commands, links, faults>>
vars == <<disk, command, bounds>>

-----------------------------------------------------------------------------
(* Sources, archives and markers *)

\* singBoxMarkerData; the payload's own sha256 is written and never read.
Marker == [payload : Contents, source : Contents \cup {None}, member : Names \cup {None}]

RulesMarker == Files \cup {Digest, None}
RulesDir == [files : Files, marker : RulesMarker]

\* expandResources
Resources(resource) ==
    CASE resource = "all" -> <<"sing-box", "rules">>
      [] OTHER -> <<resource>>

\* resolveSource refuses a remote source without a checksum.
Resolves(options) == ~(options.source = "remote" /\ options.sha = None)

\* The sha256 a download of the sing-box, or of a rules archive, must have.
Expected(options) == IF options.source = "builtin" THEN BuiltinSingBox ELSE options.sha

\* verifySHA256, which fetch skips when no sha256 is asked for.
Verified(content, sha) == sha # None => content = sha

SafeArchive(content) ==
    \A k \in DOMAIN Archive[content] : Archive[content][k][1] \notin UnsafeNames

Matches(content, member) ==
    {k \in DOMAIN Archive[content] :
        IF member = None THEN Archive[content][k][1] \in BinaryNames
                         ELSE Archive[content][k][1] = member}

(***************************************************************************)
(* extractSingBox: the first member of the archive that matches, or the    *)
(* download itself when it is no archive.  None is an error.               *)
(***************************************************************************)
Extracted(content, member) ==
    IF Archive[content] = None THEN IF member = None THEN content ELSE None
    ELSE IF ~SafeArchive(content) \/ Matches(content, member) = {} THEN None
    ELSE LET first == CHOOSE k \in Matches(content, member) :
                          \A l \in Matches(content, member) : k <= l
         IN Archive[content][first][2]

\* extractArchiveToDir: no archive, an unsafe name or a name that is there twice is an error.
Unpacked(content) ==
    IF Archive[content] = None THEN None
    ELSE IF ~SafeArchive(content) THEN None
    ELSE IF \E k, l \in DOMAIN Archive[content] :
                k # l /\ Archive[content][k][1] = Archive[content][l][1] THEN None
    ELSE [n \in Names |->
             IF \E k \in DOMAIN Archive[content] : Archive[content][k][1] = n
             THEN LET k == CHOOSE k \in DOMAIN Archive[content] : Archive[content][k][1] = n
                  IN Archive[content][k][2]
             ELSE None]

\* rejectUnmanagedSymlink
Unmanaged(file, mark) == file = Link /\ mark = None

\* singBoxSourceInstalled: what the marker says, whatever the binary holds.
SingBoxInstalled(sha, member) ==
    /\ bin # None /\ marker # None
    /\ marker.source = sha
    /\ member # None => marker.member = member

\* Mutant: the files are not looked for.
MarkerLists(listed) ==
    /\ rules \notin {None, Link}
    /\ rules.marker \notin {Digest, None}
    /\ \A n \in Names : listed[n] # None => rules.marker[n] = listed[n]

\* rulesFilesInstalled: every file is in the marker, with its sha256, and on the disk.
RulesInstalled(listed) ==
    /\ rules \notin {None, Link}
    /\ rules.marker \notin {Digest, None}
    /\ \A n \in Names : listed[n] # None =>
          rules.marker[n] = listed[n] /\ rules.files[n] # None

-----------------------------------------------------------------------------
NoJob == [operation |-> "install", resource |-> "all", source |-> "builtin",
          sha |-> None, member |-> None, purge |-> FALSE]

NewNothing == [bin |-> None, marker |-> None, rules |-> None]
HadNothing == [bin |-> FALSE, marker |-> FALSE, rules |-> FALSE]

Init ==
    /\ bin = None /\ binPrevious = None
    /\ marker = None /\ markerPrevious = None
    /\ rules = None /\ rulesPrevious = None
    /\ pc = "idle" /\ job = NoJob /\ todo = <<>>
    /\ new = NewNothing /\ had = HadNothing
    /\ result = "none"
    /\ before = [bin |-> None, marker |-> None, rules |-> None]
    /\ commands = 0 /\ links = 0 /\ faults = 0

\* A step of the command that leaves the disk alone.
Local == UNCHANGED <<disk, bounds>>

Begin(options) ==
    /\ pc = "idle" /\ commands < MaxCommands
    /\ commands' = commands + 1
    /\ job' = options
    /\ todo' = Resources(options.resource)
    /\ pc' = "next" /\ result' = "running"
    /\ UNCHANGED <<disk, new, had, before, links, faults>>

End(how) ==
    /\ pc' = "idle" /\ result' = how
    /\ UNCHANGED <<job, todo, new, had, before>>

\* The next resource of the command, or the end of it.
NextResource ==
    /\ pc = "next" /\ todo # <<>>
    /\ pc' = IF job.operation = "uninstall"
             THEN IF Head(todo) = "sing-box" THEN "removeBin" ELSE "removeRules"
             ELSE "resolve"
    /\ before' = [bin |-> bin, marker |-> marker, rules |-> rules]
    /\ Local /\ UNCHANGED <<job, todo, new, had, result>>

AllDone ==
    /\ pc = "next" /\ todo = <<>>
    /\ Local
    /\ IF job.operation = "uninstall" /\ job.purge
       THEN pc' = "purgeBin" /\ UNCHANGED <<job, todo, new, had, result, before>>
       ELSE End("ok")

\* The rest of the command when this resource is installed or gone.
ResourceDone ==
    /\ pc' = "next" /\ todo' = Tail(todo)
    /\ UNCHANGED <<job, new, had, result, before>>

UsesFiles == Head(todo) = "rules" /\ job.source = "builtin"

(***************************************************************************)
(* installOne: resolve the source; "install" skips what the marker says is *)
(* there already, for a source with a checksum, "update" never does.       *)
(***************************************************************************)
Skips ==
    /\ job.operation = "install"
    /\ IF Head(todo) = "sing-box"
       THEN Expected(job) # None /\ SingBoxInstalled(Expected(job), job.member)
       ELSE UsesFiles /\ RulesInstalled(BuiltinRules)

Resolve ==
    /\ pc = "resolve"
    /\ Local
    /\ IF ~Resolves(job) THEN End("error")
       ELSE IF Skips THEN ResourceDone
       ELSE pc' = "fetch" /\ UNCHANGED <<job, todo, new, had, result, before>>

(***************************************************************************)
(* fetch, extract and stage: the source may serve any content, or nothing. *)
(* What is verified is extracted next to its target; the refusal of a link *)
(* comes last.                                                             *)
(***************************************************************************)
\* Mutant: a link in the way is not looked for.
StageOverLink(content) ==
    LET payload == Extracted(content, job.member)
    IN /\ Verified(content, Expected(job))
       /\ payload # None
       /\ new' = [new EXCEPT !.bin = payload,
                             !.marker = [payload |-> payload, source |-> Expected(job),
                                         member |-> job.member]]
       /\ pc' = "clear"

\* Mutant: an archive without the member installs an empty file.
StageAnything(content) ==
    LET payload == Extracted(content, job.member)
    IN /\ Verified(content, Expected(job))
       /\ ~Unmanaged(bin, marker)
       /\ new' = [new EXCEPT !.bin = payload,
                             !.marker = [payload |-> payload, source |-> Expected(job),
                                         member |-> job.member]]
       /\ pc' = "clear"

StageSingBox(content) ==
    LET payload == Extracted(content, job.member)
    IN /\ Verified(content, Expected(job))
       /\ payload # None
       /\ ~Unmanaged(bin, marker)
       /\ new' = [new EXCEPT !.bin = payload,
                             !.marker = [payload |-> payload, source |-> Expected(job),
                                         member |-> job.member]]
       /\ pc' = "clear"

StageArchive(content) ==
    /\ Verified(content, Expected(job))
    /\ Unpacked(content) # None
    /\ rules # Link
    /\ new' = [new EXCEPT !.rules = [files |-> Unpacked(content), marker |-> Digest]]
    /\ pc' = "clearRules"

\* installRulesFiles, every file verified before any is in place.
StageFiles(files) ==
    /\ \A n \in Names : Verified(files[n], BuiltinRules[n])
    /\ \A n \in Names : BuiltinRules[n] = None => files[n] = None
    /\ rules # Link
    /\ new' = [new EXCEPT !.rules = [files |-> files, marker |-> files]]
    /\ pc' = "clearRules"

Fetch ==
    /\ pc = "fetch"
    /\ IF Head(todo) = "sing-box" THEN \E content \in Contents : StageSingBox(content)
       ELSE IF UsesFiles THEN \E files \in Files : StageFiles(files)
       ELSE \E content \in Contents : StageArchive(content)
    /\ Local /\ UNCHANGED <<job, todo, had, result, before>>

\* No answer, another content, no member, a link in the way: nothing has been touched.
FetchFails ==
    /\ pc = "fetch"
    /\ Local /\ End("error")

-----------------------------------------------------------------------------
(* replacePair *)

Go(from, to) ==
    /\ pc = from /\ pc' = to
    /\ UNCHANGED <<job, todo, new, result, before, bounds>>

\* An error of removing an old backup is ignored: it may stay.
Clear ==
    /\ Go("clear", "backupBin")
    /\ binPrevious' \in {None, binPrevious} /\ markerPrevious' \in {None, markerPrevious}
    /\ UNCHANGED <<bin, marker, rulesTree, had>>

\* renameIfExists, over a backup that stayed
BackupBin ==
    /\ Go("backupBin", "backupMarker")
    /\ had' = [had EXCEPT !.bin = (bin # None)]
    /\ IF bin # None THEN binPrevious' = bin /\ bin' = None
                     ELSE UNCHANGED <<bin, binPrevious>>
    /\ UNCHANGED <<marker, markerPrevious, rulesTree>>

\* Mutant: the old marker is left where it is until the new one is renamed over it.
KeepMarker ==
    /\ Go("backupMarker", "placeBin")
    /\ had' = [had EXCEPT !.marker = (marker # None)]
    /\ UNCHANGED disk

BackupMarker ==
    /\ Go("backupMarker", "placeBin")
    /\ had' = [had EXCEPT !.marker = (marker # None)]
    /\ IF marker # None THEN markerPrevious' = marker /\ marker' = None
                        ELSE UNCHANGED <<marker, markerPrevious>>
    /\ UNCHANGED <<bin, binPrevious, rulesTree>>

PlaceBin ==
    /\ Go("placeBin", "placeMarker")
    /\ bin' = new.bin
    /\ UNCHANGED <<binPrevious, marker, markerPrevious, rulesTree, had>>

PlaceMarker ==
    /\ Go("placeMarker", "cleanup")
    /\ marker' = new.marker
    /\ UNCHANGED <<bin, binPrevious, markerPrevious, rulesTree, had>>

Cleanup ==
    /\ pc = "cleanup"
    /\ binPrevious' \in {None, binPrevious} /\ markerPrevious' \in {None, markerPrevious}
    /\ ResourceDone
    /\ UNCHANGED <<bin, marker, rulesTree, bounds>>

-----------------------------------------------------------------------------
(* What an error in the middle of it undoes.  The errors of the undoing    *)
(* are ignored by the code; here it does not fail, though it can be killed *)

\* os.Remove of the new binary, when its marker could not be put in place.
DropBin ==
    /\ Go("dropBin", "undoBin")
    /\ bin' = None
    /\ UNCHANGED <<binPrevious, marker, markerPrevious, rulesTree, had>>

\* restoreFile: the backup goes back; without one, what is there goes.
RestoredBin == IF had.bin THEN binPrevious ELSE None
RestoredMarker == IF had.marker THEN markerPrevious ELSE None

\* Mutant: the binary goes back and the marker is forgotten.
UndoBinOnly ==
    /\ pc \in {"undoBin", "restoreBin"}
    /\ bin' = RestoredBin
    /\ binPrevious' = IF had.bin THEN None ELSE binPrevious
    /\ End("error")
    /\ UNCHANGED <<marker, markerPrevious, rulesTree, bounds>>

UndoBin ==
    /\ pc \in {"undoBin", "restoreBin"}
    /\ bin' = RestoredBin
    /\ binPrevious' = IF had.bin THEN None ELSE binPrevious
    /\ IF pc = "undoBin" THEN pc' = "undoMarker" /\ UNCHANGED <<job, todo, new, had, result, before>>
       ELSE End("error")
    /\ UNCHANGED <<marker, markerPrevious, rulesTree, bounds>>

UndoMarker ==
    /\ pc = "undoMarker"
    /\ marker' = RestoredMarker
    /\ markerPrevious' = IF had.marker THEN None ELSE markerPrevious
    /\ End("error")
    /\ UNCHANGED <<bin, binPrevious, rulesTree, bounds>>

-----------------------------------------------------------------------------
(* replaceRulesDir *)

ClearRules ==
    /\ Go("clearRules", "backupRules")
    /\ rulesPrevious' \in {None, rulesPrevious}
    /\ UNCHANGED <<rules, singBox, had>>

\* A directory is not renamed over a backup that stayed.
BackupRules ==
    /\ rules = None \/ rulesPrevious = None
    /\ Go("backupRules", "placeRules")
    /\ had' = [had EXCEPT !.rules = (rules # None)]
    /\ IF rules # None THEN rulesPrevious' = rules /\ rules' = None
                       ELSE UNCHANGED rulesTree
    /\ UNCHANGED singBox

BackupRulesFails ==
    /\ pc = "backupRules" /\ rules # None /\ rulesPrevious # None
    /\ Local /\ End("error")

PlaceRules ==
    /\ Go("placeRules", "cleanupRules")
    /\ rules' = new.rules
    /\ UNCHANGED <<rulesPrevious, singBox, had>>

CleanupRules ==
    /\ pc = "cleanupRules"
    /\ rulesPrevious' \in IF had.rules THEN {None, rulesPrevious} ELSE {rulesPrevious}
    /\ ResourceDone
    /\ UNCHANGED <<rules, singBox, bounds>>

UndoRules ==
    /\ pc = "undoRules"
    /\ IF had.rules THEN rules' = rulesPrevious /\ rulesPrevious' = None
                    ELSE UNCHANGED rulesTree
    /\ End("error")
    /\ UNCHANGED <<singBox, bounds>>

-----------------------------------------------------------------------------
(* uninstall, and the purge of the managed directories *)

RemoveBin ==
    /\ pc = "removeBin"
    /\ IF Unmanaged(bin, marker) THEN End("error") /\ UNCHANGED bin
       ELSE /\ bin' = None
            /\ pc' = "removeMarker" /\ UNCHANGED <<job, todo, new, had, result, before>>
    /\ UNCHANGED <<binPrevious, marker, markerPrevious, rulesTree, bounds>>

RemoveMarker ==
    /\ pc = "removeMarker"
    /\ marker' = None
    /\ ResourceDone
    /\ UNCHANGED <<bin, binPrevious, markerPrevious, rulesTree, bounds>>

\* os.RemoveAll takes the entries of a directory one by one, the directory last.
TakeEntry ==
    \/ \E n \in Names :
          /\ rules.files[n] # None
          /\ rules' = [rules EXCEPT !.files[n] = None]
    \/ /\ rules.marker # None
       /\ rules' = [rules EXCEPT !.marker = None]

EmptyRules == rules \in {None, Link} \/ rules = [files |-> NoFiles, marker |-> None]

RemoveRulesEntry ==
    /\ pc \in {"removeRules", "purgeRules"}
    /\ ~EmptyRules /\ TakeEntry
    /\ UNCHANGED <<rulesPrevious, singBox, command, bounds>>

RemoveRules ==
    /\ pc = "removeRules" /\ EmptyRules
    /\ IF rules = Link THEN End("error") /\ UNCHANGED rules
                       ELSE rules' = None /\ ResourceDone
    /\ UNCHANGED <<rulesPrevious, singBox, bounds>>

\* PurgeManaged: the whole bin directory, a link in it too, then the rules.
PurgeBinEntry ==
    /\ pc = "purgeBin"
    /\ \/ bin # None /\ bin' = None /\ UNCHANGED <<binPrevious, marker, markerPrevious>>
       \/ binPrevious # None /\ binPrevious' = None /\ UNCHANGED <<bin, marker, markerPrevious>>
       \/ marker # None /\ marker' = None /\ UNCHANGED <<bin, binPrevious, markerPrevious>>
       \/ markerPrevious # None /\ markerPrevious' = None /\ UNCHANGED <<bin, binPrevious, marker>>
    /\ UNCHANGED <<rulesTree, command, bounds>>

PurgeBin ==
    /\ Go("purgeBin", "purgeRules")
    /\ bin = None /\ binPrevious = None /\ marker = None /\ markerPrevious = None
    /\ UNCHANGED <<disk, had>>

PurgeRules ==
    /\ pc = "purgeRules" /\ EmptyRules
    /\ rules' = None
    /\ End("ok")
    /\ UNCHANGED <<rulesPrevious, singBox, bounds>>

-----------------------------------------------------------------------------
(* Faults *)

Fault == faults < MaxFaults /\ faults' = faults + 1 /\ UNCHANGED <<commands, links>>

\* A system call of the command fails: where it is, and what the code does then.  Before
\* "clear" and "clearRules" it is the writing of the temporary files.
FailsTo(from, to) ==
    /\ pc = from /\ pc' = to
    /\ UNCHANGED <<job, todo, new, had, result, before>>

CallFails ==
    /\ Fault /\ UNCHANGED disk
    /\ \/ /\ pc \in {"clear", "backupBin", "clearRules", "backupRules", "removeBin",
                     "removeMarker", "removeRules", "purgeBin", "purgeRules"}
          /\ End("error")
       \/ FailsTo("backupMarker", "restoreBin")
       \/ FailsTo("placeBin", "undoBin")
       \/ FailsTo("placeMarker", "dropBin")
       \/ FailsTo("placeRules", "undoRules")

\* The process is killed, or the machine stops.
Kill ==
    /\ pc # "idle"
    /\ Fault /\ UNCHANGED disk
    /\ End("killed")

\* By hand, where nothing is installed, a link to another sing-box or another rules directory.
MakeLink ==
    /\ pc = "idle" /\ links < MaxLinks /\ links' = links + 1
    /\ \/ bin = None /\ marker = None /\ bin' = Link /\ UNCHANGED rules
       \/ rules = None /\ rules' = Link /\ UNCHANGED bin
    /\ result' = "none"
    /\ UNCHANGED <<binPrevious, marker, markerPrevious, rulesPrevious, pc, job, todo, new, had,
                   before, commands, faults>>

Install == NextResource \/ AllDone \/ Resolve \/ Fetch \/ FetchFails
ReplacePair == Clear \/ BackupBin \/ BackupMarker \/ PlaceBin \/ PlaceMarker \/ Cleanup
               \/ DropBin \/ UndoBin \/ UndoMarker
ReplaceRules == ClearRules \/ BackupRules \/ BackupRulesFails \/ PlaceRules \/ CleanupRules \/ UndoRules
Uninstall == RemoveBin \/ RemoveMarker \/ RemoveRulesEntry \/ RemoveRules
             \/ PurgeBinEntry \/ PurgeBin \/ PurgeRules

Next ==
    \/ \E options \in Requests : Begin(options)
    \/ Install \/ ReplacePair \/ ReplaceRules \/ Uninstall
    \/ CallFails \/ Kill \/ MakeLink

Spec == Init /\ [][Next]_vars

-----------------------------------------------------------------------------
(* Properties *)

Steps == {"idle", "next", "resolve", "fetch", "clear", "backupBin", "backupMarker", "placeBin",
          "placeMarker", "cleanup", "dropBin", "undoBin", "restoreBin", "undoMarker",
          "clearRules", "backupRules", "placeRules", "cleanupRules", "undoRules", "removeBin",
          "removeMarker", "removeRules", "purgeBin", "purgeRules"}

Bins == Contents \cup {None, Link}
Markers == Marker \cup {None}
Trees == RulesDir \cup {None, Link}

(* Types of the state. *)
TypeOK ==
    /\ bin \in Bins /\ binPrevious \in Bins
    /\ marker \in Markers /\ markerPrevious \in Markers
    /\ rules \in Trees /\ rulesPrevious \in Trees
    /\ pc \in Steps
    /\ job \in Options
    /\ todo \in {<<>>, <<"sing-box">>, <<"rules">>, <<"sing-box", "rules">>}
    /\ new \in [bin : Contents \cup {None}, marker : Markers, rules : RulesDir \cup {None}]
    /\ had \in [bin : BOOLEAN, marker : BOOLEAN, rules : BOOLEAN]
    /\ result \in {"none", "running", "ok", "error", "killed"}
    /\ before \in [bin : Bins, marker : Markers, rules : Trees]
    /\ commands \in 0..MaxCommands /\ links \in 0..MaxLinks /\ faults \in 0..MaxFaults

\* A marker that names its source tells the truth about a payload.
Describes(mark, payload) ==
    /\ mark.payload = payload
    /\ mark.source # None => payload = Extracted(mark.source, mark.member)

\* A listing is true of the files that are there.
TreeTruthful(tree) ==
    tree.marker \notin {None, Digest} =>
        \A n \in Names : tree.files[n] \in {tree.marker[n], None}

(* Whenever a binary and a marker stand side by side, the one was         *)
(* extracted from the verified download the other names, and the files of *)
(* the rules directory are those their marker lists: replacePair and       *)
(* replaceRulesDir, killed at any point or failing at any call, and any    *)
(* sequence of commands after that, never leave a marker next to a file    *)
(* it does not describe.  singBoxSourceInstalled and rulesFilesInstalled   *)
(* skip an installation on the marker's word alone.                        *)
MarkerTruthful ==
    /\ bin \notin {None, Link} /\ marker # None => Describes(marker, bin)
    /\ rules \notin {None, Link} => TreeTruthful(rules)

\* A binary, or a rules directory, that a download of the checksum asked for explains.
SingBoxAsked(file) ==
    /\ file \notin {None, Link}
    /\ \E content \in Contents, member \in Names \cup {None} :
          /\ Verified(content, Expected(job))
          /\ job.operation = "update" \/ job.member # None => member = job.member
          /\ file = Extracted(content, member)

RulesAsked(tree) ==
    /\ tree \notin {None, Link}
    /\ IF job.source = "builtin"
       THEN \A n \in Names : BuiltinRules[n] # None => tree.files[n] = BuiltinRules[n]
       ELSE \E content \in Contents :
               Verified(content, Expected(job)) /\ tree.files = Unpacked(content)

\* What a successful command owes for a resource.
Owed(resource) ==
    IF job.operation = "uninstall"
    THEN IF resource = "sing-box" THEN bin = None /\ marker = None ELSE rules = None
    ELSE IF resource = "sing-box" THEN SingBoxAsked(bin) ELSE RulesAsked(rules)

Listed(list) == {list[k] : k \in DOMAIN list}

(* A command that reports success has done what it was asked: after        *)
(* install and update, skipped or not, what stands in bin and rules comes  *)
(* from a download of the checksum asked for, and after uninstall nothing  *)
(* is left of the resource.                                                *)
DoneIsDone == result = "ok" => \A r \in Listed(Resources(job.resource)) : Owed(r)

(* An install or update that fails leaves the resource it failed on as it  *)
(* found it, binary and marker together, and the other one too             *)
(* (docs/acceptance-matrix.md, "update sing-box": a failure rolls back).   *)
FailureRollsBack ==
    result = "error" /\ job.operation # "uninstall" =>
        before = [bin |-> bin, marker |-> marker, rules |-> rules]

(* A link somebody made where nothing was installed is never renamed,      *)
(* replaced or removed, neither by the command that meets it nor by the    *)
(* undoing of one that failed; only --purge takes the whole directory.     *)
LinksAreKept ==
    [][ /\ Unmanaged(bin, marker) /\ pc # "purgeBin" => bin' = Link
        /\ rules = Link /\ pc # "purgeRules" => rules' = Link ]_vars
=============================================================================
