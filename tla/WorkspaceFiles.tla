--------------------------- MODULE WorkspaceFiles ---------------------------
(* Reading and changing files of the workspace.  FileReadTracker remembers the *)
(* state of a file that the Agent has read (integrations/tools/workspace.py),  *)
(* and WriteFile, EditFile and ApplyPatch (file_tools.py, patch_tools.py)      *)
(* change an existing file only while it is in that state.  The user's editor  *)
(* and the processes the Agent has started change files as well, between any   *)
(* two calls of the operating system; the tools themselves run one at a time.  *)
(*                                                                             *)
(* A version is one content of one file as some write left it: its two         *)
(* digests, its size, time and identity.  Versions are never used twice.       *)
EXTENDS Naturals, Sequences, FiniteSets

CONSTANTS Paths, Patches,  \* Patches: sequences of operations on files
          MaxVersions      \* bound on writes

Missing == 0

Operations ==
  [kind : {"add", "update", "delete"}, path : Paths] \cup [kind : {"move"}, path : Paths, to : Paths]

(* A patch without an operation is refused when it is parsed.                  *)
ASSUME FilesAssumption == Patches \subseteq Seq(Operations) \ {<<>>}

VARIABLES
  files,       \* the version of every file
  clock,       \* the last version
  tracker,     \* _states: the versions the parts of a record were taken from
  call,        \* the tool call under way
  applied,     \* paths the patch reports as changed
  seen,        \* history: versions shown to the Agent or written by it
  late,        \* history: foreign versions that came after a tool's last check
  lost,        \* history: versions that were replaced and never shown
  touched      \* history: paths the patch has changed

fileVars == <<files, clock, tracker, call, applied, seen, late, lost, touched>>
historyVars == <<seen, late, lost, touched>>

NoCall == [tool |-> "none", step |-> "none", path |-> "none", text |-> Missing, parts |-> {}, plan |-> <<>>]
FirstFiles == [p \in Paths |-> IF p = CHOOSE q \in Paths : TRUE THEN 1 ELSE Missing]

FilesInit ==
  /\ files = FirstFiles /\ clock = 1 /\ tracker = [p \in Paths |-> {}]
  /\ call = NoCall /\ applied = {} /\ seen = {} /\ late = {} /\ lost = {} /\ touched = {}

----------------------------------------------------------------------------
(* FileReadTracker.  A record is made of three reads: the text, the state, and *)
(* the bytes; it is good if all of them are of the version that is there.      *)
HasRecord(p) == tracker[p] # {}
IsUnchanged(p) == files[p] # Missing /\ tracker[p] = {files[p]}
RecordParts(p, parts) == tracker' = [tracker EXCEPT ![p] = parts]
Forget(p) == tracker' = [tracker EXCEPT ![p] = {}]

Exists(p) == files[p] # Missing
NewVersion(p) == clock < MaxVersions /\ clock' = clock + 1 /\ files' = [files EXCEPT ![p] = clock + 1]
Replaced(p) == lost' = lost \cup {v \in {files[p]} : v # Missing /\ v \notin seen}

----------------------------------------------------------------------------
(* Everybody else.  A change is late if the tool under way no longer looks.    *)
Targets(o) == IF o.kind = "move" THEN {o.path, o.to} ELSE {o.path}
PastChecks(p) ==
  \/ call.tool \in {"write", "edit"} /\ call.path = p /\ call.step \in {"write", "text", "stat", "bytes"}
  \/ call.tool = "patch" /\ call.step # "check" /\ p \in Targets(Head(call.plan))
ForeignWrite(p) ==
  /\ NewVersion(p)
  /\ late' = IF PastChecks(p) THEN late \cup {clock + 1} ELSE late
  /\ UNCHANGED <<tracker, call, applied, seen, lost, touched>>
ForeignDelete(p) ==
  /\ Exists(p) /\ files' = [files EXCEPT ![p] = Missing]
  /\ UNCHANGED <<clock, tracker, call, applied, historyVars>>

----------------------------------------------------------------------------
(* ReadFile, and FileReadTracker.update after a write: the text first.         *)
Begin(tool, p, step) == call' = [NoCall EXCEPT !.tool = tool, !.path = p, !.step = step]
Go(step) == call' = [call EXCEPT !.step = step]
End == call' = NoCall

StartReadFile(p) ==
  /\ call = NoCall /\ Exists(p) /\ Begin("read", p, "text")
  /\ UNCHANGED <<files, clock, tracker, applied, historyVars>>

Observing == call.step \in {"text", "stat", "bytes"}
Part == files[call.path]
ReadText ==
  /\ call.step = "text" /\ Exists(call.path)
  /\ call' = [call EXCEPT !.step = "stat", !.text = Part, !.parts = {Part}]
  /\ UNCHANGED <<files, clock, tracker, applied, historyVars>>
ReadState ==
  /\ call.step = "stat" /\ Exists(call.path)
  /\ call' = [call EXCEPT !.step = "bytes", !.parts = @ \cup {Part}]
  /\ UNCHANGED <<files, clock, tracker, applied, historyVars>>

(* What a call does once the tracker is up to date: ReadFile shows the text,   *)
(* a patch goes on with its next operation.                                    *)
Shown == IF call.tool = "read" THEN {call.text} ELSE {}
Continue ==
  IF call.tool = "patch" /\ Len(call.plan) > 1
  THEN call' = [NoCall EXCEPT !.tool = "patch", !.step = "check", !.plan = Tail(call.plan)] ELSE End

RecordStateOnly ==                        \* without the digest of the text
  /\ call.step = "bytes" /\ Exists(call.path)
  /\ RecordParts(call.path, {Part}) /\ seen' = seen \cup Shown /\ Continue
  /\ UNCHANGED <<files, clock, applied, late, lost, touched>>
RecordBytes ==
  /\ call.step = "bytes" /\ Exists(call.path)
  /\ RecordParts(call.path, call.parts \cup {Part}) /\ seen' = seen \cup Shown /\ Continue
  /\ UNCHANGED <<files, clock, applied, late, lost, touched>>
CannotRead ==                             \* the file is gone, or the read fails
  /\ Observing
  /\ IF call.tool = "read" THEN UNCHANGED tracker /\ End ELSE Forget(call.path) /\ Continue
  /\ UNCHANGED <<files, clock, applied, historyVars>>

----------------------------------------------------------------------------
(* WriteFile and EditFile.                                                     *)
StartWrite(p) ==
  /\ call = NoCall
  /\ Exists(p) \/ HasRecord(p) => IsUnchanged(p)
  /\ Begin("write", p, "write")
  /\ UNCHANGED <<files, clock, tracker, applied, historyVars>>

StartEdit(p) ==
  /\ call = NoCall /\ IsUnchanged(p) /\ Begin("edit", p, "original")
  /\ UNCHANGED <<files, clock, tracker, applied, historyVars>>
ReadOriginal ==
  /\ call.step = "original"
  /\ IF Exists(call.path) THEN call' = [call EXCEPT !.step = "again", !.text = files[call.path]] ELSE End
  /\ UNCHANGED <<files, clock, tracker, applied, historyVars>>
CheckAgain ==
  /\ call.step = "again"
  /\ IF IsUnchanged(call.path) THEN Go("write") ELSE End
  /\ UNCHANGED <<files, clock, tracker, applied, historyVars>>

(* The write truncates the file first: when it fails, what is there is neither *)
(* the old nor the new content.                                                *)
WriteBack ==
  /\ call.step = "write" /\ call.tool # "patch"
  /\ NewVersion(call.path) /\ Replaced(call.path)
  /\ \/ Go("text") /\ seen' = seen \cup {clock + 1}
     \/ End /\ UNCHANGED seen
  /\ UNCHANGED <<tracker, applied, late, touched>>

Cancel ==
  /\ call.tool # "none" /\ call.tool # "patch"
  /\ call.tool = "read" \/ call.step \in {"original", "again", "write"}
  /\ End /\ UNCHANGED <<files, clock, tracker, applied, historyVars>>

----------------------------------------------------------------------------
(* ApplyPatch: all operations are checked before the first is carried out, and *)
(* each again before it is.  Paths of different operations are different.      *)
Feasible(o) ==
  IF o.kind = "add" THEN ~Exists(o.path) ELSE IsUnchanged(o.path) /\ (o.kind = "move" => ~Exists(o.to))
StartPatch(plan) ==
  /\ call = NoCall
  /\ \A k \in DOMAIN plan : Feasible(plan[k])
  /\ call' = [NoCall EXCEPT !.tool = "patch", !.step = "check", !.plan = plan]
  /\ applied' = {} /\ touched' = {}
  /\ UNCHANGED <<files, clock, tracker, seen, late, lost>>

Operation == Head(call.plan)
Destination == IF Operation.kind = "move" THEN Operation.to ELSE Operation.path

CheckOperation ==                         \* or the call is cancelled
  /\ call.tool = "patch" /\ call.step = "check"
  /\ \/ Feasible(Operation) /\ Go(IF Operation.kind = "delete" THEN "unlink" ELSE "replace")
     \/ End
  /\ UNCHANGED <<files, clock, tracker, applied, historyVars>>

(* A temporary file replaces the target.  It holds the patched text of what is *)
(* there now, which is read again and not compared.                            *)
Observed(p, paths) ==
  /\ applied' = applied \cup paths
  /\ call' = [call EXCEPT !.path = p, !.step = "text"]
ReplaceFile ==
  /\ call.tool = "patch" /\ call.step = "replace"
  /\ \/ /\ NewVersion(Destination) /\ Replaced(Destination)
        /\ seen' = seen \cup {clock + 1} /\ touched' = touched \cup {Destination}
        /\ IF Operation.kind = "move" THEN Go("unlink") /\ UNCHANGED applied
           ELSE Observed(Destination, {Destination})
     \/ End /\ UNCHANGED <<files, clock, applied, seen, lost, touched>>
  /\ UNCHANGED <<tracker, late>>

UnlinkSource ==
  /\ call.tool = "patch" /\ call.step = "unlink"
  /\ \/ /\ Exists(Operation.path) /\ Replaced(Operation.path)
        /\ files' = [files EXCEPT ![Operation.path] = Missing]
        /\ touched' = touched \cup {Operation.path} /\ Forget(Operation.path)
        /\ IF Operation.kind = "move" THEN Observed(Destination, {Operation.path, Destination})
           ELSE applied' = applied \cup {Operation.path} /\ Continue
     \/ /\ IF Operation.kind = "move"     \* the destination stays
           THEN /\ applied' = applied \cup {Destination}
                /\ call' = [call EXCEPT !.path = Destination, !.step = "text", !.plan = <<Operation>>]
           ELSE End /\ UNCHANGED applied
        /\ UNCHANGED <<files, tracker, lost, touched>>
  /\ UNCHANGED <<clock, seen, late>>

FilesNext ==
  \/ \E p \in Paths : ForeignWrite(p) \/ ForeignDelete(p) \/ StartReadFile(p) \/ StartWrite(p) \/ StartEdit(p)
  \/ \E plan \in Patches : StartPatch(plan)
  \/ ReadText \/ ReadState \/ RecordBytes \/ CannotRead
  \/ ReadOriginal \/ CheckAgain \/ WriteBack \/ Cancel
  \/ CheckOperation \/ ReplaceFile \/ UnlinkSource

FilesSpec == FilesInit /\ [][FilesNext]_fileVars

----------------------------------------------------------------------------
(* Nothing the Agent has not seen is overwritten or deleted, whoever changes   *)
(* files meanwhile, unless the change fell between a tool's last check and its *)
(* write; and a file passes for read only in a version the Agent has seen.     *)
OnlySeenIsReplaced ==
  /\ lost \subseteq late
  /\ \A p \in Paths : IsUnchanged(p) => files[p] \in seen \cup late

(* However a patch ends - done, refused in the middle, failed in a system call *)
(* or cancelled - it reports exactly the files it has changed.                 *)
PatchTellsTheDisk == call = NoCall => applied = touched

(* Both: the disk, what the Agent has seen of it and what a patch says agree.  *)
FilesAreAsSeen == OnlySeenIsReplaced /\ PatchTellsTheDisk
=============================================================================
