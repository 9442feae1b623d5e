----------------------------- MODULE ToolProofs -----------------------------
(* What the tools may do, for every value of the constants: the reads that a   *)
(* change of the user's files rests on (WorkspaceFiles), the permissions that  *)
(* an operation needs (Permissions), and the processes a tool leaves running   *)
(* (ProcessSessions).                                                          *)
EXTENDS WorkspaceFiles, Permissions, ProcessSessions, SequenceLemmas, Integers, TLAPS

----------------------------------------------------------------------------
(* Reading and changing files.                                                 *)
StepsOf ==
  [tool \in {"none", "read", "write", "edit", "patch"} |->
     IF tool = "none" THEN {"none"}
     ELSE {"text", "stat", "bytes"} \cup
       (IF tool = "write" THEN {"write"} ELSE IF tool = "edit" THEN {"original", "again", "write"}
        ELSE IF tool = "patch" THEN {"check", "replace", "unlink"} ELSE {})]
AllSteps == {"none", "text", "stat", "bytes", "write", "original", "again", "check", "replace", "unlink"}
CallRecord ==
  [tool : {"none", "read", "write", "edit", "patch"}, step : AllSteps, path : Paths \cup {"none"},
   text : Nat, parts : SUBSET Nat, plan : Seq(Operations)]

FilesTypeOK ==
  /\ files \in [Paths -> Nat] /\ clock \in Nat
  /\ tracker \in [Paths -> SUBSET Nat] /\ call \in CallRecord

\* A tool is at one of its own steps; a patch observes the file it has written.
CallIsUnderWay ==
  /\ call.step \in StepsOf[call.tool]
  /\ call.tool \in {"read", "write", "edit"} => call.path \in Paths
  /\ call.tool = "patch" =>
       /\ call.plan # <<>>
       /\ call.step = "unlink" => Operation.kind \in {"move", "delete"}
       /\ call.step = "replace" => Operation.kind # "delete"
       /\ Observing => call.path = Destination

\* What the Agent has been shown or has written, or what came too late.
Accounted == {Missing} \cup seen \cup late

\* Past its checks a tool has before it what it has seen, whoever writes.
ChecksHold == \A p \in Paths : PastChecks(p) => files[p] \in Accounted

\* The first part of a record is the text that is shown, or one's own write.
TextIsKnown ==
  call.step \in {"stat", "bytes"} => call.text \in call.parts /\ (call.tool # "read" => call.text \in Accounted)

TrackedIsKnown == \A p \in Paths : \A v \in Nat : tracker[p] = {v} => v \in Accounted

\* Between the two halves of a move its destination is not reported yet.
HalfMoved == IF call.step = "unlink" /\ Operation.kind = "move" THEN {Operation.to} ELSE {}
PatchIsHonest == touched = applied \cup HalfMoved

FilesInvariant ==
  /\ FilesTypeOK /\ CallIsUnderWay /\ ChecksHold /\ TextIsKnown /\ TrackedIsKnown
  /\ PatchIsHonest /\ lost \subseteq late

----------------------------------------------------------------------------
LEMMA FilesInitial == FilesInit => FilesInvariant
BY DEF FilesInit, FilesInvariant, FilesTypeOK, CallIsUnderWay, ChecksHold, TextIsKnown, TrackedIsKnown,
   PatchIsHonest, HalfMoved, FirstFiles, NoCall, CallRecord, AllSteps, StepsOf, PastChecks, Accounted, Missing,
   Observing

LEMMA OperationTypes ==
  ASSUME FilesInvariant, call.tool = "patch"
  PROVE  /\ call.plan \in Seq(Operations) /\ Operation \in Operations
         /\ Operation.path \in Paths /\ Destination \in Paths
         /\ Operation.kind = "move" => Operation.to \in Paths /\ Destination = Operation.to
         /\ Operation.path \in Targets(Operation) /\ Destination \in Targets(Operation)
         /\ Targets(Operation) \subseteq {Operation.path, Destination}
<1>1. call.plan \in Seq(Operations) /\ call.plan # <<>>
  BY DEF FilesInvariant, FilesTypeOK, CallIsUnderWay, CallRecord
<1>2. Operation \in Operations
  BY <1>1 DEF Operation
<1> QED BY <1>1, <1>2 DEF Operations, Targets, Destination

LEMMA ForeignWriteKeeps == ASSUME FilesInvariant, NEW p \in Paths, ForeignWrite(p) PROVE FilesInvariant'
<1> USE DEF FilesInvariant, FilesTypeOK, ForeignWrite, NewVersion
<1>1. FilesTypeOK' /\ CallIsUnderWay' /\ TextIsKnown' /\ TrackedIsKnown' /\ PatchIsHonest' /\ lost' \subseteq late'
  BY DEF CallIsUnderWay, TextIsKnown, TrackedIsKnown, PatchIsHonest, HalfMoved, Accounted, Observing, Operation, Destination
<1>2. ChecksHold'
  BY DEF ChecksHold, Accounted, PastChecks
<1> QED BY <1>1, <1>2

LEMMA ForeignDeleteKeeps == ASSUME FilesInvariant, NEW p \in Paths, ForeignDelete(p) PROVE FilesInvariant'
<1> USE DEF FilesInvariant, FilesTypeOK, ForeignDelete, historyVars, Missing
<1>1. FilesTypeOK' /\ CallIsUnderWay' /\ TextIsKnown' /\ TrackedIsKnown' /\ PatchIsHonest' /\ lost' \subseteq late'
  BY DEF CallIsUnderWay, TextIsKnown, TrackedIsKnown, PatchIsHonest, HalfMoved, Accounted, Observing, Operation, Destination
<1>2. ChecksHold'
  BY DEF ChecksHold, Accounted, PastChecks
<1> QED BY <1>1, <1>2

\* A record that is kept says that the version was seen.
LEMMA UnchangedIsAccounted ==
  ASSUME FilesInvariant, NEW p \in Paths, IsUnchanged(p) PROVE files[p] \in Accounted
BY DEF FilesInvariant, FilesTypeOK, TrackedIsKnown, IsUnchanged

LEMMA StartReadFileKeeps == ASSUME FilesInvariant, NEW p \in Paths, StartReadFile(p) PROVE FilesInvariant'
BY DEF FilesInvariant, FilesTypeOK, StartReadFile, historyVars, Begin, NoCall, CallIsUnderWay, ChecksHold, TextIsKnown,
   TrackedIsKnown, PatchIsHonest, HalfMoved, Accounted, PastChecks, CallRecord, AllSteps, StepsOf, Missing

LEMMA StartEditKeeps == ASSUME FilesInvariant, NEW p \in Paths, StartEdit(p) PROVE FilesInvariant'
BY DEF FilesInvariant, FilesTypeOK, StartEdit, historyVars, Begin, NoCall, CallIsUnderWay, ChecksHold, TextIsKnown,
   TrackedIsKnown, PatchIsHonest, HalfMoved, Accounted, PastChecks, CallRecord, AllSteps, StepsOf, Missing

LEMMA StartWriteKeeps == ASSUME FilesInvariant, NEW p \in Paths, StartWrite(p) PROVE FilesInvariant'
<1>1. files[p] \in Accounted
  BY UnchangedIsAccounted DEF StartWrite, Exists, Accounted
<1> QED
  BY <1>1 DEF FilesInvariant, FilesTypeOK, StartWrite, historyVars, Begin, NoCall, CallIsUnderWay, ChecksHold, TextIsKnown,
   TrackedIsKnown, PatchIsHonest, HalfMoved, Accounted, PastChecks, CallRecord, AllSteps, StepsOf, Missing

LEMMA EditSteps == ASSUME FilesInvariant, ReadOriginal \/ CheckAgain PROVE FilesInvariant'
<1>1. call.step \in {"original", "again"} /\ call.tool = "edit" /\ call.path \in Paths
  BY DEF FilesInvariant, CallIsUnderWay, ReadOriginal, CheckAgain, FilesTypeOK, CallRecord, StepsOf
<1>2. CASE call' = NoCall
  BY <1>1, <1>2 DEF ReadOriginal, CheckAgain, FilesInvariant, FilesTypeOK, historyVars, NoCall, CallIsUnderWay, ChecksHold, TextIsKnown,
   TrackedIsKnown, PatchIsHonest, HalfMoved, Accounted, PastChecks, CallRecord, AllSteps, StepsOf, Missing
<1>3. CASE call' = [call EXCEPT !.step = "again", !.text = files[call.path]]
  BY <1>1, <1>3 DEF ReadOriginal, CheckAgain, FilesInvariant, FilesTypeOK, historyVars, CallIsUnderWay, ChecksHold, TextIsKnown,
   TrackedIsKnown, PatchIsHonest, HalfMoved, Accounted, PastChecks, CallRecord, AllSteps, StepsOf, Missing
<1>4. CASE CheckAgain /\ IsUnchanged(call.path) /\ Go("write")
  <2>1. files[call.path] \in Accounted
    BY <1>1, <1>4, UnchangedIsAccounted
  <2> QED
  BY <1>1, <1>4, <2>1 DEF CheckAgain, Go, FilesInvariant, FilesTypeOK, historyVars, CallIsUnderWay, ChecksHold, TextIsKnown,
   TrackedIsKnown, PatchIsHonest, HalfMoved, Accounted, PastChecks, CallRecord, AllSteps, StepsOf, Missing
<1> QED BY <1>2, <1>3, <1>4 DEF ReadOriginal, CheckAgain, End

\* A call that ends leaves nothing to account for.
LEMMA EndKeeps ==
  ASSUME FilesInvariant, End, ~(call.tool = "patch" /\ call.step = "unlink" /\ Operation.kind = "move"),
         files' \in [Paths -> Nat], clock' \in Nat, tracker' \in [Paths -> SUBSET Nat],
         Accounted \subseteq Accounted', TrackedIsKnown', lost' \subseteq late',
         touched' = applied' \cup HalfMoved
  PROVE  FilesInvariant'
<1>1. HalfMoved = {} /\ HalfMoved' = {}
  BY DEF End, HalfMoved, NoCall, FilesInvariant, CallIsUnderWay, StepsOf, FilesTypeOK, CallRecord
<1> QED BY <1>1 DEF End, NoCall, FilesInvariant, FilesTypeOK, historyVars, CallIsUnderWay, ChecksHold, TextIsKnown,
   TrackedIsKnown, PatchIsHonest, HalfMoved, Accounted, PastChecks, CallRecord, AllSteps, StepsOf, Missing

LEMMA CancelKeeps == ASSUME FilesInvariant, Cancel PROVE FilesInvariant'
BY EndKeeps DEF Cancel, historyVars, FilesInvariant, FilesTypeOK, TrackedIsKnown, Accounted, PatchIsHonest

LEMMA WriteBackKeeps == ASSUME FilesInvariant, WriteBack PROVE FilesInvariant'
<1>1. call.tool \in {"write", "edit"} /\ call.path \in Paths /\ call.step = "write"
  BY DEF FilesInvariant, CallIsUnderWay, WriteBack, FilesTypeOK, CallRecord, StepsOf
<1>2. lost' \subseteq late' /\ files' \in [Paths -> Nat] /\ clock' \in Nat /\ Accounted \subseteq Accounted'
  BY <1>1 DEF FilesInvariant, FilesTypeOK, WriteBack, NewVersion, Replaced, ChecksHold, PastChecks, Accounted, Missing
<1>3. CASE End
  BY <1>1, <1>2, <1>3, EndKeeps DEF WriteBack, FilesInvariant, FilesTypeOK, TrackedIsKnown, Accounted, PatchIsHonest
<1>4. CASE Go("text") /\ seen' = seen \cup {clock + 1}
  <2>1. files'[call.path] \in seen'
    BY <1>1, <1>4 DEF WriteBack, NewVersion, FilesInvariant, FilesTypeOK
  <2> QED
  BY <1>1, <1>2, <1>4, <2>1 DEF WriteBack, Go, FilesInvariant, FilesTypeOK, historyVars, CallIsUnderWay, ChecksHold, TextIsKnown,
   TrackedIsKnown, PatchIsHonest, HalfMoved, Accounted, PastChecks, CallRecord, AllSteps, StepsOf, Missing
<1> QED BY <1>3, <1>4 DEF WriteBack

\* What a patch or a write observes is its own, or came too late.
LEMMA ObservedIsAccounted ==
  ASSUME FilesInvariant, Observing, call.tool # "read"
  PROVE  call.path \in Paths /\ files[call.path] \in Accounted
<1>1. CASE call.tool = "patch"
  BY <1>1, OperationTypes DEF FilesInvariant, CallIsUnderWay, ChecksHold, PastChecks, Observing, Operation
<1>2. CASE call.tool # "patch"
  BY <1>2 DEF FilesInvariant, CallIsUnderWay, ChecksHold, PastChecks, Observing, FilesTypeOK, CallRecord, StepsOf
<1> QED BY <1>1, <1>2

LEMMA ObserversPath == ASSUME FilesInvariant, Observing PROVE call.path \in Paths /\ call.tool # "none"
BY ObservedIsAccounted DEF FilesInvariant, CallIsUnderWay, FilesTypeOK, CallRecord, StepsOf, Observing

LEMMA ReadTextKeeps == ASSUME FilesInvariant, ReadText PROVE FilesInvariant'
<1>1. Observing /\ call.path \in Paths /\ call.tool # "none"
  BY ObserversPath DEF Observing, ReadText
<1>2. call.tool # "read" => Part \in Accounted
  BY <1>1, ObservedIsAccounted DEF Part
<1> QED BY <1>1, <1>2 DEF ReadText, Observing, Part, Exists, Operation, Destination, FilesInvariant, FilesTypeOK, historyVars, CallIsUnderWay, ChecksHold, TextIsKnown,
   TrackedIsKnown, PatchIsHonest, HalfMoved, Accounted, PastChecks, CallRecord, AllSteps, StepsOf, Missing

LEMMA ReadStateKeeps == ASSUME FilesInvariant, ReadState PROVE FilesInvariant'
<1>1. Observing /\ call.path \in Paths /\ call.tool # "none"
  BY ObserversPath DEF Observing, ReadState
<1> QED BY <1>1 DEF ReadState, Observing, Part, Exists, Operation, Destination, FilesInvariant, FilesTypeOK, historyVars, CallIsUnderWay, ChecksHold, TextIsKnown,
   TrackedIsKnown, PatchIsHonest, HalfMoved, Accounted, PastChecks, CallRecord, AllSteps, StepsOf, Missing

\* A patch that goes on is about to check its next operation.
LEMMA ContinueKeeps ==
  ASSUME FilesInvariant, Continue, ~(call.step = "unlink" /\ Operation.kind = "move"),
         files' \in [Paths -> Nat], clock' \in Nat, tracker' \in [Paths -> SUBSET Nat],
         Accounted \subseteq Accounted', TrackedIsKnown', lost' \subseteq late', touched' = applied'
  PROVE  FilesInvariant'
<1>1. CASE End
  BY <1>1, EndKeeps DEF HalfMoved
<1>2. CASE call.tool = "patch" /\ Len(call.plan) > 1 /\ ~End
  <2> DEFINE next == Tail(call.plan)
  <2>1. next \in Seq(Operations) /\ next # <<>>
    <3>1. call.plan \in Seq(Operations) /\ call.plan # <<>>
      BY <1>2, OperationTypes
    <3>2. next \in Seq(Operations) /\ Len(next) = Len(call.plan) - 1 /\ Len(call.plan) \in Nat
      BY <3>1
    <3> HIDE DEF next
    <3> QED BY <1>2, <3>2
  <2>2. call' = [NoCall EXCEPT !.tool = "patch", !.step = "check", !.plan = next]
    BY <1>2 DEF Continue
  <2> HIDE DEF next
  <2> QED BY <2>1, <2>2 DEF NoCall, Observing, FilesInvariant, FilesTypeOK, historyVars, CallIsUnderWay, ChecksHold, TextIsKnown,
   TrackedIsKnown, PatchIsHonest, HalfMoved, Accounted, PastChecks, CallRecord, AllSteps, StepsOf, Missing
<1> QED BY <1>1, <1>2 DEF Continue

LEMMA RecordBytesKeeps == ASSUME FilesInvariant, RecordBytes PROVE FilesInvariant'
<1>1. Observing /\ call.path \in Paths /\ call.tool # "none"
  BY ObserversPath DEF Observing, RecordBytes
<1>2. call.text \in call.parts /\ call.text \in Accounted'
  BY <1>1 DEF RecordBytes, Shown, FilesInvariant, TextIsKnown, Accounted
<1>3. Accounted \subseteq Accounted'
  BY DEF RecordBytes, Accounted
<1>4. tracker' \in [Paths -> SUBSET Nat] /\ TrackedIsKnown'
  <2>1. call.parts \cup {Part} \in SUBSET Nat
    BY <1>1 DEF FilesInvariant, FilesTypeOK, CallRecord, Part
  <2> QED BY <1>1, <1>2, <1>3, <2>1 DEF RecordBytes, RecordParts, TrackedIsKnown, FilesInvariant, FilesTypeOK
<1>5. touched' = applied'
  BY DEF RecordBytes, FilesInvariant, PatchIsHonest, HalfMoved
<1> QED BY <1>3, <1>4, <1>5, ContinueKeeps DEF RecordBytes, FilesInvariant, FilesTypeOK

LEMMA CannotReadKeeps == ASSUME FilesInvariant, CannotRead PROVE FilesInvariant'
<1>1. call.path \in Paths /\ call.step # "unlink"
  BY ObserversPath DEF CannotRead, Observing
<1>2. tracker' \in [Paths -> SUBSET Nat] /\ TrackedIsKnown'
  BY <1>1 DEF CannotRead, historyVars, Forget, TrackedIsKnown, FilesInvariant, FilesTypeOK, Accounted
<1>3. touched' = applied' /\ Accounted' = Accounted /\ lost' \subseteq late'
  BY <1>1 DEF CannotRead, historyVars, FilesInvariant, PatchIsHonest, HalfMoved, Accounted
<1>4. CASE End
  BY <1>1, <1>2, <1>3, <1>4, EndKeeps DEF CannotRead, FilesInvariant, FilesTypeOK, HalfMoved
<1>5. CASE Continue
  BY <1>1, <1>2, <1>3, <1>5, ContinueKeeps DEF CannotRead, FilesInvariant, FilesTypeOK
<1> QED BY <1>4, <1>5 DEF CannotRead

LEMMA StartPatchKeeps == ASSUME FilesInvariant, NEW plan \in Patches, StartPatch(plan) PROVE FilesInvariant'
<1>1. plan \in Seq(Operations) /\ plan # <<>>
  BY FilesAssumption
<1> QED BY <1>1 DEF StartPatch, NoCall, Observing, FilesInvariant, FilesTypeOK, historyVars, CallIsUnderWay, ChecksHold, TextIsKnown,
   TrackedIsKnown, PatchIsHonest, HalfMoved, Accounted, PastChecks, CallRecord, AllSteps, StepsOf, Missing

\* Before an operation is carried out, what it replaces or removes was seen.
LEMMA CheckOperationKeeps == ASSUME FilesInvariant, CheckOperation PROVE FilesInvariant'
<1>1. call.tool = "patch" /\ call.step = "check"
  BY DEF CheckOperation
<1>2. CASE End
  BY <1>1, <1>2, EndKeeps DEF CheckOperation, historyVars, FilesInvariant, FilesTypeOK, TrackedIsKnown, Accounted, PatchIsHonest
<1>3. CASE Feasible(Operation) /\ Go(IF Operation.kind = "delete" THEN "unlink" ELSE "replace")
  <2>1. Operation \in Operations /\ Operation.path \in Paths /\ Destination \in Paths
    BY <1>1, OperationTypes
  <2>2. \A p \in Targets(Operation) : p \in Paths /\ files[p] \in Accounted
    <3>1. IsUnchanged(Operation.path) => files[Operation.path] \in Accounted
      BY <2>1, UnchangedIsAccounted
    <3>2. \A p \in Paths : ~Exists(p) => files[p] \in Accounted
      BY DEF Exists, Accounted
    <3> QED BY <1>3, <2>1, <3>1, <3>2 DEF Feasible, Targets, Destination
  <2>3. /\ files' = files /\ Accounted' = Accounted /\ Operation' = Operation
        /\ call' \in CallRecord /\ call'.tool = "patch" /\ call'.step \in {"unlink", "replace"}
        /\ call'.plan = call.plan
    BY <1>1, <1>3 DEF CheckOperation, historyVars, Go, Accounted, Operation, FilesInvariant, FilesTypeOK, CallRecord, AllSteps
  <2>4. ChecksHold'
    BY <2>2, <2>3 DEF ChecksHold, PastChecks, Operation
  <2>5. CallIsUnderWay'
    BY <1>1, <1>3, <2>3 DEF CallIsUnderWay, StepsOf, Observing, FilesInvariant, Go, FilesTypeOK, CallRecord, Operation, Operations
  <2>6. PatchIsHonest'
    BY <1>1, <1>3, <2>3 DEF CheckOperation, historyVars, PatchIsHonest, HalfMoved, FilesInvariant, Go, FilesTypeOK, CallRecord
  <2> QED BY <2>3, <2>4, <2>5, <2>6 DEF CheckOperation, historyVars, FilesInvariant, FilesTypeOK, TextIsKnown, TrackedIsKnown
<1> QED BY <1>2, <1>3 DEF CheckOperation

LEMMA ReplaceFileKeeps == ASSUME FilesInvariant, ReplaceFile PROVE FilesInvariant'
<1>1. call.tool = "patch" /\ call.step = "replace"
  BY DEF ReplaceFile
<1>2. /\ Operation \in Operations /\ Operation.path \in Paths /\ Destination \in Paths /\ Operation.kind # "delete"
      /\ Operation.kind = "move" => Destination = Operation.to
      /\ Destination \in Targets(Operation) /\ Targets(Operation) \subseteq Paths
      /\ call.plan \in Seq(Operations) /\ call.plan # <<>>
  BY <1>1, OperationTypes DEF FilesInvariant, CallIsUnderWay
<1>3. CASE End /\ UNCHANGED <<files, clock, applied, seen, lost, touched>>
  BY <1>1, <1>3, EndKeeps DEF ReplaceFile, FilesInvariant, FilesTypeOK, TrackedIsKnown, Accounted, PatchIsHonest, HalfMoved
<1>4. CASE /\ NewVersion(Destination) /\ Replaced(Destination)
           /\ seen' = seen \cup {clock + 1} /\ touched' = touched \cup {Destination}
           /\ IF Operation.kind = "move" THEN Go("unlink") /\ UNCHANGED applied
              ELSE Observed(Destination, {Destination})
  <2>1. tracker' = tracker /\ late' = late
    BY DEF ReplaceFile
  <2>2. touched = applied /\ \A p \in Targets(Operation) : files[p] \in Accounted
    BY <1>1, <1>2 DEF FilesInvariant, PatchIsHonest, HalfMoved, ChecksHold, PastChecks, Operation
  <2>3. /\ files' \in [Paths -> Nat] /\ clock' \in Nat /\ Accounted \subseteq Accounted'
        /\ \A p \in Targets(Operation) : files'[p] \in Accounted'
    BY <1>2, <1>4, <2>1, <2>2 DEF NewVersion, Accounted, FilesInvariant, FilesTypeOK
  <2>4. lost' \subseteq late'
    BY <1>2, <1>4, <2>1, <2>2 DEF Replaced, Accounted, FilesInvariant, Missing
  <2>5. /\ call' \in CallRecord /\ call'.tool = "patch" /\ call'.plan = call.plan
        /\ call'.step = (IF Operation.kind = "move" THEN "unlink" ELSE "text")
        /\ Operation.kind # "move" => call'.path = Destination
    BY <1>1, <1>2, <1>4, <2>1 DEF Go, Observed, FilesInvariant, FilesTypeOK, CallRecord, AllSteps
  <2>6. Operation' = Operation /\ Destination' = Destination
    BY <2>5 DEF Operation, Destination
  <2>7. ChecksHold' /\ TrackedIsKnown'
    BY <1>4, <2>1, <2>3, <2>5 DEF ChecksHold, TrackedIsKnown, PastChecks, FilesInvariant, Operation
  <2>8. CallIsUnderWay' /\ TextIsKnown'
    BY <1>2, <2>5, <2>6 DEF CallIsUnderWay, TextIsKnown, StepsOf, Observing
  <2>9. PatchIsHonest'
    <3>1. CASE Operation.kind = "move"
      BY <1>2, <1>4, <2>1, <2>2, <2>5, <2>6, <3>1 DEF PatchIsHonest, HalfMoved
    <3>2. CASE Operation.kind # "move"
      BY <1>2, <1>4, <2>1, <2>2, <2>5, <2>6, <3>2 DEF PatchIsHonest, HalfMoved, Observed
    <3> QED BY <3>1, <3>2
  <2> QED BY <1>4, <2>1, <2>3, <2>4, <2>5, <2>7, <2>8, <2>9 DEF FilesInvariant, FilesTypeOK
<1> QED BY <1>3, <1>4 DEF ReplaceFile

LEMMA UnlinkSourceKeeps == ASSUME FilesInvariant, UnlinkSource PROVE FilesInvariant'
<1>1. call.tool = "patch" /\ call.step = "unlink"
  BY DEF UnlinkSource
<1>2. /\ Operation \in Operations /\ Operation.path \in Paths /\ Destination \in Paths
      /\ Operation.kind \in {"move", "delete"}
      /\ Operation.kind = "move" => Destination = Operation.to
      /\ Operation.path \in Targets(Operation) /\ Targets(Operation) \subseteq Paths
      /\ call.plan \in Seq(Operations) /\ call.plan # <<>>
  BY <1>1, OperationTypes DEF FilesInvariant, CallIsUnderWay
<1>3. /\ \A p \in Targets(Operation) : files[p] \in Accounted
      /\ touched = applied \cup (IF Operation.kind = "move" THEN {Destination} ELSE {})
      /\ clock' = clock /\ seen' = seen /\ late' = late
  BY <1>1, <1>2 DEF FilesInvariant, PatchIsHonest, HalfMoved, ChecksHold, PastChecks, Operation, UnlinkSource
<1>4. Accounted' = Accounted
  BY <1>3 DEF Accounted
\* The destination of a move is observed next, whether its source could be removed or not.
<1>5. ASSUME Operation.kind = "move", call' \in CallRecord, call'.tool = "patch", call'.step = "text",
             call'.path = Destination, call'.plan # <<>>, Head(call'.plan) = Head(call.plan),
             touched' = applied', lost' \subseteq late', tracker' \in [Paths -> SUBSET Nat], TrackedIsKnown',
             files' \in [Paths -> Nat], \A p \in Targets(Operation) : files'[p] \in Accounted
      PROVE  FilesInvariant'
  <2>1. Operation' = Operation /\ Destination' = Destination
    BY <1>5 DEF Operation, Destination
  <2>2. CallIsUnderWay' /\ TextIsKnown'
    BY <1>5, <2>1 DEF CallIsUnderWay, TextIsKnown, StepsOf, Observing
  <2>3. ChecksHold'
    BY <1>4, <1>5 DEF ChecksHold, PastChecks, Operation
  <2>4. PatchIsHonest'
    BY <1>5 DEF PatchIsHonest, HalfMoved
  <2> QED BY <1>3, <1>5, <2>2, <2>3, <2>4 DEF FilesInvariant, FilesTypeOK
<1>6. CASE Exists(Operation.path) /\ Replaced(Operation.path)
           /\ files' = [files EXCEPT ![Operation.path] = Missing]
           /\ touched' = touched \cup {Operation.path} /\ Forget(Operation.path)
           /\ IF Operation.kind = "move" THEN Observed(Destination, {Operation.path, Destination})
              ELSE applied' = applied \cup {Operation.path} /\ Continue
  <2>1. /\ files' \in [Paths -> Nat] /\ \A p \in Targets(Operation) : files'[p] \in Accounted
    BY <1>2, <1>3, <1>6 DEF FilesInvariant, FilesTypeOK, Accounted, Missing
  <2>2. lost' \subseteq late'
    BY <1>2, <1>3, <1>6 DEF Replaced, Accounted, FilesInvariant, Missing
  <2>3. tracker' \in [Paths -> SUBSET Nat] /\ TrackedIsKnown'
    BY <1>2, <1>4, <1>6 DEF Forget, TrackedIsKnown, FilesInvariant, FilesTypeOK
  <2>4. CASE Operation.kind = "move"
    <3>1. /\ call' \in CallRecord /\ call'.tool = "patch" /\ call'.step = "text"
          /\ call'.path = Destination /\ call'.plan = call.plan
      BY <1>1, <1>2, <1>6, <2>4 DEF Observed, FilesInvariant, FilesTypeOK, CallRecord, AllSteps
    <3>2. touched' = applied'
      BY <1>2, <1>3, <1>6, <2>4 DEF Observed
    <3> QED BY <1>2, <1>5, <2>1, <2>2, <2>3, <2>4, <3>1, <3>2
  <2>5. CASE Operation.kind = "delete"
    <3>1. touched' = applied' /\ Continue
      BY <1>3, <1>6, <2>5
    <3> QED BY <1>3, <1>4, <2>1, <2>2, <2>3, <2>5, <3>1, ContinueKeeps DEF FilesInvariant, FilesTypeOK
  <2> QED BY <1>2, <2>4, <2>5
<1>7. CASE /\ IF Operation.kind = "move"
              THEN /\ applied' = applied \cup {Destination}
                   /\ call' = [call EXCEPT !.path = Destination, !.step = "text", !.plan = <<Operation>>]
              ELSE End /\ UNCHANGED applied
           /\ UNCHANGED <<files, tracker, lost, touched>>
  <2>1. tracker' \in [Paths -> SUBSET Nat] /\ TrackedIsKnown' /\ lost' \subseteq late' /\ files' \in [Paths -> Nat]
    BY <1>3, <1>4, <1>7 DEF TrackedIsKnown, FilesInvariant, FilesTypeOK
  <2>2. CASE Operation.kind = "move"
    <3>1. <<Operation>> \in Seq(Operations) /\ <<Operation>> # <<>> /\ Head(<<Operation>>) = Operation
      BY <1>2
    <3>2. /\ call' \in CallRecord /\ call'.tool = "patch" /\ call'.step = "text"
          /\ call'.path = Destination /\ call'.plan = <<Operation>>
      BY <1>1, <1>2, <1>7, <2>2, <3>1 DEF FilesInvariant, FilesTypeOK, CallRecord, AllSteps
    <3>3. touched' = applied'
      BY <1>2, <1>3, <1>7, <2>2
    <3>4. Head(call'.plan) = Head(call.plan)
      BY <3>1, <3>2 DEF Operation
    <3> QED BY <1>3, <1>5, <1>7, <2>1, <2>2, <3>1, <3>2, <3>3, <3>4
  <2>3. CASE Operation.kind = "delete"
    <3>1. End /\ applied' = applied /\ touched' = touched /\ touched = applied
      BY <1>3, <1>7, <2>3
    <3>2. HalfMoved = {}
      BY <2>3 DEF HalfMoved
    <3> QED BY <1>3, <1>4, <2>1, <2>3, <3>1, <3>2, EndKeeps DEF FilesInvariant, FilesTypeOK
  <2> QED BY <1>2, <2>2, <2>3
<1> QED BY <1>6, <1>7 DEF UnlinkSource

----------------------------------------------------------------------------
\* Everything else a tool, its user or another program may do next.
LEMMA FilesStep == FilesInvariant /\ [FilesNext]_fileVars => FilesInvariant'
<1> SUFFICES ASSUME FilesInvariant, [FilesNext]_fileVars PROVE FilesInvariant'
  OBVIOUS
<1>1. CASE UNCHANGED fileVars
  BY <1>1 DEF fileVars, historyVars, Observing, Operation, Destination, FilesInvariant, FilesTypeOK, historyVars, CallIsUnderWay, ChecksHold, TextIsKnown,
   TrackedIsKnown, PatchIsHonest, HalfMoved, Accounted, PastChecks, CallRecord, AllSteps, StepsOf, Missing
<1>2. CASE \E p \in Paths : ForeignWrite(p) \/ ForeignDelete(p) \/ StartReadFile(p) \/ StartWrite(p) \/ StartEdit(p)
  BY <1>2, ForeignWriteKeeps, ForeignDeleteKeeps, StartReadFileKeeps, StartWriteKeeps, StartEditKeeps
<1>3. CASE ReadText \/ ReadState \/ RecordBytes \/ CannotRead
  BY <1>3, ReadTextKeeps, ReadStateKeeps, RecordBytesKeeps, CannotReadKeeps
<1>4. CASE ReadOriginal \/ CheckAgain \/ WriteBack \/ Cancel
  BY <1>4, EditSteps, WriteBackKeeps, CancelKeeps
<1>5. CASE (\E plan \in Patches : StartPatch(plan)) \/ CheckOperation \/ ReplaceFile \/ UnlinkSource
  BY <1>5, StartPatchKeeps, CheckOperationKeeps, ReplaceFileKeeps, UnlinkSourceKeeps
<1> QED BY <1>1, <1>2, <1>3, <1>4, <1>5 DEF FilesNext

\* No file is overwritten or deleted that the Agent has not seen, whoever else
\* writes meanwhile and however a call fails, and a patch reports what it changed
\* (workspace.py 161, file_tools.py, patch_tools.py), for any files and patches.
THEOREM UnseenFilesAreSafe == FilesSpec => []FilesAreAsSeen
<1>1. FilesInvariant => FilesAreAsSeen
  <2> SUFFICES ASSUME FilesInvariant PROVE FilesAreAsSeen
    OBVIOUS
  <2>1. \A p \in Paths : IsUnchanged(p) => files[p] \in seen \cup late
    BY UnchangedIsAccounted DEF IsUnchanged, Accounted
  <2>2. PatchTellsTheDisk
    BY DEF PatchTellsTheDisk, FilesInvariant, PatchIsHonest, HalfMoved, NoCall
  <2> QED BY <2>1, <2>2 DEF FilesAreAsSeen, OnlySeenIsReplaced, FilesInvariant
<1> QED BY <1>1, FilesInitial, FilesStep, PTL DEF FilesSpec

----------------------------------------------------------------------------
(* Permissions.                                                                *)
RequestRecords == [run : Nat, action : Actions, pending : BOOLEAN]
Asks == {NoResource} \cup [action : Actions, session : BOOLEAN]

PermissionTypeOK ==
  /\ run \in Nat /\ mode \in Modes /\ approved \subseteq Actions /\ turnAsks \in Asks
  /\ requests \in Seq(RequestRecords) /\ carriedOut \in Seq(Seq(Nat)) /\ Len(carriedOut) = Len(requests)

\* The seed has the first layer for itself, the files have the two above it.
LayersAreSeedAndFiles ==
  run > 0 => \E user, project \in SUBSET UNION Files :
               layers = <<Seed, Configured(user), Configured(project)>>

\* What lets an action pass later is the approval of an earlier one.
GrantsAreApproved == \A g \in grants : \E b \in approved : b.resource # NoResource /\ g = GrantOf(b)

\* An operation that still waits was not carried out.
PendingAreUnspent ==
  \A k \in 1..Len(requests) :
    IF requests[k].pending THEN carriedOut[k] = <<>> ELSE carriedOut[k] \in {<<>>, <<requests[k].run>>}

PermissionInvariant ==
  PermissionTypeOK /\ LayersAreSeedAndFiles /\ GrantsAreApproved /\ PendingAreUnspent

----------------------------------------------------------------------------
LEMMA PermissionInitial == PermissionInit => PermissionInvariant
BY DEF PermissionInit, PermissionInvariant, PermissionTypeOK, LayersAreSeedAndFiles, GrantsAreApproved,
   PendingAreUnspent, Asks, Modes

LEMMA CreateRunKeeps ==
  ASSUME PermissionInvariant, NEW user \in Files, NEW project \in Files, NEW m \in Modes, CreateRun(user, project, m)
  PROVE  PermissionInvariant'
<1>1. user \in SUBSET UNION Files /\ project \in SUBSET UNION Files
  OBVIOUS
<1>2. LayersAreSeedAndFiles'
  BY <1>1 DEF LayersAreSeedAndFiles, CreateRun, Seed, SeedRule, Configured
<1>3. PermissionTypeOK' /\ GrantsAreApproved' /\ PendingAreUnspent'
  BY DEF PermissionInvariant, PermissionTypeOK, GrantsAreApproved, PendingAreUnspent, CreateRun, Asks
<1> QED BY <1>2, <1>3 DEF PermissionInvariant

LEMMA ApprovalKeeps ==
  ASSUME PermissionInvariant, NEW a \in Actions, StoreGrant(a) \/ KeepGrants
  PROVE  GrantsAreApproved' /\ approved' \subseteq Actions
BY DEF PermissionInvariant, PermissionTypeOK, GrantsAreApproved, StoreGrant, KeepGrants, GrantOf, WholeDirectory, Parent

LEMMA AsksAndAnswers ==
  ASSUME PermissionInvariant,
         (\E m \in Modes : SetMode(m)) \/ (\E a \in Actions : Ask(a))
           \/ (\E choice \in {"once", "session", "reject"} : Answer(choice))
  PROVE  PermissionInvariant'
<1>1. /\ layers' = layers /\ run' = run /\ requests' = requests /\ carriedOut' = carriedOut
      /\ mode' \in Modes /\ turnAsks' \in Asks
  <2>1. CASE \E m \in Modes : SetMode(m)
    BY <2>1 DEF SetMode, PermissionInvariant, PermissionTypeOK
  <2>2. ASSUME NEW a \in Actions, Ask(a)
        PROVE  turnAsks' \in Asks
    <3>1. MaySession(Evaluate(mode, a), a) \in BOOLEAN
      BY DEF MaySession
    <3> QED BY <2>2, <3>1 DEF Ask, Asks
  <2>3. CASE \E a \in Actions : Ask(a)
    BY <2>2, <2>3 DEF Ask, PermissionInvariant, PermissionTypeOK
  <2>4. CASE \E choice \in {"once", "session", "reject"} : Answer(choice)
    BY <2>4 DEF Answer, Asks, PermissionInvariant, PermissionTypeOK
  <2> QED BY <2>1, <2>3, <2>4
<1>2. GrantsAreApproved' /\ approved' \subseteq Actions
  <2>1. CASE UNCHANGED <<grants, approved>>
    BY <2>1 DEF PermissionInvariant, PermissionTypeOK, GrantsAreApproved, GrantOf, WholeDirectory, Parent
  <2>2. CASE turnAsks # NoResource /\ StoreGrant(turnAsks.action)
    <3>1. turnAsks.action \in Actions
      BY <2>2 DEF PermissionInvariant, PermissionTypeOK, Asks
    <3> QED BY <2>2, <3>1, ApprovalKeeps
  <2> QED BY <2>1, <2>2 DEF SetMode, Ask, Answer, KeepGrants
<1> QED BY <1>1, <1>2 DEF PermissionInvariant, PermissionTypeOK, LayersAreSeedAndFiles, PendingAreUnspent,
             Seed, SeedRule, Configured

LEMMA RequestKeeps == ASSUME PermissionInvariant, NEW a \in Actions, RequestOperation(a) PROVE PermissionInvariant'
<1> DEFINE request == [run |-> run, action |-> a, pending |-> TRUE]
<1>1. request \in RequestRecords /\ request.pending
  BY DEF RequestRecords, PermissionInvariant, PermissionTypeOK
<1>2. requests' = Append(requests, request) /\ carriedOut' = Append(carriedOut, <<>>)
  BY DEF RequestOperation
<1> HIDE DEF request
<1>3. /\ requests \in Seq(RequestRecords) /\ carriedOut \in Seq(Seq(Nat)) /\ Len(carriedOut) = Len(requests)
  BY DEF PermissionInvariant, PermissionTypeOK
<1>4. /\ requests' \in Seq(RequestRecords) /\ Len(requests') = Len(requests) + 1 /\ Len(requests) \in Nat
      /\ requests'[Len(requests) + 1] = request
      /\ \A k \in 1..Len(requests) : requests'[k] = requests[k]
  BY <1>1, <1>2, <1>3
<1>5. /\ carriedOut' \in Seq(Seq(Nat)) /\ Len(carriedOut') = Len(requests) + 1
      /\ carriedOut'[Len(requests) + 1] = <<>>
      /\ \A k \in 1..Len(requests) : carriedOut'[k] = carriedOut[k]
  BY <1>2, <1>3
<1>6. PendingAreUnspent'
  <2> SUFFICES ASSUME NEW k \in 1..Len(requests')
               PROVE  IF requests'[k].pending THEN carriedOut'[k] = <<>>
                      ELSE carriedOut'[k] \in {<<>>, <<requests'[k].run>>}
    BY DEF PendingAreUnspent
  <2>1. CASE k = Len(requests) + 1
    BY <1>1, <1>4, <1>5, <2>1
  <2>2. CASE k \in 1..Len(requests)
    BY <1>4, <1>5, <2>2 DEF PermissionInvariant, PendingAreUnspent
  <2> QED BY <1>4, <2>1, <2>2
<1>7. PermissionTypeOK'
  BY <1>4, <1>5 DEF PermissionInvariant, PermissionTypeOK, RequestOperation
<1> QED BY <1>6, <1>7 DEF PermissionInvariant, LayersAreSeedAndFiles, GrantsAreApproved, RequestOperation,
             Seed, SeedRule, Configured, GrantOf, WholeDirectory, Parent

LEMMA OneReplaced ==
  ASSUME NEW S, NEW q \in Seq(S), NEW k \in 1..Len(q), NEW e \in S
  PROVE  [q EXCEPT ![k] = e] \in Seq(S) /\ Len([q EXCEPT ![k] = e]) = Len(q)
OBVIOUS

\* The last act of a request, whether it is carried out, rejected or released.
LEMMA SpendingKeeps ==
  ASSUME PermissionInvariant, NEW k \in 1..Len(requests), requests[k].pending,
         requests' = [requests EXCEPT ![k].pending = FALSE],
         carriedOut' = carriedOut \/ (requests[k].run = run /\ carriedOut' = [carriedOut EXCEPT ![k] = Append(@, run)]),
         GrantsAreApproved' /\ approved' \subseteq Actions, UNCHANGED <<run, layers, mode, turnAsks>>
  PROVE  PermissionInvariant'
<1>1. /\ requests \in Seq(RequestRecords) /\ carriedOut \in Seq(Seq(Nat)) /\ Len(carriedOut) = Len(requests)
      /\ run \in Nat /\ requests[k] \in RequestRecords
  BY DEF PermissionInvariant, PermissionTypeOK
<1>2. carriedOut[k] = <<>> /\ Append(<<>>, run) = <<run>> /\ <<run>> \in Seq(Nat)
  BY <1>1 DEF PermissionInvariant, PendingAreUnspent
<1>3. /\ requests' \in Seq(RequestRecords) /\ Len(requests') = Len(requests)
      /\ ~requests'[k].pending /\ requests'[k].run = requests[k].run
      /\ \A j \in 1..Len(requests) : j # k => requests'[j] = requests[j]
  <2> DEFINE spent == [requests[k] EXCEPT !.pending = FALSE]
  <2>1. spent \in RequestRecords /\ ~spent.pending /\ spent.run = requests[k].run
    BY <1>1 DEF RequestRecords
  <2>2. requests' = [requests EXCEPT ![k] = spent]
    OBVIOUS
  <2> HIDE DEF spent
  <2>3. requests' \in Seq(RequestRecords) /\ Len(requests') = Len(requests)
    <3>1. \A e \in RequestRecords : /\ [requests EXCEPT ![k] = e] \in Seq(RequestRecords)
                                    /\ Len([requests EXCEPT ![k] = e]) = Len(requests)
      BY <1>1, OneReplaced
    <3>2. \A e \in RequestRecords : requests' = [requests EXCEPT ![k] = e] =>
             requests' \in Seq(RequestRecords) /\ Len(requests') = Len(requests)
      BY <3>1
    <3> QED BY <2>1, <2>2, <3>2
  <2>4. requests'[k] = spent /\ \A j \in 1..Len(requests) : j # k => requests'[j] = requests[j]
    BY <1>1, <2>2
  <2> QED BY <2>1, <2>3, <2>4
<1>4. /\ carriedOut' \in Seq(Seq(Nat)) /\ Len(carriedOut') = Len(requests)
      /\ carriedOut'[k] \in {<<>>, <<requests[k].run>>}
      /\ \A j \in 1..Len(requests) : j # k => carriedOut'[j] = carriedOut[j]
  <2>1. CASE carriedOut' = carriedOut
    BY <1>1, <1>2, <2>1
  <2>2. CASE requests[k].run = run /\ carriedOut' = [carriedOut EXCEPT ![k] = Append(@, run)]
    <3>1. carriedOut' = [carriedOut EXCEPT ![k] = <<run>>]
      BY <1>2, <2>2
    <3> QED BY <1>1, <1>2, <2>2, <3>1
  <2> QED BY <2>1, <2>2
<1>5. PendingAreUnspent'
  BY <1>3, <1>4 DEF PendingAreUnspent, PermissionInvariant
<1>6. PermissionTypeOK'
  BY <1>3, <1>4 DEF PermissionInvariant, PermissionTypeOK
<1> QED BY <1>5, <1>6 DEF PermissionInvariant, LayersAreSeedAndFiles, Seed, SeedRule, Configured

LEMMA OperationsKeep ==
  ASSUME PermissionInvariant, NEW k \in DOMAIN requests,
         Release(k) \/ \E choice \in {"once", "session", "reject"} : CarryOut(k, choice)
  PROVE  PermissionInvariant'
<1>1. k \in 1..Len(requests) /\ requests[k].action \in Actions
  <2>1. requests \in Seq(RequestRecords) /\ k \in DOMAIN requests
    BY DEF PermissionInvariant, PermissionTypeOK
  <2>2. k \in 1..Len(requests) /\ requests[k] \in RequestRecords
    BY <2>1
  <2> QED BY <2>2 DEF RequestRecords
<1>2. StoreGrant(requests[k].action) \/ KeepGrants
  BY DEF Release, CarryOut, KeepGrants
<1>3. GrantsAreApproved' /\ approved' \subseteq Actions
  BY <1>1, <1>2, ApprovalKeeps
<1> QED BY <1>1, <1>3, SpendingKeeps DEF Release, CarryOut

LEMMA PermissionStep == PermissionInvariant /\ [PermissionNext]_permissionVars => PermissionInvariant'
<1> SUFFICES ASSUME PermissionInvariant, [PermissionNext]_permissionVars PROVE PermissionInvariant'
  OBVIOUS
<1>1. CASE UNCHANGED permissionVars
  BY <1>1 DEF permissionVars, PermissionInvariant, PermissionTypeOK, LayersAreSeedAndFiles, GrantsAreApproved,
     PendingAreUnspent, Seed, SeedRule, Configured, GrantOf, WholeDirectory, Parent
<1>2. CASE \E user, project \in Files, m \in Modes : CreateRun(user, project, m)
  BY <1>2, CreateRunKeeps
<1>3. CASE (\E m \in Modes : SetMode(m)) \/ (\E a \in Actions : Ask(a))
             \/ (\E choice \in {"once", "session", "reject"} : Answer(choice))
  BY <1>3, AsksAndAnswers
<1>4. CASE \E a \in Actions : RequestOperation(a)
  BY <1>4, RequestKeeps
<1>5. CASE \E k \in DOMAIN requests : Release(k) \/ \E choice \in {"once", "session", "reject"} : CarryOut(k, choice)
  BY <1>5, OperationsKeep
<1> QED BY <1>1, <1>2, <1>3, <1>4, <1>5 DEF PermissionNext

----------------------------------------------------------------------------
\* What the layers hold: the two rules of the seed below what the files say.
LEMMA LayersHold ==
  ASSUME PermissionInvariant, run > 0
  PROVE  /\ DOMAIN layers = 1..3 /\ SeedRule("circuit_breaker") \in layers[1]
         /\ \A r \in layers[1] : r.authority \in {"builtin", "circuit_breaker"}
         /\ \A r \in layers[2] \cup layers[3] : r.authority = "configured"
<1>1. PICK user \in SUBSET UNION Files, project \in SUBSET UNION Files :
        layers = <<Seed, Configured(user), Configured(project)>>
  BY DEF PermissionInvariant, LayersAreSeedAndFiles
<1>2. \A f : \A r \in Configured(f) : r.authority = "configured"
  BY DEF Configured
<1>3. \A r \in Seed : r.authority \in {"builtin", "circuit_breaker"}
  BY DEF Seed, SeedRule
<1>4. SeedRule("circuit_breaker") \in Seed
  BY DEF Seed
<1>5. DOMAIN layers = 1..3 /\ layers[1] = Seed /\ layers[2] = Configured(user) /\ layers[3] = Configured(project)
  BY <1>1
<1> QED BY <1>2, <1>3, <1>4, <1>5

LEMMA StrictestDecides ==
  ASSUME NEW rules
  PROVE  Strictest(rules) \in Decisions \cup {"none"} /\ (Strictest(rules) = "none" <=> rules = {})
BY DEF Strictest, Decisions

\* The highest layer that has a rule decides.
LEMMA HighestDecides ==
  ASSUME PermissionInvariant, run > 0, NEW kind, NEW authorities, NEW a
  PROVE  /\ Hits(kind, authorities, a, 3) # {} => Select(kind, authorities, a) = Strictest(Hits(kind, authorities, a, 3))
         /\ Hits(kind, authorities, a, 3) = {} /\ Hits(kind, authorities, a, 2) # {} =>
              Select(kind, authorities, a) = Strictest(Hits(kind, authorities, a, 2))
         /\ Hits(kind, authorities, a, 3) = {} /\ Hits(kind, authorities, a, 2) = {} =>
              Select(kind, authorities, a) = Strictest(Hits(kind, authorities, a, 1))
<1> DEFINE H(l) == Hits(kind, authorities, a, l)
           heard == {l \in DOMAIN layers : H(l) # {}}
           top == {k \in heard : \A j \in heard : j <= k}
           rules == UNION {H(l) : l \in top}
<1>1. Select(kind, authorities, a) = Strictest(rules)
  BY DEF Select
<1>2. DOMAIN layers = 1..3
  BY LayersHold
<1> HIDE DEF H
<1>3. heard \subseteq 1..3 /\ \A l \in 1..3 : l \in heard <=> H(l) # {}
  BY <1>2
<1> HIDE DEF heard
<1>4. CASE H(3) # {}
  <2>1. top = {3}
    <3>1. 3 \in heard /\ \A j \in heard : j \in 1..3
      BY <1>3, <1>4
    <3> QED BY <3>1
  <2>2. rules = H(3)
    BY <2>1
  <2> QED BY <1>1, <1>4, <2>2 DEF H
<1>5. CASE H(3) = {} /\ H(2) # {}
  <2>1. top = {2}
    <3>1. 2 \in heard /\ \A j \in heard : j \in 1..2
      BY <1>3, <1>5
    <3> QED BY <3>1
  <2>2. rules = H(2)
    BY <2>1
  <2> QED BY <1>1, <1>5, <2>2 DEF H
<1>6. CASE H(3) = {} /\ H(2) = {}
  <2>1. top \subseteq {1} /\ (H(1) # {} => top = {1})
    <3>1. \A j \in heard : j = 1
      BY <1>3, <1>6
    <3>2. H(1) # {} => 1 \in heard
      BY <1>3
    <3> QED BY <3>1, <3>2
  <2>2. rules = H(1)
    BY <2>1
  <2> QED BY <1>1, <1>6, <2>2 DEF H
<1> QED BY <1>4, <1>5, <1>6 DEF H

\* No file says anything about the circuit breaker, and the seed about it all.
LEMMA BreakerIsHeard ==
  ASSUME PermissionInvariant, run > 0, NEW a \in Actions, a.breaker
  PROVE  Select("guard", {"circuit_breaker"}, a) # "none"
<1>1. SeedRule("circuit_breaker") \in Hits("guard", {"circuit_breaker"}, a, 1)
  BY LayersHold DEF Hits, SeedRule, Covers
<1> QED BY <1>1, HighestDecides, StrictestDecides

\* The user's and the project's Guards are above the seed's: where they speak,
\* the seed changes nothing.
LEMMA ConfiguredPrevails ==
  ASSUME PermissionInvariant, run > 0, NEW a \in Actions, Select("guard", {"configured"}, a) # "none"
  PROVE  Select("guard", {"configured", "builtin"}, a) = Select("guard", {"configured"}, a)
<1> DEFINE C(l) == Hits("guard", {"configured"}, a, l)
           B(l) == Hits("guard", {"configured", "builtin"}, a, l)
<1>1. C(1) = {} /\ B(2) = C(2) /\ B(3) = C(3)
  BY LayersHold DEF Hits
<1>2. C(2) # {} \/ C(3) # {}
  BY <1>1, HighestDecides, StrictestDecides
<1> QED BY <1>1, <1>2, HighestDecides

\* The decision of a Verdict, in one mode and from one to a laxer one.
LEMMA BreakersAsk ==
  ASSUME PermissionInvariant, run > 0, NEW a \in Actions, NEW m \in Modes, a.breaker
  PROVE  ~Allowed(m, a)
BY BreakerIsHeard DEF Allowed, Evaluate, Verdict

LEMMA DenialsHold ==
  ASSUME PermissionInvariant, run > 0, NEW a \in Actions, NEW m \in Modes, Select("guard", {"configured"}, a) = "deny"
  PROVE  ~Allowed(m, a)
BY ConfiguredPrevails DEF Allowed, Evaluate, Verdict

LEMMA LaxerAllowsMore ==
  ASSUME PermissionInvariant, run > 0, NEW a \in Actions, NEW ms \in Laxer, Allowed(ms[1], a)
  PROVE  Allowed(ms[2], a)
<1>1. CASE ms = <<"default", "auto">>
  BY <1>1 DEF Allowed, Evaluate, Verdict, Unguarded, Strategy
<1>2. CASE ms = <<"auto", "full_access">>
  BY <1>2, ConfiguredPrevails DEF Allowed, Evaluate, Verdict, Unguarded
<1> QED BY <1>1, <1>2 DEF Laxer

LEMMA GrantedWasApproved ==
  ASSUME PermissionInvariant, NEW a \in Actions, Granted(a)
  PROVE  \E b \in approved : SameKind(a, b) /\ SamePlace(a, b)
<1>1. PICK g \in grants : /\ g.tool = a.tool /\ g.effect = a.effect /\ g.scope = a.scope
                          /\ Within(g.resource, g.prefix, a.resource)
  BY DEF Granted
<1>2. PICK b \in approved : b.resource # NoResource /\ g = GrantOf(b)
  BY DEF PermissionInvariant, GrantsAreApproved
<1>3. SameKind(a, b)
  BY <1>1, <1>2 DEF SameKind, GrantOf
<1>4. SamePlace(a, b)
  <2>1. CASE ~WholeDirectory(b)
    BY <1>1, <1>2, <2>1 DEF GrantOf, Within, SamePlace
  <2>2. CASE WholeDirectory(b)
    <3>1. b.resource \in Seq(STRING) /\ Parent(b.resource) # <<>> /\ a.scope = "outside"
      BY <1>2, <1>3, <2>2, PermissionAssumption DEF WholeDirectory, SameKind, PermissionInvariant, PermissionTypeOK
    <3>2. Len(b.resource) > 1
      BY <3>1 DEF Parent
    <3>3. Prefix(Parent(b.resource), a.resource)
      BY <1>1, <1>2, <2>2 DEF GrantOf, Within
    <3> QED BY <3>1, <3>2, <3>3 DEF SamePlace
  <2> QED BY <2>1, <2>2
<1> QED BY <1>3, <1>4

\* A grant is reached only where no rule of a file speaks.
LEMMA GrantsComeLast ==
  ASSUME PermissionInvariant, run > 0, NEW a \in Actions, Evaluate(mode, a).reason = "grant"
  PROVE  /\ Granted(a) /\ Select("policy", {"configured"}, a) = "none"
         /\ Select("guard", {"configured", "builtin"}, a) \in {"none", "allow"}
<1>1. Select("guard", {"configured", "builtin"}, a) \in Decisions \cup {"none"}
  BY StrictestDecides DEF Select
<1> QED BY <1>1 DEF Evaluate, Unguarded, Verdict, Decisions

\* Whatever rules, modes and answers come together, what is allowed has its
\* reason, and an approval serves one operation in one Run (core/permission.py,
\* runs.py, bridge.py), for any actions and any files.
THEOREM AllowedWasEarned == PermissionSpec => []PermissionIsEarned
<1>1. PermissionInvariant => PermissionIsEarned
  <2> SUFFICES ASSUME PermissionInvariant PROVE PermissionIsEarned
    OBVIOUS
  <2>1. AllowedIsJustified
    BY BreakersAsk, DenialsHold, LaxerAllowsMore, GrantsComeLast, GrantedWasApproved DEF AllowedIsJustified
  <2>2. ApprovalsAreSpent
    <3>1. DOMAIN requests = 1..Len(requests)
      BY DEF PermissionInvariant, PermissionTypeOK
    <3> QED BY <3>1 DEF ApprovalsAreSpent, PermissionInvariant, PendingAreUnspent
  <2> QED BY <2>1, <2>2 DEF PermissionIsEarned
<1> QED BY <1>1, PermissionInitial, PermissionStep, PTL DEF PermissionSpec

----------------------------------------------------------------------------
(* Processes and their output.  ProcessInvariant says what the two properties *)
(* of the run do not: which cursors a reader can hold and how chunks follow   *)
(* one another, that a confirmed kill is of a child that is gone, and that    *)
(* what runs is on the list of the Session or has not been touched.  Most     *)
(* steps are quiet: they move processes and forget only some that ended.      *)

\* ------------------------------------------------------ output and cursors

\* The chunks follow one another up to the end, none beyond what is kept.
WellFiled(out) ==
    /\ out.chunks \in Seq(Chunk) /\ out.next \in Nat
    /\ \A i \in 1..Len(out.chunks) :
          /\ out.chunks[i].at + out.chunks[i].len =
                IF i = Len(out.chunks) THEN out.next ELSE out.chunks[i+1].at
          /\ out.chunks[i].at + out.chunks[i].len <= out.next
          /\ out.next - out.chunks[i].at <= MaxBytes
    /\ \A i, j \in 1..Len(out.chunks) : i < j =>
          out.chunks[i].at + out.chunks[i].len <= out.chunks[j].at

\* A cursor that was handed out stands at the end, at a chunk, or before all.
WellPlaced(out, k) ==
    /\ k \in Nat /\ k <= out.next
    /\ \/ k = out.next
       \/ k < Earliest(out)
       \/ \E i \in 1..Len(out.chunks) : out.chunks[i].at = k

OutputInvariant ==
    \A p \in Processes : WellFiled(proc[p].out) /\ WellPlaced(proc[p].out, cursor[p])

LEMMA ChunkNumbers ==
    ASSUME NEW s \in Seq(Chunk)
    PROVE  \A i \in 1..Len(s) : s[i] \in Chunk /\ s[i].at \in Nat
                                /\ s[i].len \in Nat /\ s[i].len > 0
<1>1. \A i \in 1..Len(s) : s[i] \in Chunk
  OBVIOUS
<1>2. QED
  BY <1>1 DEF Chunk

\* `cut` is the tail of s that reaches back at most MaxBytes from the end.
CutOff(cut, s, end) ==
    \E m \in 1..(Len(s) + 1) :
        /\ \A i \in 1..Len(s) : end - s[i].at <= MaxBytes <=> m <= i
        /\ cut = SubSeq(s, m, Len(s))

(* What is kept, in terms of the chunks and the end. *)
LEMMA KeptByParts ==
    ASSUME NEW out, NEW s, NEW end, out.chunks = s, out.next = end
    PROVE  Kept(out) = Selected(s, {c \in Range(s) : end - c.at <= MaxBytes})
  BY DEF Kept

(* What append keeps is a tail of the chunks and the new one. *)
LEMMA KeptIsATail ==
    ASSUME NEW out, WellFiled(out), NEW n \in Nat, n > 0
    PROVE  /\ CutOff(Appended(out, n).chunks,
                     Append(out.chunks, [at |-> out.next, len |-> n]), out.next + n)
           /\ Appended(out, n).next = out.next + n
<1> DEFINE s == Append(out.chunks, [at |-> out.next, len |-> n])
           end == out.next + n
           new == [chunks |-> s, next |-> end]
           T == {c \in Range(s) : end - c.at <= MaxBytes}
<1>1. /\ s \in Seq(Chunk) /\ Len(s) = Len(out.chunks) + 1
      /\ Len(out.chunks) \in Nat /\ DOMAIN s = 1..Len(s)
      /\ \A i \in 1..Len(out.chunks) : s[i] = out.chunks[i]
      /\ s[Len(s)] = [at |-> out.next, len |-> n]
  BY DEF WellFiled, Chunk
<1> HIDE DEF s, end
<1>2. \A i \in 1..Len(s) : s[i] \in Chunk /\ s[i].at \in Nat
  BY <1>1, ChunkNumbers
<1>3. \A i \in 1..Len(s) : s[i] \in T <=> end - s[i].at <= MaxBytes
  BY <1>1 DEF Range
<1>4. \A i, j \in 1..Len(s) : i <= j => s[i].at <= s[j].at
  <2>1. SUFFICES ASSUME NEW i \in 1..Len(s), NEW j \in 1..Len(s), i < j
                 PROVE  s[i].at <= s[j].at
    BY <1>2
  <2>2. /\ i \in 1..Len(out.chunks) /\ s[i] = out.chunks[i]
        /\ out.chunks[i].at \in Nat /\ out.chunks[i].len \in Nat
    BY <1>1, <2>1, ChunkNumbers DEF WellFiled
  <2>3. CASE j = Len(s)
    <3>1. s[j].at = out.next /\ s[i].at = out.chunks[i].at /\ out.next \in Nat
      BY <1>1, <2>2, <2>3 DEF WellFiled
    <3>2. out.chunks[i].at + out.chunks[i].len <= out.next
      BY <2>2 DEF WellFiled
    <3>3. QED
      BY <2>2, <3>1, <3>2
  <2>4. CASE j # Len(s)
    <3>1. j \in 1..Len(out.chunks) /\ s[j] = out.chunks[j]
      BY <1>1, <2>4
    <3>2. out.chunks[i].at + out.chunks[i].len <= out.chunks[j].at
      BY <2>1, <2>2, <3>1 DEF WellFiled
    <3>3. s[i].at = out.chunks[i].at /\ s[j].at = out.chunks[j].at
      BY <2>2, <3>1
    <3>4. s[j].at \in Nat
      BY <1>2
    <3>5. QED
      BY <2>2, <3>2, <3>3, <3>4, SMTT(60)
  <2>5. QED
    BY <2>3, <2>4
<1>5. PICK m \in 1..(Len(s) + 1) : \A i \in 1..Len(s) : s[i] \in T <=> m <= i
  <2>1. \A i, j \in 1..Len(s) : i <= j /\ s[i] \in T => s[j] \in T
    BY <1>2, <1>3, <1>4, MaxBytesAssumption, SMTT(30) DEF WellFiled, end
  <2> HIDE DEF T
  <2>2. QED
    BY <1>1, <2>1, TailExists
<1>6. Appended(out, n).chunks = Selected(s, T) /\ Appended(out, n).next = end
  <2>1. new.chunks = s /\ new.next = end
    OBVIOUS
  <2>2. Appended(out, n) = [new EXCEPT !.chunks = Kept(new)]
    BY DEF Appended, s, end
  <2>3. Appended(out, n).chunks = Kept(new) /\ Appended(out, n).next = end
    BY <2>2
  <2> HIDE DEF new
  <2>4. Kept(new) = Selected(s, T)
    BY <2>1, KeptByParts, ZenonT(40)
  <2>5. QED
    BY <2>3, <2>4
<1>7. Selected(s, T) = SubSeq(s, m, Len(s))
  <2> HIDE DEF T
  <2>1. QED
    BY <1>1, <1>5, SelectedTail
<1>8. \A i \in 1..Len(s) : end - s[i].at <= MaxBytes <=> m <= i
  BY <1>3, <1>5
<1> HIDE DEF T, new
<1>9. CutOff(Appended(out, n).chunks, s, end)
  <2> DEFINE cut == Appended(out, n).chunks
  <2> HIDE DEF cut
  <2>1. cut = SubSeq(s, m, Len(s))
    BY <1>6, <1>7 DEF cut
  <2>2. CutOff(cut, s, end)
    BY <1>8, <2>1 DEF CutOff
  <2>3. QED
    BY <2>2 DEF cut
<1>10. QED
  BY <1>6, <1>9 DEF s, end

(* Output that is appended is well filed, and cursors stay well placed. *)
LEMMA AppendedIsWell ==
    ASSUME NEW out, WellFiled(out), NEW n \in Nat, n > 0,
           NEW k, WellPlaced(out, k)
    PROVE  WellFiled(Appended(out, n)) /\ WellPlaced(Appended(out, n), k)
<1> DEFINE s == Append(out.chunks, [at |-> out.next, len |-> n])
           new == Appended(out, n)
           old == out.chunks
           end == out.next + n
           L == Len(old)
<1>1. /\ s \in Seq(Chunk) /\ Len(s) = L + 1 /\ L \in Nat
      /\ \A i \in 1..L : s[i] = old[i]
      /\ s[L + 1] = [at |-> out.next, len |-> n]
  BY DEF WellFiled, Chunk
<1>0. new.next = end /\ CutOff(new.chunks, s, end)
  BY KeptIsATail
<1>2. out.next \in Nat /\ end \in Nat /\ end = out.next + n
  BY DEF WellFiled
<1>3. \A i \in 1..L : /\ old[i].at \in Nat /\ old[i].len \in Nat /\ old[i].len > 0
                      /\ old[i].at + old[i].len <= out.next
                      /\ old[i].at + old[i].len =
                            IF i = L THEN out.next ELSE old[i+1].at
  BY ChunkNumbers DEF WellFiled
<1>4. \A i, j \in 1..L : i < j => old[i].at + old[i].len <= old[j].at
  BY DEF WellFiled
<1> HIDE DEF s, new, old, end, L
<1>5. \A i \in 1..(L+1) :
          /\ s[i].at \in Nat /\ s[i].len \in Nat /\ s[i].len > 0
          /\ s[i].at + s[i].len <= end
          /\ s[i].at + s[i].len = IF i = L + 1 THEN end ELSE s[i+1].at
  <2> SUFFICES ASSUME NEW i \in 1..(L+1)
               PROVE /\ s[i].at \in Nat /\ s[i].len \in Nat /\ s[i].len > 0
                     /\ s[i].at + s[i].len <= end
                     /\ s[i].at + s[i].len = IF i = L + 1 THEN end ELSE s[i+1].at
    OBVIOUS
  <2>1. CASE i = L + 1
    BY <1>1, <1>2, <2>1
  <2>2. CASE i # L + 1
    <3>1. i \in 1..L /\ s[i] = old[i]
      BY <1>1, <2>2
    <3>2. s[i+1].at = IF i = L THEN out.next ELSE old[i+1].at
      BY <1>1, <3>1
    <3>3. /\ old[i].at \in Nat /\ old[i].len \in Nat /\ old[i].len > 0
          /\ old[i].at + old[i].len <= out.next
          /\ old[i].at + old[i].len = IF i = L THEN out.next ELSE old[i+1].at
      BY <1>3, <3>1
    <3>4. old[i].at + old[i].len = s[i+1].at
      BY <3>2, <3>3
    <3>5. old[i].at + old[i].len <= end
      BY <1>2, <3>1, <3>3
    <3>6. QED
      BY <2>2, <3>1, <3>3, <3>4, <3>5
  <2>3. QED
    BY <2>1, <2>2
<1>6. \A i, j \in 1..(L+1) : i < j => s[i].at + s[i].len <= s[j].at
  <2> SUFFICES ASSUME NEW i \in 1..(L+1), NEW j \in 1..(L+1), i < j
               PROVE  s[i].at + s[i].len <= s[j].at
    OBVIOUS
  <2>1. i \in 1..L /\ s[i] = old[i]
    BY <1>1
  <2>2. CASE j = L + 1
    BY <1>1, <1>2, <1>3, <2>1, <2>2
  <2>3. CASE j # L + 1
    <3>1. j \in 1..L /\ s[j] = old[j]
      BY <1>1, <2>3
    <3>2. QED
      BY <1>4, <2>1, <3>1
  <2>4. QED
    BY <2>2, <2>3
<1>7. PICK m \in 1..(L + 2) :
          /\ \A i \in 1..(L + 1) : end - s[i].at <= MaxBytes <=> m <= i
          /\ new.chunks = SubSeq(s, m, L + 1)
  <2>1. (L + 1) + 1 = L + 2
    BY <1>1
  <2>2. QED
    BY <1>0, <1>1, <2>1 DEF CutOff
<1>8. /\ new.chunks \in Seq(Chunk) /\ Len(new.chunks) = L + 2 - m
      /\ \A i \in 1..(L + 2 - m) : /\ m - 1 + i \in 1..(L+1)
                                   /\ new.chunks[i] = s[m - 1 + i]
  <2>1. (L + 1) + 1 - m = L + 2 - m /\ m \in 1..(Len(s) + 1)
    BY <1>1
  <2>2. /\ new.chunks \in Seq(Chunk) /\ Len(new.chunks) = Len(s) + 1 - m
        /\ \A i \in 1..(Len(s) + 1 - m) : /\ m - 1 + i \in 1..Len(s)
                                         /\ new.chunks[i] = s[m - 1 + i]
    BY <1>1, <1>7, <2>1, TailByPlaces, SMTT(30)
  <2>3. QED
    BY <1>1, <2>1, <2>2
<1>9. WellFiled(new)
  <2>1. ASSUME NEW i \in 1..Len(new.chunks)
        PROVE  /\ new.chunks[i].at + new.chunks[i].len =
                     IF i = Len(new.chunks) THEN new.next ELSE new.chunks[i+1].at
               /\ new.chunks[i].at + new.chunks[i].len <= new.next
               /\ new.next - new.chunks[i].at <= MaxBytes
    <3>1. /\ m - 1 + i \in 1..(L+1) /\ new.chunks[i] = s[m - 1 + i] /\ m <= m - 1 + i
          /\ i = Len(new.chunks) <=> m - 1 + i = L + 1
      BY <1>1, <1>8, <2>1
    <3>2. i # Len(new.chunks) => new.chunks[i+1] = s[m - 1 + i + 1]
      <4>1. i # Len(new.chunks) => i + 1 \in 1..(L + 2 - m) /\ m - 1 + (i + 1) = m - 1 + i + 1
        BY <1>1, <1>8, <2>1
      <4>2. QED
        BY <1>8, <4>1
    <3>3. QED
      BY <1>0, <1>1, <1>5, <1>7, <3>1, <3>2
  <2>2. ASSUME NEW i \in 1..Len(new.chunks), NEW j \in 1..Len(new.chunks), i < j
        PROVE  new.chunks[i].at + new.chunks[i].len <= new.chunks[j].at
    <3>1. /\ m - 1 + i \in 1..(L+1) /\ new.chunks[i] = s[m - 1 + i]
          /\ m - 1 + j \in 1..(L+1) /\ new.chunks[j] = s[m - 1 + j]
          /\ m - 1 + i < m - 1 + j
      BY <1>1, <1>8, <2>2
    <3>2. QED
      BY <1>6, <3>1
  <2>3. new.next \in Nat
    BY <1>0, <1>2
  <2>4. QED
    BY <1>8, <2>1, <2>2, <2>3 DEF WellFiled
<1>10. WellPlaced(new, k)
  <2>1. k \in Nat /\ k <= out.next /\ k <= end /\ k < end
    BY <1>2 DEF WellPlaced
  <2>2. Earliest(new) = IF m = L + 2 THEN end ELSE s[m].at
    <3>1. CASE m = L + 2
      <4>1. new.chunks = <<>>
        BY <1>1, <1>8, <3>1
      <4>2. QED
        BY <1>0, <3>1, <4>1 DEF Earliest
    <3>2. CASE m # L + 2
      <4>1. new.chunks # <<>> /\ new.chunks[1] = s[m]
        BY <1>1, <1>8, <3>2
      <4>2. QED
        BY <3>2, <4>1 DEF Earliest
    <3>3. QED
      BY <3>1, <3>2
  \* A cursor at a chunk of s stands at it still, or before all that are kept.
  <2>3. ASSUME NEW i \in 1..(L+1), s[i].at = k
        PROVE  WellPlaced(new, k)
    <3>1. CASE m <= i
      <4>1. i - m + 1 \in 1..(L + 2 - m) /\ m - 1 + (i - m + 1) = i
        BY <1>1, <3>1
      <4>2. i - m + 1 \in 1..Len(new.chunks) /\ new.chunks[i - m + 1].at = k
        BY <1>8, <2>3, <4>1
      <4>3. QED
        BY <1>0, <2>1, <4>2 DEF WellPlaced
    <3>2. CASE ~(m <= i)
      <4>1. CASE m = L + 2
        BY <1>0, <2>1, <2>2, <4>1 DEF WellPlaced
      <4>2. CASE m # L + 2
        <5>1. m \in 1..(L+1) /\ i < m
          BY <1>1, <3>2, <4>2
        <5>2. s[i].at < s[m].at
          BY <1>5, <1>6, <5>1
        <5>3. QED
          BY <1>0, <2>1, <2>2, <2>3, <4>2, <5>2 DEF WellPlaced
      <4>3. QED
        BY <4>1, <4>2
    <3>3. QED
      BY <3>1, <3>2
  <2>4. CASE k = out.next
    <3>1. L + 1 \in 1..(L+1) /\ s[L+1].at = k
      BY <1>1, <2>4
    <3>2. QED
      BY <2>3, <3>1
  <2>5. CASE k < Earliest(out) /\ k # out.next
    <3>1. k < s[1].at /\ 1 \in 1..(L+1)
      <4>1. CASE L = 0
        <5>1. old = <<>>
          BY <4>1 DEF L, old, WellFiled
        <5>2. QED
          BY <1>1, <1>2, <2>1, <2>5, <4>1
      <4>2. CASE L # 0
        <5>1. old # <<>> /\ 1 \in 1..L
          BY <1>1, <4>2 DEF L, old, WellFiled
        <5>2. Earliest(out) = old[1].at
          BY <5>1 DEF Earliest, old
        <5>3. QED
          BY <1>1, <2>5, <5>1, <5>2
      <4>3. QED
        BY <4>1, <4>2
    <3>2. k < Earliest(new)
      <4>1. CASE m = L + 2
        BY <2>1, <2>2, <4>1
      <4>2. CASE m = 1
        BY <1>1, <2>2, <3>1, <4>2
      <4>3. CASE m # L + 2 /\ m # 1
        <5>1. m \in 1..(L+1) /\ 1 < m
          BY <1>1, <4>3
        <5>2. s[1].at < s[m].at
          BY <1>5, <1>6, <3>1, <5>1
        <5>3. QED
          BY <1>5, <2>1, <2>2, <3>1, <4>3, <5>1, <5>2
      <4>4. QED
        BY <4>1, <4>2, <4>3
    <3>3. QED
      BY <1>0, <2>1, <3>2 DEF WellPlaced
  <2>6. CASE k # out.next /\ ~(k < Earliest(out))
    <3>1. PICK i \in 1..L : old[i].at = k
      BY <2>6 DEF WellPlaced, L, old
    <3>2. i \in 1..(L+1) /\ s[i].at = k
      BY <1>1, <3>1
    <3>3. QED
      BY <2>3, <3>2
  <2>7. QED
    BY <2>4, <2>5, <2>6
<1>11. QED
  BY <1>9, <1>10 DEF new

\* What ReadIsHonest says of one process.
Honest(out, k) ==
    LET got  == Entries(out, k)
        from == IF Lost(out, k) THEN Earliest(out) ELSE k
    IN  /\ \A i \in DOMAIN got :
              got[i].at = IF i = 1 THEN from ELSE got[i-1].at + got[i-1].len
        /\ out.next = IF got = <<>> THEN from ELSE Last(got).at + Last(got).len
        /\ out.next - Earliest(out) <= MaxBytes

(* A read from a well placed cursor is honest. *)
LEMMA HonestRead ==
    ASSUME NEW out, WellFiled(out), NEW k, WellPlaced(out, k)
    PROVE  Honest(out, k)
<1> DEFINE s == out.chunks
           L == Len(s)
           start == IF Lost(out, k) THEN Earliest(out) ELSE k
           T == {c \in Range(s) : c.at >= start}
           got == Entries(out, k)
           next == out.next
           first == Earliest(out)
<1>1. /\ s \in Seq(Chunk) /\ L \in Nat /\ DOMAIN s = 1..L
      /\ next \in Nat /\ k \in Nat /\ k <= next
  BY DEF WellFiled, WellPlaced
<1>2. \A i \in 1..L : /\ s[i].at \in Nat /\ s[i].len \in Nat /\ s[i].len > 0
                      /\ s[i].at + s[i].len <= next
                      /\ s[i].at + s[i].len =
                            IF i = L THEN next ELSE s[i+1].at
                      /\ next - s[i].at <= MaxBytes
  BY ChunkNumbers DEF WellFiled
<1>3. \A i, j \in 1..L : i < j => s[i].at + s[i].len <= s[j].at
  BY DEF WellFiled
<1>4. first = IF L = 0 THEN next ELSE s[1].at
  <2>1. s = <<>> <=> L = 0
    BY <1>1
  <2>2. QED
    BY <2>1 DEF Earliest
<1>5. start = IF k < first THEN first ELSE k
  BY DEF Lost
<1>6. k = next \/ k < first \/ \E i \in 1..L : s[i].at = k
  BY DEF WellPlaced
<1>7. got = Selected(s, T)
  BY DEF Entries
<1> HIDE DEF s, L, start, T, got, next, first
<1>a. \A i \in 1..L : s[i].at \in Nat /\ s[i].at < next
  <2> SUFFICES ASSUME NEW i \in 1..L PROVE s[i].at \in Nat /\ s[i].at < next
    OBVIOUS
  <2>1. /\ s[i].at \in Nat /\ s[i].len \in Nat /\ s[i].len > 0
        /\ s[i].at + s[i].len <= next
    BY <1>2
  <2>2. QED
    BY <1>1, <2>1
<1>b. \A i, j \in 1..L : i < j => s[i].at < s[j].at
  <2> SUFFICES ASSUME NEW i \in 1..L, NEW j \in 1..L, i < j
               PROVE  s[i].at < s[j].at
    OBVIOUS
  <2>1. /\ s[i].at \in Nat /\ s[i].len \in Nat /\ s[i].len > 0 /\ s[j].at \in Nat
        /\ s[i].at + s[i].len <= s[j].at
    BY <1>2, <1>3
  <2>2. QED
    BY <2>1
<1>8. /\ first \in Nat /\ first <= next /\ next - first <= MaxBytes
      /\ \A i \in 1..L : first <= s[i].at
  <2>1. CASE L = 0
    BY <1>1, <1>4, <2>1, MaxBytesAssumption
  <2>2. CASE L # 0
    <3>1. 1 \in 1..L
      BY <1>1, <2>2
    <3>2. \A i \in 1..L : s[1].at <= s[i].at
      BY <1>1, <1>a, <1>b, <3>1
    <3>3. s[1].at <= next
      BY <1>1, <1>a, <3>1
    <3>4. QED
      BY <1>2, <1>4, <2>2, <3>1, <3>2, <3>3
  <2>3. QED
    BY <2>1, <2>2
<1>9. start \in Nat /\ start <= next /\ first <= start
  BY <1>1, <1>5, <1>8
<1>10. \A i \in 1..L : s[i] \in T <=> s[i].at >= start
  BY <1>1 DEF Range, T
<1>11. PICK m \in 1..(L + 1) : \A i \in 1..L : s[i] \in T <=> m <= i
  <2>1. \A i, j \in 1..L : i <= j => s[i].at <= s[j].at
    BY <1>1, <1>a, <1>b
  <2>2. \A i, j \in 1..Len(s) : i <= j /\ s[i] \in T => s[j] \in T
    BY <1>1, <1>a, <1>9, <1>10, <2>1 DEF L
  <2>3. \E m \in 1..(Len(s) + 1) : \A i \in 1..Len(s) : s[i] \in T <=> m <= i
    BY <1>1, <2>2, TailExists
  <2>4. QED
    BY <2>3 DEF L
<1>12. got = SubSeq(s, m, L)
  BY <1>1, <1>7, <1>11, SelectedTail DEF L
<1>13. /\ got \in Seq(Chunk) /\ Len(got) = L + 1 - m /\ DOMAIN got = 1..(L + 1 - m)
       /\ \A i \in 1..(L + 1 - m) : m - 1 + i \in 1..L /\ got[i] = s[m - 1 + i]
  <2>1. /\ got \in Seq(Chunk) /\ Len(got) = L + 1 - m
        /\ \A i \in 1..(L + 1 - m) : m - 1 + i \in 1..L /\ got[i] = s[m - 1 + i]
    BY <1>1, <1>12, TailByPlaces DEF L
  <2>2. QED
    BY <2>1
\* The first chunk handed out stands at the start; without one it is the end.
<1>14. IF m = L + 1 THEN start = next ELSE s[m].at = start
  <2>1. CASE k < first
    <3>1. start = first
      BY <1>5, <2>1
    <3>2. \A i \in 1..L : s[i] \in T
      BY <1>2, <1>8, <1>10, <3>1
    <3>3. CASE L = 0
      BY <1>4, <1>11, <3>1, <3>3
    <3>4. CASE L # 0
      <4>1. 1 \in 1..L
        BY <1>1, <3>4
      <4>2. m = 1
        BY <1>1, <1>11, <3>2, <4>1
      <4>3. start = s[1].at /\ m # L + 1
        BY <1>1, <1>4, <3>1, <3>4, <4>2
      <4>4. QED
        BY <4>2, <4>3
    <3>5. QED
      BY <3>3, <3>4
  <2>2. CASE ~(k < first) /\ k = next
    <3>1. start = next
      BY <1>5, <2>2
    <3>2. \A i \in 1..L : s[i] \notin T
      BY <1>1, <1>a, <1>10, <3>1
    <3>3. m = L + 1
      BY <1>1, <1>11, <3>2
    <3>4. QED
      BY <3>1, <3>3
  <2>3. CASE ~(k < first) /\ k # next
    <3>1. start = k
      BY <1>5, <2>3
    <3>2. PICK i \in 1..L : s[i].at = k
      BY <1>6, <2>3
    <3>3. m <= i
      BY <1>1, <1>10, <1>11, <3>1, <3>2
    <3>4. m \in 1..L /\ s[m] \in T
      BY <1>1, <1>11, <3>2, <3>3
    <3>5. s[m].at >= k
      BY <1>10, <3>1, <3>4
    <3>6. m = i
      BY <1>1, <1>a, <1>b, <3>2, <3>3, <3>4, <3>5
    <3>7. QED
      BY <1>1, <3>1, <3>2, <3>4, <3>6
  <2>4. QED
    BY <2>1, <2>2, <2>3
<1>15. ASSUME NEW i \in DOMAIN got
       PROVE  got[i].at = IF i = 1 THEN start ELSE got[i-1].at + got[i-1].len
  <2>1. i \in 1..(L + 1 - m) /\ m - 1 + i \in 1..L /\ got[i] = s[m - 1 + i]
    BY <1>13, <1>15
  <2>2. CASE i = 1
    <3>1. m - 1 + i = m /\ m # L + 1
      BY <1>1, <2>1, <2>2
    <3>2. QED
      BY <1>14, <2>1, <2>2, <3>1
  <2>3. CASE i # 1
    <3>1. i - 1 \in 1..(L + 1 - m) /\ m - 1 + (i - 1) \in 1..L
      BY <1>1, <2>1, <2>3
    <3>2. got[i-1] = s[m - 1 + (i - 1)]
      BY <1>13, <3>1
    <3>3. m - 1 + (i - 1) # L /\ m - 1 + (i - 1) + 1 = m - 1 + i
      BY <1>1, <2>1, <2>3
    <3>4. s[m - 1 + (i - 1)].at + s[m - 1 + (i - 1)].len = s[m - 1 + i].at
      BY <1>2, <3>1, <3>3
    <3>5. QED
      BY <2>1, <2>3, <3>2, <3>4
  <2>4. QED
    BY <2>2, <2>3
<1>16. next = IF got = <<>> THEN start ELSE Last(got).at + Last(got).len
  <2>1. CASE m = L + 1
    <3>1. got = <<>>
      BY <1>1, <1>13, <2>1
    <3>2. QED
      BY <1>14, <2>1, <3>1
  <2>2. CASE m # L + 1
    <3>1. got # <<>> /\ L + 1 - m \in 1..(L + 1 - m) /\ m - 1 + (L + 1 - m) = L
      BY <1>1, <1>13, <2>2
    <3>2. Last(got) = s[L] /\ L \in 1..L
      BY <1>1, <1>13, <3>1 DEF Last
    <3>3. QED
      BY <1>2, <3>1, <3>2
  <2>3. QED
    BY <2>1, <2>2
<1>17. QED
  BY <1>8, <1>15, <1>16 DEF Honest, got, start, next, first

\* ------------------------------------------------------ inductive invariant

ManagedRecords ==
    [child : {"alive", "dead"}, pump : BOOLEAN, eof : BOOLEAN, state : States,
     watcher : {"waiting", "draining", "closing", "done"},
     lock : {"free", "watcher"} \union Callers,
     requested : BOOLEAN, confirmed : BOOLEAN,
     out : [chunks : Seq(Chunk), next : Nat], held : Nat, cut : BOOLEAN]
StopRecords == [Callers -> [at : Stages, ok : BOOLEAN]]

\* What is said of a child, or known of it, is so.
Sane(q, s) ==
    /\ q.state = "exited" => q.child = "dead" /\ ~q.pump
    /\ q.watcher \in {"draining", "closing"} => q.child = "dead"
    /\ \A c \in Callers : s[c].ok => q.child = "dead"

Sound == \A p \in Processes : Sane(proc[p], stop[p])

\* Of an exited process nothing is kept back, but where a PTY is reported late.
Told(p, q, s) ==
    q.state = "exited" /\ q.held # 0 =>
        Pty(p) /\ (q.cut \/ \E c \in Callers : s[c].at = "reporting")

AllTold == \A p \in Range(listed) : Told(p, proc[p], stop[p])

\* Nothing has been done to the process yet.
Fresh(p) == proc[p] = Managed /\ stop[p] = [c \in Callers |-> AtRest]

\* A process that runs is registered, and a closing Session has it on its list.
Registered ==
    /\ \A p \in Processes : Running(p) => Known(p) \/ Fresh(p)
    /\ \A p \in starting : Fresh(p) /\ ~Known(p)
    /\ \A p \in Range(expired) : ~Running(p)
    /\ \A p \in Range(todo) : Running(p) => Known(p)
    /\ closing # "no" => starting = {}
    /\ closing = "running" =>
          \A p \in Range(listed) : Running(p) => p \in Range(todo)
    /\ closing = "done" => \A p \in Range(listed) : ~Running(p)

ProcessInvariant == TypeOK /\ Sound /\ AllTold /\ Registered /\ OutputInvariant

LEMMA TypeByRecords ==
    TypeOK <=> /\ proc \in [Processes -> ManagedRecords]
               /\ stop \in [Processes -> StopRecords]
               /\ listed \in Seq(Processes) /\ expired \in Seq(Processes)
               /\ starting \subseteq Processes
               /\ closing \in {"no", "running", "done"}
               /\ todo \in Seq(Processes)
               /\ cursor \in [Processes -> Nat]
  BY DEF TypeOK, ManagedRecords, StopRecords

\* ---------------------------------------------------------- what steps do

\* The output of a process is as it was, or more was appended to it.
OutputGoesOn(new, old) ==
    new = old \/ \E n \in Nat : n > 0 /\ new = Appended(old, n)

\* ps and ss are what may become of the processes and of their stops.
Moves(ps, ss) ==
    /\ ps \in [Processes -> ManagedRecords] /\ ss \in [Processes -> StopRecords]
    /\ \A p \in Processes :
          /\ Sane(ps[p], ss[p])
          /\ ps[p].state = "running" => Running(p)
          /\ Fresh(p) /\ ~Known(p) => ps[p] = proc[p] /\ ss[p] = stop[p]
          /\ OutputGoesOn(ps[p].out, proc[p].out)

(* What is listed is a process, of which nothing is kept back. *)
LEMMA ListedIsTold ==
    ASSUME ProcessInvariant, NEW o \in Range(listed)
    PROVE  o \in Processes /\ Told(o, proc[o], stop[o])
<1>1. Range(listed) \subseteq Processes
  BY DEF ProcessInvariant, TypeOK, Range
<1>2. QED
  BY <1>1 DEF ProcessInvariant, AllTold

(* Nothing more is kept back, and every report is still due or cut off. *)
LEMMA ToldStays ==
    ASSUME NEW p, NEW q, NEW s, NEW r, NEW t, Told(p, q, s),
           r.state = q.state, r.held = q.held, q.cut => r.cut,
           \A c \in Callers : s[c].at = "reporting" => t[c].at = "reporting" \/ r.cut
    PROVE  Told(p, r, t)
  BY DEF Told

\* And of what is listed nothing is kept back.
Tells(ps, ss) == \A p \in Range(listed) : Told(p, ps[p], ss[p])

\* Only a process is being started to which nothing has been done.
StartsFresh ==
    /\ starting' \subseteq Processes
    /\ \A p \in starting' : Fresh(p) /\ ~Known(p)
    /\ closing # "no" => starting' = {}

\* A step that only moves processes, and may forget some that do not run.
QuietStep ==
    /\ Moves(proc', stop')
    /\ listed' \in Seq(Processes) /\ expired' \in Seq(Processes)
    /\ Range(listed') \subseteq Range(listed)
    /\ \A p \in Range(listed) : Running(p)' => p \in Range(listed')
    /\ \A p \in Range(expired') : ~Running(p)'
    /\ \A p \in Range(listed') : Told(p, proc'[p], stop'[p])
    /\ StartsFresh
    /\ UNCHANGED <<closing, todo, cursor>>

(* A start that goes on, or none, is of such a process. *)
LEMMA SameStarts ==
    ASSUME ProcessInvariant, UNCHANGED starting
    PROVE  StartsFresh
  BY DEF StartsFresh, ProcessInvariant, Registered, TypeOK

LEMMA QuietKeeps ==
    ASSUME ProcessInvariant, QuietStep
    PROVE  ProcessInvariant'
<1>1. TypeOK'
  BY TypeByRecords DEF ProcessInvariant, QuietStep, StartsFresh, Moves, TypeOK, ManagedRecords, StopRecords
<1>2. Sound'
  BY DEF Sound, QuietStep, Moves
<1>3. \A p \in Processes : Running(p)' => Running(p)
  BY DEF Running, QuietStep, Moves
<1>4. \A p \in Processes : Fresh(p) /\ ~Known(p) => Fresh(p)'
  BY DEF Fresh, QuietStep, Moves
<1>5. \A p \in Processes : ~Known(p) => ~Known(p)'
  BY DEF Known, QuietStep
<1>6. \A p \in Processes : Running(p)' /\ Known(p) => Known(p)'
  BY DEF Known, QuietStep
<1>7. starting \subseteq Processes /\ Range(todo) \subseteq Processes
      /\ Range(listed) \subseteq Processes
  BY DEF ProcessInvariant, TypeOK, Range
<1>8. Registered'
  <2>1. \A p \in Processes : Running(p)' => Known(p)' \/ Fresh(p)'
    BY <1>3, <1>4, <1>6 DEF ProcessInvariant, Registered
  <2>2. \A p \in starting' : Fresh(p)' /\ ~Known(p)'
    BY <1>4, <1>5, <1>7 DEF StartsFresh, QuietStep
  <2>3. \A p \in Range(expired') : ~Running(p)'
    BY DEF QuietStep
  <2>4. \A p \in Range(todo') : Running(p)' => Known(p)'
    BY <1>3, <1>6, <1>7 DEF ProcessInvariant, Registered, QuietStep
  <2>5. closing' # "no" => starting' = {}
    BY DEF StartsFresh, QuietStep
  <2>6. \A p \in Range(listed') : p \in Range(listed) /\ (Running(p)' => Running(p))
    BY <1>3, <1>7 DEF QuietStep
  <2>7. /\ closing' = "running" =>
              \A p \in Range(listed') : Running(p)' => p \in Range(todo')
        /\ closing' = "done" => \A p \in Range(listed') : ~Running(p)'
    BY <2>6 DEF ProcessInvariant, Registered, QuietStep
  <2>8. QED
    BY <2>1, <2>2, <2>3, <2>4, <2>5, <2>7 DEF Registered
<1>9. OutputInvariant'
  <2> SUFFICES ASSUME NEW p \in Processes
               PROVE  WellFiled(proc'[p].out) /\ WellPlaced(proc'[p].out, cursor[p])
    BY DEF OutputInvariant, QuietStep
  <2>1. WellFiled(proc[p].out) /\ WellPlaced(proc[p].out, cursor[p])
    BY DEF ProcessInvariant, OutputInvariant
  <2>2. OutputGoesOn(proc'[p].out, proc[p].out)
    BY DEF QuietStep, Moves
  <2>3. QED
    BY <2>1, <2>2, AppendedIsWell DEF OutputGoesOn
<1>10. AllTold'
  BY DEF AllTold, QuietStep, Told
<1>11. QED
  BY <1>1, <1>2, <1>8, <1>9, <1>10 DEF ProcessInvariant

(* A step that changes nothing but processes and their stops is quiet. *)
LEMMA PlainIsQuiet ==
    ASSUME ProcessInvariant, Moves(proc', stop'), Tells(proc', stop'), StartsFresh,
           UNCHANGED <<listed, expired, closing, todo, cursor>>
    PROVE  QuietStep
<1>1. Range(expired) \subseteq Processes
  BY DEF ProcessInvariant, TypeOK, Range
<1>2. \A p \in Range(expired) : ~Running(p)'
  BY <1>1 DEF ProcessInvariant, Registered, Moves, Running
<1>3. \A p \in Range(listed') : Told(p, proc'[p], stop'[p])
  BY DEF Tells
<1>4. QED
  BY <1>2, <1>3 DEF QuietStep, ProcessInvariant, TypeOK

(* What the end of a sequence has in it. *)
LEMMA LastOfTyped ==
    ASSUME NEW S, NEW s \in Seq(S), NEW n \in Nat
    PROVE  LastOf(s, n) \in Seq(S) /\ Range(LastOf(s, n)) \subseteq Range(s)
<1> DEFINE m == IF Len(s) > n THEN Len(s) - n + 1 ELSE 1
<1>1. m \in 1..(Len(s) + 1) /\ DOMAIN s = 1..Len(s)
  OBVIOUS
<1>2. LastOf(s, n) = SubSeq(s, m, Len(s))
  BY DEF LastOf
<1> HIDE DEF m
<1>3. /\ SubSeq(s, m, Len(s)) \in Seq(S)
      /\ Len(SubSeq(s, m, Len(s))) = Len(s) + 1 - m
      /\ \A i \in 1..(Len(s) + 1 - m) :
            m - 1 + i \in 1..Len(s) /\ SubSeq(s, m, Len(s))[i] = s[m - 1 + i]
  BY <1>1, TailByPlaces
<1> DEFINE t == SubSeq(s, m, Len(s))
<1> HIDE DEF t
<1>4. DOMAIN t = 1..(Len(s) + 1 - m) /\ t \in Seq(S)
  BY <1>3 DEF t
<1>5. \A i \in DOMAIN t : m - 1 + i \in DOMAIN s /\ t[i] = s[m - 1 + i]
  BY <1>1, <1>3, <1>4 DEF t
<1>6. QED
  BY <1>2, <1>4, <1>5 DEF Range, t

LEMMA RangeOfConcat ==
    ASSUME NEW S, NEW s \in Seq(S), NEW t \in Seq(S)
    PROVE  s \o t \in Seq(S) /\ Range(s \o t) = Range(s) \union Range(t)
<1>1. /\ s \o t \in Seq(S)
      /\ DOMAIN (s \o t) = 1..(Len(s) + Len(t)) /\ Len(s) \in Nat /\ Len(t) \in Nat
      /\ DOMAIN s = 1..Len(s) /\ DOMAIN t = 1..Len(t)
      /\ \A i \in 1..Len(s) : (s \o t)[i] = s[i]
      /\ \A i \in 1..Len(t) : (s \o t)[Len(s) + i] = t[i]
  OBVIOUS
<1> DEFINE u == s \o t
<1> HIDE DEF u
<1>2. Range(u) \subseteq Range(s) \union Range(t)
  <2> SUFFICES ASSUME NEW i \in DOMAIN u PROVE u[i] \in Range(s) \union Range(t)
    BY DEF Range
  <2>1. CASE i \in 1..Len(s)
    BY <1>1, <2>1 DEF Range, u
  <2>2. CASE i \notin 1..Len(s)
    <3>1. i - Len(s) \in 1..Len(t) /\ Len(s) + (i - Len(s)) = i
      BY <1>1, <2>2 DEF u
    <3>2. u[i] = t[i - Len(s)]
      BY <1>1, <3>1 DEF u
    <3>3. QED
      BY <1>1, <3>1, <3>2 DEF Range
  <2>3. QED
    BY <2>1, <2>2
<1>3. Range(s) \subseteq Range(u)
  <2>1. \A i \in DOMAIN s : i \in DOMAIN u /\ u[i] = s[i]
    BY <1>1 DEF u
  <2>2. QED
    BY <2>1 DEF Range
<1>4. Range(t) \subseteq Range(u)
  <2>1. \A i \in DOMAIN t : Len(s) + i \in DOMAIN u /\ u[Len(s) + i] = t[i]
    BY <1>1 DEF u
  <2>2. QED
    BY <2>1 DEF Range
<1>5. QED
  BY <1>1, <1>2, <1>3, <1>4 DEF u

(* What is evicted is listed and does not run. *)
LEMMA SurplusTyped ==
    ASSUME TypeOK, NEW ps, NEW protected
    PROVE  /\ Surplus(ps, protected) \in Seq(Processes)
           /\ \A p \in Range(Surplus(ps, protected)) :
                 p \in Range(listed) /\ ps[p].state # "running"
<1> DEFINE finished == Selected(listed, {p \in Processes : ps[p].state # "running"})
           candidates == Selected(finished, Processes \ protected)
<1>1. /\ finished \in Seq(Processes)
      /\ Range(finished) = Range(listed) \cap {p \in Processes : ps[p].state # "running"}
      /\ Len(finished) \in Nat
  <2>1. listed \in Seq(Processes)
    BY DEF TypeOK
  <2>2. /\ finished \in Seq(Processes)
        /\ Range(finished) = Range(listed) \cap {p \in Processes : ps[p].state # "running"}
    BY <2>1, SelectedFacts
  <2> HIDE DEF finished
  <2>3. QED
    BY <2>2
<1> HIDE DEF finished
<1>2. /\ candidates \in Seq(Processes) /\ Range(candidates) \subseteq Range(finished)
      /\ Len(candidates) \in Nat
  <2>1. /\ candidates \in Seq(Processes)
        /\ Range(candidates) = Range(finished) \cap (Processes \ protected)
    BY <1>1, SelectedFacts
  <2> HIDE DEF candidates
  <2>2. QED
    BY <2>1
<1> HIDE DEF candidates
<1> DEFINE excess == IF Len(finished) > MaxFinished THEN Len(finished) - MaxFinished ELSE 0
           n == IF excess < Len(candidates) THEN excess ELSE Len(candidates)
<1>3. n \in 0..Len(candidates)
  BY <1>1, <1>2, QuotaAssumption
<1>4. Surplus(ps, protected) = SubSeq(candidates, 1, n)
  BY DEF Surplus, finished, candidates
<1> HIDE DEF n
<1>5. /\ SubSeq(candidates, 1, n) \in Seq(Processes)
      /\ \A i \in DOMAIN SubSeq(candidates, 1, n) :
            i \in DOMAIN candidates /\ SubSeq(candidates, 1, n)[i] = candidates[i]
  BY <1>2, <1>3
<1>6. Range(SubSeq(candidates, 1, n)) \subseteq Range(candidates)
  BY <1>5 DEF Range
<1>7. QED
  BY <1>1, <1>2, <1>4, <1>5, <1>6

(* Records with the fields these proofs look at. *)
LEMMA DiscardedIsSane ==
    ASSUME NEW q \in ManagedRecords, NEW s \in StopRecords, Sane(q, s)
    PROVE  /\ Discarded(q) \in ManagedRecords /\ Disarmed(s) \in StopRecords
           /\ Sane(Discarded(q), Disarmed(s)) /\ Sane(q, Disarmed(s))
           /\ Discarded(q).state = q.state /\ Discarded(q).out = q.out
<1>1. Discarded(q) \in ManagedRecords /\ Disarmed(s) \in StopRecords
  BY DEF Discarded, Disarmed, ManagedRecords, StopRecords, AtRest, Stages
<1>2. /\ Discarded(q).state = q.state /\ Discarded(q).out = q.out
      /\ Discarded(q).child = q.child /\ Discarded(q).pump = FALSE
      /\ Discarded(q).watcher = "done"
  BY DEF Discarded, ManagedRecords
<1>3. \A c \in Callers : Disarmed(s)[c].ok => s[c].ok
  BY DEF Disarmed, StopRecords, AtRest, Callers
<1>4. QED
  BY <1>1, <1>2, <1>3 DEF Sane

(* An eviction moves processes as it is told and forgets some that ended. *)
LEMMA EvictIsQuiet ==
    ASSUME ProcessInvariant, NEW ps, NEW ss, NEW protected,
           Moves(ps, ss), Tells(ps, ss), EvictFinished(ps, ss, protected), StartsFresh,
           UNCHANGED <<closing, todo, cursor>>
    PROVE  QuietStep
<1>1. PICK gone \in {Surplus(ps, protected)} :
        /\ listed' = Selected(listed, Processes \ Range(gone))
        /\ expired' = LastOf(expired \o gone, MaxExpired)
        /\ proc' = [p \in Processes |->
                      IF p \in Range(gone) THEN Discarded(ps[p]) ELSE ps[p]]
        /\ stop' = [p \in Processes |->
                      IF p \in Range(gone) THEN Disarmed(ss[p]) ELSE ss[p]]
  BY Zenon DEF EvictFinished
<1>2. /\ gone \in Seq(Processes)
      /\ \A p \in Range(gone) : p \in Range(listed) /\ ps[p].state # "running"
  BY SurplusTyped DEF ProcessInvariant
<1>3. /\ listed \in Seq(Processes) /\ expired \in Seq(Processes)
      /\ Range(listed) \subseteq Processes /\ Range(expired) \subseteq Processes
  BY SMTT(60) DEF ProcessInvariant, TypeOK, Range
<1>4. /\ listed' \in Seq(Processes)
      /\ Range(listed') = Range(listed) \cap (Processes \ Range(gone))
  BY <1>1, <1>3, SelectedFacts
<1>5. /\ expired' \in Seq(Processes)
      /\ Range(expired') \subseteq Range(expired) \union Range(gone)
  <2>1. /\ expired \o gone \in Seq(Processes)
        /\ Range(expired \o gone) = Range(expired) \union Range(gone)
    BY <1>2, <1>3, RangeOfConcat
  <2>2. MaxExpired \in Nat
    BY QuotaAssumption
  <2> DEFINE u == expired \o gone
  <2> HIDE DEF u
  <2>3. LastOf(u, MaxExpired) \in Seq(Processes)
        /\ Range(LastOf(u, MaxExpired)) \subseteq Range(u)
    BY <2>1, <2>2, LastOfTyped DEF u
  <2>4. QED
    BY <1>1, <2>1, <2>3 DEF u
<1>6. \A p \in Processes :
         /\ ps[p] \in ManagedRecords /\ ss[p] \in StopRecords /\ Sane(ps[p], ss[p])
         /\ ps[p].state = "running" => Running(p)
         /\ Fresh(p) /\ ~Known(p) => ps[p] = proc[p] /\ ss[p] = stop[p]
         /\ OutputGoesOn(ps[p].out, proc[p].out)
  BY DEF Moves
<1>7. ASSUME NEW p \in Processes
      PROVE  /\ proc'[p] \in ManagedRecords /\ stop'[p] \in StopRecords
             /\ Sane(proc'[p], stop'[p])
             /\ proc'[p].state = ps[p].state /\ proc'[p].out = ps[p].out
             /\ p \notin Range(gone) => proc'[p] = ps[p] /\ stop'[p] = ss[p]
  <2>1. CASE p \in Range(gone)
    <3>1. proc'[p] = Discarded(ps[p]) /\ stop'[p] = Disarmed(ss[p])
      BY <1>1, <2>1
    <3>2. QED
      BY <1>6, <2>1, <3>1, DiscardedIsSane
  <2>2. CASE p \notin Range(gone)
    <3>1. proc'[p] = ps[p] /\ stop'[p] = ss[p]
      BY <1>1, <2>2
    <3>2. QED
      BY <1>6, <2>2, <3>1
  <2>3. QED
    BY <2>1, <2>2
<1>8. Moves(proc', stop')
  <2>1. proc' \in [Processes -> ManagedRecords] /\ stop' \in [Processes -> StopRecords]
    <3>1. /\ proc' = [p \in Processes |-> proc'[p]]
          /\ stop' = [p \in Processes |-> stop'[p]]
      BY <1>1
    <3>2. QED
      BY <1>7, <3>1
  <2>2. \A p \in Processes : Fresh(p) /\ ~Known(p) => p \notin Range(gone)
    BY <1>2 DEF Known
  <2>3. \A p \in Processes : Fresh(p) /\ ~Known(p) =>
                             proc'[p] = proc[p] /\ stop'[p] = stop[p]
    BY <1>6, <1>7, <2>2
  <2>4. \A p \in Processes : /\ Sane(proc'[p], stop'[p])
                             /\ proc'[p].state = "running" => Running(p)
                             /\ OutputGoesOn(proc'[p].out, proc[p].out)
    BY <1>6, <1>7
  <2>5. QED
    BY <2>1, <2>3, <2>4 DEF Moves
<1>9. \A p \in Processes : Running(p)' <=> ps[p].state = "running"
  BY <1>7 DEF Running
<1>10. \A p \in Range(listed) : Running(p)' => p \in Range(listed')
  BY <1>2, <1>3, <1>4, <1>9
<1>11. \A p \in Range(expired') : ~Running(p)'
  <2>1. \A p \in Range(expired) : ~Running(p)
    BY DEF ProcessInvariant, Registered
  <2>2. \A p \in Range(gone) : p \in Processes /\ ~Running(p)'
    BY <1>2, <1>3, <1>9
  <2>3. \A p \in Range(expired) : p \in Processes /\ ~Running(p)'
    BY <1>3, <1>6, <1>9, <2>1
  <2>4. QED
    BY <1>5, <2>2, <2>3
<1>12. \A p \in Range(listed') : Told(p, proc'[p], stop'[p])
  <2>1. \A p \in Range(listed') :
           p \in Range(listed) /\ proc'[p] = ps[p] /\ stop'[p] = ss[p]
    BY <1>3, <1>4, <1>7
  <2>2. QED
    BY <2>1 DEF Tells
<1>13. QED
  BY <1>4, <1>5, <1>8, <1>10, <1>11, <1>12 DEF QuietStep

(* What nothing has been done to is alive, runs, and nobody stops it. *)
LEMMA FreshIsUntouched ==
    ASSUME NEW p \in Processes, Fresh(p)
    PROVE  /\ Running(p) /\ proc[p].child = "alive" /\ proc[p].watcher = "waiting"
           /\ \A c \in Callers : stop[p][c].at = "idle"
<1>1. proc[p].state = "running" /\ proc[p].child = "alive"
      /\ proc[p].watcher = "waiting"
  BY DEF Fresh, Managed
<1>2. \A c \in Callers : stop[p][c].at = "idle"
  BY DEF Fresh, AtRest
<1>3. QED
  BY <1>1, <1>2 DEF Running

\* q and s may be what becomes of p and of its stops.
MayBecome(p, q, s) ==
    /\ q \in ManagedRecords /\ s \in StopRecords /\ Sane(q, s)
    /\ q.state = "running" => Running(p)
    /\ Known(p) \/ ~Fresh(p)
    /\ OutputGoesOn(q.out, proc[p].out)

LEMMA OneMoves ==
    ASSUME ProcessInvariant, NEW p \in Processes, NEW q, NEW s, MayBecome(p, q, s)
    PROVE  /\ Moves([proc EXCEPT ![p] = q], [stop EXCEPT ![p] = s])
           /\ (Known(p) => Told(p, q, s)) =>
                 Tells([proc EXCEPT ![p] = q], [stop EXCEPT ![p] = s])
<1> DEFINE ps == [proc EXCEPT ![p] = q]
           ss == [stop EXCEPT ![p] = s]
<1>1. proc \in [Processes -> ManagedRecords] /\ stop \in [Processes -> StopRecords]
  BY TypeByRecords DEF ProcessInvariant
<1>2. /\ ps \in [Processes -> ManagedRecords] /\ ss \in [Processes -> StopRecords]
      /\ ps[p] = q /\ ss[p] = s
      /\ \A o \in Processes : o # p => ps[o] = proc[o] /\ ss[o] = stop[o]
  BY <1>1 DEF MayBecome
<1>3. \A o \in Processes : Sane(proc[o], stop[o])
  BY DEF ProcessInvariant, Sound
<1> HIDE DEF ps, ss
<1>4. ASSUME NEW o \in Processes
      PROVE  /\ Sane(ps[o], ss[o])
             /\ ps[o].state = "running" => Running(o)
             /\ Fresh(o) /\ ~Known(o) => ps[o] = proc[o] /\ ss[o] = stop[o]
             /\ OutputGoesOn(ps[o].out, proc[o].out)
  <2>1. CASE o = p
    BY <1>2, <2>1 DEF MayBecome
  <2>2. CASE o # p
    BY <1>2, <1>3, <2>2 DEF Running, OutputGoesOn
  <2>3. QED
    BY <2>1, <2>2
<1>5. Moves(ps, ss)
  BY <1>2, <1>4 DEF Moves
<1>6. ASSUME Known(p) => Told(p, q, s) PROVE Tells(ps, ss)
  <2> SUFFICES ASSUME NEW o \in Range(listed) PROVE Told(o, ps[o], ss[o])
    BY DEF Tells
  <2>1. o \in Processes /\ Told(o, proc[o], stop[o])
    BY ListedIsTold
  <2>2. CASE o = p
    BY <1>2, <1>6, <2>2 DEF Known
  <2>3. CASE o # p
    BY <1>2, <2>1, <2>3
  <2>4. QED
    BY <2>2, <2>3
<1>7. QED
  BY <1>5, <1>6 DEF ps, ss

(* A step of one process and of its stops. *)
LEMMA OneIsQuiet ==
    ASSUME ProcessInvariant, NEW p \in Processes, NEW q, NEW s, MayBecome(p, q, s),
           Known(p) => Told(p, q, s),
           proc' = [proc EXCEPT ![p] = q], stop' = [stop EXCEPT ![p] = s],
           UNCHANGED <<listed, expired, starting, closing, todo, cursor>>
    PROVE  QuietStep
<1>1. Moves(proc', stop') /\ Tells(proc', stop')
  BY OneMoves
<1>2. QED
  BY <1>1, SameStarts, PlainIsQuiet

(* A step of one process alone. *)
LEMMA ChangeIsQuiet ==
    ASSUME ProcessInvariant, NEW p \in Processes, NEW q, MayBecome(p, q, stop[p]),
           Known(p) => Told(p, q, stop[p]), Change(p, q)
    PROVE  QuietStep
<1>1. stop = [stop EXCEPT ![p] = stop[p]]
  BY TypeByRecords DEF ProcessInvariant
<1>2. QED
  BY <1>1, OneIsQuiet DEF Change

\* ------------------------------------------------ the steps of one process

LEMMA AtProcess ==
    ASSUME ProcessInvariant, NEW p \in Processes
    PROVE  /\ proc[p] \in ManagedRecords /\ stop[p] \in StopRecords
           /\ Sane(proc[p], stop[p])
           /\ Known(p) => Told(p, proc[p], stop[p])
           /\ WellFiled(proc[p].out) /\ WellPlaced(proc[p].out, cursor[p])
           /\ proc \in [Processes -> ManagedRecords]
           /\ stop \in [Processes -> StopRecords]
  BY TypeByRecords DEF ProcessInvariant, Sound, AllTold, Known, OutputInvariant

(* The fields of a record, and of the stops of its process. *)
LEMMA Fields ==
    ASSUME NEW q \in ManagedRecords, NEW s \in StopRecords
    PROVE  /\ q.child \in {"alive", "dead"} /\ q.pump \in BOOLEAN
           /\ q.eof \in BOOLEAN /\ q.state \in States
           /\ q.watcher \in {"waiting", "draining", "closing", "done"}
           /\ q.lock \in {"free", "watcher"} \union Callers
           /\ q.requested \in BOOLEAN /\ q.confirmed \in BOOLEAN
           /\ q.held \in Nat /\ q.cut \in BOOLEAN
           /\ q.out \in [chunks : Seq(Chunk), next : Nat]
           /\ \A c \in Callers : s[c].at \in Stages /\ s[c].ok \in BOOLEAN
  BY DEF ManagedRecords, StopRecords

LEMMA AppendedTyped ==
    ASSUME NEW out, WellFiled(out), NEW n \in Nat, n > 0
    PROVE  Appended(out, n) \in [chunks : Seq(Chunk), next : Nat]
<1>1. WellPlaced(out, out.next)
  BY DEF WellPlaced, WellFiled
<1>2. WellFiled(Appended(out, n))
  BY <1>1, AppendedIsWell
<1> DEFINE new == [chunks |-> Append(out.chunks, [at |-> out.next, len |-> n]),
                   next   |-> out.next + n]
<1>3. Appended(out, n) = [new EXCEPT !.chunks = Kept(new)]
  BY DEF Appended
<1>4. \A kept : [new EXCEPT !.chunks = kept] =
                [chunks |-> [new EXCEPT !.chunks = kept].chunks,
                 next |-> [new EXCEPT !.chunks = kept].next]
  OBVIOUS
<1> HIDE DEF new
<1>5. QED
  BY <1>2, <1>3, <1>4 DEF WellFiled

(* What is filed, if anything is, goes on with the output. *)
LEMMA FiledGoesOn ==
    ASSUME NEW out \in [chunks : Seq(Chunk), next : Nat], WellFiled(out), NEW n \in Nat
    PROVE  /\ Filed(out, n) \in [chunks : Seq(Chunk), next : Nat]
           /\ OutputGoesOn(Filed(out, n), out)
<1>1. CASE n = 0
  BY <1>1 DEF Filed, OutputGoesOn
<1>2. CASE n # 0
  <2>1. n > 0 /\ Filed(out, n) = Appended(out, n)
    BY <1>2 DEF Filed
  <2>2. QED
    BY <2>1, AppendedTyped DEF OutputGoesOn
<1>3. QED
  BY <1>1, <1>2

(* Nothing is kept back of a process that is flushed. *)
LEMMA FlushedRecord ==
    ASSUME NEW q \in ManagedRecords, WellFiled(q.out)
    PROVE  /\ Flushed(q) \in ManagedRecords /\ Flushed(q).held = 0
           /\ Flushed(q).state = q.state /\ Flushed(q).child = q.child
           /\ Flushed(q).pump = q.pump /\ Flushed(q).watcher = q.watcher
           /\ OutputGoesOn(Flushed(q).out, q.out)
<1>1. q.out \in [chunks : Seq(Chunk), next : Nat] /\ q.held \in Nat
  BY DEF ManagedRecords
<1> DEFINE out == Filed(q.out, q.held)
<1>2. out \in [chunks : Seq(Chunk), next : Nat] /\ OutputGoesOn(out, q.out)
  BY <1>1, FiledGoesOn
<1>3. Flushed(q) = [q EXCEPT !.out = out, !.held = 0]
  BY DEF Flushed
<1> HIDE DEF out
<1>4. Flushed(q) \in ManagedRecords
  <2>1. [q EXCEPT !.out = out] \in ManagedRecords
    BY <1>2 DEF ManagedRecords
  <2> DEFINE f == [q EXCEPT !.out = out]
  <2>2. Flushed(q) = [f EXCEPT !.held = 0]
    BY <1>3
  <2> HIDE DEF f
  <2>3. f \in ManagedRecords /\ 0 \in Nat
    BY <2>1 DEF f
  <2>4. QED
    BY <2>2, <2>3 DEF ManagedRecords
<1>5. /\ Flushed(q).held = 0 /\ Flushed(q).out = out
      /\ Flushed(q).state = q.state /\ Flushed(q).child = q.child
      /\ Flushed(q).pump = q.pump /\ Flushed(q).watcher = q.watcher
  BY <1>3 DEF ManagedRecords
<1>6. QED
  BY <1>2, <1>4, <1>5

(* _finish_state: the flush, the end of a stop, of the timeout, an eviction. *)
LEMMA FinishIsQuiet ==
    ASSUME ProcessInvariant, NEW p \in Processes, NEW q, NEW c,
           MayBecome(p, q, stop[p]), q.out = proc[p].out, Finish(p, q, c),
           UNCHANGED <<starting, closing, todo, cursor>>
    PROVE  QuietStep
<1> DEFINE r == Unlocked(Flushed(q), c)
           s == WithoutTimeout(IF c \in Callers THEN [stop[p] EXCEPT ![c] = AtRest]
                               ELSE stop[p], c)
<1>1. stop[p] \in StopRecords /\ q \in ManagedRecords /\ Sane(q, stop[p])
  BY TypeByRecords DEF ProcessInvariant, MayBecome
<1>2. /\ Flushed(q) \in ManagedRecords /\ Flushed(q).held = 0
      /\ Flushed(q).state = q.state /\ Flushed(q).child = q.child
      /\ Flushed(q).pump = q.pump /\ Flushed(q).watcher = q.watcher
      /\ OutputGoesOn(Flushed(q).out, proc[p].out)
  BY <1>1, AtProcess, FlushedRecord
<1>3. /\ r \in ManagedRecords /\ r.state = q.state /\ r.held = 0
      /\ r.child = q.child /\ r.pump = q.pump /\ r.watcher = q.watcher
      /\ OutputGoesOn(r.out, proc[p].out)
  <2> DEFINE f == Flushed(q)
  <2> HIDE DEF f
  <2>1. /\ Unlocked(f, c) \in ManagedRecords /\ Unlocked(f, c).state = f.state
        /\ Unlocked(f, c).child = f.child /\ Unlocked(f, c).pump = f.pump
        /\ Unlocked(f, c).watcher = f.watcher /\ Unlocked(f, c).out = f.out
        /\ Unlocked(f, c).held = f.held
    BY <1>2 DEF Unlocked, ManagedRecords, f
  <2>2. QED
    BY <1>2, <2>1 DEF f
<1>4. s \in StopRecords /\ \A d \in Callers : s[d].ok => stop[p][d].ok
  BY <1>1 DEF WithoutTimeout, Disarmed, StopRecords, AtRest, Stages, Callers
<1>5. EvictFinished([proc EXCEPT ![p] = r], [stop EXCEPT ![p] = s], {p})
  <2>1. [stop EXCEPT ![p] = s] =
        [stop EXCEPT ![p] = WithoutTimeout(
                 IF c \in Callers THEN [@ EXCEPT ![c] = AtRest] ELSE @, c)]
    BY TypeByRecords DEF ProcessInvariant
  <2>2. QED
    BY <2>1 DEF Finish
<1> HIDE DEF r, s
<1>6. MayBecome(p, r, s)
  BY <1>1, <1>3, <1>4 DEF MayBecome, Sane
<1>7. Told(p, r, s)
  BY <1>3 DEF Told
<1>8. /\ Moves([proc EXCEPT ![p] = r], [stop EXCEPT ![p] = s])
      /\ Tells([proc EXCEPT ![p] = r], [stop EXCEPT ![p] = s])
  BY <1>6, <1>7, OneMoves
<1>9. QED
  BY <1>5, <1>8, SameStarts, EvictIsQuiet

LEMMA OutsideIsQuiet ==
    ASSUME ProcessInvariant, NEW p \in Processes,
           ChildExits(p) \/ EndPump(p) \/ \E n \in 1..2 : WriteOutput(p, n)
    PROVE  QuietStep
<1> USE AtProcess, Fields
<1>1. CASE ChildExits(p)
  <2> DEFINE q == [proc[p] EXCEPT !.child = "dead"]
  <2>1. /\ q \in ManagedRecords /\ q.child = "dead" /\ q.pump = proc[p].pump
        /\ q.state = proc[p].state /\ q.watcher = proc[p].watcher
        /\ q.out = proc[p].out /\ q.held = proc[p].held /\ q.cut = proc[p].cut
    BY DEF ManagedRecords
  <2>2. Known(p)
    BY <1>1 DEF ChildExits
  <2> HIDE DEF q
  <2>3. Sane(q, stop[p])
    BY <2>1 DEF Sane
  <2>4. MayBecome(p, q, stop[p])
    BY <2>1, <2>2, <2>3 DEF MayBecome, OutputGoesOn, Running
  <2>5. Change(p, q)
    BY <1>1 DEF ChildExits, q
  <2>6. Known(p) => Told(p, q, stop[p])
    BY <2>1 DEF Told
  <2>7. QED
    BY <1>1, <2>4, <2>5, <2>6, ChangeIsQuiet
<1>2. CASE EndPump(p)
  <2>1. PICK eof \in BOOLEAN : Change(p, [proc[p] EXCEPT !.pump = FALSE, !.eof = eof])
    BY <1>2 DEF EndPump
  <2> DEFINE q == [proc[p] EXCEPT !.pump = FALSE, !.eof = eof]
  <2>2. MayBecome(p, q, stop[p])
    BY <1>2, ZenonT(40) DEF EndPump, MayBecome, Sane, OutputGoesOn, Running, ManagedRecords
  <2>3. Known(p) => Told(p, q, stop[p])
    BY DEF Told, ManagedRecords
  <2>4. QED
    BY <2>1, <2>2, <2>3, ChangeIsQuiet
<1>3. ASSUME NEW n \in 1..2, WriteOutput(p, n) PROVE QuietStep
  <2>1. PICK keep \in 0 .. (proc[p].held + n) :
          /\ ~Running(p) => keep = 0
          /\ Change(p, [proc[p] EXCEPT !.out  = Filed(proc[p].out, proc[p].held + n - keep),
                                      !.held = keep])
    BY <1>3 DEF WriteOutput
  <2> DEFINE out == Filed(proc[p].out, proc[p].held + n - keep)
             q == [proc[p] EXCEPT !.out = out, !.held = keep]
  <2>2. keep \in Nat /\ proc[p].held + n - keep \in Nat
    OBVIOUS
  <2>3. out \in [chunks : Seq(Chunk), next : Nat] /\ OutputGoesOn(out, proc[p].out)
    BY <2>2, FiledGoesOn
  <2>4. Known(p) /\ Change(p, q)
    BY <1>3, <2>1 DEF WriteOutput
  <2> HIDE DEF out
  <2>5. /\ q \in ManagedRecords /\ q.state = proc[p].state /\ q.child = proc[p].child
        /\ q.pump = proc[p].pump /\ q.watcher = proc[p].watcher
        /\ q.out = out /\ q.held = keep
    BY <2>2, <2>3, ZenonT(60) DEF ManagedRecords
  <2> HIDE DEF q
  <2>6. MayBecome(p, q, stop[p])
    BY <2>3, <2>4, <2>5 DEF MayBecome, Sane, Running
  <2>7. Told(p, q, stop[p])
    BY <2>1, <2>5 DEF Told, Running
  <2>8. QED
    BY <2>4, <2>6, <2>7, ChangeIsQuiet
<1>4. QED
  BY <1>1, <1>2, <1>3

LEMMA WatchIsQuiet ==
    ASSUME ProcessInvariant, NEW p \in Processes, Watch(p)
    PROVE  QuietStep
<1> USE AtProcess, Fields
<1>1. CASE WatchPipe(p)
  <2>1. ~Fresh(p) /\ proc[p].child = "dead"
    BY <1>1, FreshIsUntouched DEF WatchPipe
  <2>2. CASE Change(p, [proc[p] EXCEPT !.watcher = "draining"])
    <3> DEFINE q == [proc[p] EXCEPT !.watcher = "draining"]
    <3>1. MayBecome(p, q, stop[p])
      BY <2>1 DEF MayBecome, Sane, OutputGoesOn, Running, ManagedRecords
    <3>2. Known(p) => Told(p, q, stop[p])
      BY DEF Told, ManagedRecords
    <3>3. QED
      BY <2>2, <3>1, <3>2, ChangeIsQuiet
  <2>3. CASE /\ ~proc[p].pump
             /\ Finish(p, [proc[p] EXCEPT !.state = "exited", !.watcher = "done"],
                       "watcher")
             /\ UNCHANGED <<starting, closing, todo, cursor>>
    <3> DEFINE q == [proc[p] EXCEPT !.state = "exited", !.watcher = "done"]
    <3>1. MayBecome(p, q, stop[p])
      BY <2>1, <2>3, ZenonT(40) DEF MayBecome, Sane, OutputGoesOn, Running, ManagedRecords, States
    <3>2. q.out = proc[p].out
      BY DEF ManagedRecords
    <3>3. QED
      BY <2>3, <3>1, <3>2, FinishIsQuiet
  <2>4. QED
    BY <1>1, <2>2, <2>3 DEF WatchPipe
<1>2. CASE LockPty(p)
  <2> DEFINE q == IF proc[p].requested \/ ~Running(p)
                  THEN [proc[p] EXCEPT !.watcher = "done"]
                  ELSE [proc[p] EXCEPT !.watcher = "draining", !.lock = "watcher"]
  <2>1. ~Fresh(p) /\ proc[p].child = "dead" /\ Change(p, q)
    BY <1>2, FreshIsUntouched DEF LockPty
  <2>2. CASE proc[p].requested \/ ~Running(p)
    <3> DEFINE r == [proc[p] EXCEPT !.watcher = "done"]
    <3>1. MayBecome(p, r, stop[p])
      BY <2>1, <2>2 DEF MayBecome, Sane, OutputGoesOn, Running, ManagedRecords
    <3>2. Known(p) => Told(p, r, stop[p])
      BY DEF Told, ManagedRecords
    <3>3. QED
      BY <2>1, <2>2, <3>1, <3>2, ChangeIsQuiet
  <2>3. CASE ~(proc[p].requested \/ ~Running(p))
    <3> DEFINE r == [proc[p] EXCEPT !.watcher = "draining", !.lock = "watcher"]
    <3>1. MayBecome(p, r, stop[p])
      BY <2>1, <2>3 DEF MayBecome, Sane, OutputGoesOn, Running, ManagedRecords
    <3>2. Known(p) => Told(p, r, stop[p])
      BY DEF Told, ManagedRecords
    <3>3. QED
      BY <2>1, <2>3, <3>1, <3>2, ChangeIsQuiet
  <2>4. QED
    BY <2>2, <2>3
<1>3. CASE DrainPty(p)
  <2> DEFINE q == IF proc[p].requested
                  THEN [proc[p] EXCEPT !.watcher = "done", !.lock = "free"]
                  ELSE [proc[p] EXCEPT !.watcher = "closing",
                                       !.eof = proc[p].eof /\ ~proc[p].pump]
  <2>1. proc[p].watcher = "draining" /\ proc[p].child = "dead" /\ Change(p, q)
    BY <1>3 DEF DrainPty, Sane
  <2>2. ~Fresh(p)
    BY <2>1, FreshIsUntouched
  <2>3. MayBecome(p, q, stop[p])
    BY <2>1, <2>2, ZenonT(40) DEF MayBecome, Sane, OutputGoesOn, Running, ManagedRecords
  <2>4. q.state = proc[p].state /\ q.held = proc[p].held /\ q.cut = proc[p].cut
    BY DEF ManagedRecords
  <2>5. Known(p) => Told(p, q, stop[p])
    BY <2>4 DEF Told
  <2>6. QED
    BY <2>1, <2>3, <2>5, ChangeIsQuiet
<1>4. CASE FinalizePty(p)
  <2>1. proc[p].watcher = "closing" /\ proc[p].child = "dead"
        /\ UNCHANGED <<starting, closing, todo, cursor>>
    BY <1>4 DEF FinalizePty, Sane
  <2>2. ~Fresh(p)
    BY <2>1, FreshIsUntouched
  <2>3. PICK closed \in BOOLEAN :
           Finish(p, [proc[p] EXCEPT
                        !.state = IF closed /\ proc[p].eof /\ ~proc[p].pump
                                  THEN "exited" ELSE "unknown",
                        !.watcher = "done", !.lock = "free"], "watcher")
    BY <1>4 DEF FinalizePty
  <2> DEFINE q == [proc[p] EXCEPT
                        !.state = IF closed /\ proc[p].eof /\ ~proc[p].pump
                                  THEN "exited" ELSE "unknown",
                        !.watcher = "done", !.lock = "free"]
  <2>4. /\ q \in ManagedRecords /\ q.child = "dead" /\ q.pump = proc[p].pump
        /\ q.watcher = "done" /\ q.out = proc[p].out /\ q.state # "running"
        /\ q.state = "exited" => ~proc[p].pump
    <3> DEFINE verdict == IF closed /\ proc[p].eof /\ ~proc[p].pump
                          THEN "exited" ELSE "unknown"
    <3>1. /\ verdict \in States /\ verdict # "running"
          /\ verdict = "exited" => ~proc[p].pump
      BY DEF States
    <3>2. q = [proc[p] EXCEPT !.state = verdict, !.watcher = "done", !.lock = "free"]
      OBVIOUS
    <3> HIDE DEF verdict, q
    <3>3. q \in ManagedRecords
      BY <3>1, <3>2 DEF ManagedRecords
    <3>4. /\ q.child = proc[p].child /\ q.pump = proc[p].pump
          /\ q.out = proc[p].out
      BY <3>2 DEF ManagedRecords
    <3>5. q.state = verdict /\ q.watcher = "done"
      BY <3>2 DEF ManagedRecords
    <3>6. QED
      BY <2>1, <3>1, <3>3, <3>4, <3>5
  <2>5. Finish(p, q, "watcher")
    BY <2>3
  <2> HIDE DEF q
  <2>6. MayBecome(p, q, stop[p])
    BY <2>2, <2>4 DEF MayBecome, Sane, OutputGoesOn
  <2>7. QED
    BY <2>1, <2>4, <2>5, <2>6, FinishIsQuiet
<1>5. QED
  BY <1>1, <1>2, <1>3, <1>4 DEF Watch

(* The stops of a process after one of them has moved. *)
LEMMA StopAdvances ==
    ASSUME NEW s \in StopRecords, NEW c \in Callers, NEW a \in Stages
    PROVE  /\ [s EXCEPT ![c].at = a] \in StopRecords
           /\ \A d \in Callers : [s EXCEPT ![c].at = a][d].ok = s[d].ok
  BY DEF StopRecords

LEMMA StopAnswers ==
    ASSUME NEW s \in StopRecords, NEW c \in Callers,
           NEW r \in [at : Stages, ok : BOOLEAN]
    PROVE  /\ [s EXCEPT ![c] = r] \in StopRecords
           /\ \A d \in Callers : [s EXCEPT ![c] = r][d].ok =
                                 IF d = c THEN r.ok ELSE s[d].ok
           /\ \A d \in Callers : [s EXCEPT ![c] = r][d].at =
                                 IF d = c THEN r.at ELSE s[d].at
  BY DEF StopRecords

LEMMA BeginStopIsQuiet ==
    ASSUME ProcessInvariant, NEW p \in Processes, NEW c \in Callers,
           BeginStop(p, c), Known(p) \/ ~Fresh(p),
           UNCHANGED <<starting, closing, todo, cursor>>
    PROVE  QuietStep
<1> USE AtProcess, Fields
<1>1. Running(p) /\ UNCHANGED <<listed, expired>>
  BY DEF BeginStop
<1>2. CASE Pty(p)
  <2> DEFINE q == [proc[p] EXCEPT !.requested = TRUE]
             s == [stop[p] EXCEPT ![c].at = "locking"]
  <2>1. proc' = [proc EXCEPT ![p] = q] /\ stop' = [stop EXCEPT ![p] = s]
    BY <1>2 DEF BeginStop
  <2>2. s \in StopRecords /\ \A d \in Callers : s[d].ok = stop[p][d].ok
    <3>1. "locking" \in Stages /\ "killing" \in Stages
      BY DEF Stages
    <3>2. QED
      BY <3>1, StopAdvances
  <2> HIDE DEF s
  <2>3. MayBecome(p, q, s)
    BY <1>1, <2>2, ZenonT(60) DEF MayBecome, Sane, OutputGoesOn, ManagedRecords
  <2>4. q.state = proc[p].state
    BY DEF ManagedRecords
  <2>5. Told(p, q, s)
    BY <1>1, <2>4 DEF Told, Running
  <2>6. QED
    BY <1>1, <2>1, <2>3, <2>5, OneIsQuiet
<1>3. CASE ~Pty(p)
  <2> DEFINE s == [stop[p] EXCEPT ![c].at = "killing"]
  <2>1. proc' = [proc EXCEPT ![p] = proc[p]] /\ stop' = [stop EXCEPT ![p] = s]
    BY <1>3 DEF BeginStop
  <2>2. s \in StopRecords /\ \A d \in Callers : s[d].ok = stop[p][d].ok
    <3>1. "locking" \in Stages /\ "killing" \in Stages
      BY DEF Stages
    <3>2. QED
      BY <3>1, StopAdvances
  <2> HIDE DEF s
  <2>3. MayBecome(p, proc[p], s)
    BY <1>1, <2>2 DEF MayBecome, Sane, OutputGoesOn
  <2>4. Told(p, proc[p], s)
    BY <1>1 DEF Told, Running
  <2>5. QED
    BY <1>1, <2>1, <2>3, <2>4, OneIsQuiet
<1>4. QED
  BY <1>2, <1>3

(* One stop that was not reporting comes to rest and nothing else happens. *)
LEMMA RestIsQuiet ==
    ASSUME ProcessInvariant, NEW p \in Processes, NEW c \in Callers,
           Known(p) \/ ~Fresh(p), stop[p][c].at # "reporting",
           stop' = [stop EXCEPT ![p][c] = AtRest],
           UNCHANGED <<proc, listed, expired, starting, closing, todo, cursor>>
    PROVE  QuietStep
<1> USE AtProcess, Fields
<1> DEFINE s == [stop[p] EXCEPT ![c] = AtRest]
<1>1. proc' = [proc EXCEPT ![p] = proc[p]] /\ stop' = [stop EXCEPT ![p] = s]
  OBVIOUS
<1>2. /\ s \in StopRecords /\ \A d \in Callers : s[d].ok => stop[p][d].ok
      /\ \A d \in Callers : d # c => s[d].at = stop[p][d].at
  <2>1. AtRest \in [at : Stages, ok : BOOLEAN] /\ ~AtRest.ok
    BY DEF Stages, AtRest
  <2>2. QED
    BY <2>1, StopAnswers
<1> HIDE DEF s
<1>3. MayBecome(p, proc[p], s)
  BY <1>2 DEF MayBecome, Sane, OutputGoesOn, Running
<1>4. Known(p) => Told(p, proc[p], s)
  <2>1. \A d \in Callers : stop[p][d].at = "reporting" => s[d].at = "reporting"
    BY <1>2
  <2>2. QED
    BY <2>1, ToldStays
<1>5. QED
  BY <1>1, <1>3, <1>4, OneIsQuiet

LEMMA StopNothingIsQuiet ==
    ASSUME ProcessInvariant, NEW p \in Processes, NEW c \in Callers,
           StopNothing(p, c), stop[p][c].at # "reporting",
           UNCHANGED <<starting, closing, todo, cursor>>
    PROVE  QuietStep
<1> USE AtProcess, Fields
<1>1. ~Running(p) /\ ~Fresh(p)
  BY FreshIsUntouched DEF StopNothing
<1>2. CASE Windows /\ Pty(p) /\ proc[p].state = "exited" /\ ~proc[p].confirmed
  <2> DEFINE q == [proc[p] EXCEPT !.state = "unknown"]
  <2>1. Finish(p, q, c)
    BY <1>2 DEF StopNothing
  <2>2. /\ q \in ManagedRecords /\ q.child = proc[p].child /\ q.pump = proc[p].pump
        /\ q.state = "unknown" /\ q.watcher = proc[p].watcher
        /\ q.out = proc[p].out
    BY DEF ManagedRecords, States
  <2> HIDE DEF q
  <2>3. Sane(q, stop[p])
    BY <2>2 DEF Sane
  <2>4. MayBecome(p, q, stop[p])
    BY <1>1, <2>2, <2>3 DEF MayBecome, OutputGoesOn
  <2>5. QED
    BY <2>1, <2>2, <2>4, FinishIsQuiet
<1>3. CASE ~(Windows /\ Pty(p) /\ proc[p].state = "exited" /\ ~proc[p].confirmed)
  <2>1. stop' = [stop EXCEPT ![p][c] = AtRest] /\ UNCHANGED <<proc, listed, expired>>
    BY <1>3 DEF StopNothing
  <2>2. QED
    BY <1>1, <2>1, RestIsQuiet
<1>4. QED
  BY <1>2, <1>3

LEMMA StopsAreQuiet ==
    ASSUME ProcessInvariant, NEW p \in Processes,
           StopByTool(p) \/ TimeOut(p) \/ AbortStop(p)
    PROVE  QuietStep
<1> USE AtProcess, Fields
<1>0. "tool" \in Callers /\ "timeout" \in Callers
  BY DEF Callers
<1>1. CASE StopByTool(p)
  <2>1. /\ Known(p) /\ stop[p]["tool"].at # "reporting"
        /\ UNCHANGED <<starting, closing, todo, cursor>>
    BY <1>1 DEF StopByTool
  <2>2. BeginStop(p, "tool") \/ StopNothing(p, "tool")
    BY <1>1 DEF StopByTool
  <2>3. QED
    BY <1>0, <2>1, <2>2, BeginStopIsQuiet, StopNothingIsQuiet
<1>2. CASE TimeOut(p)
  <2>1. /\ ~Fresh(p) /\ stop[p]["timeout"].at # "reporting"
        /\ UNCHANGED <<starting, closing, todo, cursor>>
    BY <1>0, <1>2, FreshIsUntouched DEF TimeOut
  <2>2. CASE BeginStop(p, "timeout")
    BY <1>0, <2>1, <2>2, BeginStopIsQuiet
  <2>3. CASE /\ stop' = [stop EXCEPT ![p]["timeout"] = AtRest]
             /\ UNCHANGED <<proc, listed, expired>>
    BY <1>0, <2>1, <2>3, RestIsQuiet
  <2>4. QED
    BY <1>2, <2>2, <2>3 DEF TimeOut
<1>3. CASE AbortStop(p)
  <2>1. ~Fresh(p) /\ UNCHANGED <<listed, expired, starting, closing, todo, cursor>>
    BY <1>0, <1>3, FreshIsUntouched DEF AbortStop
  <2> DEFINE q == [proc[p] EXCEPT !.lock = IF proc[p].lock = "tool" THEN "free"
                                           ELSE proc[p].lock,
                                  !.cut = proc[p].cut \/
                                          stop[p]["tool"].at = "reporting"]
             s == [stop[p] EXCEPT !["tool"] = AtRest]
  <2>2. proc' = [proc EXCEPT ![p] = q] /\ stop' = [stop EXCEPT ![p] = s]
    BY <1>3 DEF AbortStop
  <2>3. /\ s \in StopRecords /\ \A d \in Callers : s[d].ok => stop[p][d].ok
        /\ \A d \in Callers : d # "tool" => s[d].at = stop[p][d].at
    <3>1. AtRest \in [at : Stages, ok : BOOLEAN] /\ ~AtRest.ok
      BY DEF Stages, AtRest
    <3>2. QED
      BY <1>0, <3>1, StopAnswers
  <2>4. /\ q \in ManagedRecords /\ q.child = proc[p].child /\ q.pump = proc[p].pump
        /\ q.state = proc[p].state /\ q.watcher = proc[p].watcher
        /\ q.out = proc[p].out /\ q.held = proc[p].held
        /\ q.cut <=> proc[p].cut \/ stop[p]["tool"].at = "reporting"
    BY ZenonT(60) DEF ManagedRecords
  <2> HIDE DEF q, s
  <2>5. MayBecome(p, q, s)
    BY <2>1, <2>3, <2>4 DEF MayBecome, Sane, OutputGoesOn, Running
  <2>6. Known(p) => Told(p, q, s)
    <3>1. /\ proc[p].cut => q.cut
          /\ \A d \in Callers : stop[p][d].at = "reporting" =>
                                 s[d].at = "reporting" \/ q.cut
      BY <2>3, <2>4
    <3>2. q.state = proc[p].state /\ q.held = proc[p].held
      BY <2>4
    <3>3. QED
      BY <3>1, <3>2, ToldStays
  <2>7. QED
    BY <2>1, <2>2, <2>5, <2>6, OneIsQuiet
<1>4. QED
  BY <1>1, <1>2, <1>3

LEMMA TerminateIsQuiet ==
    ASSUME ProcessInvariant, NEW p \in Processes, NEW c \in Callers, Terminate(p, c)
    PROVE  QuietStep
<1> USE AtProcess, Fields
<1>0. ~Fresh(p) /\ UNCHANGED <<starting, closing, todo, cursor>>
  <2>1. stop[p][c].at # "idle"
    BY DEF Terminate, LockForStop, Kill, DrainPipe, DrainPtyStop, ReportPtyStop, FailStop
  <2>2. UNCHANGED <<starting, closing, todo, cursor>>
    BY DEF Terminate, LockForStop, Kill, DrainPipe, DrainPtyStop, ReportPtyStop, FailStop
  <2>3. QED
    BY <2>1, <2>2, FreshIsUntouched
<1>1. CASE LockForStop(p, c)
  <2>1. CASE StopNothing(p, c)
    <3>1. stop[p][c].at # "reporting"
      BY <1>1 DEF LockForStop
    <3>2. QED
      BY <1>0, <2>1, <3>1, StopNothingIsQuiet
  <2>2. CASE /\ Running(p)
             /\ proc' = [proc EXCEPT ![p].lock = c]
             /\ stop' = [stop EXCEPT ![p][c].at = "killing"]
             /\ UNCHANGED <<listed, expired>>
    <3> DEFINE q == [proc[p] EXCEPT !.lock = c]
               s == [stop[p] EXCEPT ![c].at = "killing"]
    <3>1. proc' = [proc EXCEPT ![p] = q] /\ stop' = [stop EXCEPT ![p] = s]
      BY <2>2
    <3>2. s \in StopRecords /\ \A d \in Callers : s[d].ok = stop[p][d].ok
      <4>1. "killing" \in Stages
        BY DEF Stages
      <4>2. QED
        BY <4>1, StopAdvances
    <3> HIDE DEF s
    <3>3. MayBecome(p, q, s)
      BY <1>0, <2>2, <3>2 DEF MayBecome, Sane, OutputGoesOn, ManagedRecords
    <3>4. q.state = proc[p].state
      BY DEF ManagedRecords
    <3>5. Told(p, q, s)
      BY <2>2, <3>4 DEF Told, Running
    <3>6. QED
      BY <1>0, <2>2, <3>1, <3>3, <3>5, OneIsQuiet
  <2>3. QED
    BY <1>1, <2>1, <2>2 DEF LockForStop
<1>2. CASE Kill(p, c)
  <2>1. PICK o \in TreeOutcomes(proc[p].child) :
          /\ proc' = [proc EXCEPT ![p].child = o.child]
          /\ stop' = [stop EXCEPT ![p][c] = [at |-> "draining", ok |-> o.ok]]
    BY <1>2 DEF Kill, PtyOutcomes
  <2>2. /\ o.child \in {"alive", "dead"} /\ o.ok \in BOOLEAN
        /\ o.ok => o.child = "dead"
        /\ proc[p].child = "dead" => o.child = "dead"
    BY <2>1 DEF TreeOutcomes
  <2> DEFINE q == [proc[p] EXCEPT !.child = o.child]
             r == [at |-> "draining", ok |-> o.ok]
             s == [stop[p] EXCEPT ![c] = r]
  <2>3. proc' = [proc EXCEPT ![p] = q] /\ stop' = [stop EXCEPT ![p] = s]
    BY <2>1
  <2>4. /\ q \in ManagedRecords /\ q.child = o.child /\ q.pump = proc[p].pump
        /\ q.state = proc[p].state /\ q.watcher = proc[p].watcher
        /\ q.out = proc[p].out /\ q.held = proc[p].held /\ q.cut = proc[p].cut
    BY <2>2 DEF ManagedRecords
  <2>5. r \in [at : Stages, ok : BOOLEAN] /\ r.ok = o.ok
    BY <2>2 DEF Stages
  <2> HIDE DEF r
  <2>6. /\ s \in StopRecords
        /\ \A d \in Callers : s[d].ok = IF d = c THEN o.ok ELSE stop[p][d].ok
        /\ \A d \in Callers : d # c => s[d].at = stop[p][d].at
    BY <2>5, StopAnswers
  <2> HIDE DEF q, s
  <2>7. Sane(q, s)
    BY <2>2, <2>4, <2>6 DEF Sane
  <2>8. MayBecome(p, q, s)
    BY <1>0, <2>4, <2>6, <2>7 DEF MayBecome, OutputGoesOn, Running
  <2>9. UNCHANGED <<listed, expired>>
    BY <1>2 DEF Kill
  <2>10. Known(p) => Told(p, q, s)
    <3>1. stop[p][c].at = "killing"
      BY <1>2 DEF Kill
    <3>2. QED
      BY <2>4, <2>6, <3>1 DEF Told
  <2>11. QED
    BY <1>0, <2>3, <2>8, <2>9, <2>10, OneIsQuiet
<1>3. CASE DrainPipe(p, c)
  <2> DEFINE verdict == IF stop[p][c].ok THEN "exited" ELSE "unknown"
             q == [proc[p] EXCEPT !.state = verdict]
  <2>1. Finish(p, q, c) /\ ~proc[p].pump
    BY <1>3 DEF DrainPipe
  <2>2. /\ verdict \in States /\ verdict # "running"
        /\ verdict = "exited" => proc[p].child = "dead"
    BY DEF States, Sane
  <2> HIDE DEF verdict
  <2>3. MayBecome(p, q, stop[p])
    BY <1>0, <2>1, <2>2 DEF MayBecome, Sane, OutputGoesOn, ManagedRecords
  <2>4. q.out = proc[p].out
    BY DEF ManagedRecords
  <2>5. QED
    BY <1>0, <2>1, <2>3, <2>4, FinishIsQuiet
<1>4. CASE DrainPtyStop(p, c)
  <2>1. PICK closed \in BOOLEAN :
          LET ok == /\ stop[p][c].ok /\ closed
                    /\ proc[p].child = "dead" /\ proc[p].eof /\ ~proc[p].pump
          IN  /\ proc' = [proc EXCEPT
                    ![p].state = IF ok THEN "exited" ELSE "unknown",
                    ![p].confirmed = ok, ![p].lock = "free"]
              /\ stop' = [stop EXCEPT ![p][c] = [at |-> "reporting", ok |-> ok]]
    BY <1>4 DEF DrainPtyStop
  <2> DEFINE ok == /\ stop[p][c].ok /\ closed
                   /\ proc[p].child = "dead" /\ proc[p].eof /\ ~proc[p].pump
             verdict == IF ok THEN "exited" ELSE "unknown"
             q == [proc[p] EXCEPT !.state = verdict, !.confirmed = ok, !.lock = "free"]
             r == [at |-> "reporting", ok |-> ok]
             s == [stop[p] EXCEPT ![c] = r]
  <2>2. proc' = [proc EXCEPT ![p] = q] /\ stop' = [stop EXCEPT ![p] = s]
    BY <2>1
  <2>3. /\ ok \in BOOLEAN
        /\ ok => proc[p].child = "dead" /\ ~proc[p].pump
    BY Zenon DEF Sane
  <2>4. /\ verdict \in States /\ verdict # "running"
        /\ verdict = "exited" => ok
    BY DEF States
  <2>5. r \in [at : Stages, ok : BOOLEAN] /\ r.ok = ok /\ r.at = "reporting"
    <3> HIDE DEF ok
    <3>1. QED
      BY <2>3 DEF Stages
  <2> HIDE DEF ok, verdict, r
  <2>6. /\ s \in StopRecords
        /\ \A d \in Callers : s[d].ok = IF d = c THEN ok ELSE stop[p][d].ok
        /\ s[c].at = "reporting"
    BY <2>5, StopAnswers
  <2>7. /\ q \in ManagedRecords /\ q.child = proc[p].child /\ q.pump = proc[p].pump
        /\ q.state = verdict /\ q.watcher = proc[p].watcher /\ q.out = proc[p].out
    <3>1. q \in ManagedRecords
      BY <2>3, <2>4, ZenonT(60) DEF ManagedRecords
    <3>2. /\ q.child = proc[p].child /\ q.pump = proc[p].pump
          /\ q.watcher = proc[p].watcher /\ q.out = proc[p].out
      BY DEF ManagedRecords
    <3>3. q.state = verdict
      BY DEF ManagedRecords
    <3>4. QED
      BY <3>1, <3>2, <3>3
  <2> HIDE DEF q, s
  <2>8. Sane(q, s)
    BY <2>3, <2>4, <2>6, <2>7 DEF Sane
  <2>9. MayBecome(p, q, s)
    BY <1>0, <2>4, <2>6, <2>7, <2>8 DEF MayBecome, OutputGoesOn
  <2>10. UNCHANGED <<listed, expired>>
    BY <1>4 DEF DrainPtyStop
  <2>11. Told(p, q, s)
    BY <1>4, <2>6 DEF Told, DrainPtyStop
  <2>12. QED
    BY <1>0, <2>2, <2>9, <2>10, <2>11, OneIsQuiet
<1>5. CASE ReportPtyStop(p, c)
  <2> DEFINE q == [proc[p] EXCEPT !.watcher = "done",
                    !.lock = IF proc[p].lock = "watcher" THEN "free" ELSE proc[p].lock]
  <2>1. Finish(p, q, c)
    BY <1>5 DEF ReportPtyStop
  <2>2. MayBecome(p, q, stop[p])
    BY <1>0 DEF MayBecome, Sane, OutputGoesOn, Running, ManagedRecords
  <2>3. q.out = proc[p].out
    BY DEF ManagedRecords
  <2>4. QED
    BY <1>0, <2>1, <2>2, <2>3, FinishIsQuiet
<1>6. CASE FailStop(p, c)
  <2> DEFINE q == [proc[p] EXCEPT !.state = "unknown",
                    !.lock = IF proc[p].lock = c THEN "free" ELSE proc[p].lock]
  <2>1. Finish(p, q, c)
    BY <1>6 DEF FailStop
  <2>2. MayBecome(p, q, stop[p])
    BY <1>0, ZenonT(40) DEF MayBecome, Sane, OutputGoesOn, ManagedRecords, States
  <2>3. q.out = proc[p].out
    BY DEF ManagedRecords
  <2>4. QED
    BY <1>0, <2>1, <2>2, <2>3, FinishIsQuiet
<1>7. QED
  BY <1>1, <1>2, <1>3, <1>4, <1>5, <1>6 DEF Terminate

\* -------------------------------------------------- starting and reading

LEMMA BeginStartKeeps ==
    ASSUME ProcessInvariant, NEW p \in Processes, BeginStart(p)
    PROVE  ProcessInvariant'
<1>1. /\ closing = "no" /\ p \notin Launched /\ proc[p] = Managed
      /\ EvictFinished(proc, stop, {}) /\ starting' = {p}
      /\ UNCHANGED <<closing, todo, cursor>>
  BY DEF BeginStart
<1>2. Fresh(p) /\ ~Known(p)
  <2>1. Running(p) /\ ~Known(p)
    BY <1>1 DEF Running, Managed, Launched, Known
  <2>2. QED
    BY <2>1 DEF ProcessInvariant, Registered
<1>3. StartsFresh
  BY <1>1, <1>2 DEF StartsFresh
<1>4. Moves(proc, stop)
  <2>1. \A o \in Processes : Sane(proc[o], stop[o])
    BY AtProcess
  <2>2. proc \in [Processes -> ManagedRecords] /\ stop \in [Processes -> StopRecords]
    BY TypeByRecords DEF ProcessInvariant
  <2>3. QED
    BY <2>1, <2>2 DEF Moves, Running, OutputGoesOn
<1>5. Tells(proc, stop)
  BY DEF Tells, ProcessInvariant, AllTold
<1>6. QuietStep
  BY <1>1, <1>3, <1>4, <1>5, EvictIsQuiet
<1>7. QED
  BY <1>6, QuietKeeps

(* The list with one more process on it. *)
LEMMA OneMoreListed ==
    ASSUME ProcessInvariant, NEW p \in Processes, listed' = Append(listed, p)
    PROVE  /\ listed' \in Seq(Processes)
           /\ Range(listed') = Range(listed) \union {p}
<1>1. listed \in Seq(Processes)
  BY DEF ProcessInvariant, TypeOK
<1>2. QED
  BY <1>1, AppendRange

LEMMA EndStartKeeps ==
    ASSUME ProcessInvariant, NEW p \in Processes, EndStart(p)
    PROVE  ProcessInvariant'
<1> USE AtProcess, Fields
<1> DEFINE s == [stop[p] EXCEPT !["timeout"].at = IF p \in Timed THEN "armed" ELSE "idle"]
<1>1. /\ p \in starting /\ starting' = {} /\ listed' = Append(listed, p)
      /\ stop' = [stop EXCEPT ![p] = s]
      /\ UNCHANGED <<proc, expired, closing, todo, cursor>>
  BY DEF EndStart
<1>2. s \in StopRecords /\ \A c \in Callers : s[c].ok = stop[p][c].ok
  <2>1. (IF p \in Timed THEN "armed" ELSE "idle") \in Stages /\ "timeout" \in Callers
    BY DEF Stages, Callers
  <2>2. QED
    BY <2>1, StopAdvances
<1> HIDE DEF s
<1>3. /\ listed' \in Seq(Processes)
      /\ Range(listed') = Range(listed) \union {p}
  BY <1>1, OneMoreListed
<1>4. /\ stop' \in [Processes -> StopRecords]
      /\ stop'[p] = s /\ \A o \in Processes : o # p => stop'[o] = stop[o]
  BY <1>1, <1>2
<1>5. TypeOK'
  BY <1>1, <1>3, <1>4, TypeByRecords DEF ProcessInvariant, TypeOK, ManagedRecords, StopRecords
<1>6. Sound'
  <2> SUFFICES ASSUME NEW o \in Processes PROVE Sane(proc[o], stop'[o])
    BY <1>1 DEF Sound
  <2>1. Sane(proc[o], stop[o])
    OBVIOUS
  <2>2. \A c \in Callers : stop'[o][c].ok = stop[o][c].ok
    BY <1>2, <1>4
  <2>3. QED
    BY <2>1, <2>2 DEF Sane
<1>7. closing = "no"
  BY <1>1 DEF ProcessInvariant, Registered
<1>8. \A o \in Processes : Running(o)' <=> Running(o)
  BY <1>1 DEF Running
<1>9. \A o \in Processes : Known(o)' <=> Known(o) \/ o = p
  BY <1>3 DEF Known
<1>10. Registered'
  <2>1. \A o \in Processes : Running(o)' => Known(o)' \/ Fresh(o)'
    <3>1. \A o \in Processes : Fresh(o) /\ o # p => Fresh(o)'
      BY <1>1, <1>4 DEF Fresh
    <3>2. QED
      BY <1>8, <1>9, <3>1 DEF ProcessInvariant, Registered
  <2>2. Range(expired) \subseteq Processes /\ Range(todo) \subseteq Processes
    BY SMTT(30) DEF ProcessInvariant, TypeOK, Range
  <2>3. /\ \A o \in Range(expired') : ~Running(o)'
        /\ \A o \in Range(todo') : Running(o)' => Known(o)'
    BY <1>1, <1>8, <1>9, <2>2 DEF ProcessInvariant, Registered
  <2>4. QED
    BY <1>1, <1>7, <2>1, <2>3 DEF Registered
<1>11. OutputInvariant'
  BY <1>1 DEF OutputInvariant
<1>12. AllTold'
  <2> SUFFICES ASSUME NEW o \in Range(listed') PROVE Told(o, proc[o], stop'[o])
    BY <1>1 DEF AllTold, Told
  <2>1. CASE o = p
    <3>1. proc[o] = Managed /\ Managed.state = "running"
      BY <1>1, <2>1 DEF ProcessInvariant, Registered, Fresh, Managed
    <3>2. QED
      BY <3>1 DEF Told
  <2>2. CASE o # p
    <3>1. o \in Range(listed) /\ o \in Processes /\ Told(o, proc[o], stop[o])
      BY <1>3, <2>2, ListedIsTold
    <3>2. stop'[o] = stop[o]
      BY <1>4, <2>2, <3>1
    <3>3. QED
      BY <3>1, <3>2
  <2>3. QED
    BY <2>1, <2>2
<1>13. QED
  BY <1>5, <1>6, <1>10, <1>11, <1>12 DEF ProcessInvariant

LEMMA FailStartKeeps ==
    ASSUME ProcessInvariant, NEW p \in Processes, FailStart(p)
    PROVE  ProcessInvariant'
<1>1. starting' = {} /\ UNCHANGED <<proc, stop, listed, expired, closing, todo, cursor>>
  BY DEF FailStart
<1>2. StartsFresh
  BY <1>1 DEF StartsFresh
<1>3. Moves(proc', stop')
  <2>1. \A o \in Processes : Sane(proc[o], stop[o])
    BY AtProcess
  <2>2. proc \in [Processes -> ManagedRecords] /\ stop \in [Processes -> StopRecords]
    BY TypeByRecords DEF ProcessInvariant
  <2>3. QED
    BY <1>1, <2>1, <2>2 DEF Moves, Running, OutputGoesOn
<1>4. Tells(proc', stop')
  BY <1>1 DEF Tells, ProcessInvariant, AllTold
<1>5. QED
  BY <1>1, <1>2, <1>3, <1>4, PlainIsQuiet, QuietKeeps

(* The cursor a read hands out stands at the end. *)
LEMMA ReadKeeps ==
    ASSUME ProcessInvariant, NEW p \in Processes, Read(p)
    PROVE  ProcessInvariant'
<1>1. /\ cursor' = [cursor EXCEPT ![p] = proc[p].out.next]
      /\ UNCHANGED <<proc, stop, listed, expired, starting, closing, todo>>
  BY DEF Read
<1>2. cursor \in [Processes -> Nat]
  BY DEF ProcessInvariant, TypeOK
<1>3. proc[p].out.next \in Nat
  BY AtProcess DEF WellFiled
<1>4. /\ cursor' \in [Processes -> Nat] /\ cursor'[p] = proc[p].out.next
      /\ \A o \in Processes : o # p => cursor'[o] = cursor[o]
  BY <1>1, <1>2, <1>3
<1>5. TypeOK'
  BY <1>1, <1>4 DEF ProcessInvariant, TypeOK
<1>6. Sound' /\ AllTold'
  BY <1>1 DEF ProcessInvariant, Sound, AllTold, Told
<1>7. Registered'
  BY <1>1 DEF ProcessInvariant, Registered, Running, Known, Fresh
<1>8. OutputInvariant'
  <2> SUFFICES ASSUME NEW o \in Processes
               PROVE  WellFiled(proc[o].out) /\ WellPlaced(proc[o].out, cursor'[o])
    BY <1>1 DEF OutputInvariant
  <2>1. WellFiled(proc[o].out) /\ WellPlaced(proc[o].out, cursor[o])
    BY AtProcess
  <2>2. WellPlaced(proc[o].out, proc[o].out.next)
    BY <2>1 DEF WellFiled, WellPlaced
  <2>3. QED
    BY <1>4, <2>1, <2>2
<1>9. QED
  BY <1>5, <1>6, <1>7, <1>8 DEF ProcessInvariant

\* ---------------------------------------------------------------- closing

LEMMA BeginCloseKeeps ==
    ASSUME ProcessInvariant, BeginClose
    PROVE  ProcessInvariant'
<1>1. /\ closing = "no" /\ starting = {} /\ closing' = "running" /\ todo' = listed
      /\ UNCHANGED <<proc, stop, listed, expired, starting, cursor>>
  BY DEF BeginClose
<1>2. TypeOK'
  BY <1>1 DEF ProcessInvariant, TypeOK
<1>3. Sound' /\ AllTold' /\ OutputInvariant'
  BY <1>1 DEF ProcessInvariant, Sound, AllTold, Told, OutputInvariant
<1>4. Registered'
  BY <1>1 DEF ProcessInvariant, Registered, Running, Known, Fresh
<1>5. QED
  BY <1>2, <1>3, <1>4 DEF ProcessInvariant

(* The rest of a list that is not empty. *)
LEMMA RestOfList ==
    ASSUME NEW S, NEW s \in Seq(S), s # <<>>
    PROVE  /\ Head(s) \in S /\ Tail(s) \in Seq(S) /\ Head(s) \in Range(s)
           /\ Range(s) = Range(Tail(s)) \union {Head(s)}
<1>1. /\ Head(s) = s[1] /\ 1 \in DOMAIN s /\ Head(s) \in S /\ Tail(s) \in Seq(S)
      /\ DOMAIN s = 1..Len(s) /\ DOMAIN Tail(s) = 1..(Len(s) - 1) /\ Len(s) \in Nat
      /\ \A i \in 1..(Len(s) - 1) : Tail(s)[i] = s[i+1]
  OBVIOUS
<1> DEFINE t == Tail(s)
<1> HIDE DEF t
<1>2. Range(t) \subseteq Range(s)
  <2>1. \A i \in DOMAIN t : i + 1 \in DOMAIN s /\ t[i] = s[i+1]
    BY <1>1 DEF t
  <2>2. QED
    BY <2>1 DEF Range
<1>3. Range(s) \subseteq Range(t) \union {s[1]}
  <2>1. \A i \in DOMAIN s : i = 1 \/ (i - 1 \in DOMAIN t /\ t[i-1] = s[i])
    BY <1>1 DEF t
  <2>2. QED
    BY <2>1 DEF Range
<1>4. s[1] \in Range(s)
  BY <1>1 DEF Range
<1>5. QED
  BY <1>1, <1>2, <1>3, <1>4 DEF t

LEMMA CloseNextKeeps ==
    ASSUME ProcessInvariant, CloseNext
    PROVE  ProcessInvariant'
<1> DEFINE p == Head(todo)
<1>1. closing = "running" /\ todo # <<>> /\ todo \in Seq(Processes)
      /\ UNCHANGED <<starting, closing, cursor>>
  BY DEF CloseNext, ProcessInvariant, TypeOK
<1>2. /\ p \in Processes /\ Tail(todo) \in Seq(Processes) /\ p \in Range(todo)
      /\ Range(todo) = Range(Tail(todo)) \union {p}
  BY <1>1, RestOfList
<1> HIDE DEF p
<1>3. CASE BeginStop(p, "close") /\ UNCHANGED todo
  <2>1. Running(p)
    BY <1>3 DEF BeginStop
  <2>2. Known(p)
    BY <1>2, <2>1 DEF ProcessInvariant, Registered
  <2>3. "close" \in Callers
    BY DEF Callers
  <2>4. QED
    BY <1>1, <1>2, <1>3, <2>2, <2>3, BeginStopIsQuiet, QuietKeeps
<1>4. CASE /\ ~Running(p)
           /\ todo' = Tail(todo)
           /\ UNCHANGED <<proc, stop, listed, expired>>
  <2>1. TypeOK'
    BY <1>1, <1>2, <1>4 DEF ProcessInvariant, TypeOK
  <2>2. Sound' /\ AllTold' /\ OutputInvariant'
    BY <1>1, <1>4 DEF ProcessInvariant, Sound, AllTold, Told, OutputInvariant
  <2>3. \A o \in Range(listed) : Running(o) => o \in Range(Tail(todo))
    BY <1>1, <1>2, <1>4 DEF ProcessInvariant, Registered
  <2>4. \A o \in Range(Tail(todo)) : Running(o) => Known(o)
    BY <1>2 DEF ProcessInvariant, Registered
  <2>5. Registered'
    BY <1>1, <1>4, <2>3, <2>4 DEF ProcessInvariant, Registered, Running, Known, Fresh
  <2>6. QED
    BY <2>1, <2>2, <2>5 DEF ProcessInvariant
<1>5. QED
  BY <1>3, <1>4 DEF CloseNext, p

LEMMA EndCloseKeeps ==
    ASSUME ProcessInvariant, EndClose
    PROVE  ProcessInvariant'
<1>1. /\ closing = "running" /\ todo = <<>> /\ closing' = "done"
      /\ listed' = Selected(listed, {p \in Processes : Running(p)})
      /\ proc' = [p \in Processes |->
                    IF Known(p) /\ ~Running(p) THEN Discarded(proc[p]) ELSE proc[p]]
      /\ stop' = [p \in Processes |->
                    IF Known(p) /\ ~Running(p) THEN Disarmed(stop[p]) ELSE stop[p]]
      /\ UNCHANGED <<expired, starting, todo, cursor>>
  BY DEF EndClose
<1>2. \A p \in Processes : Known(p) => ~Running(p)
  <2>1. Range(todo) = {}
    BY <1>1 DEF Range
  <2>2. QED
    BY <1>1, <2>1 DEF ProcessInvariant, Registered, Known
<1>3. listed \in Seq(Processes) /\ Range(listed) \subseteq Processes
      /\ Range(expired) \subseteq Processes
  BY DEF ProcessInvariant, TypeOK, Range
<1>4. listed' \in Seq(Processes)
      /\ Range(listed') = Range(listed) \cap {p \in Processes : Running(p)}
  BY <1>1, <1>3, SelectedFacts
<1>5. Range(listed') = {}
  BY <1>2, <1>3, <1>4 DEF Known
<1>6. ASSUME NEW p \in Processes
      PROVE  /\ proc'[p] \in ManagedRecords /\ stop'[p] \in StopRecords
             /\ Sane(proc'[p], stop'[p])
             /\ proc'[p].state = proc[p].state /\ proc'[p].out = proc[p].out
             /\ ~Known(p) => proc'[p] = proc[p] /\ stop'[p] = stop[p]
  <2>1. CASE Known(p) /\ ~Running(p)
    <3>1. proc'[p] = Discarded(proc[p]) /\ stop'[p] = Disarmed(stop[p])
      BY <1>1, <2>1
    <3>2. QED
      BY <2>1, <3>1, AtProcess, DiscardedIsSane
  <2>2. CASE ~(Known(p) /\ ~Running(p))
    <3>1. proc'[p] = proc[p] /\ stop'[p] = stop[p]
      BY <1>1, <2>2
    <3>2. QED
      BY <3>1, AtProcess
  <2>3. QED
    BY <2>1, <2>2
<1>7. TypeOK'
  <2>1. /\ proc' = [p \in Processes |-> proc'[p]]
        /\ stop' = [p \in Processes |-> stop'[p]]
    BY <1>1
  <2>2. proc' \in [Processes -> ManagedRecords] /\ stop' \in [Processes -> StopRecords]
    BY <1>6, <2>1
  <2>3. QED
    BY <1>1, <1>4, <2>2 DEF ProcessInvariant, TypeOK, ManagedRecords, StopRecords
<1>8. Sound'
  BY <1>6 DEF Sound
<1>9. \A p \in Processes : Running(p)' <=> Running(p)
  BY <1>6 DEF Running
<1>10. Registered'
  <2>1. \A p \in Processes : Running(p)' => Fresh(p)'
    <3>1. \A p \in Processes : Fresh(p) /\ ~Known(p) => Fresh(p)'
      BY <1>6 DEF Fresh
    <3>2. QED
      BY <1>2, <1>9, <3>1 DEF ProcessInvariant, Registered
  <2>2. starting' = {} /\ Range(todo') = {}
    BY <1>1 DEF ProcessInvariant, Registered, Range
  <2>3. \A p \in Range(expired') : ~Running(p)'
    BY <1>1, <1>3, <1>9 DEF ProcessInvariant, Registered
  <2>4. QED
    BY <1>1, <1>5, <2>1, <2>2, <2>3 DEF Registered
<1>11. OutputInvariant'
  <2> SUFFICES ASSUME NEW p \in Processes
               PROVE  WellFiled(proc'[p].out) /\ WellPlaced(proc'[p].out, cursor[p])
    BY <1>1 DEF OutputInvariant
  <2>1. QED
    BY <1>6, AtProcess
<1>12. AllTold'
  BY <1>5 DEF AllTold
<1>13. QED
  BY <1>7, <1>8, <1>10, <1>11, <1>12 DEF ProcessInvariant

\* --------------------------------------------------------------- theorems

(* Every step of a process, of its tasks and of the close of its Session keeps
   the inductive invariant: types, what is said of a child is so, nothing is
   kept back of a process said to have exited unless the stop of a PTY is yet
   to report or was cut off, what runs is registered, and the output is filed
   without a gap up to the end. *)
THEOREM ProcessesInvariant == Spec => []ProcessInvariant
<1>1. Init => ProcessInvariant
  <2> SUFFICES ASSUME Init PROVE ProcessInvariant
    OBVIOUS
  <2>0. /\ NoOutput \in [chunks : Seq(Chunk), next : Nat]
        /\ NoOutput.chunks = <<>> /\ NoOutput.next = 0
    BY DEF NoOutput
  <2>1. Managed \in ManagedRecords /\ Managed.state = "running"
        /\ Managed.watcher = "waiting" /\ Managed.out = NoOutput
    BY <2>0 DEF Managed, ManagedRecords, States
  <2>2. AtRest \in [at : Stages, ok : BOOLEAN] /\ ~AtRest.ok
    BY DEF AtRest, Stages
  <2>3. /\ proc \in [Processes -> ManagedRecords] /\ stop \in [Processes -> StopRecords]
        /\ listed \in Seq(Processes) /\ expired \in Seq(Processes)
        /\ starting = {} /\ closing = "no" /\ todo \in Seq(Processes)
        /\ Range(listed) = {} /\ Range(expired) = {} /\ Range(todo) = {}
        /\ cursor \in [Processes -> Nat]
    BY <2>1, <2>2 DEF Init, StopRecords, Range
  <2>4. \A p \in Processes : Fresh(p) /\ proc[p] = Managed /\ cursor[p] = 0
    BY DEF Init, Fresh
  <2>5. TypeOK
    BY <2>3, TypeByRecords
  <2>6. Sound
    BY <2>1, <2>2, <2>4 DEF Sound, Sane, Fresh
  <2>7. Registered
    BY <2>3, <2>4 DEF Registered
  <2>8. OutputInvariant
    <3>1. WellFiled(NoOutput) /\ WellPlaced(NoOutput, 0)
      BY <2>0 DEF WellFiled, WellPlaced
    <3>2. QED
      BY <2>1, <2>4, <3>1 DEF OutputInvariant
  <2>9. AllTold
    BY <2>3 DEF AllTold
  <2>10. QED
    BY <2>5, <2>6, <2>7, <2>8, <2>9 DEF ProcessInvariant
<1>2. ProcessInvariant /\ [Next]_vars => ProcessInvariant'
  <2> SUFFICES ASSUME ProcessInvariant, [Next]_vars PROVE ProcessInvariant'
    OBVIOUS
  <2>1. ASSUME NEW p \in Processes, Launch(p) PROVE ProcessInvariant'
    BY <2>1, BeginStartKeeps, EndStartKeeps, FailStartKeeps DEF Launch
  <2>2. ASSUME NEW p \in Processes, Outside(p) \/ EndPump(p) PROVE ProcessInvariant'
    BY <2>2, OutsideIsQuiet, QuietKeeps, ReadKeeps DEF Outside
  <2>3. ASSUME NEW p \in Processes, Watch(p) PROVE ProcessInvariant'
    BY <2>3, WatchIsQuiet, QuietKeeps
  <2>4. ASSUME NEW p \in Processes, StopByTool(p) \/ TimeOut(p) \/ AbortStop(p)
        PROVE  ProcessInvariant'
    BY <2>4, StopsAreQuiet, QuietKeeps
  <2>5. ASSUME NEW p \in Processes, NEW c \in Callers, Terminate(p, c)
        PROVE  ProcessInvariant'
    BY <2>5, TerminateIsQuiet, QuietKeeps
  <2>6. CASE Close
    BY <2>6, BeginCloseKeeps, CloseNextKeeps, EndCloseKeeps DEF Close
  <2>7. CASE UNCHANGED vars
    <3>1. TypeOK' /\ Sound' /\ AllTold' /\ OutputInvariant'
      BY <2>7 DEF vars, ProcessInvariant, TypeOK, Sound, AllTold, Told, OutputInvariant
    <3>2. Registered'
      BY <2>7 DEF vars, ProcessInvariant, Registered, Running, Known, Fresh
    <3>3. QED
      BY <3>1, <3>2 DEF ProcessInvariant
  <2>8. QED
    BY <2>1, <2>2, <2>3, <2>4, <2>5, <2>6, <2>7 DEF Next
<1>3. QED
  BY <1>1, <1>2, PTL DEF Spec

(* For every number of processes, quota and size of the ring: a reader that
   goes on from its cursor gets all that is retained since, in order and
   without a gap, or is told that some is lost; "exited" is only said of a
   process that is gone and read to its end; and then the redactor keeps back
   none of its output, but where the stop of a PTY has its verdict out and has
   not reported it, or was cancelled in between. *)
THEOREM OutputIsNeverLost == Spec => []OutputIsWhole
<1>1. ProcessInvariant => OutputIsWhole
  <2> SUFFICES ASSUME ProcessInvariant PROVE OutputIsWhole
    OBVIOUS
  <2>1. /\ Range(listed) \subseteq Processes /\ Range(expired) \subseteq Processes
    BY SMTT(60) DEF ProcessInvariant, TypeOK, Range
  <2>2. ReadIsHonest
    <3>1. \A p \in Range(listed) : Honest(proc[p].out, cursor[p])
      BY <2>1, AtProcess, HonestRead
    <3>2. QED
      BY <3>1 DEF ReadIsHonest, Honest
  <2>3. ExitedIsDrained
    <3>1. \A p \in Launched : proc[p].state = "exited" =>
             proc[p].child = "dead" /\ ~proc[p].pump
      BY <2>1, AtProcess DEF Launched, Sane
    <3>2. \A p \in Range(listed) :
             proc[p].state = "exited" /\ proc[p].held # 0 => Unreported(p)
      BY DEF ProcessInvariant, AllTold, Told, Unreported, Reporting
    <3>3. QED
      BY <3>1, <3>2 DEF ExitedIsDrained
  <2>4. QED
    BY <2>2, <2>3 DEF OutputIsWhole
<1>2. QED
  BY <1>1, ProcessesInvariant, PTL

(* For every number of processes and whoever stops them: when a Session is
   closed, each of its processes is gone, said to be unknown, or was never
   started; and no process that runs is forgotten. *)
THEOREM ClosedIsQuiet == Spec => []NothingRunsUnwatched
<1>1. ProcessInvariant => NothingRunsUnwatched
  <2> SUFFICES ASSUME ProcessInvariant PROVE NothingRunsUnwatched
    OBVIOUS
  <2>1. ASSUME closing = "done", NEW p \in Processes
        PROVE  proc[p].child = "dead" \/ proc[p].state = "unknown" \/ proc[p] = Managed
    <3>1. proc[p].state \in States /\ Sane(proc[p], stop[p])
      BY AtProcess, Fields
    <3>2. Running(p) => Fresh(p)
      BY <2>1 DEF ProcessInvariant, Registered, Known
    <3>3. QED
      BY <3>1, <3>2 DEF States, Sane, Fresh, Running
  <2>2. QED
    BY <2>1 DEF NothingRunsUnwatched, ProcessInvariant, Registered
<1>2. QED
  BY <1>1, ProcessesInvariant, PTL
=============================================================================
