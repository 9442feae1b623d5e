----------------------------- MODULE Attachments -----------------------------
(* The files a user attaches to the messages of one Session                    *)
(* (integrations/attachment_files.py, application/attachments.py): imported    *)
(* into the Session's directory as drafts, named by a user message, marked as  *)
(* submitted once the message is durable, and from then on never deleted.      *)
(*                                                                             *)
(* Whether an attachment belongs to the history is recorded twice: in the      *)
(* Transcript, which decides, and in the attachment's own metadata, which      *)
(* follows when it can and is brought up to date at the next boundary of the   *)
(* Session.  A Session is open or closed; its process may die at any step.     *)
EXTENDS Naturals, FiniteSets

CONSTANTS Refs,                          \* references, each the id of one import
          SessionQuota, DerivedQuota,    \* in attachments; the code counts bytes
          MaxMishaps                     \* bound on faults

ASSUME AttachmentAssumption ==
  SessionQuota \in Nat /\ DerivedQuota \in Nat /\ MaxMishaps \in Nat

VARIABLES
  original,    \* the directory of each reference
  submitted,   \* references whose metadata say so
  derived,     \* references with a copy for the operating system
  durable,     \* references in the Transcript on disk
  loaded,      \* references in the snapshot the writer works with
  sent,        \* references of the message that is not yet in the Transcript
  writer,      \* "closed", "open", or "unknown": quarantined
  mishaps      \* faults so far (bounded)

attachmentVars == <<original, submitted, derived, durable, loaded, sent, writer, mishaps>>

(* unused: no import had this id; temp: its temporary directory; stored;      *)
(* broken: content and metadata no longer agree; removed.                     *)
Kinds == {"unused", "temp", "stored", "broken", "removed"}

AttachmentInit ==
  /\ original = [r \in Refs |-> "unused"]
  /\ submitted = {} /\ derived = {} /\ durable = {} /\ loaded = {} /\ sent = {}
  /\ writer = "closed" /\ mishaps = 0

Mishap == mishaps < MaxMishaps /\ mishaps' = mishaps + 1

(* Path.glob("*/content.bin") finds temporary directories too.                *)
Used == {r \in Refs : original[r] \in {"temp", "stored", "broken"}}

(* What _resolve and the reading of its content accept.                       *)
Resolves(r) == original[r] = "stored"

----------------------------------------------------------------------------
(* persist: written aside, then renamed; what a failure cannot remove stays.  *)
Persist(r) ==
  /\ writer # "closed" /\ original[r] = "unused"
  /\ Cardinality(Used) + 1 <= SessionQuota
  /\ \/ original' = [original EXCEPT ![r] = "stored"] /\ UNCHANGED mishaps
     \/ /\ Mishap
        /\ \E left \in {"removed", "temp", "broken"} : original' = [original EXCEPT ![r] = left]
  /\ UNCHANGED <<submitted, derived, durable, loaded, sent, writer>>

(* remove_draft asks the metadata and then the Transcript on disk; the         *)
(* recursive removal may stop in the middle.                                   *)
Erased(r) ==
  /\ \/ original' = [original EXCEPT ![r] = "removed"] /\ UNCHANGED mishaps
     \/ Mishap /\ \E left \in {"stored", "broken"} : original' = [original EXCEPT ![r] = left]
  /\ derived' = derived \ {r}

RemoveUnmarked(r) ==                     \* asks the metadata alone
  /\ writer # "closed" /\ Resolves(r) /\ r \notin submitted
  /\ Erased(r)
  /\ UNCHANGED <<submitted, durable, loaded, sent, writer>>

RemoveDraft(r) ==
  /\ writer # "closed" /\ Resolves(r) /\ r \notin submitted /\ r \notin durable
  /\ Erased(r)
  /\ UNCHANGED <<submitted, durable, loaded, sent, writer>>

(* A copy with the right suffix, made anew on every request.                  *)
MaterializeOpenPath(r) ==
  /\ writer # "closed" /\ Resolves(r)
  /\ Cardinality(derived \ {r}) + 1 <= DerivedQuota
  /\ derived' = derived \cup {r}
  /\ UNCHANGED <<original, submitted, durable, loaded, sent, writer, mishaps>>

----------------------------------------------------------------------------
(* cleanup and reconcile_attachment_lifecycle: the references of the loaded    *)
(* Transcript are marked, as far as they resolve and can be written.           *)
Cleaned(files) == [r \in Refs |-> IF files[r] = "temp" THEN "removed" ELSE files[r]]

Marked(refs) ==
  LET can == {r \in refs : Resolves(r)} IN
  \/ submitted' = submitted \cup can /\ UNCHANGED mishaps
  \/ Mishap /\ \E some \in SUBSET can : submitted' = submitted \cup some

Reconcile(refs) ==
  /\ Marked(refs)
  /\ derived' = {} /\ original' = Cleaned(original)

(* The transcript could not be read: the boundary goes on without it.         *)
ReconcileFails == Mishap /\ UNCHANGED <<submitted, derived, original>>

OpenWriter ==
  /\ writer = "closed"
  /\ writer' = "open" /\ loaded' = durable /\ sent' = {}
  /\ Reconcile(durable) \/ ReconcileFails
  /\ UNCHANGED durable

CloseWriter ==
  /\ writer # "closed"
  /\ writer' = "closed" /\ loaded' = {} /\ sent' = {}
  /\ Reconcile(loaded) \/ ReconcileFails
  /\ UNCHANGED durable

----------------------------------------------------------------------------
(* turn.start takes references that resolve into the user message.            *)
SendMessage(refs) ==
  /\ writer = "open" /\ sent = {} /\ refs # {}
  /\ \A r \in refs : Resolves(r)
  /\ sent' = refs
  /\ UNCHANGED <<original, submitted, derived, durable, loaded, writer, mishaps>>

(* append_transcript: marks follow a durable append; one that fails makes the  *)
(* writer reconcile; an append of unknown outcome marks nothing.               *)
AppendTranscript ==
  /\ writer = "open" /\ sent # {}
  /\ \/ /\ durable' = durable \cup sent /\ loaded' = loaded \cup sent
        /\ sent' = {} /\ UNCHANGED writer
        /\ \/ /\ \A r \in sent : Resolves(r)
              /\ submitted' = submitted \cup sent /\ UNCHANGED <<original, derived, mishaps>>
           \/ /\ \E r \in sent : ~Resolves(r) \/ mishaps < MaxMishaps
              /\ Reconcile(loaded \cup sent) \/ ReconcileFails
     \/ /\ Mishap                             \* failed, and known to be absent
        /\ UNCHANGED <<original, submitted, derived, durable, loaded, sent, writer>>
     \/ /\ Mishap                             \* nobody knows
        /\ durable' \in {durable, durable \cup sent}
        /\ writer' = "unknown" /\ sent' = {}
        /\ UNCHANGED <<original, submitted, derived, loaded>>

(* The process dies: during an append, after it and before the marks, in the  *)
(* middle of an import or of a removal, or between two calls.                  *)
CrashedImport(r) == original[r] = "unused" /\ \E left \in {"temp", "stored"} : original' = [original EXCEPT ![r] = left]
CrashedRemoval(r) ==
  /\ Resolves(r) /\ r \notin submitted /\ r \notin durable
  /\ original' = [original EXCEPT ![r] = "broken"]

ProcessDies ==
  /\ writer # "closed" /\ Mishap
  /\ durable' \in {durable, durable \cup (IF writer = "open" THEN sent ELSE {})}
  /\ writer' = "closed" /\ loaded' = {} /\ sent' = {}
  /\ UNCHANGED original \/ \E r \in Refs : CrashedImport(r) \/ CrashedRemoval(r)
  /\ UNCHANGED <<submitted, derived>>

AttachmentNext ==
  \/ OpenWriter \/ CloseWriter \/ AppendTranscript \/ ProcessDies
  \/ \E r \in Refs : Persist(r) \/ RemoveDraft(r) \/ MaterializeOpenPath(r)
  \/ \E refs \in SUBSET Refs : SendMessage(refs)

AttachmentSpec == AttachmentInit /\ [][AttachmentNext]_attachmentVars

----------------------------------------------------------------------------
(* The original of an attachment that the durable history names is never      *)
(* deleted or damaged, whatever failed between the append of the message and  *)
(* the mark in the metadata.                                                   *)
OriginalsAreKept ==
  [][\A r \in durable : original[r] = "stored" => original'[r] = "stored"]_attachmentVars
=============================================================================
