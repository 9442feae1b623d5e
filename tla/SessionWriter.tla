---------------------------- MODULE SessionWriter ----------------------------
(***************************************************************************)
(* SessionWriter of integrations/session_files.py on one Session's         *)
(* transcript.jsonl, and the life of the ApplicationSession that owns it.  *)
(*                                                                         *)
(* An append is synchronous: one write of all lines, a reload, a metadata  *)
(* touch.  Only a crash of the process interrupts it.  What it may leave   *)
(* behind is chosen here: any number of complete lines, a torn last line,  *)
(* a reload that fails, a touch that leaves the metadata unknown.          *)
(***************************************************************************)
EXTENDS SessionLog

CONSTANTS
    RepairMayFail,  \* BOOLEAN: _repair_tails may raise inside an append
    Attachments     \* BOOLEAN: a message may refer to an attachment

ASSUME FaultsAssumption ==
    RepairMayFail \in BOOLEAN /\ Attachments \in BOOLEAN

VARIABLES
    lines,    \* the file: its complete lines, in order
    torn,     \* the file ends in bytes without a line end
    broken,   \* a line in the middle cannot be parsed: no load succeeds
    loaded,   \* _loaded: the Transcript the writer believes in
    writer    \* "none", "open", or "unknown" (quarantined)

fileVars    == <<lines, torn, broken>>
sessionVars == <<lines, torn, broken, loaded, writer>>

Writers  == {"none", "open", "unknown"}
Verdicts == {"durable", "not_durable", "unknown"}

SessionTypeOK ==
    /\ lines \in Seq(Entry) /\ loaded \in Seq(Entry)
    /\ torn \in BOOLEAN /\ broken \in BOOLEAN
    /\ writer \in Writers

SessionInit ==
    /\ lines = <<>> /\ torn = FALSE /\ broken = FALSE
    /\ loaded = <<>> /\ writer = "open"

\* ---------------------------------------------------------------- append

\* The bytes of es reach the file up to line k, then perhaps part of a line.
\* Written after a torn tail, the first line is lost in one corrupt record.
Cut(es, k, rest) ==
    /\ rest => k < Len(es)
    /\ lines' = lines \o SubSeq(es, 1, k)
    /\ broken' = (broken \/ (torn /\ k > 0))
    /\ torn' = (rest \/ (torn /\ k = 0))

\* _validate_transcript_append raises before anything is written.
Refused(es, verdict) ==
    /\ ~ValidAppend(loaded, es)
    /\ verdict = "not_durable"
    /\ UNCHANGED sessionVars

\* The whole batch is in the file and a load confirms it, at once or in the
\* reconciliation.  The touch may leave the metadata unknown; marking an
\* attachment submitted then raises, and the caller takes it for a failed
\* append.  A repair that raises after the load does the same.
Confirmed(es, verdict) ==
    /\ ~torn /\ ~broken
    /\ lines' = lines \o es
    /\ loaded' = lines'
    /\ \/ writer' = "open" /\ verdict = "durable"
       \/ writer' = "unknown" /\ verdict = "durable"
       \/ Attachments /\ writer' = "unknown" /\ verdict = "not_durable"
       \/ RepairMayFail /\ writer' = "open" /\ verdict = "not_durable"
    /\ UNCHANGED <<torn, broken>>

\* Mutant: the valid end is taken one record too early.
AbsentShort(verdict) ==
    /\ ~broken
    /\ lines' = SubSeq(lines, 1, Len(lines) - 1)
    /\ loaded' = lines'
    /\ torn' = FALSE
    /\ verdict = "not_durable"
    /\ UNCHANGED <<broken, writer>>

\* Nothing but a torn line was written; the reconciliation truncates it.
Absent(verdict) ==
    /\ ~broken
    /\ loaded' = lines
    /\ torn' \in IF RepairMayFail THEN BOOLEAN ELSE {FALSE}
    /\ verdict = "not_durable"
    /\ UNCHANGED <<lines, broken, writer>>

\* The load fails, or shows neither all nor nothing: quarantine.
Ambiguous(es, verdict) ==
    /\ \E k \in 0..Len(es), rest \in BOOLEAN : Cut(es, k, rest)
    /\ writer' = "unknown"
    /\ verdict = "unknown"
    /\ UNCHANGED loaded

\* Mutant: _require_writable is not asked.
AppendUnguarded(es, verdict) ==
    /\ writer # "none"
    /\ ValidAppend(loaded, es)
    /\ Confirmed(es, verdict) \/ Absent(verdict) \/ Ambiguous(es, verdict)

AppendTranscript(es, verdict) ==
    /\ writer = "open"
    /\ \/ Refused(es, verdict)
       \/ /\ ValidAppend(loaded, es)
          /\ Confirmed(es, verdict) \/ Absent(verdict) \/ Ambiguous(es, verdict)

\* ------------------------------------------------------- open and release

\* A fresh writer locks the Session, loads the file and repairs its tail.
OpenWriter ==
    /\ writer = "none" /\ ~broken
    /\ loaded' = lines
    /\ torn' = FALSE
    /\ writer' = "open"
    /\ UNCHANGED <<lines, broken>>

\* ApplicationSession.close, or a switch to another Session, which a
\* quarantined writer refuses: only close releases that one.
CloseWriter ==
    /\ writer # "none"
    /\ writer' = "none"
    /\ UNCHANGED <<fileVars, loaded>>

\* A metadata write of the open writer (rename, model, touch, close) fails
\* and the file cannot be read back: _write_metadata quarantines the writer.
LoseMetadata ==
    /\ writer = "open"
    /\ writer' = "unknown"
    /\ UNCHANGED <<fileVars, loaded>>

\* The process dies while es is being appended.
CrashWriter(es) ==
    /\ \E k \in 0..Len(es), rest \in BOOLEAN : Cut(es, k, rest)
    /\ writer' = "none"
    /\ loaded' = <<>>
=============================================================================
