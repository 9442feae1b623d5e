-------------------------- MODULE HistoryProperties --------------------------
(***************************************************************************)
(* What the persistence of a run promises, and what the documentation says *)
(* it does.  RunTurns are the Turns of the AgentRun that is alive.         *)
(***************************************************************************)
EXTENDS RunHistory, SequencesExt

RunTurns == {messages[i].turn : i \in DOMAIN messages}

\* Line i of the file belongs to a message of the living run.
RunLine(i) == lines[i].turn \in RunTurns /\ lines[i].kind # "failure"

\* Line i of the file is part p of message m, filed under a Turn of the run.
Stores(i, m, p) == /\ lines[i].msg = m /\ lines[i].part = p
                   /\ lines[i].kind = messages[m].kind
                   /\ lines[i].turn \in RunTurns

\* Part p of message m comes before the part that entry e holds.
Precedes(m, p, e) == m < e.msg \/ (m = e.msg /\ p < e.part)

\* ---------------------------------------------------------- state properties

(* Retries, quarantine and reconciliation put every message of the run into
   the file at most once, under its own Turn and in the order of the
   conversation: a line of the run is a part of a message, and the parts in
   the lines before it are exactly those that precede it
   (_flush_pending_persistence, _persist_closed_messages,
   _reconcile_transcript_append). *)
FileFollowsRun ==
    \A j \in DOMAIN lines : RunLine(j) =>
        LET e == lines[j]
        IN  /\ e.msg \in DOMAIN messages /\ e.part \in 1..Parts
            /\ e.kind = messages[e.msg].kind /\ e.turn = messages[e.msg].turn
            /\ \A m \in DOMAIN messages, p \in 1..Parts :
                  (\E i \in 1..(j - 1) : Stores(i, m, p)) <=> Precedes(m, p, e)

(* The cursor never runs ahead of the file: a message the run takes for
   durable has all its entries there (TranscriptPersistenceOutcome,
   _persisted_message_count). *)
AckedIsDurable ==
    \A m \in 1..persisted, p \in 1..Parts :
        \E i \in DOMAIN lines : Stores(i, m, p)

(* Between Turns nothing is forgotten: the messages beyond the cursor are
   exactly those of the one batch that waits in the queue, and no batch
   overlaps what is durable (_queue_pending_persistence_batch,
   _complete_turn). *)
QueueIsTheGap ==
    Idle => IF queue = <<>> THEN persisted = Len(messages)
            ELSE /\ Len(queue) = 1
                 /\ queue[1].first = persisted + 1
                 /\ queue[1].last = Len(messages)

(* A failure entry closes its Turn: no message of the Turn is appended behind
   it, and it is there once (transcript_entries_for_failed_turn, the terminal
   retry of _complete_turn). *)
FailureIsLast ==
    \A i, j \in DOMAIN lines :
        i < j /\ lines[i].kind = "failure" => lines[j].turn # lines[i].turn

(* Both: the file tells the run, as far as it got. *)
FileTellsTheRun == FileFollowsRun /\ FailureIsLast

(* The session's file can be loaded: no record in its middle is corrupt
   (_repair_tails before the next append). *)
FileIsReadable == ~broken

\* ---------------------------------------------------------- action properties

(* What is in the file stays, through retries, repairs, reopening and crashes
   (_append_jsonl appends, _repair_tails truncates only torn bytes). *)
LogOnlyGrows == [][IsPrefix(lines, lines')]_vars

(* Nothing is written while durability is unknown, and only a fresh writer
   ends that (_require_writable, _release_after_quarantine). *)
QuarantineHolds ==
    [][writer = "unknown" => lines' = lines /\ writer' # "open"]_vars

\* ---------------------------------------------------------------- liveness

\* The event loop runs the driver; users, Providers and faults are free.
FairSpec == Spec /\ WF_vars(Run)

(* A deferred event is delivered, whatever the file does: the stream is not
   locked by a failed append (the finally of _finish_terminal). *)
EventsAreDelivered == (held # {}) ~> (held = {})
=============================================================================
