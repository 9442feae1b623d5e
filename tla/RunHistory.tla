----------------------------- MODULE RunHistory -----------------------------
(***************************************************************************)
(* AgentRun of application/runs.py as the owner of a conversation that is  *)
(* also to be on disk: the cursor of durable messages, the FIFO of batches *)
(* whose append failed, and the user messages whose events wait for it.    *)
(* _persist_run_messages of application/generation.py lies between the run *)
(* and SessionWriter.                                                      *)
(*                                                                         *)
(* The calls of AgentRun are synchronous: while one of them is at work     *)
(* (sync # "none") nothing else runs, but the process may crash between    *)
(* two appends or in the middle of one.  The Core in between is reduced to *)
(* the messages it adds, which are closed: a batch of tool calls is        *)
(* followed by its results before anything is persisted.                   *)
(***************************************************************************)
EXTENDS SessionWriter

CONSTANTS
    MaxTurns,     \* bound: Turns, over all restarts
    MaxMessages,  \* bound: messages of one AgentRun
    MaxLines,     \* bound: length of the file beyond which no Turn is asked for
    Sessionless   \* BOOLEAN: a Turn may start while no Session is open

ASSUME RunBoundsAssumption ==
    /\ MaxTurns \in Nat /\ MaxMessages \in Nat /\ MaxLines \in Nat
    /\ Sessionless \in BOOLEAN

VARIABLES
    turns,      \* Turn identifiers handed out so far
    messages,   \* _state.messages
    persisted,  \* _persisted_message_count
    queue,      \* _pending_persistence_batches
    active,     \* _active_turn and what start_turn noted of it
    sync,       \* the synchronous call of AgentRun under way
    held,       \* user messages whose events are deferred
    shown       \* user messages whose events were published

runVars == <<turns, messages, persisted, queue, active, sync, held, shown>>
vars    == <<sessionVars, runVars>>

Message == [kind : MessageKinds, turn : Nat]   \* turn: the Turn it belongs to

Batch == [turn : Nat, first : Nat, last : Nat,
          blocked : BOOLEAN, terminal : BOOLEAN, failed : BOOLEAN]

\* phase: what the Turn does next.  bound: _turn_session_id is not None.
Turn == [id : Nat, start : Nat, bound : BOOLEAN, failed : BOOLEAN,
         phase : {"begin", "prepare", "call", "ended"}]
NoTurn == [id |-> 0, start |-> 0, bound |-> FALSE, failed |-> FALSE,
           phase |-> "ended"]

Syncs == {"none", "start", "event", "prepare", "complete"}

TypeOK ==
    /\ SessionTypeOK
    /\ turns \in Nat /\ persisted \in Nat
    /\ messages \in Seq(Message)
    /\ queue \in Seq(Batch)
    /\ active \in Turn
    /\ sync \in Syncs
    /\ held \subseteq Nat /\ shown \subseteq Nat

InitRun ==
    /\ messages = <<>> /\ persisted = 0 /\ queue = <<>>
    /\ active = NoTurn /\ sync = "none" /\ held = {} /\ shown = {}

Init == SessionInit /\ turns = 0 /\ InitRun

Running == active # NoTurn
Idle    == ~Running /\ sync = "none"

\* ---------------------------------------------------- batches and appends

BatchEntries(b) ==
    EntriesOf(messages, b.turn, b.first, b.last)
        \o (IF b.failed THEN <<FailureEntry(b.turn)>> ELSE <<>>)

\* Mutant: without the Session the messages still count as persisted.
PersistAnywhere(es, verdict) ==
    \/ writer = "none" /\ verdict # "unknown" /\ UNCHANGED sessionVars
    \/ writer = "unknown" /\ verdict = "unknown" /\ UNCHANGED sessionVars
    \/ AppendTranscript(es, verdict)

\* _persist_run_messages: no Session, a quarantined one, or an append.
PersistMessages(es, verdict) ==
    \/ writer = "none" /\ verdict = "not_durable" /\ UNCHANGED sessionVars
    \/ writer = "unknown" /\ verdict = "unknown" /\ UNCHANGED sessionVars
    \/ AppendTranscript(es, verdict)

\* _queue_pending_persistence_batch: extend the Turn's batch by the messages
\* that follow it, or add a batch; a batch that does not continue is dropped.
Holds(b)        == b.first <= b.last
Extends(old, b) == ~Holds(old) \/ (old.first = b.first /\ old.last <= b.last)

\* Mutant: the queued batch is never extended.
MergeKeeps(old, b) == old

Merge(old, b) ==
    IF Extends(old, b)
    THEN [b EXCEPT !.blocked = @ \/ old.blocked, !.terminal = @ \/ old.terminal,
                   !.failed = @ \/ old.failed]
    ELSE old

Enqueue(b) ==
    IF ~Holds(b) /\ ~b.failed THEN queue
    ELSE IF \E i \in DOMAIN queue : queue[i].turn = b.turn
         THEN [i \in DOMAIN queue |->
                IF queue[i].turn = b.turn THEN Merge(queue[i], b) ELSE queue[i]]
         ELSE Append(queue, b)

\* _release_events_when_persisted, and the unconditional release.
Release ==
    /\ shown' = shown \union held
    /\ held' = {}
KeepEvents == UNCHANGED <<held, shown>>

ReleaseIf(cond) == IF cond THEN Release ELSE KeepEvents

\* ------------------------------------------------------- the flush loop

\* The first batch is appended and leaves the queue.
FlushCommits ==
    /\ sync # "none" /\ queue # <<>> /\ ~Head(queue).blocked
    /\ PersistMessages(BatchEntries(Head(queue)), "durable")
    /\ persisted' = persisted + ((Head(queue).last + 1) - Head(queue).first)
    /\ queue' = Tail(queue)
    /\ UNCHANGED <<turns, messages, active, sync, held, shown>>

\* What a call of AgentRun does when the flush before it has failed.
AfterFailedFlush ==
    \/ /\ sync = "start"                      \* start_turn raises
       /\ UNCHANGED active /\ KeepEvents
    \/ /\ sync = "event"                      \* the event stays deferred
       /\ active' = [active EXCEPT !.phase = "prepare"]
       /\ ReleaseIf(persisted = Len(messages))
    \/ /\ sync = "prepare"                    \* PersistenceUnavailableError
       /\ active' = [active EXCEPT !.phase =
                        IF persisted = Len(messages) THEN "call" ELSE "ended",
                     !.failed = (persisted # Len(messages))]
       /\ ReleaseIf(persisted = Len(messages))
    \/ /\ sync = "complete"                   \* the Turn ends all the same
       /\ active' = NoTurn
       /\ Release

\* The first batch is blocked, or its append fails and perhaps blocks it.
FlushStops ==
    /\ sync # "none" /\ queue # <<>>
    /\ \/ Head(queue).blocked /\ UNCHANGED <<sessionVars, queue>>
       \/ /\ ~Head(queue).blocked
          /\ \E verdict \in {"not_durable", "unknown"} :
                /\ PersistMessages(BatchEntries(Head(queue)), verdict)
                /\ queue' = [queue EXCEPT ![1].blocked = (verdict = "unknown")]
    /\ AfterFailedFlush
    /\ sync' = "none"
    /\ UNCHANGED <<turns, messages, persisted>>

\* ------------------------------------------------------------ start_turn

RequestTurn ==
    /\ Idle
    /\ turns < MaxTurns /\ Len(messages) < MaxMessages
    /\ Len(lines) < MaxLines
    /\ \A i \in DOMAIN queue : ~queue[i].blocked
    /\ sync' = "start"
    /\ UNCHANGED <<sessionVars, turns, messages, persisted, queue, active,
                   held, shown>>

\* The new execution's state already ends in the user's message.
StartTurn ==
    /\ sync = "start" /\ queue = <<>>
    /\ writer # "unknown"                     \* _require_run_start_allowed
    /\ writer = "none" => Sessionless
    /\ turns' = turns + 1
    /\ messages' = Append(messages, [kind |-> "text", turn |-> turns + 1])
    /\ active' = [id |-> turns + 1, start |-> Len(messages),
                  bound |-> (writer = "open"), failed |-> FALSE,
                  phase |-> "begin"]
    /\ sync' = "none"
    /\ UNCHANGED <<sessionVars, persisted, queue, held, shown>>

RefuseTurn ==
    /\ sync = "start" /\ queue = <<>>
    /\ writer = "unknown" \/ (writer = "none" /\ ~Sessionless)
    /\ sync' = "none"
    /\ UNCHANGED <<sessionVars, turns, messages, persisted, queue, active,
                   held, shown>>

\* ------------------------------------------------- the running Turn

Quiet == sync = "none" /\ Running

\* _emit_event of TurnStarted and UserSteeringApplied: hold the event, then
\* persist; without a Session the cursor is None and the event is released.
EmitUserMessage(m) ==
    IF active.bound
    THEN /\ sync' = "event" /\ held' = held \union {m} /\ UNCHANGED <<active, shown>>
    ELSE /\ active' = [active EXCEPT !.phase = "prepare"]
         /\ shown' = shown \union held \union {m} /\ held' = {}
         /\ UNCHANGED sync

BeginTurn ==
    /\ Quiet /\ active.phase = "begin"
    /\ EmitUserMessage(Len(messages))
    /\ UNCHANGED <<sessionVars, turns, messages, persisted, queue>>

\* Steering is applied at the top of the loop, before the next request.
ApplySteering ==
    /\ Quiet /\ active.phase \in {"prepare", "call"}
    /\ Len(messages) < MaxMessages
    /\ messages' = Append(messages, [kind |-> "text", turn |-> active.id])
    /\ EmitUserMessage(Len(messages) + 1)
    /\ UNCHANGED <<sessionVars, turns, persisted, queue>>

\* The request is prepared: persist first; without a Session, no waiting.
PrepareRequest ==
    /\ Quiet /\ active.phase = "prepare"
    /\ IF active.bound THEN sync' = "prepare" /\ UNCHANGED active
       ELSE active' = [active EXCEPT !.phase = "call"] /\ UNCHANGED sync
    /\ UNCHANGED <<sessionVars, turns, messages, persisted, queue, held, shown>>

\* Mutant: the Turn is persisted from its first message each time.
PendingWholeTurn(b) == [turn |-> active.id, first |-> active.start + 1,
                        last |-> Len(messages), blocked |-> b,
                        terminal |-> FALSE, failed |-> FALSE]

Pending(b) == [turn |-> active.id, first |-> persisted + 1,
               last |-> Len(messages), blocked |-> b, terminal |-> FALSE,
               failed |-> FALSE]

\* _persist_closed_messages after its flush: everything newer is appended.
PersistPending ==
    /\ sync \in {"event", "prepare"} /\ queue = <<>>
    /\ \/ /\ persisted = Len(messages)
          /\ UNCHANGED <<sessionVars, persisted, queue>>
       \/ /\ persisted < Len(messages)
          /\ PersistMessages(BatchEntries(Pending(FALSE)), "durable")
          /\ persisted' = Len(messages)
          /\ UNCHANGED queue
    /\ active' = [active EXCEPT !.phase =
                    IF sync = "event" THEN "prepare" ELSE "call"]
    /\ Release
    /\ sync' = "none"
    /\ UNCHANGED <<turns, messages>>

\* The append fails: the batch is queued, and the request is not made.
PersistFails ==
    /\ sync \in {"event", "prepare"} /\ queue = <<>>
    /\ persisted < Len(messages)
    /\ \E verdict \in {"not_durable", "unknown"} :
          /\ PersistMessages(BatchEntries(Pending(FALSE)), verdict)
          /\ queue' = Enqueue(Pending(verdict = "unknown"))
    /\ active' = IF sync = "event" THEN [active EXCEPT !.phase = "prepare"]
                 ELSE [active EXCEPT !.phase = "ended", !.failed = TRUE]
    /\ sync' = "none"
    /\ UNCHANGED <<turns, messages, persisted, held, shown>>

\* The Provider answers with tool calls; the batch is run and closed.
CloseToolBatch ==
    /\ Quiet /\ active.phase = "call"
    /\ Len(messages) + 2 <= MaxMessages
    /\ messages' = messages \o <<[kind |-> "call", turn |-> active.id],
                                 [kind |-> "result", turn |-> active.id]>>
    /\ active' = [active EXCEPT !.phase = "prepare"]
    /\ UNCHANGED <<sessionVars, turns, persisted, queue, sync, held, shown>>

\* The Provider answers and the Turn is completed.
Answer ==
    /\ Quiet /\ active.phase = "call"
    /\ Len(messages) < MaxMessages
    /\ messages' = Append(messages, [kind |-> "text", turn |-> active.id])
    /\ active' = [active EXCEPT !.phase = "ended"]
    /\ UNCHANGED <<sessionVars, turns, persisted, queue, sync, held, shown>>

\* The Turn is cancelled or fails, with its transcript closed; never before
\* TurnStarted, which the first segment emits before it looks at the token.
StopTurn ==
    /\ Quiet /\ active.phase \in {"prepare", "call"}
    /\ \E failed \in BOOLEAN :
          active' = [active EXCEPT !.phase = "ended", !.failed = failed]
    /\ UNCHANGED <<sessionVars, turns, messages, persisted, queue, sync,
                   held, shown>>

\* A pause has to be answered: its event releases the ones held before it.
PauseTurn ==
    /\ Quiet /\ active.phase \in {"prepare", "call"}
    /\ held # {}
    /\ Release
    /\ UNCHANGED <<sessionVars, turns, messages, persisted, queue, active, sync>>

\* ------------------------------------------------------- _complete_turn

\* Where the Turn's unpersisted messages begin.
TailStart == active.start + (IF persisted > active.start
                             THEN persisted - active.start ELSE 0) + 1

CompleteTurn ==
    /\ Quiet /\ active.phase = "ended"
    /\ queue' = IF active.bound
                THEN Enqueue([turn |-> active.id, first |-> TailStart,
                              last |-> Len(messages), blocked |-> FALSE,
                              terminal |-> TRUE, failed |-> active.failed])
                ELSE queue
    /\ sync' = "complete"
    /\ UNCHANGED <<sessionVars, turns, messages, persisted, active, held, shown>>

\* Mutant: the finally of _finish_terminal is missing.
FinishTurnHolding ==
    /\ sync = "complete" /\ queue = <<>>
    /\ active' = NoTurn
    /\ sync' = "none"
    /\ UNCHANGED <<sessionVars, turns, messages, persisted, queue, held, shown>>

FinishTurn ==
    /\ sync = "complete" /\ queue = <<>>
    /\ active' = NoTurn
    /\ sync' = "none"
    /\ Release
    /\ UNCHANGED <<sessionVars, turns, messages, persisted, queue>>

\* ------------------------------------------------ the Session and the process

\* Closing, reopening and switching happen between Turns.
UseSession ==
    /\ Idle
    /\ OpenWriter \/ CloseWriter \/ LoseMetadata
    /\ UNCHANGED runVars

\* recover_unknown_commit: an automatic compaction whose Timeline append is
\* unknown closes the Session and opens it again before the Provider call.
ReopenInTurn ==
    /\ Quiet /\ active.phase = "call" /\ active.bound
    /\ writer = "open"
    /\ \/ /\ loaded' = lines /\ torn' = FALSE
          /\ UNCHANGED <<lines, broken, writer>>
       \/ CloseWriter
    /\ UNCHANGED runVars

\* What the process was appending when it died.
InFlight ==
    IF writer # "open" \/ sync = "none" THEN <<>>
    ELSE IF queue # <<>>
         THEN IF Head(queue).blocked THEN <<>> ELSE BatchEntries(Head(queue))
    ELSE IF sync \in {"event", "prepare"} THEN BatchEntries(Pending(FALSE))
    ELSE <<>>

\* The process dies and a new AgentRun takes over; the file stays.
Crash ==
    /\ CrashWriter(IF ValidAppend(loaded, InFlight) THEN InFlight ELSE <<>>)
    /\ messages' = <<>> /\ persisted' = 0 /\ queue' = <<>>
    /\ active' = NoTurn /\ sync' = "none" /\ held' = {} /\ shown' = {}
    /\ UNCHANGED turns

\* ------------------------------------------------------------ next-state

Run == \/ FlushCommits \/ FlushStops \/ StartTurn \/ RefuseTurn
       \/ BeginTurn \/ PrepareRequest \/ PersistPending \/ PersistFails
       \/ CompleteTurn \/ FinishTurn

Next == \/ Run
        \/ RequestTurn \/ ApplySteering \/ CloseToolBatch \/ Answer
        \/ StopTurn \/ PauseTurn
        \/ UseSession \/ ReopenInTurn \/ Crash

Spec == Init /\ [][Next]_vars
=============================================================================
