----------------------------- MODULE TurnDriver -----------------------------
(***************************************************************************)
(* _TurnDriver and TurnHandle of application/runs.py around one Core       *)
(* execution: the asyncio task that runs segment after segment, the single *)
(* response waiter, and the calls a user interface makes on the handle     *)
(* (events, pause, resume, cancel, steer) whenever the task is suspended.  *)
(***************************************************************************)
EXTENDS AgentExecution

CONSTANTS
    MaxSteers,     \* bound: accepted steering requests
    MaxPauses,     \* bound: accepted pause requests
    MaxShutdowns   \* bound: cancellations of the driver's asyncio task

ASSUME ControlBoundsAssumption ==
    MaxSteers \in Nat /\ MaxPauses \in Nat /\ MaxShutdowns \in Nat

VARIABLES
    pauseRequested,  \* _pause_requested
    pendingPause,    \* _pending_pause: its kind, or "none"
    waiter,          \* _response_waiter and what it was completed with
    result,          \* _result_value: the turn's final status, or "none"
    asks             \* history: a pause was asked for; cancelled while paused

driverVars == <<pauseRequested, pendingPause, waiter, result, asks>>
vars == <<execVars, driverVars>>

Waiters  == {"none", "open", "applied", "cancelled"}
Statuses == {"running", "completed", "failed", "cancelled"}

(***************************************************************************)
(* The driver task.                                                        *)
(***************************************************************************)
\* A fresh pause token; a pause asked for between segments cancels it at once.
StartSegment ==
    /\ pc \in {"created", "resumed", "segment"}
    /\ pauseRequested' = FALSE
    /\ IF cancelled
         THEN /\ CancelSegment
              /\ UNCHANGED <<pendingPause, waiter, result, asks>>
         ELSE /\ pc' = "loop"
              /\ pauseSignal' = pauseRequested
              /\ attempt' = FALSE
              /\ UNCHANGED <<turnVars, cont, batch, permit, steering,
                             overflowRetryUsed, unknownTools, planVars,
                             messages, iteration, tools, facts, used,
                             pendingPause, waiter, result, asks>>

\* The requested boundary is reached, whatever kind of pause this is: the
\* request must not be carried into the resumed segment.
PauseServed ==
    /\ pauseRequested' = FALSE
    /\ asks' = [asks EXCEPT !.pause = FALSE]

\* TurnPaused reached the driver: one pending pause and one open waiter,
\* unless the turn was cancelled before the segment could pause.
SegmentPaused ==
    /\ pc = "paused"
    /\ PauseServed
    /\ IF cancelled
         THEN /\ pc' = "segment"
              /\ pendingPause' = NoPause
              /\ waiter' = "none"
         ELSE /\ pc' = "waiting"
              /\ pendingPause' = cont.pause
              /\ waiter' = "open"
    /\ UNCHANGED <<turnVars, cont, batch, permit, steering, pauseSignal,
                   attempt, overflowRetryUsed, unknownTools, planVars,
                   messages, iteration, tools, facts, used, result>>

\* The awaited response arrived.
WaiterWakes ==
    /\ pc = "waiting" /\ waiter \in {"applied", "cancelled"}
    /\ waiter' = "none"
    /\ pendingPause' = NoPause
    /\ pc' = IF waiter = "cancelled" \/ cancelled THEN "segment" ELSE "resuming"
    /\ UNCHANGED <<turnVars, cont, batch, permit, steering, pauseSignal,
                   attempt, overflowRetryUsed, unknownTools, planVars,
                   messages, iteration, tools, facts, used, pauseRequested,
                   result, asks>>

\* One sleep(0) before TurnResumed is published, one after it.
TurnResumes ==
    /\ pc = "resuming"
    /\ pc' = IF cancelled THEN "segment" ELSE "resumed"
    /\ UNCHANGED <<turnVars, cont, batch, permit, steering, pauseSignal,
                   attempt, overflowRetryUsed, unknownTools, planVars,
                   messages, iteration, tools, facts, used, driverVars>>

\* A turn that did not complete first cleans its processes up.
CleanupStarts ==
    /\ pc = "terminal" /\ status # "completed"
    /\ pc' = "cleanup"
    /\ UNCHANGED <<turnVars, cont, batch, permit, steering, pauseSignal,
                   attempt, overflowRetryUsed, unknownTools, planVars,
                   messages, iteration, tools, facts, used, driverVars>>

FinishTerminal ==
    /\ pc = "cleanup" \/ (pc = "terminal" /\ status = "completed")
    /\ pc' = "done"
    /\ result' = status
    /\ pendingPause' = NoPause
    /\ waiter' = "none"
    /\ pauseRequested' = FALSE
    /\ asks' = [asks EXCEPT !.pause = FALSE]
    /\ UNCHANGED <<turnVars, cont, batch, permit, steering, pauseSignal,
                   attempt, overflowRetryUsed, unknownTools, planVars,
                   messages, iteration, tools, facts, used>>

(***************************************************************************)
(* TurnHandle.  Each call runs between two steps of the driver task.       *)
(***************************************************************************)
Yielded == pc \in YieldPoints
InSegment == pc \in SegmentAwaits
Active == Yielded /\ result = "none" /\ status = "running"
EnsureStarted == pc' = IF pc = "idle" THEN "created" ELSE pc

\* events() and result() start the task.
ClaimEvents ==
    /\ pc = "idle"
    /\ EnsureStarted
    /\ UNCHANGED <<turnVars, cont, batch, permit, steering, pauseSignal,
                   attempt, overflowRetryUsed, unknownTools, planVars,
                   messages, iteration, tools, facts, used, driverVars>>

MayPause == ~steering /\ pendingPause = NoPause /\ ~pauseRequested

RequestPause ==
    /\ Active /\ MayPause
    /\ used.pauses < MaxPauses
    /\ used' = [used EXCEPT !.pauses = @ + 1]
    /\ pauseRequested' = TRUE
    /\ asks' = [asks EXCEPT !.pause = TRUE]
    /\ pauseSignal' = (pauseSignal \/ InSegment)
    /\ EnsureStarted
    /\ UNCHANGED <<turnVars, cont, batch, permit, steering, attempt,
                   overflowRetryUsed, unknownTools, planVars, messages,
                   iteration, tools, facts, pendingPause, waiter, result>>

\* Mutant: the waiter stays open.
CancelWaiterNever == waiter' = waiter

\* Cancellation marks the token and completes an open waiter.
CancelToken == cancelled' = TRUE
CancelWaiter == waiter' = IF waiter = "open" THEN "cancelled" ELSE waiter

RequestCancel ==
    /\ Active /\ ~cancelled
    /\ CancelToken
    /\ CancelWaiter
    /\ steering' = FALSE
    /\ pauseRequested' = FALSE
    /\ pendingPause' = NoPause
    /\ pauseSignal' = (pauseSignal \/ InSegment)
    /\ asks' = [pause |-> FALSE, cancelPaused |-> pendingPause # NoPause]
    /\ EnsureStarted
    /\ UNCHANGED <<status, termination, cont, batch, permit, attempt,
                   overflowRetryUsed, unknownTools, planVars, messages,
                   iteration, tools, facts, used, result>>

RequestSteering ==
    /\ Active /\ ~cancelled /\ ~steering
    /\ pendingPause = NoPause /\ waiter = "none" /\ ~pauseRequested
    /\ cont.pause = NoPause
    /\ used.steers < MaxSteers
    /\ used' = [used EXCEPT !.steers = @ + 1]
    /\ steering' = TRUE
    /\ pauseSignal' = (pauseSignal \/ attempt)
    /\ EnsureStarted
    /\ UNCHANGED <<turnVars, cont, batch, permit, attempt, overflowRetryUsed,
                   unknownTools, planVars, messages, iteration, tools, facts,
                   driverVars>>

\* resume(response): the response is applied to the Core continuation before
\* the waiter is completed.
Resumable == pendingPause # NoPause /\ ~cancelled /\ waiter = "open"
\* Mutant: the waiter is completed before the response is applied.
AnswerWaiterOnly == waiter' = "applied" /\ cont' = cont
Answer    == waiter' = "applied" /\ cont' = [cont EXCEPT !.pause = NoPause]

ResumeTurn ==
    /\ Resumable /\ cont.pause \in {"user", "provider"}
    /\ Answer
    /\ UNCHANGED <<pc, turnVars, batch, permit, steering, pauseSignal, attempt,
                   overflowRetryUsed, unknownTools, planVars, messages,
                   iteration, tools, facts, used, pauseRequested, pendingPause,
                   result, asks>>

AnswerQuestions ==
    /\ Resumable /\ cont.pause = "input"
    /\ Answer
    /\ batch' = NextCall(batch)
    /\ tools' = ToolFinished(tools, Current)
    /\ UNCHANGED <<pc, turnVars, permit, steering, pauseSignal, attempt,
                   overflowRetryUsed, unknownTools, planVars, messages,
                   iteration, facts, used, pauseRequested, pendingPause,
                   result, asks>>

\* ONCE and SESSION both approve this one execution.
DecidePermission ==
    /\ Resumable /\ cont.pause = "permission"
    /\ Answer
    /\ \/ /\ permit' = [permit EXCEPT !.choice = "approve"]
          /\ tools' = Granted(tools, Current)
       \/ /\ permit' = [permit EXCEPT !.choice = "reject"]
          /\ UNCHANGED tools
    /\ UNCHANGED <<pc, turnVars, batch, steering, pauseSignal, attempt,
                   overflowRetryUsed, unknownTools, planVars, messages,
                   iteration, facts, used, pauseRequested, pendingPause,
                   result, asks>>

\* APPROVE leaves PLAN mode and the batch goes on.
ApprovePlan ==
    /\ Resumable /\ cont.pause = "plan"
    /\ Answer
    /\ mode' = "DEFAULT"
    /\ batch' = NextCall(batch)
    /\ tools' = ToolFinished(tools, Current)
    /\ UNCHANGED <<pc, turnVars, permit, steering, pauseSignal, attempt,
                   overflowRetryUsed, unknownTools, unfinished, messages,
                   iteration, facts, used, pauseRequested, pendingPause,
                   result, asks>>

\* REVISE closes the batch at once and appends the feedback as a user message.
RevisePlan ==
    /\ Resumable /\ cont.pause = "plan"
    /\ waiter' = "applied"
    /\ tools' = ToolFinished(tools, Current)
    /\ messages' = messages \o <<ToolResult(Calls), User>>
    /\ cont' = NoCont
    /\ batch' = NoBatch
    /\ permit' = NoPermit
    /\ UNCHANGED <<pc, turnVars, steering, pauseSignal, attempt,
                   overflowRetryUsed, unknownTools, planVars, iteration, facts,
                   used, pauseRequested, pendingPause, result, asks>>

(***************************************************************************)
(* Cancellation of the driver's own task, as when the event loop shuts     *)
(* down.  Each await handles the CancelledError in its own way.            *)
(***************************************************************************)
CanShutDown == used.shutdowns < MaxShutdowns
CountShutdown == used' = [used EXCEPT !.shutdowns = @ + 1]

\* Inside run_segment, outside a tool: the cancelled segment.
ShutdownSegment ==
    /\ CanShutDown /\ pc \in AttemptPoints \cup {"yield"}
    /\ Terminate("cancelled", "user_cancelled")
    /\ cancelled' = TRUE
    /\ messages' = ClosedMessages
    /\ tools' = CancelledTools
    /\ CountShutdown
    /\ UNCHANGED <<pauseSignal, overflowRetryUsed, unknownTools, planVars,
                   iteration, facts, driverVars>>

\* Inside a tool: the call gets a cancelled result and the batch goes on to
\* its next check.
ShutdownTool ==
    /\ CanShutDown /\ pc \in {"executing", "reexecuting"}
    /\ cancelled' = TRUE
    /\ pc' = "finish"
    /\ CountShutdown
    /\ UNCHANGED <<status, termination, cont, batch, permit, steering,
                   pauseSignal, attempt, overflowRetryUsed, unknownTools,
                   planVars, messages, iteration, tools, facts, driverVars>>

\* Between segments: a last segment is run under a cancelled token.
ShutdownDriver ==
    /\ CanShutDown /\ pc \in {"waiting", "resuming", "resumed"}
    /\ cancelled' = TRUE
    /\ steering' = FALSE
    /\ pauseRequested' = FALSE
    /\ pendingPause' = NoPause
    /\ waiter' = "none"
    /\ pc' = "segment"
    /\ asks' = [asks EXCEPT !.pause = FALSE]
    /\ CountShutdown
    /\ UNCHANGED <<status, termination, cont, batch, permit, pauseSignal,
                   attempt, overflowRetryUsed, unknownTools, planVars,
                   messages, iteration, tools, facts, result>>

(***************************************************************************)
(* Specification.                                                          *)
(***************************************************************************)
Init ==
    /\ ExecInit
    /\ pauseRequested = FALSE
    /\ pendingPause = NoPause
    /\ waiter = "none"
    /\ result = "none"
    /\ asks = [pause |-> FALSE, cancelPaused |-> FALSE]

CoreStep   == ExecStep /\ UNCHANGED driverVars
DriverStep == \/ StartSegment \/ SegmentPaused \/ WaiterWakes \/ TurnResumes
              \/ CleanupStarts \/ FinishTerminal
Resume == \/ ResumeTurn \/ AnswerQuestions \/ DecidePermission
          \/ ApprovePlan \/ RevisePlan
Control == \/ ClaimEvents \/ RequestPause \/ RequestCancel \/ RequestSteering
           \/ Resume
Shutdown == ShutdownSegment \/ ShutdownTool \/ ShutdownDriver

Next == CoreStep \/ DriverStep \/ Control \/ Shutdown
Spec == Init /\ [][Next]_vars
=============================================================================
