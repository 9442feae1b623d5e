--------------------------- MODULE AgentExecution ---------------------------
(***************************************************************************)
(* One Core turn: AgentTurnExecution of core/agent.py, the sequential loop *)
(* "prepare a request, stream one Provider attempt, run the tool batch".   *)
(* The whole program runs on one asyncio event loop, so a stretch of code  *)
(* between two awaits is atomic for every other coroutine.  pc names where *)
(* run_segment stands; other coroutines (the TurnHandle calls of module    *)
(* TurnDriver) act only while pc is one of YieldPoints, the awaits.        *)
(*                                                                         *)
(* Data is kept to what the control depends on: a message is its role and  *)
(* the number of tool-call ids it carries, a tool call is its kind.        *)
(***************************************************************************)
EXTENDS Integers, Sequences

CONSTANTS
    Batches,          \* the tool-call sequences a Provider may answer with
    MaxToolCalls,     \* max_tool_calls_per_iteration
    MaxUnknownTools,  \* max_consecutive_unknown_tools
    MaxIterations,    \* bound: a later iteration no longer asks for tools
    MaxRetries,       \* bound: retryable Provider failures per turn
    MaxRedirects      \* bound: executions that stop for a new permission

CallKinds  == {"ask", "todo", "plan", "read", "write", "unknown"}
PauseKinds == {"user", "provider", "input", "permission", "plan"}
Modes      == {"DEFAULT", "PLAN"}

ASSUME BatchesAssumption ==
    \A b \in Batches : b \in Seq(CallKinds) /\ Len(b) > 0
ASSUME LimitsAssumption ==
    /\ MaxToolCalls \in Nat \ {0}
    /\ MaxUnknownTools \in Nat \ {0}
ASSUME BoundsAssumption ==
    MaxIterations \in Nat /\ MaxRetries \in Nat /\ MaxRedirects \in Nat

VARIABLES
    pc,            \* where the driver task stands
    status,        \* RunState.status of the turn
    termination,   \* RunState.termination_reason
    cancelled,     \* the turn's CancellationToken
    cont,          \* _continuation: stage, iteration and pending_pause
    batch,         \* the open batch: calls, next index, control reason, caller
    permit,        \* _pending_prepared_call and _pending_permission_choice
    steering,      \* a SteeringRequest is pending
    pauseSignal,   \* the segment's pause token is cancelled
    attempt,       \* _active_segment_signal is set: a Provider attempt is live
    overflowRetryUsed,
    unknownTools,  \* consecutive_unknown_tools
    mode,          \* behavior_mode
    unfinished,    \* task_state.has_unfinished
    messages,      \* RunState.messages
    iteration,     \* iteration_count
    tools,         \* history: what the event stream said of each call
    facts,         \* history: steering applied, unknown side effect seen
    used           \* how much of each bound the environment has spent

turnVars == <<status, termination, cancelled>>
planVars == <<mode, unfinished>>
execVars == <<pc, status, termination, cancelled, cont, batch, permit, steering,
              pauseSignal, attempt, overflowRetryUsed, unknownTools, mode,
              unfinished, messages, iteration, tools, facts, used>>

(***************************************************************************)
(* State vocabulary.                                                       *)
(***************************************************************************)
AttemptPoints == {"preparing", "streaming", "overflow"}
ToolPoints    == {"executing", "reexecuting", "yield"}
SegmentAwaits == AttemptPoints \cup ToolPoints
DriverAwaits  == {"idle", "created", "waiting", "resuming", "resumed",
                  "cleanup", "done"}
YieldPoints   == SegmentAwaits \cup DriverAwaits
InternalPoints == {"segment", "loop", "batch", "finish", "finishUnknown",
                   "paused", "terminal"}

Failures == {"provider_error", "invalid_provider_response", "internal_error",
             "max_output_tokens", "max_tool_calls", "runaway_detected",
             "consecutive_unknown_tools", "side_effect_unknown"}

NoPause  == "none"
NoCont   == [stage |-> "none", iteration |-> 0, pause |-> NoPause]
NoBatch  == [calls |-> <<>>, next |-> 0, control |-> FALSE, caller |-> "none"]
NoPermit == [prepared |-> FALSE, choice |-> "none"]

User          == [role |-> "user", calls |-> 0]
Assistant(n)  == [role |-> "assistant", calls |-> n]
ToolResult(n) == [role |-> "tool", calls |-> n]

InBatch  == cont.stage = "tool_batch"
Current  == batch.next + 1           \* position of the call being handled
Calls    == Len(batch.calls)
Kind     == batch.calls[Current]

FreshCall == [started |-> 0, finished |-> 0, runs |-> 0, grants |-> 0]

ToolStarted(ts, i)  == [ts EXCEPT ![i].started = @ + 1]
ToolFinished(ts, i) == [ts EXCEPT ![i].finished = @ + 1]
Granted(ts, i)      == [ts EXCEPT ![i].grants = @ + 1]
Ran(ts, i)          == [ts EXCEPT ![i].runs = @ + 1]
\* Mutant: the executor forgets to look at the token.
RerunAlways(ts, i)  == Ran(ts, i)
\* A cancelled turn's executor answers for the tool without calling it.
Rerun(ts, i)        == IF cancelled THEN ts ELSE Ran(ts, i)

\* Mutant: the index moves twice for one result.
NextCallTwice(b) == [b EXCEPT !.next = @ + 2]
NextCall(b) == [b EXCEPT !.next = @ + 1]

\* Every call from first on gets a controlled result: a ToolStarted, unless
\* the code knows that call to be started already, and a ToolFinished.
CloseTail(ts, first, firstStarted) ==
    [i \in DOMAIN ts |->
        IF i < first THEN ts[i]
        ELSE [ts[i] EXCEPT
                 !.started = IF i = first /\ firstStarted THEN @ ELSE @ + 1,
                 !.finished = @ + 1]]

(***************************************************************************)
(* Boundaries of a segment.                                                *)
(***************************************************************************)
Terminate(st, why) ==
    /\ pc' = "terminal"
    /\ status' = st
    /\ termination' = why
    /\ cont' = NoCont
    /\ batch' = NoBatch
    /\ permit' = NoPermit
    /\ steering' = FALSE
    /\ attempt' = FALSE

Fail(why) == Terminate("failed", why) /\ UNCHANGED cancelled

\* The call at next is started already when its prepared form waits for an
\* approval, or when the pause it raised is an input or permission request.
CancelledTools ==
    IF InBatch
      THEN CloseTail(tools, Current,
                     permit.prepared \/ cont.pause \in {"input", "permission"})
      ELSE tools

\* Mutant: cancellation leaves the batch open.
ClosedMessagesNever == messages

\* The tool message that closes an open batch.
ClosedMessages ==
    IF InBatch THEN Append(messages, ToolResult(Calls)) ELSE messages

CancelSegment ==
    /\ Terminate("cancelled", "user_cancelled")
    /\ cancelled' = TRUE
    /\ messages' = ClosedMessages
    /\ tools' = CancelledTools
    /\ UNCHANGED <<pauseSignal, overflowRetryUsed, unknownTools, planVars,
                   iteration, facts, used>>

Pause(kind, stage, iter) ==
    /\ pc' = "paused"
    /\ cont' = [stage |-> stage, iteration |-> iter, pause |-> kind]
    /\ attempt' = FALSE
    /\ UNCHANGED <<turnVars, steering, pauseSignal>>

\* The appended user message is the steering text; any continuation is dropped.
ApplySteering(history) ==
    /\ messages' = Append(history, User)
    /\ facts' = [facts EXCEPT !.applied = @ + 1]

(***************************************************************************)
(* The top of run_segment's loop.                                          *)
(***************************************************************************)
LoopCancelled == pc = "loop" /\ cancelled /\ CancelSegment

LoopSteered ==
    /\ pc = "loop" /\ ~cancelled /\ steering /\ ~InBatch
    /\ ApplySteering(messages)
    /\ steering' = FALSE
    /\ cont' = NoCont
    /\ UNCHANGED <<pc, turnVars, batch, permit, pauseSignal, attempt,
                   overflowRetryUsed, unknownTools, planVars, iteration,
                   tools, used>>

LoopResumesBatch ==
    /\ pc = "loop" /\ ~cancelled /\ InBatch
    /\ pc' = "batch"
    /\ batch' = [batch EXCEPT !.caller = "resumed"]
    /\ UNCHANGED <<turnVars, cont, permit, steering, pauseSignal, attempt,
                   overflowRetryUsed, unknownTools, planVars, messages,
                   iteration, tools, facts, used>>

NextIteration ==
    IF cont.stage = "provider" THEN cont.iteration ELSE iteration + 1

LoopIterates ==
    /\ pc = "loop" /\ ~cancelled /\ ~steering /\ ~InBatch
    /\ iteration' = NextIteration
    /\ IF pauseSignal
         THEN Pause("user", "provider", NextIteration)
         ELSE /\ pc' = "preparing"
              /\ UNCHANGED <<turnVars, cont, steering, pauseSignal, attempt>>
    /\ UNCHANGED <<batch, permit, overflowRetryUsed, unknownTools, planVars,
                   messages, tools, facts, used>>

(***************************************************************************)
(* Request preparation and the Provider attempt.                           *)
(***************************************************************************)
PrepareFails ==
    /\ pc = "preparing"
    /\ Fail("internal_error")
    /\ UNCHANGED <<pauseSignal, overflowRetryUsed, unknownTools, planVars,
                   messages, iteration, tools, facts, used>>

\* Mutant: steering that arrived during preparation is overlooked.
UndisturbedBySteering == ~cancelled /\ ~pauseSignal

\* The order of the checks after each of the two awaits: cancellation, then
\* steering, then the pause signal.
Undisturbed == ~cancelled /\ ~steering /\ ~pauseSignal

BoundaryCancelled ==
    pc \in {"preparing", "streaming"} /\ cancelled /\ CancelSegment

\* Steering that interrupted an attempt renews the pause signal it cancelled.
BoundarySteered ==
    /\ pc \in {"preparing", "streaming"} /\ ~cancelled /\ steering
    /\ ApplySteering(messages)
    /\ steering' = FALSE
    /\ cont' = NoCont
    /\ pc' = "loop"
    /\ attempt' = FALSE
    /\ pauseSignal' = (pauseSignal /\ pc # "streaming")
    /\ UNCHANGED <<turnVars, batch, permit, overflowRetryUsed, unknownTools,
                   planVars, iteration, tools, used>>

BoundaryPaused ==
    /\ pc \in {"preparing", "streaming"} /\ ~cancelled /\ ~steering
    /\ pauseSignal
    /\ Pause("user", "provider", iteration)
    /\ UNCHANGED <<batch, permit, overflowRetryUsed, unknownTools, planVars,
                   messages, iteration, tools, facts, used>>

AttemptStarts ==
    /\ pc = "preparing" /\ Undisturbed
    /\ pc' = "streaming"
    /\ cont' = NoCont
    /\ attempt' = TRUE
    /\ UNCHANGED <<turnVars, batch, permit, steering, pauseSignal,
                   overflowRetryUsed, unknownTools, planVars, messages,
                   iteration, tools, facts, used>>

\* NetworkError, ProviderTimeoutError and RateLimitError.
AttemptUnavailable ==
    /\ pc = "streaming" /\ Undisturbed
    /\ used.retries < MaxRetries
    /\ used' = [used EXCEPT !.retries = @ + 1]
    /\ Pause("provider", "provider", iteration)
    /\ UNCHANGED <<batch, permit, overflowRetryUsed, unknownTools, planVars,
                   messages, iteration, tools, facts>>

\* An invalid response and a Provider error look at pending steering first,
\* and at nothing else; any other exception looks at nothing.
AttemptFails ==
    /\ pc = "streaming"
    /\ \/ Fail("internal_error")
       \/ ~steering /\ Fail("invalid_provider_response")
       \/ ~steering /\ Fail("provider_error")
    /\ UNCHANGED <<pauseSignal, overflowRetryUsed, unknownTools, planVars,
                   messages, iteration, tools, facts, used>>

\* ContextOverflowError: one recovery per turn; the attempt's signal stays
\* registered while the handler is awaited.
AttemptOverflows ==
    /\ pc = "streaming" /\ ~steering
    /\ IF overflowRetryUsed
         THEN Fail("provider_error")
         ELSE /\ pc' = "overflow"
              /\ UNCHANGED <<turnVars, cont, batch, permit, steering, attempt>>
    /\ overflowRetryUsed' = TRUE
    /\ UNCHANGED <<pauseSignal, unknownTools, planVars, messages, iteration,
                   tools, facts, used>>

OverflowRecovered ==
    /\ pc = "overflow"
    /\ pc' = "loop"
    /\ cont' = NoCont
    /\ attempt' = FALSE
    /\ UNCHANGED <<turnVars, batch, permit, steering, pauseSignal,
                   overflowRetryUsed, unknownTools, planVars, messages,
                   iteration, tools, facts, used>>

OverflowUnresolved ==
    /\ pc = "overflow"
    /\ Fail("provider_error")
    /\ UNCHANGED <<pauseSignal, overflowRetryUsed, unknownTools, planVars,
                   messages, iteration, tools, facts, used>>

(***************************************************************************)
(* The validated response of an undisturbed attempt.                       *)
(***************************************************************************)
Responding == pc = "streaming" /\ Undisturbed

ProviderCancels == Responding /\ CancelSegment

CompletionBlocked == mode = "DEFAULT" /\ unfinished

FinalAnswer ==
    /\ Responding /\ ~CompletionBlocked
    /\ messages' = Append(messages, Assistant(0))
    /\ Terminate("completed", "final_answer")
    /\ UNCHANGED <<cancelled, pauseSignal, overflowRetryUsed, unknownTools,
                   planVars, iteration, tools, facts, used>>

\* A blocked final answer is dropped; the runaway detector may end the turn.
FinalBlocked ==
    /\ Responding /\ CompletionBlocked
    /\ \/ Fail("runaway_detected")
       \/ /\ iteration < MaxIterations
          /\ pc' = "loop"
          /\ cont' = NoCont
          /\ attempt' = FALSE
          /\ UNCHANGED <<turnVars, batch, permit, steering>>
    /\ UNCHANGED <<pauseSignal, overflowRetryUsed, unknownTools, planVars,
                   messages, iteration, tools, facts, used>>

PlanNotAlone(b) == Len(b) > 1 /\ \E i \in 1..Len(b) : b[i] = "plan"

OpenBatch(b, control, caller) ==
    /\ pc' = "batch"
    /\ messages' = Append(messages, Assistant(Len(b)))
    /\ cont' = [stage |-> "tool_batch", iteration |-> iteration,
                pause |-> NoPause]
    /\ batch' = [calls |-> b, next |-> 0, control |-> control,
                 caller |-> caller]
    /\ permit' = NoPermit
    /\ tools' = [i \in 1..Len(b) |-> FreshCall]
    /\ attempt' = FALSE
    /\ UNCHANGED <<turnVars, steering, pauseSignal, overflowRetryUsed,
                   unknownTools, planVars, iteration, facts, used>>

\* FinishReason LENGTH or INCOMPLETE: the calls are refused, the turn fails.
TruncatedAnswer ==
    /\ Responding
    /\ \/ \E b \in Batches : OpenBatch(b, TRUE, "incomplete")
       \/ /\ messages' = Append(messages, Assistant(0))
          /\ Fail("max_output_tokens")
          /\ UNCHANGED <<pauseSignal, overflowRetryUsed, unknownTools,
                         planVars, iteration, tools, facts, used>>

ToolCallsAnswer ==
    /\ Responding
    /\ iteration <= MaxIterations
    /\ \E b \in Batches :
          IF Len(b) > MaxToolCalls
            THEN OpenBatch(b, TRUE, "overlimit")
            ELSE OpenBatch(b, PlanNotAlone(b), "fresh")

(***************************************************************************)
(* The tool batch.  A step from "yield" is the continuation of the         *)
(* sleep(0) after each call, a step from "batch" the entry of              *)
(* _run_tool_batch; both look at cancellation, steering and pause before   *)
(* the next call is taken.                                                 *)
(***************************************************************************)
InToolLoop == pc = "yield" \/ (pc = "batch" /\ Current <= Calls)

BatchCancelled == InToolLoop /\ cancelled /\ CancelSegment

TooManyUnknown == unknownTools >= MaxUnknownTools

\* What the caller in run_segment does with "finished", "steered", and, for a
\* resumed batch, with "side_effect_unknown".
AfterBatch(stillPending) ==
    IF TooManyUnknown
      THEN Fail("consecutive_unknown_tools")
      ELSE /\ pc' = "loop"
           /\ cont' = NoCont
           /\ batch' = NoBatch
           /\ permit' = NoPermit
           /\ steering' = stillPending
           /\ attempt' = FALSE
           /\ UNCHANGED turnVars

BatchSteered ==
    /\ InToolLoop /\ ~cancelled /\ ~batch.control /\ steering
    /\ tools' = CloseTail(tools, Current, FALSE)
    /\ ApplySteering(Append(messages, ToolResult(Calls)))
    /\ AfterBatch(FALSE)
    /\ UNCHANGED <<pauseSignal, overflowRetryUsed, unknownTools, planVars,
                   iteration, used>>

BatchPaused ==
    /\ InToolLoop /\ ~cancelled /\ ~batch.control /\ ~steering
    /\ pauseSignal /\ Current <= Calls
    /\ Pause("user", "tool_batch", cont.iteration)
    /\ UNCHANGED <<batch, permit, overflowRetryUsed, unknownTools, planVars,
                   messages, iteration, tools, facts, used>>

Uninterrupted == ~cancelled /\ (batch.control \/ (~steering /\ ~pauseSignal))
Dispatching == InToolLoop /\ Uninterrupted /\ Current <= Calls

callVars == <<turnVars, batch, steering, pauseSignal, attempt,
              overflowRetryUsed, messages, iteration, facts>>

\* A call of a batch that is refused as a whole.
RefusedCall ==
    /\ Dispatching /\ batch.control
    /\ tools' = ToolStarted(tools, Current)
    /\ pc' = "finish"
    /\ UNCHANGED <<callVars, cont, permit, unknownTools, planVars, used>>

\* AskUserQuestion: invalid arguments give a controlled result, else a pause.
AskUserQuestion ==
    /\ Dispatching /\ ~batch.control /\ Kind = "ask"
    /\ unknownTools' = 0
    /\ tools' = ToolStarted(tools, Current)
    /\ \/ pc' = "finish" /\ UNCHANGED <<turnVars, cont, steering, pauseSignal,
                                        attempt>>
       \/ Pause("input", "tool_batch", cont.iteration)
    /\ UNCHANGED <<batch, permit, overflowRetryUsed, planVars, messages,
                   iteration, facts, used>>

\* TodoWrite: refused in PLAN mode and for invalid arguments.
TodoWrite ==
    /\ Dispatching /\ ~batch.control /\ Kind = "todo"
    /\ unknownTools' = 0
    /\ tools' = ToolStarted(tools, Current)
    /\ pc' = "finish"
    /\ \/ UNCHANGED unfinished
       \/ mode = "DEFAULT" /\ unfinished' \in BOOLEAN
    /\ UNCHANGED <<callVars, cont, permit, mode, used>>

\* ProposePlan: valid only in PLAN mode and alone, and then a review pause.
ProposePlan ==
    /\ Dispatching /\ ~batch.control /\ Kind = "plan"
    /\ unknownTools' = 0
    /\ tools' = ToolStarted(tools, Current)
    /\ \/ pc' = "finish" /\ UNCHANGED <<turnVars, cont, steering, pauseSignal,
                                        attempt>>
       \/ /\ mode = "PLAN" /\ Calls = 1
          /\ Pause("plan", "tool_batch", cont.iteration)
    /\ UNCHANGED <<batch, permit, overflowRetryUsed, planVars, messages,
                   iteration, facts, used>>

\* PLAN mode admits effects of kind READ only; an unknown tool cannot run.
PlanAllows == Kind = "read" \/ (Kind = "write" /\ mode = "DEFAULT")

\* An ordinary tool: prepare, PLAN read-only check, permission, execution.
OrdinaryCall ==
    /\ Dispatching /\ ~batch.control /\ ~permit.prepared
    /\ Kind \in {"read", "write", "unknown"}
    /\ unknownTools' = IF Kind = "unknown" THEN unknownTools + 1 ELSE 0
    /\ \/ /\ pc' = "finish"
          /\ tools' = ToolStarted(tools, Current)
          /\ UNCHANGED <<turnVars, cont, permit, steering, pauseSignal, attempt>>
       \/ /\ PlanAllows
          /\ \/ /\ pc' = "executing"
                /\ tools' = Ran(Granted(ToolStarted(tools, Current), Current),
                                Current)
                /\ UNCHANGED <<turnVars, cont, permit, steering, pauseSignal,
                               attempt>>
             \/ /\ permit' = [prepared |-> TRUE, choice |-> "none"]
                /\ tools' = ToolStarted(tools, Current)
                /\ Pause("permission", "tool_batch", cont.iteration)
    /\ UNCHANGED <<batch, overflowRetryUsed, planVars, messages, iteration,
                   facts, used>>

\* Mutant: any answer approves.
ApprovedIfAnswered == permit.choice # "none"
Approved == permit.choice = "approve"

\* The prepared call comes back with the user's choice.
PreparedCall ==
    /\ Dispatching /\ ~batch.control /\ permit.prepared
    /\ permit' = NoPermit
    /\ \/ /\ ~Approved
          /\ pc' = "finish"
          /\ UNCHANGED tools
       \/ /\ Approved
          /\ pc' = "executing"
          /\ tools' = Ran(tools, Current)
    /\ UNCHANGED <<callVars, cont, unknownTools, planVars, used>>

\* execute_prepared_outcome and the result materializer return.  The second
\* execution of a call ignores a further permission request.
ToolReturns ==
    /\ pc \in {"executing", "reexecuting"}
    /\ pc' \in {"finish", "finishUnknown"}
    /\ UNCHANGED <<callVars, cont, permit, unknownTools, planVars, tools, used>>

\* The tool met a new external target: the resolver denies, asks or allows,
\* whether or not the turn was cancelled while the tool ran.
ToolRedirected ==
    /\ pc = "executing"
    /\ used.redirects < MaxRedirects
    /\ used' = [used EXCEPT !.redirects = @ + 1]
    /\ \/ /\ pc' = "finish"
          /\ UNCHANGED <<turnVars, cont, permit, steering, pauseSignal, attempt,
                         tools>>
       \/ /\ permit' = [prepared |-> TRUE, choice |-> "none"]
          /\ Pause("permission", "tool_batch", cont.iteration)
          /\ UNCHANGED tools
       \/ /\ pc' = "reexecuting"
          /\ tools' = Rerun(Granted(tools, Current), Current)
          /\ UNCHANGED <<turnVars, cont, permit, steering, pauseSignal, attempt>>
    /\ UNCHANGED <<batch, overflowRetryUsed, unknownTools, planVars, messages,
                   iteration, facts>>

\* ToolFinished, then the runaway detector lets the batch go on.
FinishCall ==
    /\ pc = "finish"
    /\ pc' = "yield"
    /\ tools' = ToolFinished(tools, Current)
    /\ batch' = NextCall(batch)
    /\ UNCHANGED <<turnVars, cont, permit, steering, pauseSignal, attempt,
                   overflowRetryUsed, unknownTools, planVars, messages,
                   iteration, facts, used>>

\* Why a batch whose control reason was set from outside ends the turn.
RefusalFailure ==
    CASE batch.caller = "incomplete" -> "max_output_tokens"
      [] batch.caller = "overlimit"  -> "max_tool_calls"
      [] OTHER                       -> "runaway_detected"

\* The runaway detector stops the turn: the tail is closed unexecuted.
RunawayStops ==
    /\ pc = "finish"
    /\ tools' = CloseTail(ToolFinished(tools, Current), Current + 1, FALSE)
    /\ messages' = Append(messages, ToolResult(Calls))
    /\ Fail(RefusalFailure)
    /\ UNCHANGED <<pauseSignal, overflowRetryUsed, unknownTools, planVars,
                   iteration, facts, used>>

\* A result with an unknown side effect: the tail is closed unexecuted.  Only
\* a batch still in its first _run_tool_batch call ends the turn for it.
FinishUnknownCall ==
    /\ pc = "finishUnknown"
    /\ tools' = CloseTail(ToolFinished(tools, Current), Current + 1, FALSE)
    /\ messages' = Append(messages, ToolResult(Calls))
    /\ facts' = [facts EXCEPT !.unknownEffect = TRUE]
    /\ IF batch.caller = "fresh"
         THEN Fail("side_effect_unknown")
         ELSE AfterBatch(steering)
    /\ UNCHANGED <<pauseSignal, overflowRetryUsed, unknownTools, planVars,
                   iteration, used>>

\* Every call has its result: the tool message closes the batch.
BatchFinished ==
    /\ Current > Calls
    /\ \/ pc = "batch"
       \/ pc = "yield" /\ ~cancelled /\ (batch.control \/ ~steering)
    /\ messages' = Append(messages, ToolResult(Calls))
    /\ IF batch.caller \in {"incomplete", "overlimit"}
         THEN Fail(RefusalFailure) /\ UNCHANGED pauseSignal
         ELSE IF ~batch.control /\ pauseSignal
           THEN /\ Pause("user", "provider", iteration + 1)
                /\ batch' = NoBatch
                /\ permit' = NoPermit
           ELSE AfterBatch(steering) /\ UNCHANGED pauseSignal
    /\ UNCHANGED <<overflowRetryUsed, unknownTools, planVars, iteration, tools,
                   facts, used>>

(***************************************************************************)
(* All steps of run_segment.                                               *)
(***************************************************************************)
ExecInit ==
    /\ pc = "idle"
    /\ status = "running"
    /\ termination = "none"
    /\ cancelled = FALSE
    /\ cont = NoCont
    /\ batch = NoBatch
    /\ permit = NoPermit
    /\ steering = FALSE
    /\ pauseSignal = FALSE
    /\ attempt = FALSE
    /\ overflowRetryUsed = FALSE
    /\ unknownTools = 0
    /\ mode \in Modes
    /\ unfinished = FALSE
    /\ messages = <<User>>
    /\ iteration = 0
    /\ tools = <<>>
    /\ facts = [applied |-> 0, unknownEffect |-> FALSE]
    /\ used = [steers |-> 0, pauses |-> 0, retries |-> 0, redirects |-> 0,
               shutdowns |-> 0]

LoopStep    == LoopCancelled \/ LoopSteered \/ LoopResumesBatch \/ LoopIterates
PrepareStep == PrepareFails \/ AttemptStarts
BoundaryStep == BoundaryCancelled \/ BoundarySteered \/ BoundaryPaused
AttemptStep == \/ AttemptUnavailable \/ AttemptFails \/ AttemptOverflows
               \/ OverflowRecovered \/ OverflowUnresolved
ResponseStep == \/ ProviderCancels \/ FinalAnswer \/ FinalBlocked
                \/ TruncatedAnswer \/ ToolCallsAnswer
DispatchStep == \/ RefusedCall \/ AskUserQuestion \/ TodoWrite \/ ProposePlan
                \/ OrdinaryCall \/ PreparedCall
BatchStep == \/ BatchCancelled \/ BatchSteered \/ BatchPaused \/ DispatchStep
             \/ FinishCall \/ RunawayStops \/ FinishUnknownCall
             \/ BatchFinished
ToolStep  == ToolReturns \/ ToolRedirected

ExecStep == \/ LoopStep \/ PrepareStep \/ BoundaryStep \/ AttemptStep
            \/ ResponseStep \/ BatchStep \/ ToolStep
=============================================================================
