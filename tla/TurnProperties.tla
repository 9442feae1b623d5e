--------------------------- MODULE TurnProperties ---------------------------
(***************************************************************************)
(* What must hold of a turn (modules AgentExecution and TurnDriver).       *)
(***************************************************************************)
EXTENDS TurnDriver

(***************************************************************************)
(* Types.                                                                  *)
(***************************************************************************)
Points       == YieldPoints \cup InternalPoints
Stages       == {"none", "provider", "tool_batch"}
Callers      == {"none", "fresh", "resumed", "incomplete", "overlimit"}
Choices      == {"none", "approve", "reject"}
Reasons      == Failures \cup {"none", "final_answer", "user_cancelled"}
Messages     == [role : {"user", "assistant", "tool"}, calls : Nat]
CallHistory  == [started : Nat, finished : Nat, runs : Nat, grants : Nat]
Continuation == [stage : Stages, iteration : Nat,
                 pause : PauseKinds \cup {NoPause}]
Batch        == [calls : Seq(CallKinds), next : Nat, control : BOOLEAN,
                 caller : Callers]
Permit       == [prepared : BOOLEAN, choice : Choices]
Facts        == [applied : Nat, unknownEffect : BOOLEAN]
Budget       == [steers : Nat, pauses : Nat, retries : Nat, redirects : Nat,
                 shutdowns : Nat]
Asks         == [pause : BOOLEAN, cancelPaused : BOOLEAN]

PointTypes ==
    /\ pc \in Points
    /\ status \in Statuses
    /\ termination \in Reasons

FlagTypes ==
    /\ cancelled \in BOOLEAN
    /\ steering \in BOOLEAN
    /\ pauseSignal \in BOOLEAN
    /\ attempt \in BOOLEAN
    /\ overflowRetryUsed \in BOOLEAN
    /\ mode \in Modes
    /\ unfinished \in BOOLEAN

CounterTypes == unknownTools \in Nat /\ iteration \in Nat

BatchTypes ==
    /\ cont \in Continuation
    /\ batch \in Batch
    /\ batch.next <= Len(batch.calls)
    /\ permit \in Permit

HistoryTypes ==
    /\ messages \in Seq(Messages)
    /\ tools \in Seq(CallHistory)
    /\ facts \in Facts
    /\ used \in Budget

DriverTypes ==
    /\ pauseRequested \in BOOLEAN
    /\ pendingPause \in PauseKinds \cup {NoPause}
    /\ waiter \in Waiters
    /\ result \in (Statuses \ {"running"}) \cup {"none"}
    /\ asks \in Asks

\* Every variable has its type, and an open batch counts its calls.
TypeOK ==
    /\ PointTypes /\ FlagTypes /\ CounterTypes
    /\ BatchTypes /\ HistoryTypes /\ DriverTypes

(***************************************************************************)
(* The transcript and the event stream.                                    *)
(***************************************************************************)
\* The conversation a Provider is sent is always well formed: an assistant
\* message with tool calls is followed at once by one tool message carrying as
\* many results, whatever pause, steering, cancellation or failure came in
\* between; only the batch still open may lack it.
ToolProtocol ==
    /\ \A i \in 1..Len(messages) :
          /\ messages[i].role = "assistant" /\ messages[i].calls > 0
               => IF i < Len(messages)
                    THEN messages[i+1] = ToolResult(messages[i].calls)
                    ELSE InBatch /\ Calls = messages[i].calls
          /\ messages[i].role = "tool"
               => i > 1 /\ messages[i-1] = Assistant(messages[i].calls)
    /\ InBatch => messages[Len(messages)] = Assistant(Calls)

\* Each call of a closed batch was reported started and was reported finished
\* exactly once; in an open batch this holds of the calls before the current
\* one, and no later call is reported finished.  In a batch without a plan, as
\* long as no steering cut one short, no call is reported started twice.
PlanFree(n) ==
    \A calls \in Batches :
        Len(calls) = n => \A i \in DOMAIN calls : calls[i] # "plan"

CallsClosed ==
    \A i \in DOMAIN tools :
        /\ IF InBatch /\ i >= Current
             THEN tools[i].finished = 0
             ELSE tools[i].started > 0 /\ tools[i].finished = 1
        /\ used.steers = 0 /\ PlanFree(Len(tools)) => tools[i].started <= 1

(***************************************************************************)
(* Authority over side effects.                                            *)
(***************************************************************************)
\* A tool never runs more often than policy or the user granted it, however
\* its approval is interleaved with pauses, steering and new targets; and a
\* prepared call that waits for the user's decision stays the current call of
\* the open batch, and has its decision when the batch is run again.
ApprovalBinds ==
    /\ \A i \in DOMAIN tools : tools[i].runs <= tools[i].grants
    /\ permit.prepared =>
        /\ InBatch /\ Current <= Calls
        /\ tools[Current].started > 0 /\ tools[Current].finished = 0
        /\ pc \in {"resuming", "resumed", "loop", "batch"} =>
               permit.choice # "none"

\* Both: what is reported of a call is what was done, and was allowed.
CallsAreHonest == CallsClosed /\ ApprovalBinds

ToolRuns(i) == i \in DOMAIN tools /\ i \in DOMAIN tools' /\
               tools'[i].runs > tools[i].runs

\* Once the turn is cancelled no tool is called any more: not the calls left in
\* the batch, and not the running one again for a redirect the user or the
\* policy has meanwhile allowed.  Between an accepted pause request and the
\* pause no Provider attempt starts and no tool call is run for the first time.
StopsAreObeyed ==
    [][/\ cancelled => \A i \in DOMAIN tools : ~ToolRuns(i)
       /\ asks.pause =>
              /\ pc' = "streaming" => pc = "streaming"
              /\ \A i \in DOMAIN tools : ToolRuns(i) => tools[i].runs > 0]_vars

\* PLAN mode is read-only: a call that is not a read runs only in DEFAULT mode,
\* which a PLAN turn enters only by an approved review.
PlanIsReadOnly ==
    [][/\ mode = "PLAN" =>
              \A i \in DOMAIN tools : ToolRuns(i) => batch.calls[i] = "read"
       /\ mode' # mode => pendingPause = "plan" /\ mode' = "DEFAULT"]_vars

\* Both: a tool runs only when neither the user nor the mode forbids it.
ToolsObey == StopsAreObeyed /\ PlanIsReadOnly

(***************************************************************************)
(* Pause, steering and cancellation.                                       *)
(***************************************************************************)
\* The driver and the Core agree on the pause: an open waiter has the pause of
\* the continuation, and no segment runs with a pause that nobody answered.
PauseCoherence ==
    /\ waiter = "open" =>
           /\ pc = "waiting" /\ ~cancelled
           /\ pendingPause = cont.pause /\ pendingPause # NoPause
    /\ pc \in SegmentAwaits \cup {"loop", "batch", "finish", "finishUnknown"} =>
           cont.pause = NoPause /\ pendingPause = NoPause /\ waiter = "none"
    /\ pc \in {"resuming", "resumed", "segment"} /\ ~cancelled =>
           cont.pause = NoPause

\* A turn completes only after every accepted steering text has entered the
\* conversation: a final answer that raced it is not taken.
SteeringIsHeard == result = "completed" => facts.applied = used.steers

\* Cancellation wins over a pending pause: a turn cancelled while it waits for
\* an answer ends cancelled, whether or not the answer had just arrived.
CancelWins == result # "none" /\ asks.cancelPaused => result = "cancelled"

\* Both: the result is what the user's last word made it.
ResultIsHonest == SteeringIsHeard /\ CancelWins

(***************************************************************************)
(* The abstract life of a turn.                                            *)
(***************************************************************************)
phase == IF result # "none" THEN "done"
         ELSE IF waiter = "open" THEN "paused" ELSE "running"

Lifecycle == INSTANCE TurnLifecycle
                 WITH phase <- phase, cancelling <- cancelled,
                      outcome <- result

\* The driver implements what the handle promises.
ImplementsLifecycle == Lifecycle!Spec

(***************************************************************************)
(* Liveness.                                                               *)
(***************************************************************************)
\* The event loop runs every task that is ready; an await outside it is only
\* assumed to end once the cancellation token is set: the Provider stream and
\* the tools watch it, request preparation and cleanup are finite local work.
AwaitEnds == PrepareStep \/ BoundaryStep \/ AttemptStep \/ ResponseStep
             \/ ToolStep

FairSpec ==
    /\ Spec
    /\ WF_vars(DriverStep)
    /\ WF_vars((LoopStep \/ BatchStep) /\ UNCHANGED driverVars)
    /\ WF_vars(cancelled /\ AwaitEnds /\ UNCHANGED driverVars)

\* An accepted cancellation ends the turn with a result.
CancelledTurnEnds == cancelled ~> result # "none"
=============================================================================
